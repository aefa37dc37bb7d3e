SPECIFICATION FairSpec
CONSTANTS
    c1 = c1
    c2 = c2
    s1 = s1
    s2 = s2
    p0 = p0
    p1 = p1
    p2 = p2
    None = None
    Main = Main
    Launcher = Launcher
    First = s1
    Conns <- TwoConns
    Sessions <- OneSession
    Pids <- AllPids
    Pid <- Successor
    PPid <- SameParent
    Spawned <- Stub
    Kinds <- Connect
    ExitPhases <- AfterAttach
    Replaceable <- OneConn
    Stdio = FALSE
    ForServer = TRUE
INVARIANTS
    PidsIdentifyServers
PROPERTIES
    AdapterExits
CHECK_DEADLOCK FALSE
