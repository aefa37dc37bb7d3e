SPECIFICATION Spec
CONSTANTS
    c1 = c1
    c2 = c2
    s1 = s1
    s2 = s2
    p0 = p0
    p1 = p1
    p2 = p2
    None = None
    Main = Main
    Launcher = Launcher
    First = s1
    Conns <- TwoConns
    Sessions <- OneSession
    Pids <- AllPids
    Pid <- Child
    PPid <- ChildOf
    Spawned <- Stub
    Kinds <- AnyStart
    ExitPhases <- AnyPhase
    Replaceable <- NoConns
    Stdio = TRUE
    ForServer = FALSE
INVARIANTS
    NoGhostConnection
    RemovalFindsConnection
CHECK_DEADLOCK FALSE
