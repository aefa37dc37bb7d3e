SPECIFICATION Spec
CONSTANTS
    c1 = c1
    c2 = c2
    s1 = s1
    s2 = s2
    p0 = p0
    p1 = p1
    p2 = p2
    None = None
    Main = Main
    Launcher = Launcher
    First = s1
    Conns <- OneConn
    Sessions <- TwoSessions
    Pids <- OnePid
    Pid <- SinglePid
    PPid <- NoParent
    Spawned <- NoStub
    Kinds <- Sub
    ExitPhases <- AnyPhase
    Replaceable <- NoConns
    Stdio = FALSE
    ForServer = TRUE
INVARIANTS
    SessionOwnsServer
    MainNotForgotten
CHECK_DEADLOCK FALSE
