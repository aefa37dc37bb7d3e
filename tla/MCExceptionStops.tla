-------------------------- MODULE MCExceptionStops --------------------------
(* Instances of ExceptionStops for TLC: u is user code, lib a library.     *)
EXTENDS ExceptionStops, TLC
CONSTANTS u, lib, e1, e2

AllFilters == {Filters, {"uncaught"}}

\* what the client of the adapter can ask for, on either interpreter
Client == {c \in ConfigType : ~c.first /\ ~c.skip}
\* every option, and every kind of thread, with either interpreter
Mixed == {c \in ConfigType : (c.first \/ c.skip) => (c.monitoring /\ c.managed)}
Monitored == {c \in Client : c.monitoring}
SetTraced == {c \in Client : ~c.monitoring}
SkipSame == {c \in ConfigType : c.monitoring /\ c.skip /\ c.managed}
NoTags == {}
=============================================================================
