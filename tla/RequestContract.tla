--------------------------- MODULE RequestContract ---------------------------
(***************************************************************************)
(* What a channel promises to the threads that send requests through it:   *)
(* a request that was issued is completed at most once, by the reply of    *)
(* the other party or, all at once when the connection goes down, by its   *)
(* loss; nobody starts waiting for a request after the connection went     *)
(* down unless it is already complete; a wait ends only on a completed     *)
(* request, and a callback runs once, for a completed request.             *)
(***************************************************************************)
EXTENDS Integers

CONSTANTS Requests, Waiters, Clients

VARIABLES
    status,    \* of each request: unissued, pending, reply or lost
    down,      \* the connection is gone, and all losses have been reported
    waiting,   \* the request that a thread waits for (0: none)
    callback,  \* the request that a callback is registered for (0: none)
    invoked    \* callbacks that have been invoked

vars == <<status, down, waiting, callback, invoked>>

Complete(r) == status[r] \in {"reply", "lost"}

Init ==
    /\ status = [r \in Requests |-> "unissued"]
    /\ down = FALSE
    /\ waiting = [t \in Waiters |-> 0]
    /\ callback = [c \in Clients |-> 0]
    /\ invoked = {}

Issue(r) ==
    /\ status[r] = "unissued"
    /\ status' = [status EXCEPT ![r] = "pending"]
    /\ UNCHANGED <<down, waiting, callback, invoked>>

Reply(r) ==
    /\ ~down
    /\ status[r] = "pending"
    /\ status' = [status EXCEPT ![r] = "reply"]
    /\ UNCHANGED <<down, waiting, callback, invoked>>

GoDown ==
    /\ ~down
    /\ down' = TRUE
    /\ status' = [r \in Requests |-> IF status[r] = "pending" THEN "lost" ELSE status[r]]
    /\ UNCHANGED <<waiting, callback, invoked>>

Wait(t, r) ==
    /\ waiting[t] = 0
    /\ status[r] = "pending" /\ ~down
    /\ waiting' = [waiting EXCEPT ![t] = r]
    /\ UNCHANGED <<status, down, callback, invoked>>

Return(t) ==
    /\ waiting[t] # 0
    /\ Complete(waiting[t])
    /\ waiting' = [waiting EXCEPT ![t] = 0]
    /\ UNCHANGED <<status, down, callback, invoked>>

Register(c, r) ==
    /\ callback[c] = 0
    /\ status[r] # "unissued"
    /\ callback' = [callback EXCEPT ![c] = r]
    /\ UNCHANGED <<status, down, waiting, invoked>>

Invoke(c) ==
    /\ callback[c] # 0
    /\ Complete(callback[c])
    /\ c \notin invoked
    /\ invoked' = invoked \cup {c}
    /\ UNCHANGED <<status, down, waiting, callback>>

Next ==
    \/ \E r \in Requests : Issue(r) \/ Reply(r)
    \/ GoDown
    \/ \E t \in Waiters, r \in Requests : Wait(t, r)
    \/ \E t \in Waiters : Return(t)
    \/ \E c \in Clients, r \in Requests : Register(c, r)
    \/ \E c \in Clients : Invoke(c)

Spec == Init /\ [][Next]_vars
=============================================================================
