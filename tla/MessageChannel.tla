--------------------------- MODULE MessageChannel ---------------------------
(***************************************************************************)
(* JsonMessageChannel (common/messaging.py): one end of a DAP connection.  *)
(*                                                                         *)
(* Three kinds of threads share the channel's lock: the parser thread, the *)
(* handler thread (started on demand, may end and be started again), and   *)
(* any thread that uses the channel to send requests and wait for their    *)
(* responses - the handler thread does so too while a handler runs on it.  *)
(* A region of code under "with self:" holds an RLock from its first line  *)
(* to its last and is one step here; the code between two regions is where *)
(* other threads interleave.                                               *)
(***************************************************************************)
EXTENDS Integers, Sequences, FiniteSets

CONSTANTS
    Users,         \* threads, other than the handler thread, that use the channel
    HThreads,      \* identities for the successive handler threads
    Callbacks,     \* handlers passed to OutgoingRequest.on_response()
    PeerKinds,     \* kinds of messages that the other party sends
    MaxSeq,        \* bound: requests sent through the channel
    MaxIn,         \* bound: messages received from the other party
    None           \* Python's None

AllKinds == {"event", "request", "response", "bogus", "invalid", "malformed"}

ASSUME ThreadsAssumption ==
    /\ Users \cap HThreads = {}
    /\ None \notin Users \cup HThreads \cup Callbacks
    /\ None \notin {"reply", "lost"}
ASSUME BoundsAssumption == MaxSeq \in Nat /\ MaxIn \in Nat
ASSUME KindsAssumption == PeerKinds \subseteq AllKinds

Threads == Users \cup HThreads
Seqs == 1 .. MaxSeq

(***************************************************************************)
(* A message on the wire.  n numbers events, requests and the rest in      *)
(* order of arrival; for a response it is request_seq.  "invalid" lacks a  *)
(* property that its type requires, "malformed" is one that read_json() or *)
(* the check of "type" rejects, "bogus" a response to no known request.    *)
(***************************************************************************)
Message == [kind : AllKinds, n : Nat]

\* The parser has no message in hand.
NoMessage == [kind |-> "invalid", n |-> 0]

(***************************************************************************)
(* An entry of _handler_queue: the handler of an event, of a request, of   *)
(* the response to request n with the callbacks captured for it, or of the *)
(* final Disconnect.                                                       *)
(***************************************************************************)
Item == [kind : {"event", "request", "response", "disconnect"},
         n : Nat, cbs : Seq(Callbacks)]

VARIABLES
    closed,         \* JsonMessageChannel._closed, and the stream's
    nextSeq,        \* _seq_iter
    sentRequests,   \* _sent_requests
    response,       \* OutgoingRequest.response, by seq
    respHandlers,   \* OutgoingRequest._response_handlers, by seq
    cbReq,          \* the request that a callback was registered for (0: none)
    ran,            \* callbacks that have been invoked
    queue,          \* _handler_queue
    waitset,        \* threads in _handlers_enqueued.wait(), not notified
    handlerThread,  \* _handler_thread
    hpc,            \* where each handler thread is in _run_handlers()
    hclosed,        \* its local "closed"
    batch,          \* its local "handlers", current one first
    lastIn,         \* n of the last event or request whose handler started
    deferred,       \* incoming requests whose handler returned NO_RESPONSE
    pst,            \* where the parser thread is
    pmsg,           \* the message that it has read
    tpc,            \* what each thread is doing with a request of its own
    treq,           \* seq of that request
    exited,         \* os._exit(1) was called
    wire,           \* messages received and not yet read
    eof,            \* the other party has closed its end
    nextIn,         \* messages that the other party has sent
    peerGot         \* requests delivered to the other party, not yet answered

reqVars  == <<nextSeq, sentRequests, response, respHandlers, cbReq>>
hdlVars  == <<queue, handlerThread, hpc, hclosed, batch>>
inVars   == <<ran, lastIn, deferred>>
parVars  == <<pst, pmsg>>
thrVars  == <<tpc, treq>>
peerVars == <<wire, eof, nextIn, peerGot>>
vars == <<closed, reqVars, hdlVars, waitset, inVars, parVars, thrVars, exited,
          peerVars>>

Init ==
    /\ closed = FALSE
    /\ nextSeq = 1
    /\ sentRequests = {}
    /\ response = [s \in Seqs |-> None]
    /\ respHandlers = [s \in Seqs |-> <<>>]
    /\ cbReq = [c \in Callbacks |-> 0]
    /\ ran = {}
    /\ queue = <<>>
    /\ waitset = {}
    /\ handlerThread = None
    /\ hpc = [h \in HThreads |-> "none"]
    /\ hclosed = [h \in HThreads |-> FALSE]
    /\ batch = [h \in HThreads |-> <<>>]
    /\ lastIn = 0
    /\ deferred = {}
    /\ pst = "reading"
    /\ pmsg = NoMessage
    /\ tpc = [t \in Threads |-> "idle"]
    /\ treq = [t \in Threads |-> 0]
    /\ exited = FALSE
    /\ wire = <<>>
    /\ eof = FALSE
    /\ nextIn = 0
    /\ peerGot = {}

-----------------------------------------------------------------------------
(***************************************************************************)
(* Pieces shared by the actions.                                           *)
(***************************************************************************)

\* The response handler entry for request s: run_handlers() over a snapshot.
ResponseItem(s, cbs) == [kind |-> "response", n |-> s, cbs |-> cbs]

\* Mutant: "self._handler_thread is None" is not tested.
SpawnAlways ==
    IF \E h \in HThreads : hpc[h] = "none"
    THEN \E h \in HThreads :
            /\ hpc[h] = "none"
            /\ handlerThread' = h
            /\ hpc' = [hpc EXCEPT ![h] = "top"]
    ELSE UNCHANGED <<handlerThread, hpc>>

\* If there is no handler thread, _enqueue_handlers() starts one.
SpawnIfNone ==
    IF handlerThread = None
    THEN \E h \in HThreads :
            /\ hpc[h] = "none"
            /\ handlerThread' = h
            /\ hpc' = [hpc EXCEPT ![h] = "top"]
    ELSE UNCHANGED <<handlerThread, hpc>>

\* Mutant: notify_all() is missing.
EnqueueSilently(items) ==
    /\ queue' = queue \o items
    /\ SpawnIfNone
    /\ UNCHANGED <<waitset, hclosed, batch>>

\* _enqueue_handlers(): extend the queue, notify_all(), start the thread.
EnqueueHandlers(items) ==
    /\ queue' = queue \o items
    /\ waitset' = {}
    /\ SpawnIfNone
    /\ UNCHANGED <<hclosed, batch>>

\* Mutant: the registered callbacks are not deleted once enqueued.
KeepHandlers(S) == UNCHANGED respHandlers

\* "del self._response_handlers[:]" for the requests in S.
ClearHandlers(S) ==
    respHandlers' = [s \in Seqs |-> IF s \in S THEN <<>> ELSE respHandlers[s]]

\* Mutant: write_json() does not look at _closed.
WriteUnchecked == {"written"}

\* write_json() can be refused: by our own close(), or by the other party's.
WriteOutcomes ==
    IF closed THEN {"NoMoreMessages"}
    ELSE IF eof THEN {"written", "JsonIOError"}
    ELSE {"written"}

\* A thread that may call into the channel: a user's, or one inside a handler.
InHandler(h) ==
    /\ hpc[h] = "running"
    /\ ~(Head(batch[h]).kind = "response" /\ Head(batch[h]).cbs = <<>>)

CanCall(t) ==
    /\ tpc[t] = "idle"
    /\ t \in HThreads => InHandler(t)

-----------------------------------------------------------------------------
(***************************************************************************)
(* Sending requests: send_request(), wait_for_response(), on_response().   *)
(* Events and responses draw from _seq_iter as well; the numbers that they *)
(* take are never keys of _sent_requests and are left out.                 *)
(***************************************************************************)

\* Mutant: the counter is advanced before it is read.
TakeNextSeq(t) ==
    /\ CanCall(t)
    /\ nextSeq <= MaxSeq
    /\ nextSeq' = nextSeq + 1
    /\ tpc' = [tpc EXCEPT ![t] = "numbered"]
    /\ treq' = [treq EXCEPT ![t] = nextSeq']
    /\ UNCHANGED <<closed, sentRequests, response, respHandlers, cbReq, hdlVars,
                   waitset, inVars, parVars, exited, peerVars>>

\* _send_message(), first region: the sequence number.
TakeSeq(t) ==
    /\ CanCall(t)
    /\ nextSeq <= MaxSeq
    /\ nextSeq' = nextSeq + 1
    /\ tpc' = [tpc EXCEPT ![t] = "numbered"]
    /\ treq' = [treq EXCEPT ![t] = nextSeq]
    /\ UNCHANGED <<closed, sentRequests, response, respHandlers, cbReq, hdlVars,
                   waitset, inVars, parVars, exited, peerVars>>

\* Second region: send_request() registers the request, and only then is it
\* written; a failed write raises, and leaves the request registered.
RegisterAndWrite(t) ==
    /\ tpc[t] = "numbered"
    /\ sentRequests' = sentRequests \cup {treq[t]}
    /\ \E outcome \in WriteOutcomes :
        /\ IF outcome = "written"
           THEN tpc' = [tpc EXCEPT ![t] = "sent"] /\ UNCHANGED treq
           ELSE tpc' = [tpc EXCEPT ![t] = "idle"] /\ treq' = [treq EXCEPT ![t] = 0]
        /\ peerGot' = IF outcome = "written" /\ ~eof
                      THEN peerGot \cup {treq[t]} ELSE peerGot
    /\ UNCHANGED <<closed, nextSeq, response, respHandlers, cbReq, hdlVars, waitset,
                   inVars, parVars, exited, wire, eof, nextIn>>

\* wait_for_response(): without a response, wait on the condition variable.
BeginWait(t) ==
    /\ tpc[t] = "sent"
    /\ response[treq[t]] = None
    /\ tpc' = [tpc EXCEPT ![t] = "waiting"]
    /\ waitset' = waitset \cup {t}
    /\ UNCHANGED <<closed, reqVars, hdlVars, inVars, parVars, treq, exited, peerVars>>

\* Notified: check again, and wait again or return.
WakeFromWait(t) ==
    /\ tpc[t] = "waiting"
    /\ t \notin waitset
    /\ IF response[treq[t]] = None
       THEN waitset' = waitset \cup {t} /\ UNCHANGED tpc
       ELSE tpc' = [tpc EXCEPT ![t] = "sent"] /\ UNCHANGED waitset
    /\ UNCHANGED <<closed, reqVars, hdlVars, inVars, parVars, treq, exited, peerVars>>

\* on_response(): register c; if the response is there, enqueue it right away.
OnResponse(t, c) ==
    LET s == treq[t]
        registered == Append(respHandlers[s], c)
    IN  /\ tpc[t] = "sent"
        /\ cbReq[c] = 0
        /\ cbReq' = [cbReq EXCEPT ![c] = s]
        /\ IF response[s] = None
           THEN /\ respHandlers' = [respHandlers EXCEPT ![s] = registered]
                /\ UNCHANGED <<hdlVars, waitset>>
           ELSE /\ EnqueueHandlers(<<ResponseItem(s, registered)>>)
                /\ ClearHandlers({s})
        /\ UNCHANGED <<closed, nextSeq, sentRequests, response, inVars, parVars,
                       thrVars, exited, peerVars>>

\* The caller is done with the request.
Forget(t) ==
    /\ tpc[t] = "sent"
    /\ tpc' = [tpc EXCEPT ![t] = "idle"]
    /\ treq' = [treq EXCEPT ![t] = 0]
    /\ UNCHANGED <<closed, reqVars, hdlVars, waitset, inVars, parVars, exited, peerVars>>

\* close(): nobody is notified; the parser's next read will fail.
Close(t) ==
    /\ CanCall(t)
    /\ ~closed
    /\ closed' = TRUE
    /\ UNCHANGED <<reqVars, hdlVars, waitset, inVars, parVars, thrVars, exited, peerVars>>

-----------------------------------------------------------------------------
(***************************************************************************)
(* The parser thread: _parse_incoming_messages().                          *)
(***************************************************************************)

\* read_json() and the check of "type" are outside the try of
\* _parse_incoming_message(): what they raise ends the thread.
ReadMessage ==
    /\ pst = "reading"
    /\ ~closed
    /\ wire # <<>>
    /\ wire' = Tail(wire)
    /\ IF Head(wire).kind = "malformed"
       THEN pst' = "dead" /\ UNCHANGED pmsg
       ELSE pst' = "got" /\ pmsg' = Head(wire)
    /\ UNCHANGED <<closed, reqVars, hdlVars, waitset, inVars, thrVars, exited, eof,
                   nextIn, peerGot>>

\* Back to the top of the loop in _parse_incoming_messages().
NextMessage == pst' = "reading" /\ pmsg' = NoMessage

\* Event._parse(), Request._parse().
ParseEventOrRequest ==
    /\ pst = "got"
    /\ pmsg.kind \in {"event", "request"}
    /\ EnqueueHandlers(<<[kind |-> pmsg.kind, n |-> pmsg.n, cbs |-> <<>>]>>)
    /\ NextMessage
    /\ UNCHANGED <<closed, reqVars, inVars, thrVars, exited, peerVars>>

\* InvalidMessageError: logged, and the message is dropped.
ParseInvalid ==
    /\ pst = "got"
    /\ pmsg.kind = "invalid"
    /\ NextMessage
    /\ UNCHANGED <<closed, reqVars, hdlVars, waitset, inVars, thrVars, exited,
                   peerVars>>

\* Mutant: the request is looked up, not popped.
PeekRequest ==
    /\ pst = "got"
    /\ pmsg.kind \in {"response", "bogus"}
    /\ pst' = IF pmsg.n \in sentRequests THEN "popped" ELSE "unknown"
    /\ UNCHANGED <<closed, reqVars, hdlVars, waitset, inVars, pmsg, thrVars, exited,
                   peerVars>>

\* Response._parse(), first region: pop the request.
PopRequest ==
    /\ pst = "got"
    /\ pmsg.kind \in {"response", "bogus"}
    /\ IF pmsg.n \in sentRequests
       THEN pst' = "popped" /\ sentRequests' = sentRequests \ {pmsg.n}
       ELSE pst' = "unknown" /\ UNCHANGED sentRequests
    /\ UNCHANGED <<closed, nextSeq, response, respHandlers, cbReq, hdlVars, waitset,
                   inVars, pmsg, thrVars, exited, peerVars>>

\* Second region: set the response and enqueue what was registered for it.
SetResponse ==
    LET s == pmsg.n
    IN  /\ pst = "popped"
        /\ response' = [response EXCEPT ![s] = "reply"]
        /\ EnqueueHandlers(<<ResponseItem(s, respHandlers[s])>>)
        /\ ClearHandlers({s})
        /\ NextMessage
        /\ UNCHANGED <<closed, nextSeq, sentRequests, cbReq, inVars, thrVars,
                       exited, peerVars>>

\* The same for a synthetic request that stands for an unknown request_seq:
\* an entry without callbacks, then InvalidMessageError, which is logged.
SetUnknownResponse ==
    /\ pst = "unknown"
    /\ EnqueueHandlers(<<ResponseItem(0, <<>>)>>)
    /\ NextMessage
    /\ UNCHANGED <<closed, reqVars, inVars, thrVars, exited, peerVars>>

\* The orders in which the members of a finite set can be listed.
Orderings(S) ==
    {f \in [1 .. Cardinality(S) -> S] : \A i, j \in DOMAIN f : f[i] = f[j] => i = j}

\* NoMoreMessages: in one region, a dummy response for every outstanding
\* request, the Disconnect entry, and close().  The requests are taken in the
\* order of the dict, which the model leaves open.
Drain ==
    /\ pst = "reading"
    /\ closed \/ (eof /\ wire = <<>>)
    /\ response' = [s \in Seqs |-> IF s \in sentRequests THEN "lost" ELSE response[s]]
    /\ \E order \in Orderings(sentRequests) :
        EnqueueHandlers(
            [i \in 1 .. Len(order) |-> ResponseItem(order[i], respHandlers[order[i]])]
            \o <<[kind |-> "disconnect", n |-> 0, cbs |-> <<>>]>>)
    /\ ClearHandlers(sentRequests)
    /\ sentRequests' = {}
    /\ closed' = TRUE
    /\ pst' = "done"
    /\ UNCHANGED <<nextSeq, cbReq, inVars, pmsg, thrVars, exited, peerVars>>

-----------------------------------------------------------------------------
(***************************************************************************)
(* The handler thread: _run_handlers().                                    *)
(***************************************************************************)

\* Take a snapshot of "closed".
HandlerTop(h) ==
    /\ hpc[h] = "top"
    /\ hclosed' = [hclosed EXCEPT ![h] = closed]
    /\ hpc' = [hpc EXCEPT ![h] = IF closed THEN "join" ELSE "take"]
    /\ UNCHANGED <<closed, reqVars, queue, handlerThread, batch, waitset, inVars,
                   parVars, thrVars, exited, peerVars>>

\* Closed: join the parser thread.
HandlerJoin(h) ==
    /\ hpc[h] = "join"
    /\ pst \in {"done", "dead"}
    /\ hpc' = [hpc EXCEPT ![h] = "take"]
    /\ UNCHANGED <<closed, reqVars, queue, handlerThread, hclosed, batch, waitset,
                   inVars, parVars, thrVars, exited, peerVars>>

\* Mutant: the queue is copied, not emptied.
CopyQueue(h) ==
    /\ batch' = [batch EXCEPT ![h] = queue]
    /\ IF hclosed[h] /\ queue = <<>>
       THEN handlerThread' = None /\ hpc' = [hpc EXCEPT ![h] = "none"]
       ELSE hpc' = [hpc EXCEPT ![h] = "batch"] /\ UNCHANGED handlerThread
    /\ UNCHANGED <<queue, hclosed, waitset>>

\* Mutant: the thread quits without resetting _handler_thread.
QuitSilently(h) ==
    /\ batch' = [batch EXCEPT ![h] = queue]
    /\ queue' = <<>>
    /\ hpc' = [hpc EXCEPT ![h] = IF hclosed[h] /\ queue = <<>> THEN "none" ELSE "batch"]
    /\ UNCHANGED <<handlerThread, hclosed, waitset>>

\* Empty the queue into the batch, or quit when closed and nothing is left.
TakeQueue(h) ==
    /\ batch' = [batch EXCEPT ![h] = queue]
    /\ queue' = <<>>
    /\ hclosed' = [hclosed EXCEPT ![h] = @ /\ queue # <<>>]
    /\ IF hclosed[h] /\ queue = <<>>
       THEN handlerThread' = None /\ hpc' = [hpc EXCEPT ![h] = "none"]
       ELSE hpc' = [hpc EXCEPT ![h] = "batch"] /\ UNCHANGED handlerThread
    /\ UNCHANGED waitset

\* Mutant: an empty queue is waited on even if the channel is closed.
WaitEvenIfClosed(h) ==
    /\ hpc[h] = "take"
    /\ IF queue = <<>>
       THEN /\ hpc' = [hpc EXCEPT ![h] = "waiting"]
            /\ waitset' = waitset \cup {h}
            /\ UNCHANGED <<queue, handlerThread, hclosed, batch>>
       ELSE TakeQueue(h)
    /\ UNCHANGED <<closed, reqVars, inVars, parVars, thrVars, exited, peerVars>>

HandlerTake(h) ==
    /\ hpc[h] = "take"
    /\ IF ~hclosed[h] /\ queue = <<>>
       THEN /\ hpc' = [hpc EXCEPT ![h] = "waiting"]
            /\ waitset' = waitset \cup {h}
            /\ UNCHANGED <<queue, handlerThread, hclosed, batch>>
       ELSE TakeQueue(h)
    /\ UNCHANGED <<closed, reqVars, inVars, parVars, thrVars, exited, peerVars>>

\* Back from _handlers_enqueued.wait(), which is not in a loop.
HandlerWake(h) ==
    /\ hpc[h] = "waiting"
    /\ h \notin waitset
    /\ TakeQueue(h)
    /\ UNCHANGED <<closed, reqVars, inVars, parVars, thrVars, exited, peerVars>>

\* "handler in (Event._handle, Request._handle)" compares a bound method with
\* two functions, which is never true: no entry is ever skipped.
IsMessageHandler(item) == FALSE

\* The for loop: skip the next entry, call its handler, or go around.
NextHandler(h) ==
    LET item == Head(batch[h])
    IN  /\ hpc[h] = "batch"
        /\ IF batch[h] = <<>>
           THEN hpc' = [hpc EXCEPT ![h] = "top"] /\ UNCHANGED <<batch, lastIn>>
           ELSE IF hclosed[h] /\ IsMessageHandler(item)
           THEN batch' = [batch EXCEPT ![h] = Tail(@)] /\ UNCHANGED <<hpc, lastIn>>
           ELSE /\ hpc' = [hpc EXCEPT ![h] = "running"]
                /\ lastIn' = IF item.kind \in {"event", "request"} THEN item.n ELSE lastIn
                /\ UNCHANGED batch
        /\ UNCHANGED <<closed, reqVars, queue, handlerThread, hclosed, waitset, ran,
                       deferred, parVars, thrVars, exited, peerVars>>

\* The handler at the head of the batch is done.
Finish(h) ==
    /\ batch' = [batch EXCEPT ![h] = Tail(@)]
    /\ hpc' = [hpc EXCEPT ![h] = "batch"]
    /\ UNCHANGED <<queue, handlerThread, hclosed>>

Returning(h, kinds) ==
    /\ hpc[h] = "running"
    /\ tpc[h] = "idle"
    /\ Head(batch[h]).kind \in kinds

\* Event._handle(), _handle_disconnect().
ReturnFromEvent(h) ==
    /\ Returning(h, {"event", "disconnect"})
    /\ Finish(h)
    /\ UNCHANGED <<closed, reqVars, waitset, inVars, parVars, thrVars, exited, peerVars>>

\* run_handlers(): one callback after another.
ReturnFromCallback(h) ==
    LET item == Head(batch[h])
        cbs == item.cbs
        rest == <<ResponseItem(item.n, Tail(cbs))>> \o Tail(batch[h])
    IN  /\ Returning(h, {"response"})
        /\ IF Len(cbs) > 1
           THEN /\ batch' = [batch EXCEPT ![h] = rest]
                /\ UNCHANGED <<queue, handlerThread, hpc, hclosed>>
           ELSE Finish(h)
        /\ ran' = IF cbs = <<>> THEN ran ELSE ran \cup {Head(cbs)}
        /\ UNCHANGED <<closed, reqVars, waitset, lastIn, deferred, parVars,
                       thrVars, exited, peerVars>>

\* Request._handle(), a body is returned: respond() with it.  NoMoreMessages
\* is caught; JsonIOError is not, and ends the process.
ReturnBody(h) ==
    /\ Returning(h, {"request"})
    /\ \E outcome \in WriteOutcomes :
        /\ exited' = (outcome = "JsonIOError")
        /\ closed' = (closed \/ exited')
    /\ Finish(h)
    /\ UNCHANGED <<reqVars, waitset, ran, lastIn, deferred, parVars, thrVars, peerVars>>

\* NO_RESPONSE is returned: somebody will respond() later.
ReturnNoResponse(h) ==
    /\ Returning(h, {"request"})
    /\ deferred' = deferred \cup {Head(batch[h]).n}
    /\ Finish(h)
    /\ UNCHANGED <<closed, reqVars, waitset, ran, lastIn, parVars, thrVars,
                   exited, peerVars>>

\* The handler fails with cant_handle() or isnt_valid(): Message.error() calls
\* respond() at once, and no failure of that call is caught.
RaiseHandlingError(h) ==
    /\ Returning(h, {"request"})
    /\ \E outcome \in WriteOutcomes :
        /\ exited' = (outcome # "written")
        /\ closed' = (closed \/ exited')
    /\ Finish(h)
    /\ UNCHANGED <<reqVars, waitset, ran, lastIn, deferred, parVars, thrVars, peerVars>>

\* Any other exception in a handler: close(), then os._exit(1).
RaiseOther(h) ==
    /\ InHandler(h)
    /\ tpc[h] = "idle"
    /\ closed' = TRUE
    /\ exited' = TRUE
    /\ UNCHANGED <<reqVars, hdlVars, waitset, inVars, parVars, thrVars, peerVars>>

\* respond() to a request whose handler returned NO_RESPONSE.  On the handler
\* thread (a callback, as in Client.evaluate_request) a failure is fatal.
RespondDeferred(t, n) ==
    /\ CanCall(t)
    /\ n \in deferred
    /\ deferred' = deferred \ {n}
    /\ \E outcome \in WriteOutcomes :
        /\ exited' = (outcome # "written" /\ t \in HThreads)
        /\ closed' = (closed \/ exited')
    /\ UNCHANGED <<reqVars, hdlVars, waitset, ran, lastIn, parVars, thrVars, peerVars>>

-----------------------------------------------------------------------------
(***************************************************************************)
(* The other party (external).  What it sends once this end is closed is   *)
(* never read, so it stops sending then.                                   *)
(***************************************************************************)
PeerCanSend == ~eof /\ ~closed

PeerSend(kind) ==
    /\ PeerCanSend
    /\ kind \in PeerKinds \ {"response"}
    /\ nextIn < MaxIn
    /\ nextIn' = nextIn + 1
    /\ wire' = Append(wire, [kind |-> kind,
                             n |-> IF kind \in {"event", "request"} THEN nextIn + 1 ELSE 0])
    /\ UNCHANGED <<closed, reqVars, hdlVars, waitset, inVars, parVars, thrVars, exited,
                   eof, peerGot>>

PeerRespond(s) ==
    /\ PeerCanSend
    /\ "response" \in PeerKinds
    /\ s \in peerGot
    /\ peerGot' = peerGot \ {s}
    /\ wire' = Append(wire, [kind |-> "response", n |-> s])
    /\ UNCHANGED <<closed, reqVars, hdlVars, waitset, inVars, parVars, thrVars, exited,
                   eof, nextIn>>

PeerDisconnect ==
    /\ ~eof
    /\ eof' = TRUE
    /\ UNCHANGED <<closed, reqVars, hdlVars, waitset, inVars, parVars, thrVars, exited,
                   wire, nextIn, peerGot>>

-----------------------------------------------------------------------------
Caller(t) ==
    \/ TakeSeq(t) \/ RegisterAndWrite(t) \/ BeginWait(t) \/ WakeFromWait(t)
    \/ (\E c \in Callbacks : OnResponse(t, c)) \/ Forget(t) \/ Close(t)
    \/ \E n \in 1 .. MaxIn : RespondDeferred(t, n)

Parser ==
    \/ ReadMessage \/ ParseEventOrRequest \/ ParseInvalid \/ PopRequest
    \/ SetResponse \/ SetUnknownResponse \/ Drain

HandlerLoop(h) ==
    \/ HandlerTop(h) \/ HandlerJoin(h) \/ HandlerTake(h) \/ HandlerWake(h)
    \/ NextHandler(h)

HandlerReturn(h) ==
    \/ ReturnFromEvent(h) \/ ReturnFromCallback(h) \/ ReturnBody(h)
    \/ ReturnNoResponse(h) \/ RaiseHandlingError(h) \/ RaiseOther(h)

Peer ==
    \/ \E kind \in AllKinds : PeerSend(kind)
    \/ \E s \in Seqs : PeerRespond(s)
    \/ PeerDisconnect

Next ==
    /\ ~exited
    /\ \/ \E t \in Threads : Caller(t)
       \/ Parser
       \/ \E h \in HThreads : HandlerLoop(h) \/ HandlerReturn(h)
       \/ Peer

Spec == Init /\ [][Next]_vars

(***************************************************************************)
(* Threads that can run do run.  A handler returns once the calls it makes *)
(* do, so the fairness covers its Forget and HandlerReturn; no action of   *)
(* the other party, and no decision of a user thread, is assumed to come.  *)
(***************************************************************************)
Fairness ==
    /\ WF_vars(~exited /\ Parser)
    /\ \A t \in Threads : WF_vars(~exited /\ (RegisterAndWrite(t) \/ WakeFromWait(t)))
    /\ \A h \in HThreads :
        /\ WF_vars(~exited /\ HandlerLoop(h))
        /\ WF_vars(~exited /\ HandlerReturn(h))
        /\ WF_vars(~exited /\ Forget(h))

FairSpec == Spec /\ Fairness

-----------------------------------------------------------------------------
(***************************************************************************)
(* Properties.                                                             *)
(***************************************************************************)

\* Every variable has the type that the code gives it.
TypeOK ==
    /\ closed \in BOOLEAN /\ eof \in BOOLEAN /\ exited \in BOOLEAN
    /\ nextSeq \in 1 .. MaxSeq + 1
    /\ sentRequests \subseteq Seqs
    /\ response \in [Seqs -> {None, "reply", "lost"}]
    /\ respHandlers \in [Seqs -> Seq(Callbacks)]
    /\ cbReq \in [Callbacks -> 0 .. MaxSeq]
    /\ ran \subseteq Callbacks
    /\ queue \in Seq(Item)
    /\ waitset \subseteq Threads
    /\ handlerThread \in HThreads \cup {None}
    /\ hpc \in [HThreads -> {"none", "top", "join", "take", "waiting", "batch", "running"}]
    /\ hclosed \in [HThreads -> BOOLEAN]
    /\ batch \in [HThreads -> Seq(Item)]
    /\ lastIn \in Nat /\ nextIn \in Nat
    /\ deferred \subseteq Nat
    /\ pst \in {"reading", "got", "popped", "unknown", "done", "dead"}
    /\ pmsg \in Message
    /\ tpc \in [Threads -> {"idle", "numbered", "sent", "waiting"}]
    /\ treq \in [Threads -> 0 .. MaxSeq]
    /\ wire \in Seq(Message)
    /\ peerGot \subseteq Seqs

\* Handlers are serialized: however often _enqueue_handlers() starts a thread
\* and _run_handlers() quits, at most one handler thread exists, and it is the
\* one that _handler_thread names.
OneHandlerThread == \A h \in HThreads : hpc[h] # "none" <=> handlerThread = h

\* The parser thread is in its loop, and will drain the channel when it ends.
ParserRuns == pst \in {"reading", "got", "popped", "unknown"}

\* The parser thread was ended by a message that read_json() or the check of
\* "type" rejects: only NoMoreMessages leads to the code that wraps up, so it
\* answered nothing, notified nobody and left the channel open.
ParserDied == pst = "dead"

\* No entry is left in the queue without a thread to run it, and a handler
\* thread asleep in _run_handlers() has nothing to do and - unless the parser
\* died of a malformed message, after which nobody wakes it - a running parser
\* that will: close() notifies nobody, so that must be the parser's last act.
NoStrandedWork ==
    /\ queue # <<>> => handlerThread # None
    /\ \A h \in HThreads :
        hpc[h] = "waiting" /\ h \in waitset =>
            /\ queue = <<>>
            /\ ~ParserDied => ParserRuns

\* wait_for_response(): a thread asleep in it has no response yet, and its
\* request is one that the parser will find, which - unless it died of a
\* malformed message - runs and has not yet wrapped up.  When it did die nobody
\* ends the wait, which is how ResponseSynthesized fails.
NoOrphanedWaiter ==
    \A t \in Threads :
        /\ tpc[t] = "waiting" /\ t \in waitset => response[treq[t]] = None
        /\ tpc[t] = "waiting" /\ response[treq[t]] = None =>
            /\ ~ParserDied => ParserRuns
            /\ treq[t] \in sentRequests \/ (pst = "popped" /\ pmsg.n = treq[t])

\* The handlers that are still to start, in the order in which they will.
Backlog ==
    (IF handlerThread = None THEN <<>>
     ELSE IF hpc[handlerThread] = "running" THEN Tail(batch[handlerThread])
     ELSE batch[handlerThread]) \o queue

\* Events and requests are handled in order of arrival, none of them twice, and
\* none of them after the disconnect handler, which response handlers registered
\* later may still follow.  Nothing is said of when response handlers run: one
\* that on_response() registers late is queued behind what arrived after it.
HandledInOrder ==
    \A i \in DOMAIN Backlog :
        /\ Backlog[i].kind \in {"event", "request"} =>
            /\ Backlog[i].n > lastIn
            /\ \A j \in DOMAIN Backlog :
                j < i => /\ Backlog[j].kind # "disconnect"
                         /\ Backlog[j].kind \in {"event", "request"} =>
                                Backlog[j].n < Backlog[i].n

\* The entries of a sequence of handlers that will invoke callback c.
Invocations(items, c) ==
    UNION {{<<i, j>> : j \in {k \in DOMAIN items[i].cbs : items[i].cbs[k] = c}}
            : i \in DOMAIN items}

\* Every callback passed to on_response() is invoked exactly once, whether the
\* response comes before it, after it, or not at all: at any time it waits with
\* its unanswered request, or in one place of one entry, or has been invoked.
CallbackExactlyOnce ==
    \A c \in Callbacks :
        LET registered == {s \in Seqs : \E i \in DOMAIN respHandlers[s] :
                                            respHandlers[s][i] = c}
            places == Cardinality(registered)
                      + Cardinality(Invocations(queue, c))
                      + (IF handlerThread = None THEN 0
                         ELSE Cardinality(Invocations(batch[handlerThread], c)))
                      + (IF c \in ran THEN 1 ELSE 0)
        IN  /\ places = IF cbReq[c] = 0 THEN 0 ELSE 1
            /\ \A s \in registered : response[s] = None /\ cbReq[c] = s

\* No handler thread is left, and nobody waits for a response.
Quiet ==
    /\ handlerThread = None
    /\ \A t \in Threads : tpc[t] # "waiting"

\* Once either side has closed the connection, every wait_for_response() returns
\* and the handler thread, which is not a daemon, ends - unless a handler failed
\* and took the process down, or the parser died of a malformed message, after
\* which a wait may never end.
ShutsDown == (closed \/ eof) ~> [](exited \/ ParserDied \/ Quiet)

\* A callback registered with on_response() does get invoked once the connection
\* is closed, whether it was registered before or after that - unless a handler
\* took the process down, or the parser died of a malformed message: then the
\* callbacks of the requests that were pending are never invoked.
CallbackInvoked ==
    \A c \in Callbacks :
        (cbReq[c] # 0 /\ (closed \/ eof)) ~> (exited \/ ParserDied \/ c \in ran)

\* RequestContract in terms of the channel's state: a request that the parser has
\* popped and not yet answered is still pending.
Contract == INSTANCE RequestContract WITH
    Requests <- Seqs, Waiters <- Threads, Clients <- Callbacks,
    status <- [s \in Seqs |->
                IF response[s] # None THEN response[s]
                ELSE IF s \in sentRequests \/ (pst = "popped" /\ pmsg.n = s) THEN "pending"
                ELSE "unissued"],
    down <- (pst = "done"),
    waiting <- [t \in Threads |-> IF tpc[t] = "waiting" THEN treq[t] ELSE 0],
    callback <- cbReq,
    invoked <- ran

\* The channel keeps RequestContract: replies, losses, waits and callbacks are
\* those of that specification, for every interleaving of senders, parser,
\* handler thread, close() and a disconnecting peer.
KeepsContract == Contract!Spec

(***************************************************************************)
(* What the documentation of the code says, and the code does not do.      *)
(***************************************************************************)

\* close(): "No new request or event handlers will execute after this method is
\* called, even for messages that have already been received."
NoHandlerAfterClose == [][closed => lastIn' = lastIn]_vars

\* Response: "If there is a handler, it is executed before wait_for_response()
\* returns."
HandlerBeforeWaitReturns ==
    [][\A t \in Threads : tpc[t] = "waiting" /\ tpc'[t] = "sent" =>
        \A c \in Callbacks : cbReq[c] = treq[t] => c \in ran]_vars

\* wait_for_response(): "If no response was received from the other party before
\* the channel closed, self.response is a synthesized Response" - of a channel
\* that is closed, and whose parser has stopped.
ResponseSynthesized ==
    closed /\ pst \in {"done", "dead"} =>
        \A t \in Threads : tpc[t] \in {"sent", "waiting"} => response[treq[t]] # None

\* MessageHandlingError: "If any request handler raises this exception, and
\* applies_to(request) is True, the exception is silently swallowed by the message
\* loop, and a failure response is sent".
HandlingErrorSwallowed ==
    [][\A h \in HThreads : RaiseHandlingError(h) => ~exited']_vars
=============================================================================
