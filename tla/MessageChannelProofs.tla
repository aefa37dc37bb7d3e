------------------------ MODULE MessageChannelProofs ------------------------
(***************************************************************************)
(* Theorems about MessageChannel, for any sets of threads and callbacks,   *)
(* any kinds of incoming messages and any bounds: its types and the        *)
(* handler threads, then the order in which messages are handled, that     *)
(* callbacks are invoked exactly once, and that the channel implements     *)
(* RequestContract.                                                        *)
(***************************************************************************)
EXTENDS MessageChannel, FiniteSetTheorems, TLAPS

-----------------------------------------------------------------------------
(***************************************************************************)
(* Types.  Three facts make the type invariant inductive: a running        *)
(* handler is the head of its batch, a request in progress has a number,   *)
(* and a popped request is one that was sent.                              *)
(***************************************************************************)
RunningOK == \A h \in HThreads : hpc[h] = "running" => batch[h] # <<>>
RequestOK == \A t \in Threads : tpc[t] # "idle" => treq[t] \in Seqs
PoppedOK  == pst = "popped" => pmsg.n \in Seqs

TypeInv == TypeOK /\ RunningOK /\ RequestOK /\ PoppedOK

USE ThreadsAssumption, BoundsAssumption, KindsAssumption

\* Starting a handler thread keeps the types of what it sets.
LEMMA SpawnTyped ==
    ASSUME TypeInv, SpawnIfNone
    PROVE  /\ handlerThread' \in HThreads \cup {None}
           /\ hpc' \in [HThreads -> {"none", "top", "join", "take", "waiting", "batch",
                                     "running"}]
           /\ \A h \in HThreads : hpc'[h] = "running" => hpc[h] = "running"
BY DEF TypeInv, TypeOK, SpawnIfNone

EnqueuedTyped ==
    /\ queue' \in Seq(Item)
    /\ waitset' \subseteq Threads
    /\ handlerThread' \in HThreads \cup {None}
    /\ hpc' \in [HThreads -> {"none", "top", "join", "take", "waiting", "batch", "running"}]
    /\ hclosed' \in [HThreads -> BOOLEAN]
    /\ batch' \in [HThreads -> Seq(Item)]
    /\ RunningOK'

\* _enqueue_handlers() keeps the types of what it sets.
LEMMA EnqueueTyped ==
    ASSUME NEW items \in Seq(Item), TypeInv, EnqueueHandlers(items)
    PROVE  EnqueuedTyped
<1>1. queue \in Seq(Item) /\ hclosed' = hclosed /\ batch' = batch /\ waitset' = {}
      /\ queue' = queue \o items /\ SpawnIfNone
    BY DEF TypeInv, TypeOK, EnqueueHandlers
<1>2. queue' \in Seq(Item)
    BY <1>1
<1>3. RunningOK'
    BY <1>1, SpawnTyped DEF TypeInv, RunningOK
<1> QED
    BY <1>1, <1>2, <1>3, SpawnTyped DEF TypeInv, TypeOK, EnqueuedTyped

\* The same for a single entry.
LEMMA EnqueueOneTyped ==
    ASSUME NEW item \in Item, TypeInv, EnqueueHandlers(<<item>>)
    PROVE  EnqueuedTyped
<1>1. <<item>> \in Seq(Item)
    OBVIOUS
<1> QED
    BY <1>1, EnqueueTyped

\* Initially.
LEMMA InitTyped == Init => TypeInv
<1> SUFFICES ASSUME Init PROVE TypeInv
    OBVIOUS
<1>1. /\ <<>> \in Seq(Callbacks) /\ <<>> \in Seq(Item) /\ <<>> \in Seq(Message)
      /\ NoMessage \in Message
    BY DEF Message, NoMessage, AllKinds
<1>2. /\ respHandlers \in [Seqs -> Seq(Callbacks)]
      /\ batch \in [HThreads -> Seq(Item)]
      /\ queue \in Seq(Item) /\ wire \in Seq(Message) /\ pmsg \in Message
    BY <1>1 DEF Init
<1>3. RunningOK /\ RequestOK /\ PoppedOK
    BY DEF Init, RunningOK, RequestOK, PoppedOK
<1>4. nextSeq \in 1 .. MaxSeq + 1 /\ cbReq \in [Callbacks -> 0 .. MaxSeq]
      /\ treq \in [Threads -> 0 .. MaxSeq]
    BY DEF Init
<1> QED
    BY <1>2, <1>3, <1>4 DEF Init, TypeInv, TypeOK

\* Senders.
LEMMA CallerTyped ==
    ASSUME TypeInv, NEW t \in Threads, Caller(t)
    PROVE  TypeInv'
<1> USE DEF TypeInv
<1>1. CASE TakeSeq(t)
    BY <1>1 DEF TypeOK, RunningOK, RequestOK, PoppedOK, Seqs, TakeSeq, hdlVars, inVars,
                parVars, peerVars
<1>2. CASE RegisterAndWrite(t)
  <2>1. treq[t] \in Seqs
    BY <1>2 DEF RegisterAndWrite, RequestOK
  <2>2. sentRequests' \subseteq Seqs /\ peerGot' \subseteq Seqs
    BY <1>2, <2>1 DEF RegisterAndWrite, TypeOK
  <2>3. /\ tpc' \in [Threads -> {"idle", "numbered", "sent", "waiting"}]
        /\ treq' \in [Threads -> 0 .. MaxSeq]
        /\ RequestOK'
    <3>1. /\ tpc \in [Threads -> {"idle", "numbered", "sent", "waiting"}]
          /\ treq \in [Threads -> 0 .. MaxSeq]
      BY DEF TypeOK
    <3>2. \/ tpc' = [tpc EXCEPT ![t] = "sent"] /\ treq' = treq
          \/ tpc' = [tpc EXCEPT ![t] = "idle"] /\ treq' = [treq EXCEPT ![t] = 0]
      BY <1>2 DEF RegisterAndWrite
    <3> QED
      BY <2>1, <3>1, <3>2 DEF RequestOK
  <2> QED
    BY <1>2, <2>2, <2>3 DEF TypeOK, RunningOK, PoppedOK, RegisterAndWrite, hdlVars, inVars,
                            parVars
<1>3. CASE BeginWait(t)
    BY <1>3 DEF TypeOK, RunningOK, RequestOK, PoppedOK, BeginWait, reqVars, hdlVars,
                inVars, parVars, peerVars
<1>4. CASE WakeFromWait(t)
  <2>1. /\ tpc' \in [Threads -> {"idle", "numbered", "sent", "waiting"}]
        /\ waitset' \subseteq Threads
        /\ treq' = treq
        /\ RequestOK'
    <3>1. /\ tpc \in [Threads -> {"idle", "numbered", "sent", "waiting"}]
          /\ waitset \subseteq Threads
      BY DEF TypeOK
    <3>2. /\ treq' = treq /\ tpc[t] = "waiting"
          /\ \/ waitset' = waitset \cup {t} /\ tpc' = tpc
             \/ waitset' = waitset /\ tpc' = [tpc EXCEPT ![t] = "sent"]
      BY <1>4 DEF WakeFromWait
    <3> QED
      BY <3>1, <3>2 DEF RequestOK
  <2> QED
    BY <1>4, <2>1 DEF TypeOK, RunningOK, PoppedOK, WakeFromWait, reqVars, hdlVars, inVars,
                      parVars, peerVars
<1>5. CASE Forget(t)
    BY <1>5 DEF TypeOK, RunningOK, RequestOK, PoppedOK, Forget, reqVars, hdlVars, inVars,
                parVars, peerVars
<1>6. CASE Close(t)
    BY <1>6 DEF TypeOK, RunningOK, RequestOK, PoppedOK, Close, reqVars, hdlVars, inVars,
                parVars, peerVars, thrVars
<1>7. CASE \E n \in 1 .. MaxIn : RespondDeferred(t, n)
    BY <1>7 DEF TypeOK, RunningOK, RequestOK, PoppedOK, RespondDeferred, reqVars, hdlVars,
                inVars, parVars, peerVars, thrVars
<1>8. CASE \E c \in Callbacks : OnResponse(t, c)
  <2>1. PICK c \in Callbacks : OnResponse(t, c)
    BY <1>8
  <2> DEFINE s == treq[t]
             item == ResponseItem(s, Append(respHandlers[s], c))
  <2>2. s \in Seqs /\ Append(respHandlers[s], c) \in Seq(Callbacks)
    BY <2>1 DEF OnResponse, RequestOK, TypeOK
  <2>3. <<item>> \in Seq(Item)
    BY <2>2 DEF ResponseItem, Item, Seqs
  <2>4. CASE response[s] = None
    <3>1. respHandlers' \in [Seqs -> Seq(Callbacks)] /\ cbReq' \in [Callbacks -> 0 .. MaxSeq]
      <4>1. respHandlers \in [Seqs -> Seq(Callbacks)] /\ cbReq \in [Callbacks -> 0 .. MaxSeq]
        BY DEF TypeOK
      <4>2. /\ respHandlers' = [respHandlers EXCEPT ![s] = Append(respHandlers[s], c)]
            /\ cbReq' = [cbReq EXCEPT ![c] = s]
        BY <2>1, <2>4 DEF OnResponse
      <4>3. s \in 0 .. MaxSeq
        BY <2>2 DEF Seqs
      <4> QED
        BY <2>2, <4>1, <4>2, <4>3
    <3> QED
      BY <2>1, <2>4, <3>1 DEF OnResponse, TypeOK, RunningOK, RequestOK, PoppedOK, hdlVars,
                              inVars, parVars, thrVars, peerVars
  <2>5. CASE response[s] # None
    <3>1. EnqueueHandlers(<<item>>) /\ ClearHandlers({s})
      BY <2>1, <2>5 DEF OnResponse
    <3>2. respHandlers' \in [Seqs -> Seq(Callbacks)]
      BY <3>1 DEF ClearHandlers, TypeOK
    <3>3. cbReq' \in [Callbacks -> 0 .. MaxSeq]
      BY <2>1, <2>2 DEF OnResponse, TypeOK, Seqs
    <3>4. EnqueuedTyped
      BY <2>3, <3>1, EnqueueTyped
    <3> QED
      BY <2>1, <3>2, <3>3, <3>4
         DEF EnqueuedTyped, OnResponse, TypeOK, RequestOK, PoppedOK, inVars, parVars, thrVars,
             peerVars
  <2> QED
    BY <2>4, <2>5
<1> QED
    BY <1>1, <1>2, <1>3, <1>4, <1>5, <1>6, <1>7, <1>8 DEF Caller

\* What the parser enqueues when it wraps up is a non-empty list of handlers.
LEMMA DrainItemsTyped ==
    ASSUME TypeInv, Drain
    PROVE  \E items \in Seq(Item) : EnqueueHandlers(items) /\ items # <<>>
<1>1. /\ sentRequests \subseteq Seqs
      /\ respHandlers \in [Seqs -> Seq(Callbacks)]
    BY DEF TypeInv, TypeOK
<1>2. Cardinality(sentRequests) \in Nat
  <2>1. IsFiniteSet(Seqs)
    BY FS_Interval DEF Seqs
  <2>2. IsFiniteSet(sentRequests)
    BY <1>1, <2>1, FS_Subset
  <2> QED
    BY <2>2, FS_CardinalityType
<1>3. PICK order \in Orderings(sentRequests) :
          EnqueueHandlers(
              [i \in 1 .. Len(order) |-> ResponseItem(order[i], respHandlers[order[i]])]
              \o <<[kind |-> "disconnect", n |-> 0, cbs |-> <<>>]>>)
    BY DEF Drain
<1> DEFINE items == [i \in 1 .. Len(order) |->
                        ResponseItem(order[i], respHandlers[order[i]])]
           last == [kind |-> "disconnect", n |-> 0, cbs |-> <<>>]
<1>4. order \in [1 .. Cardinality(sentRequests) -> sentRequests]
    BY <1>3 DEF Orderings
<1>5. order \in Seq(sentRequests) /\ Len(order) \in Nat
    BY <1>2, <1>4
<1>6. \A i \in 1 .. Len(order) : order[i] \in Seqs
    BY <1>1, <1>5
<1>7. \A i \in 1 .. Len(order) : ResponseItem(order[i], respHandlers[order[i]]) \in Item
    BY <1>1, <1>6 DEF ResponseItem, Item, Seqs
<1>8. items \in Seq(Item)
    BY <1>5, <1>7
<1>9. <<last>> \in Seq(Item)
    BY DEF Item
<1>10. items \o <<last>> \in Seq(Item) /\ items \o <<last>> # <<>>
    BY <1>8, <1>9
<1> QED
    BY <1>3, <1>10

\* The parser thread.
LEMMA ParserTyped ==
    ASSUME TypeInv, Parser
    PROVE  TypeInv'
<1> USE DEF TypeInv
<1>1. CASE ReadMessage
  <2>1. wire \in Seq(Message) /\ wire # <<>> /\ pmsg \in Message
    BY <1>1 DEF ReadMessage, TypeOK
  <2>2. Head(wire) \in Message /\ Tail(wire) \in Seq(Message)
    BY <2>1
  <2>3. pmsg' \in Message /\ wire' \in Seq(Message) /\ pst' \in {"dead", "got"}
    BY <1>1, <2>1, <2>2 DEF ReadMessage
  <2> QED
    BY <1>1, <2>3 DEF ReadMessage, TypeOK, RunningOK, RequestOK, PoppedOK, reqVars, hdlVars,
                      inVars, thrVars
<1>2. CASE ParseEventOrRequest
  <2>1. pmsg \in Message
    BY DEF TypeOK
  <2>2. [kind |-> pmsg.kind, n |-> pmsg.n, cbs |-> <<>>] \in Item
    BY <1>2, <2>1 DEF ParseEventOrRequest, Item, Message
  <2>3. pmsg' \in Message /\ pst' = "reading"
    BY <1>2 DEF ParseEventOrRequest, NextMessage, NoMessage, Message, AllKinds
  <2>4. EnqueuedTyped
    BY <1>2, <2>2, EnqueueOneTyped DEF ParseEventOrRequest
  <2> QED
    BY <1>2, <2>3, <2>4
       DEF EnqueuedTyped, ParseEventOrRequest, TypeOK, RequestOK, PoppedOK, reqVars, inVars,
           thrVars, peerVars
<1>3. CASE ParseInvalid
  <2>1. pmsg' \in Message /\ pst' = "reading"
    BY <1>3 DEF ParseInvalid, NextMessage, NoMessage, Message, AllKinds
  <2> QED
    BY <1>3, <2>1 DEF ParseInvalid, TypeOK, RunningOK, RequestOK, PoppedOK, reqVars, hdlVars,
                      inVars, thrVars, peerVars
<1>4. CASE PopRequest
  <2>1. /\ sentRequests' \subseteq Seqs
        /\ pst' \in {"popped", "unknown"}
        /\ pst' = "popped" => pmsg'.n \in Seqs
    BY <1>4 DEF PopRequest, TypeOK
  <2> QED
    BY <1>4, <2>1 DEF PopRequest, TypeOK, RunningOK, RequestOK, PoppedOK, hdlVars, inVars,
                      thrVars, peerVars
<1>5. CASE SetResponse
  <2>1. /\ pmsg.n \in Seqs
        /\ respHandlers \in [Seqs -> Seq(Callbacks)]
        /\ response \in [Seqs -> {None, "reply", "lost"}]
    BY <1>5 DEF SetResponse, TypeOK, PoppedOK
  <2>2. ResponseItem(pmsg.n, respHandlers[pmsg.n]) \in Item
    BY <2>1 DEF ResponseItem, Item, Seqs
  <2>3. /\ response' = [response EXCEPT ![pmsg.n] = "reply"]
        /\ ClearHandlers({pmsg.n})
        /\ NextMessage
        /\ EnqueueHandlers(<<ResponseItem(pmsg.n, respHandlers[pmsg.n])>>)
    BY <1>5 DEF SetResponse
  <2>4. /\ response' \in [Seqs -> {None, "reply", "lost"}]
        /\ respHandlers' \in [Seqs -> Seq(Callbacks)]
    BY <2>1, <2>3 DEF ClearHandlers
  <2>5. pmsg' \in Message /\ pst' = "reading"
    BY <2>3 DEF NextMessage, NoMessage, Message, AllKinds
  <2>6. EnqueuedTyped
    BY <2>2, <2>3, EnqueueOneTyped
  <2> QED
    BY <1>5, <2>4, <2>5, <2>6
       DEF EnqueuedTyped, SetResponse, TypeOK, RequestOK, PoppedOK, inVars, thrVars, peerVars
<1>6. CASE SetUnknownResponse
  <2>1. ResponseItem(0, <<>>) \in Item
    BY DEF ResponseItem, Item
  <2>2. pmsg' \in Message /\ pst' = "reading"
    BY <1>6 DEF SetUnknownResponse, NextMessage, NoMessage, Message, AllKinds
  <2>3. EnqueuedTyped
    BY <1>6, <2>1, EnqueueOneTyped DEF SetUnknownResponse
  <2> QED
    BY <1>6, <2>2, <2>3
       DEF EnqueuedTyped, SetUnknownResponse, TypeOK, RequestOK, PoppedOK, reqVars, inVars,
           thrVars, peerVars
<1>7. CASE Drain
  <2>1. /\ respHandlers \in [Seqs -> Seq(Callbacks)]
        /\ response \in [Seqs -> {None, "reply", "lost"}]
    BY DEF TypeOK
  <2>2. /\ response' \in [Seqs -> {None, "reply", "lost"}]
        /\ respHandlers' \in [Seqs -> Seq(Callbacks)]
    BY <1>7, <2>1 DEF Drain, ClearHandlers
  <2>3. EnqueuedTyped
    BY <1>7, DrainItemsTyped, EnqueueTyped
  <2> QED
    BY <1>7, <2>2, <2>3
       DEF EnqueuedTyped, Drain, TypeOK, RequestOK, PoppedOK, inVars, thrVars, peerVars
<1> QED
    BY <1>1, <1>2, <1>3, <1>4, <1>5, <1>6, <1>7 DEF Parser

\* Emptying the queue keeps the types of what it sets.
LEMMA TakeQueueTyped ==
    ASSUME TypeInv, NEW h \in HThreads, TakeQueue(h)
    PROVE  /\ queue' \in Seq(Item)
           /\ waitset' \subseteq Threads
           /\ handlerThread' \in HThreads \cup {None}
           /\ hpc' \in [HThreads -> {"none", "top", "join", "take", "waiting", "batch",
                                     "running"}]
           /\ hclosed' \in [HThreads -> BOOLEAN]
           /\ batch' \in [HThreads -> Seq(Item)]
           /\ RunningOK'
<1>1. /\ queue \in Seq(Item) /\ waitset \subseteq Threads
      /\ handlerThread \in HThreads \cup {None}
      /\ hpc \in [HThreads -> {"none", "top", "join", "take", "waiting", "batch", "running"}]
      /\ hclosed \in [HThreads -> BOOLEAN]
      /\ batch \in [HThreads -> Seq(Item)]
      /\ RunningOK
    BY DEF TypeInv, TypeOK
<1>2. /\ batch' = [batch EXCEPT ![h] = queue] /\ queue' = <<>> /\ waitset' = waitset
      /\ \/ handlerThread' = None /\ hpc' = [hpc EXCEPT ![h] = "none"]
         \/ handlerThread' = handlerThread /\ hpc' = [hpc EXCEPT ![h] = "batch"]
    BY DEF TakeQueue
<1>3. hclosed' \in [HThreads -> BOOLEAN]
    BY <1>1 DEF TakeQueue
<1>4. queue' \in Seq(Item)
    BY <1>2
<1> QED
    BY <1>1, <1>2, <1>3, <1>4 DEF RunningOK

\* The handler thread's loop.
LEMMA HandlerLoopTyped ==
    ASSUME TypeInv, NEW h \in HThreads, HandlerLoop(h)
    PROVE  TypeInv'
<1> USE DEF TypeInv
<1>1. CASE HandlerTop(h)
    BY <1>1 DEF HandlerTop, TypeOK, RunningOK, RequestOK, PoppedOK, reqVars, inVars, parVars,
                thrVars, peerVars
<1>2. CASE HandlerJoin(h)
    BY <1>2 DEF HandlerJoin, TypeOK, RunningOK, RequestOK, PoppedOK, reqVars, inVars, parVars,
                thrVars, peerVars
<1>3. CASE HandlerTake(h)
  <2>1. CASE ~hclosed[h] /\ queue = <<>>
    BY <1>3, <2>1 DEF HandlerTake, TypeOK, RunningOK, RequestOK, PoppedOK, reqVars, inVars,
                      parVars, thrVars, peerVars, Threads
  <2>2. CASE ~(~hclosed[h] /\ queue = <<>>)
    BY <1>3, <2>2, TakeQueueTyped DEF HandlerTake, TypeOK, RequestOK, PoppedOK, reqVars,
                      inVars, parVars, thrVars, peerVars
  <2> QED
    BY <2>1, <2>2
<1>4. CASE HandlerWake(h)
    BY <1>4, TakeQueueTyped DEF HandlerWake, TypeOK, RequestOK, PoppedOK, reqVars, inVars,
                parVars, thrVars, peerVars
<1>5. CASE NextHandler(h)
  <2>1. /\ hpc \in [HThreads -> {"none", "top", "join", "take", "waiting", "batch", "running"}]
        /\ batch \in [HThreads -> Seq(Item)]
        /\ lastIn \in Nat
        /\ RunningOK
    BY DEF TypeOK
  <2>2. \/ hpc' = [hpc EXCEPT ![h] = "top"] /\ batch' = batch /\ lastIn' = lastIn
        \/ /\ batch[h] # <<>> /\ hpc' = [hpc EXCEPT ![h] = "running"] /\ batch' = batch
           /\ lastIn' \in {lastIn, Head(batch[h]).n}
    BY <1>5 DEF NextHandler, IsMessageHandler
  <2>3. batch[h] # <<>> => Head(batch[h]).n \in Nat
    <3>1. batch[h] # <<>> => Head(batch[h]) \in Item
      BY <2>1
    <3> QED
      BY <3>1 DEF Item
  <2>4. /\ hpc' \in [HThreads -> {"none", "top", "join", "take", "waiting", "batch", "running"}]
        /\ batch' \in [HThreads -> Seq(Item)]
        /\ lastIn' \in Nat
        /\ RunningOK'
    BY <2>1, <2>2, <2>3 DEF RunningOK
  <2> QED
    BY <1>5, <2>4 DEF NextHandler, TypeOK, RequestOK, PoppedOK, reqVars, parVars, thrVars,
                      peerVars
<1> QED
    BY <1>1, <1>2, <1>3, <1>4, <1>5 DEF HandlerLoop

\* Leaving a handler keeps the types of what it sets.
LEMMA FinishTyped ==
    ASSUME TypeInv, NEW h \in HThreads, hpc[h] = "running", Finish(h)
    PROVE  /\ queue' = queue /\ handlerThread' = handlerThread /\ hclosed' = hclosed
           /\ hpc' \in [HThreads -> {"none", "top", "join", "take", "waiting", "batch",
                                     "running"}]
           /\ batch' \in [HThreads -> Seq(Item)]
           /\ RunningOK'
<1>1. /\ hpc \in [HThreads -> {"none", "top", "join", "take", "waiting", "batch", "running"}]
      /\ batch \in [HThreads -> Seq(Item)]
      /\ RunningOK
    BY DEF TypeInv, TypeOK
<1>2. Tail(batch[h]) \in Seq(Item)
    BY <1>1 DEF RunningOK
<1> QED
    BY <1>1, <1>2 DEF Finish, RunningOK

\* Handlers.
LEMMA HandlerReturnTyped ==
    ASSUME TypeInv, NEW h \in HThreads, HandlerReturn(h)
    PROVE  TypeInv'
<1> USE DEF TypeInv
<1>1. CASE ReturnFromEvent(h)
    BY <1>1, FinishTyped DEF ReturnFromEvent, Returning, TypeOK, RequestOK, PoppedOK, reqVars,
                             inVars, parVars, thrVars, peerVars
<1>2. CASE ReturnBody(h)
  <2>1. closed' \in BOOLEAN /\ exited' \in BOOLEAN
    BY <1>2 DEF ReturnBody, TypeOK
  <2> QED
    BY <1>2, <2>1, FinishTyped DEF ReturnBody, Returning, TypeOK, RequestOK, PoppedOK, reqVars,
                             parVars, thrVars, peerVars
<1>3. CASE RaiseHandlingError(h)
  <2>1. closed' \in BOOLEAN /\ exited' \in BOOLEAN
    BY <1>3 DEF RaiseHandlingError, TypeOK
  <2> QED
    BY <1>3, <2>1, FinishTyped DEF RaiseHandlingError, Returning, TypeOK, RequestOK, PoppedOK,
                             reqVars, parVars, thrVars, peerVars
<1>4. CASE ReturnNoResponse(h)
  <2>1. batch[h] \in Seq(Item) /\ batch[h] # <<>>
    BY <1>4 DEF ReturnNoResponse, Returning, TypeOK, RunningOK
  <2>2. Head(batch[h]).n \in Nat
    <3>1. Head(batch[h]) \in Item
      BY <2>1
    <3> QED
      BY <3>1 DEF Item
  <2>3. deferred' \subseteq Nat
    BY <1>4, <2>2 DEF ReturnNoResponse, TypeOK
  <2> QED
    BY <1>4, <2>3, FinishTyped DEF ReturnNoResponse, Returning, TypeOK, RequestOK, PoppedOK,
                             reqVars, parVars, thrVars, peerVars
<1>5. CASE RaiseOther(h)
    BY <1>5 DEF RaiseOther, TypeOK, RunningOK, RequestOK, PoppedOK, reqVars, hdlVars, inVars,
                parVars, thrVars, peerVars
<1>6. CASE ReturnFromCallback(h)
  <2> DEFINE item == Head(batch[h])
             rest == <<ResponseItem(item.n, Tail(item.cbs))>> \o Tail(batch[h])
  <2>1. batch[h] \in Seq(Item) /\ batch[h] # <<>> /\ ran \subseteq Callbacks
    BY <1>6 DEF ReturnFromCallback, Returning, TypeOK, RunningOK
  <2>2. item \in Item /\ Tail(batch[h]) \in Seq(Item)
    BY <2>1
  <2>3. item.n \in Nat /\ item.cbs \in Seq(Callbacks)
    BY <2>2 DEF Item
  <2>4. ran' \subseteq Callbacks
    <3>1. item.cbs # <<>> => Head(item.cbs) \in Callbacks
      BY <2>3
    <3>2. ran' = IF item.cbs = <<>> THEN ran ELSE ran \cup {Head(item.cbs)}
      BY <1>6 DEF ReturnFromCallback
    <3> QED
      BY <2>1, <3>1, <3>2
  <2>5. CASE Len(item.cbs) > 1
    <3>1. Tail(item.cbs) \in Seq(Callbacks)
      BY <2>3, <2>5
    <3>2. ResponseItem(item.n, Tail(item.cbs)) \in Item
      BY <2>3, <3>1 DEF ResponseItem, Item
    <3>3. rest \in Seq(Item) /\ rest # <<>>
      BY <2>2, <3>2
    <3>4. /\ batch' = [batch EXCEPT ![h] = rest]
          /\ UNCHANGED <<queue, handlerThread, hpc, hclosed>>
      BY <1>6, <2>5 DEF ReturnFromCallback
    <3>5. batch' \in [HThreads -> Seq(Item)] /\ RunningOK'
      <4>1. batch \in [HThreads -> Seq(Item)]
        BY DEF TypeOK
      <4> QED
        BY <3>3, <3>4, <4>1 DEF RunningOK
    <3> QED
      BY <1>6, <2>4, <3>4, <3>5 DEF ReturnFromCallback, TypeOK, RequestOK, PoppedOK, reqVars,
                                    parVars, thrVars, peerVars
  <2>6. CASE ~(Len(item.cbs) > 1)
    BY <1>6, <2>4, <2>6, FinishTyped DEF ReturnFromCallback, Returning, TypeOK, RequestOK,
                                    PoppedOK, reqVars, parVars, thrVars, peerVars
  <2> QED
    BY <2>5, <2>6
<1> QED
    BY <1>1, <1>2, <1>3, <1>4, <1>5, <1>6 DEF HandlerReturn

\* The other party.
LEMMA PeerTyped ==
    ASSUME TypeInv, Peer
    PROVE  TypeInv'
<1> USE DEF TypeInv
<1>1. CASE \E kind \in AllKinds : PeerSend(kind)
  <2>1. PICK kind \in AllKinds : PeerSend(kind)
    BY <1>1
  <2>2. nextIn \in Nat /\ wire \in Seq(Message)
    BY DEF TypeOK
  <2>3. [kind |-> kind, n |-> IF kind \in {"event", "request"} THEN nextIn + 1 ELSE 0]
            \in Message
    BY <2>2 DEF Message
  <2>4. wire' \in Seq(Message) /\ nextIn' \in Nat
    BY <2>1, <2>2, <2>3 DEF PeerSend
  <2> QED
    BY <2>1, <2>4 DEF PeerSend, TypeOK, RunningOK, RequestOK, PoppedOK, reqVars, hdlVars,
                      inVars, parVars, thrVars
<1>2. CASE \E s \in Seqs : PeerRespond(s)
  <2>1. PICK s \in Seqs : PeerRespond(s)
    BY <1>2
  <2>2. [kind |-> "response", n |-> s] \in Message
    BY DEF Message, AllKinds, Seqs
  <2>3. wire' \in Seq(Message)
    BY <2>1, <2>2 DEF PeerRespond, TypeOK
  <2> QED
    BY <2>1, <2>3 DEF PeerRespond, TypeOK, RunningOK, RequestOK, PoppedOK, reqVars, hdlVars,
                      inVars, parVars, thrVars
<1>3. CASE PeerDisconnect
    BY <1>3 DEF PeerDisconnect, TypeOK, RunningOK, RequestOK, PoppedOK, reqVars, hdlVars,
                inVars, parVars, thrVars
<1> QED
    BY <1>1, <1>2, <1>3 DEF Peer

\* The type invariant with its three companions is inductive.
LEMMA StepTyped == TypeInv /\ [Next]_vars => TypeInv'
<1> SUFFICES ASSUME TypeInv, [Next]_vars PROVE TypeInv'
    OBVIOUS
<1>1. CASE Next
    BY <1>1, CallerTyped, ParserTyped, HandlerLoopTyped, HandlerReturnTyped, PeerTyped DEF Next
<1>2. CASE UNCHANGED vars
    BY <1>2 DEF vars, TypeInv, TypeOK, RunningOK, RequestOK, PoppedOK, reqVars, hdlVars, inVars,
                parVars, thrVars, peerVars
<1> QED
    BY <1>1, <1>2

\* The type invariant and its companions hold in every reachable state.
LEMMA TypeInvariant == Spec => []TypeInv
BY InitTyped, StepTyped, PTL DEF Spec

\* Every reachable state of the channel is well typed: numbers that index the
\* requests are those of requests, entries of the queue are handlers, and so on.
THEOREM TypeCorrect == Spec => []TypeOK
<1>1. TypeInv => TypeOK
    BY DEF TypeInv
<1> QED
    BY TypeInvariant, <1>1, PTL

-----------------------------------------------------------------------------
(***************************************************************************)
(* Safety.  OneHandlerThread is inductive by itself; the other two         *)
(* invariants need to know why a thread that goes to sleep will be woken:  *)
(*   - a handler thread uses the channel only from within a handler;       *)
(*   - the parser closes the channel in the same step in which it wraps up;*)
(*   - a handler thread that saw the channel open and is about to sleep    *)
(*     finds the Disconnect entry if the parser wrapped up since;          *)
(*   - a request handed to its sender stays with the parser, which has not *)
(*     wrapped up, until it has a response.                                *)
(***************************************************************************)
BusyOnlyInHandler == \A h \in HThreads : tpc[h] # "idle" => hpc[h] = "running"

ClosedWhenDone == pst = "done" => closed

DisconnectAwaits ==
    \A h \in HThreads : hpc[h] = "take" /\ ~hclosed[h] /\ pst = "done" => queue # <<>>

JoinOnlyIfClosed == \A h \in HThreads : hpc[h] = "join" => hclosed[h]

InTheHandsOfParser(s) ==
    pst # "done" /\ (s \in sentRequests \/ (pst = "popped" /\ pmsg.n = s))

SentIsTracked ==
    \A t \in Threads :
        tpc[t] \in {"sent", "waiting"} /\ response[treq[t]] = None =>
            InTheHandsOfParser(treq[t])

AsleepWithoutResponse ==
    \A t \in Threads : tpc[t] = "waiting" /\ t \in waitset => response[treq[t]] = None

SafetyInv ==
    /\ OneHandlerThread /\ NoStrandedWork /\ BusyOnlyInHandler /\ ClosedWhenDone
    /\ DisconnectAwaits /\ JoinOnlyIfClosed /\ SentIsTracked /\ AsleepWithoutResponse

\* A new channel has no handler thread, no work and nobody waiting.
LEMMA InitSafe == Init => SafetyInv
BY DEF Init, SafetyInv, OneHandlerThread, NoStrandedWork, ParserRuns, ParserDied,
       BusyOnlyInHandler, ClosedWhenDone,
       DisconnectAwaits, JoinOnlyIfClosed, SentIsTracked, AsleepWithoutResponse, Threads

\* After _enqueue_handlers() nobody sleeps, and there is a thread for the queue.
LEMMA EnqueueSafe ==
    ASSUME TypeInv, SafetyInv, NEW items \in Seq(Item), items # <<>>,
           EnqueueHandlers(items), tpc' = tpc
    PROVE  /\ OneHandlerThread' /\ NoStrandedWork' /\ BusyOnlyInHandler'
           /\ DisconnectAwaits' /\ JoinOnlyIfClosed' /\ AsleepWithoutResponse'
<1>1. /\ queue \in Seq(Item) /\ handlerThread \in HThreads \cup {None}
      /\ hpc \in [HThreads -> {"none", "top", "join", "take", "waiting", "batch", "running"}]
    BY DEF TypeInv, TypeOK
<1>2. queue' = queue \o items /\ waitset' = {} /\ SpawnIfNone
    BY DEF EnqueueHandlers
<1>3. queue' # <<>>
    BY <1>1, <1>2
<1>4. OneHandlerThread' /\ handlerThread' # None
      /\ \A h \in HThreads : hpc[h] = "running" => hpc'[h] = "running"
    BY <1>1, <1>2 DEF SpawnIfNone, SafetyInv, OneHandlerThread
<1>5. BusyOnlyInHandler'
    BY <1>4 DEF SafetyInv, BusyOnlyInHandler
<1>6. JoinOnlyIfClosed'
  <2>1. hclosed' = hclosed /\ \A h \in HThreads : hpc'[h] = "join" => hpc[h] = "join"
    BY <1>1, <1>2 DEF EnqueueHandlers, SpawnIfNone
  <2> QED
    BY <2>1 DEF SafetyInv, JoinOnlyIfClosed
<1> QED
    BY <1>2, <1>3, <1>4, <1>5, <1>6 DEF NoStrandedWork, ParserRuns, ParserDied, DisconnectAwaits,
                                        AsleepWithoutResponse

\* The same for a single entry.
LEMMA EnqueueOneSafe ==
    ASSUME TypeInv, SafetyInv, NEW item \in Item, EnqueueHandlers(<<item>>), tpc' = tpc
    PROVE  /\ OneHandlerThread' /\ NoStrandedWork' /\ BusyOnlyInHandler'
           /\ DisconnectAwaits' /\ JoinOnlyIfClosed' /\ AsleepWithoutResponse'
<1>1. <<item>> \in Seq(Item) /\ <<item>> # <<>>
    OBVIOUS
<1> QED
    BY <1>1, EnqueueSafe

\* Senders.
LEMMA CallerSafe ==
    ASSUME TypeInv, SafetyInv, NEW t \in Threads, Caller(t)
    PROVE  SafetyInv'
<1> USE DEF SafetyInv
<1>t. /\ tpc \in [Threads -> {"idle", "numbered", "sent", "waiting"}]
      /\ treq \in [Threads -> 0 .. MaxSeq]
      /\ HThreads \subseteq Threads
      /\ RequestOK
    BY DEF TypeInv, TypeOK, Threads
<1>1. CASE TakeSeq(t)
  <2>1. /\ tpc' = [tpc EXCEPT ![t] = "numbered"] /\ treq' = [treq EXCEPT ![t] = nextSeq]
        /\ tpc[t] = "idle" /\ t \in HThreads => hpc[t] = "running"
        /\ UNCHANGED <<closed, sentRequests, response, hdlVars, waitset, parVars>>
    BY <1>1 DEF TakeSeq, CanCall, InHandler
  <2>2. OneHandlerThread' /\ NoStrandedWork' /\ ClosedWhenDone' /\ DisconnectAwaits' /\ JoinOnlyIfClosed'
    BY <2>1 DEF OneHandlerThread, NoStrandedWork, ParserRuns, ParserDied, ClosedWhenDone,
                DisconnectAwaits, JoinOnlyIfClosed, hdlVars,
                parVars
  <2>3. BusyOnlyInHandler'
    BY <1>1, <1>t, <2>1 DEF BusyOnlyInHandler, hdlVars, TakeSeq, CanCall, InHandler
  <2>4. SentIsTracked' /\ AsleepWithoutResponse'
    BY <1>t, <2>1 DEF SentIsTracked, AsleepWithoutResponse, InTheHandsOfParser, parVars
  <2> QED
    BY <2>2, <2>3, <2>4
<1>2. CASE RegisterAndWrite(t)
  <2>1. /\ tpc[t] = "numbered" /\ treq[t] \in Seqs
        /\ sentRequests' = sentRequests \cup {treq[t]}
        /\ UNCHANGED <<closed, response, hdlVars, waitset, parVars>>
        /\ \/ tpc' = [tpc EXCEPT ![t] = "sent"] /\ treq' = treq /\ ~closed
           \/ tpc' = [tpc EXCEPT ![t] = "idle"] /\ treq' = [treq EXCEPT ![t] = 0]
    BY <1>2, <1>t DEF RegisterAndWrite, RequestOK, WriteOutcomes
  <2>2. OneHandlerThread' /\ NoStrandedWork' /\ ClosedWhenDone' /\ DisconnectAwaits' /\ JoinOnlyIfClosed'
    BY <2>1 DEF OneHandlerThread, NoStrandedWork, ParserRuns, ParserDied, ClosedWhenDone,
                DisconnectAwaits, JoinOnlyIfClosed, hdlVars,
                parVars
  <2>3. BusyOnlyInHandler'
    BY <1>t, <2>1 DEF BusyOnlyInHandler, hdlVars
  <2>4. SentIsTracked' /\ AsleepWithoutResponse'
    BY <1>t, <2>1 DEF SentIsTracked, AsleepWithoutResponse, InTheHandsOfParser, parVars,
                      ClosedWhenDone
  <2> QED
    BY <2>2, <2>3, <2>4
<1>3. CASE BeginWait(t)
  <2>1. /\ tpc[t] = "sent" /\ response[treq[t]] = None
        /\ tpc' = [tpc EXCEPT ![t] = "waiting"] /\ waitset' = waitset \cup {t}
        /\ UNCHANGED <<closed, reqVars, hdlVars, parVars, treq>>
    BY <1>3 DEF BeginWait
  <2>2. OneHandlerThread' /\ NoStrandedWork' /\ ClosedWhenDone' /\ DisconnectAwaits' /\ JoinOnlyIfClosed'
    BY <2>1 DEF OneHandlerThread, NoStrandedWork, ParserRuns, ParserDied, ClosedWhenDone,
                DisconnectAwaits, JoinOnlyIfClosed, hdlVars,
                parVars, BusyOnlyInHandler
  <2>3. BusyOnlyInHandler'
    BY <1>t, <2>1 DEF BusyOnlyInHandler, hdlVars
  <2>4. SentIsTracked' /\ AsleepWithoutResponse'
    BY <1>t, <2>1 DEF SentIsTracked, AsleepWithoutResponse, InTheHandsOfParser, parVars, reqVars
  <2> QED
    BY <2>2, <2>3, <2>4
<1>4. CASE WakeFromWait(t)
  <2>1. /\ tpc[t] = "waiting"
        /\ \/ response[treq[t]] = None /\ waitset' = waitset \cup {t} /\ tpc' = tpc
           \/ waitset' = waitset /\ tpc' = [tpc EXCEPT ![t] = "sent"]
        /\ UNCHANGED <<closed, reqVars, hdlVars, parVars, treq>>
    BY <1>4 DEF WakeFromWait
  <2>2. OneHandlerThread' /\ NoStrandedWork' /\ ClosedWhenDone' /\ DisconnectAwaits' /\ JoinOnlyIfClosed'
    BY <2>1 DEF OneHandlerThread, NoStrandedWork, ParserRuns, ParserDied, ClosedWhenDone,
                DisconnectAwaits, JoinOnlyIfClosed, hdlVars,
                parVars, BusyOnlyInHandler
  <2>3. BusyOnlyInHandler'
    BY <1>t, <2>1 DEF BusyOnlyInHandler, hdlVars
  <2>4. SentIsTracked' /\ AsleepWithoutResponse'
    BY <1>t, <2>1 DEF SentIsTracked, AsleepWithoutResponse, InTheHandsOfParser, parVars, reqVars
  <2> QED
    BY <2>2, <2>3, <2>4
<1>5. CASE Forget(t)
  <2>1. /\ tpc[t] = "sent" /\ tpc' = [tpc EXCEPT ![t] = "idle"]
        /\ treq' = [treq EXCEPT ![t] = 0]
        /\ UNCHANGED <<closed, reqVars, hdlVars, waitset, parVars>>
    BY <1>5 DEF Forget
  <2>2. OneHandlerThread' /\ NoStrandedWork' /\ ClosedWhenDone' /\ DisconnectAwaits' /\ JoinOnlyIfClosed'
    BY <2>1 DEF OneHandlerThread, NoStrandedWork, ParserRuns, ParserDied, ClosedWhenDone,
                DisconnectAwaits, JoinOnlyIfClosed, hdlVars,
                parVars
  <2>3. BusyOnlyInHandler'
    BY <1>t, <2>1 DEF BusyOnlyInHandler, hdlVars
  <2>4. SentIsTracked' /\ AsleepWithoutResponse'
    BY <1>t, <2>1 DEF SentIsTracked, AsleepWithoutResponse, InTheHandsOfParser, parVars, reqVars
  <2> QED
    BY <2>2, <2>3, <2>4
<1>6. CASE Close(t) \/ \E n \in 1 .. MaxIn : RespondDeferred(t, n)
  <2>1. /\ closed => closed'
        /\ UNCHANGED <<reqVars, hdlVars, waitset, parVars, thrVars>>
    BY <1>6 DEF Close, RespondDeferred
  <2> QED
    BY <2>1 DEF OneHandlerThread, NoStrandedWork, ParserRuns, ParserDied, BusyOnlyInHandler,
                ClosedWhenDone,
                DisconnectAwaits, JoinOnlyIfClosed, SentIsTracked, AsleepWithoutResponse, InTheHandsOfParser,
                reqVars, hdlVars, parVars, thrVars
<1>7. CASE \E c \in Callbacks : OnResponse(t, c)
  <2>1. PICK c \in Callbacks : OnResponse(t, c)
    BY <1>7
  <2> DEFINE s == treq[t]
             item == ResponseItem(s, Append(respHandlers[s], c))
  <2>2. <<item>> \in Seq(Item) /\ <<item>> # <<>>
    <3>1. s \in Seqs /\ respHandlers \in [Seqs -> Seq(Callbacks)]
      BY <2>1, <1>t DEF OnResponse, RequestOK, TypeInv, TypeOK
    <3>2. item \in Item
      BY <3>1 DEF ResponseItem, Item, Seqs
    <3> QED
      BY <3>2
  <2>3. UNCHANGED <<closed, sentRequests, response, parVars, thrVars>>
    BY <2>1 DEF OnResponse
  <2>4. ClosedWhenDone' /\ SentIsTracked'
    BY <2>3 DEF ClosedWhenDone, SentIsTracked, InTheHandsOfParser, parVars, thrVars
  <2>5. CASE response[s] = None
    <3>1. UNCHANGED <<hdlVars, waitset>>
      BY <2>1, <2>5 DEF OnResponse
    <3> QED
      BY <2>3, <2>4, <3>1 DEF OneHandlerThread, NoStrandedWork, ParserRuns, ParserDied,
                              BusyOnlyInHandler,
                DisconnectAwaits, JoinOnlyIfClosed, AsleepWithoutResponse, hdlVars, parVars, thrVars
  <2>6. CASE response[s] # None
    <3>1. EnqueueHandlers(<<item>>) /\ tpc' = tpc
      BY <2>1, <2>3, <2>6 DEF OnResponse, thrVars
    <3> QED
      BY <2>2, <2>4, <3>1, EnqueueSafe
  <2> QED
    BY <2>5, <2>6
<1> QED
    BY <1>1, <1>2, <1>3, <1>4, <1>5, <1>6, <1>7 DEF Caller

\* The parser thread.
LEMMA ParserSafe ==
    ASSUME TypeInv, SafetyInv, Parser
    PROVE  SafetyInv'
<1> USE DEF SafetyInv
<1>t. /\ tpc \in [Threads -> {"idle", "numbered", "sent", "waiting"}]
      /\ response \in [Seqs -> {None, "reply", "lost"}]
      /\ respHandlers \in [Seqs -> Seq(Callbacks)]
      /\ sentRequests \subseteq Seqs
      /\ RequestOK /\ PoppedOK
    BY DEF TypeInv, TypeOK
<1>1. CASE ReadMessage \/ ParseInvalid
  <2>1. /\ pst \in {"reading", "got"} /\ pst' \in {"reading", "got", "dead"}
        /\ UNCHANGED <<closed, reqVars, hdlVars, waitset, thrVars>>
    BY <1>1 DEF ReadMessage, ParseInvalid, NextMessage
  <2> QED
    BY <2>1 DEF OneHandlerThread, NoStrandedWork, ParserRuns, ParserDied, BusyOnlyInHandler,
                ClosedWhenDone,
                DisconnectAwaits, JoinOnlyIfClosed, SentIsTracked, AsleepWithoutResponse, InTheHandsOfParser,
                reqVars, hdlVars, thrVars
<1>2. CASE PopRequest
  <2>1. /\ pst = "got" /\ pst' \in {"popped", "unknown"}
        /\ \/ pst' = "popped" /\ sentRequests' = sentRequests \ {pmsg.n}
           \/ sentRequests' = sentRequests
        /\ UNCHANGED <<closed, response, hdlVars, waitset, pmsg, thrVars>>
    BY <1>2 DEF PopRequest
  <2>2. /\ OneHandlerThread' /\ NoStrandedWork' /\ BusyOnlyInHandler' /\ ClosedWhenDone'
        /\ DisconnectAwaits' /\ JoinOnlyIfClosed' /\ AsleepWithoutResponse'
    BY <2>1 DEF OneHandlerThread, NoStrandedWork, ParserRuns, ParserDied, BusyOnlyInHandler,
                ClosedWhenDone,
                DisconnectAwaits, JoinOnlyIfClosed, AsleepWithoutResponse, hdlVars, thrVars
  <2>3. SentIsTracked'
    BY <2>1 DEF SentIsTracked, InTheHandsOfParser, thrVars
  <2> QED
    BY <2>2, <2>3
<1>3. CASE ParseEventOrRequest
  <2>1. [kind |-> pmsg.kind, n |-> pmsg.n, cbs |-> <<>>] \in Item
    BY <1>3 DEF ParseEventOrRequest, TypeInv, TypeOK, Item, Message
  <2>2. /\ EnqueueHandlers(<<[kind |-> pmsg.kind, n |-> pmsg.n, cbs |-> <<>>]>>)
        /\ pst = "got" /\ pst' = "reading"
        /\ UNCHANGED <<closed, reqVars, thrVars>>
    BY <1>3 DEF ParseEventOrRequest, NextMessage
  <2>3. ClosedWhenDone' /\ SentIsTracked'
    BY <2>2 DEF ClosedWhenDone, SentIsTracked, InTheHandsOfParser, reqVars, thrVars
  <2>4. /\ OneHandlerThread' /\ NoStrandedWork' /\ BusyOnlyInHandler'
        /\ DisconnectAwaits' /\ JoinOnlyIfClosed' /\ AsleepWithoutResponse'
    BY <2>1, <2>2, EnqueueOneSafe DEF thrVars
  <2> QED
    BY <2>3, <2>4
<1>4. CASE SetResponse
  <2>1. ResponseItem(pmsg.n, respHandlers[pmsg.n]) \in Item
    BY <1>4, <1>t DEF SetResponse, PoppedOK, ResponseItem, Item, Seqs
  <2>2. /\ EnqueueHandlers(<<ResponseItem(pmsg.n, respHandlers[pmsg.n])>>)
        /\ pst = "popped" /\ pst' = "reading"
        /\ response' = [response EXCEPT ![pmsg.n] = "reply"]
        /\ UNCHANGED <<closed, sentRequests, thrVars>>
    BY <1>4 DEF SetResponse, NextMessage
  <2>3. ClosedWhenDone' /\ SentIsTracked'
    BY <1>t, <2>2 DEF ClosedWhenDone, SentIsTracked, InTheHandsOfParser, thrVars, PoppedOK,
                      RequestOK
  <2>4. /\ OneHandlerThread' /\ NoStrandedWork' /\ BusyOnlyInHandler'
        /\ DisconnectAwaits' /\ JoinOnlyIfClosed' /\ AsleepWithoutResponse'
    BY <2>1, <2>2, EnqueueOneSafe DEF thrVars
  <2> QED
    BY <2>3, <2>4
<1>5. CASE SetUnknownResponse
  <2>1. ResponseItem(0, <<>>) \in Item
    BY DEF ResponseItem, Item
  <2>2. /\ EnqueueHandlers(<<ResponseItem(0, <<>>)>>)
        /\ pst = "unknown" /\ pst' = "reading"
        /\ UNCHANGED <<closed, reqVars, thrVars>>
    BY <1>5 DEF SetUnknownResponse, NextMessage
  <2>3. ClosedWhenDone' /\ SentIsTracked'
    BY <2>2 DEF ClosedWhenDone, SentIsTracked, InTheHandsOfParser, reqVars, thrVars
  <2>4. /\ OneHandlerThread' /\ NoStrandedWork' /\ BusyOnlyInHandler'
        /\ DisconnectAwaits' /\ JoinOnlyIfClosed' /\ AsleepWithoutResponse'
    BY <2>1, <2>2, EnqueueOneSafe DEF thrVars
  <2> QED
    BY <2>3, <2>4
<1>6. CASE Drain
  <2>1. PICK items \in Seq(Item) : EnqueueHandlers(items) /\ items # <<>>
    BY <1>6, DrainItemsTyped
  <2>2. /\ pst = "reading" /\ pst' = "done" /\ closed' = TRUE
        /\ response' = [s \in Seqs |-> IF s \in sentRequests THEN "lost" ELSE response[s]]
        /\ UNCHANGED thrVars
    BY <1>6 DEF Drain
  <2>3. ClosedWhenDone' /\ SentIsTracked'
    BY <1>t, <2>2 DEF ClosedWhenDone, SentIsTracked, InTheHandsOfParser, thrVars, RequestOK
  <2>4. /\ OneHandlerThread' /\ NoStrandedWork' /\ BusyOnlyInHandler'
        /\ DisconnectAwaits' /\ JoinOnlyIfClosed' /\ AsleepWithoutResponse'
    BY <2>1, <2>2, EnqueueSafe DEF thrVars
  <2> QED
    BY <2>3, <2>4
<1> QED
    BY <1>1, <1>2, <1>3, <1>4, <1>5, <1>6 DEF Parser

\* Emptying the queue leaves no handler asleep over it: the one handler thread
\* is the one that does it.
LEMMA TakeQueueSafe ==
    ASSUME TypeInv, SafetyInv, NEW h \in HThreads, hpc[h] \in {"take", "waiting"},
           TakeQueue(h), pst' = pst, tpc' = tpc
    PROVE  OneHandlerThread' /\ NoStrandedWork' /\ BusyOnlyInHandler' /\ DisconnectAwaits' /\ JoinOnlyIfClosed'
<1>1. /\ hpc \in [HThreads -> {"none", "top", "join", "take", "waiting", "batch", "running"}]
      /\ OneHandlerThread /\ BusyOnlyInHandler
    BY DEF TypeInv, TypeOK, SafetyInv
<1>2. /\ queue' = <<>> /\ waitset' = waitset
      /\ \/ handlerThread' = None /\ hpc' = [hpc EXCEPT ![h] = "none"]
         \/ handlerThread' = handlerThread /\ hpc' = [hpc EXCEPT ![h] = "batch"]
    BY DEF TakeQueue
<1>3. \A g \in HThreads \ {h} : hpc[g] = "none"
    BY <1>1 DEF OneHandlerThread
<1>4. handlerThread = h /\ tpc[h] = "idle"
    BY <1>1 DEF OneHandlerThread, BusyOnlyInHandler
<1>5. \A g \in HThreads : hpc'[g] \in {"none", "batch"}
    BY <1>1, <1>2, <1>3
<1> QED
    BY <1>1, <1>2, <1>3, <1>4, <1>5 DEF OneHandlerThread, NoStrandedWork, ParserRuns, ParserDied,
                                        BusyOnlyInHandler,
                                        DisconnectAwaits, JoinOnlyIfClosed

\* The handler thread's loop.
LEMMA HandlerLoopSafe ==
    ASSUME TypeInv, SafetyInv, NEW h \in HThreads, HandlerLoop(h)
    PROVE  SafetyInv'
<1> USE DEF SafetyInv
<1>p. pst \in {"reading", "got", "popped", "unknown", "done", "dead"}
    BY DEF TypeInv, TypeOK
<1>t. /\ hpc \in [HThreads -> {"none", "top", "join", "take", "waiting", "batch", "running"}]
      /\ hclosed \in [HThreads -> BOOLEAN]
      /\ HThreads \subseteq Threads
    BY DEF TypeInv, TypeOK, Threads
<1>u. UNCHANGED <<closed, reqVars, parVars, thrVars>>
    BY DEF HandlerLoop, HandlerTop, HandlerJoin, HandlerTake, HandlerWake, NextHandler
<1>v. ClosedWhenDone' /\ SentIsTracked'
    BY <1>u DEF ClosedWhenDone, SentIsTracked, InTheHandsOfParser, reqVars, parVars, thrVars
<1>1. CASE HandlerTop(h)
  <2>1. /\ hpc[h] = "top" /\ hclosed' = [hclosed EXCEPT ![h] = closed]
        /\ hpc' = [hpc EXCEPT ![h] = IF closed THEN "join" ELSE "take"]
        /\ UNCHANGED <<queue, handlerThread, waitset>>
    BY <1>1 DEF HandlerTop
  <2>2. OneHandlerThread' /\ NoStrandedWork' /\ BusyOnlyInHandler'
    BY <1>t, <1>u, <2>1 DEF OneHandlerThread, NoStrandedWork, ParserRuns, ParserDied,
                            BusyOnlyInHandler, thrVars, parVars
  <2>3. DisconnectAwaits' /\ JoinOnlyIfClosed' /\ AsleepWithoutResponse'
    BY <1>t, <1>u, <2>1 DEF DisconnectAwaits, JoinOnlyIfClosed, AsleepWithoutResponse,
                            ClosedWhenDone, parVars,
                            thrVars, reqVars
  <2> QED
    BY <1>v, <2>2, <2>3
<1>2. CASE HandlerJoin(h)
  <2>1. /\ hpc[h] = "join" /\ hpc' = [hpc EXCEPT ![h] = "take"]
        /\ UNCHANGED <<queue, handlerThread, hclosed, waitset>>
    BY <1>2 DEF HandlerJoin
  <2>2. OneHandlerThread' /\ NoStrandedWork' /\ BusyOnlyInHandler'
    BY <1>t, <1>u, <2>1 DEF OneHandlerThread, NoStrandedWork, ParserRuns, ParserDied,
                            BusyOnlyInHandler, thrVars, parVars
  <2>3. DisconnectAwaits' /\ JoinOnlyIfClosed' /\ AsleepWithoutResponse'
    BY <1>t, <1>u, <2>1 DEF DisconnectAwaits, JoinOnlyIfClosed, AsleepWithoutResponse, parVars,
                            thrVars, reqVars
  <2> QED
    BY <1>v, <2>2, <2>3
<1>3. CASE HandlerTake(h)
  <2>1. CASE ~hclosed[h] /\ queue = <<>>
    <3>1. /\ hpc[h] = "take" /\ hpc' = [hpc EXCEPT ![h] = "waiting"]
          /\ waitset' = waitset \cup {h}
          /\ UNCHANGED <<queue, handlerThread, hclosed>>
      BY <1>3, <2>1 DEF HandlerTake
    <3>2. pst # "done" /\ (~ParserDied => ParserRuns) /\ tpc[h] = "idle"
      BY <1>p, <2>1, <3>1 DEF DisconnectAwaits, JoinOnlyIfClosed, BusyOnlyInHandler,
                              ParserDied, ParserRuns
    <3>3. OneHandlerThread' /\ NoStrandedWork' /\ BusyOnlyInHandler'
      BY <1>t, <1>u, <2>1, <3>1, <3>2 DEF OneHandlerThread, NoStrandedWork, ParserRuns,
                                          ParserDied, BusyOnlyInHandler,
                                          thrVars, parVars
    <3>4. DisconnectAwaits' /\ JoinOnlyIfClosed' /\ AsleepWithoutResponse'
      BY <1>t, <1>u, <3>1, <3>2 DEF DisconnectAwaits, JoinOnlyIfClosed, AsleepWithoutResponse,
                                    parVars, thrVars,
                                    reqVars
    <3> QED
      BY <1>v, <3>3, <3>4
  <2>2. CASE ~(~hclosed[h] /\ queue = <<>>)
    <3>1. TakeQueue(h) /\ waitset' = waitset /\ hpc[h] = "take"
      BY <1>3, <2>2 DEF HandlerTake, TakeQueue
    <3>2. OneHandlerThread' /\ NoStrandedWork' /\ BusyOnlyInHandler' /\ DisconnectAwaits' /\ JoinOnlyIfClosed'
      BY <1>u, <3>1, TakeQueueSafe DEF parVars, thrVars
    <3>3. AsleepWithoutResponse'
      BY <1>u, <3>1 DEF AsleepWithoutResponse, thrVars, reqVars
    <3> QED
      BY <1>v, <3>2, <3>3
  <2> QED
    BY <2>1, <2>2
<1>4. CASE HandlerWake(h)
  <2>1. TakeQueue(h) /\ waitset' = waitset /\ hpc[h] = "waiting"
    BY <1>4 DEF HandlerWake, TakeQueue
  <2>2. OneHandlerThread' /\ NoStrandedWork' /\ BusyOnlyInHandler' /\ DisconnectAwaits' /\ JoinOnlyIfClosed'
    BY <1>u, <2>1, TakeQueueSafe DEF parVars, thrVars
  <2>3. AsleepWithoutResponse'
    BY <1>u, <2>1 DEF AsleepWithoutResponse, thrVars, reqVars
  <2> QED
    BY <1>v, <2>2, <2>3
<1>5. CASE NextHandler(h)
  <2>1. /\ hpc[h] = "batch"
        /\ \/ hpc' = [hpc EXCEPT ![h] = "top"]
           \/ hpc' = [hpc EXCEPT ![h] = "running"]
        /\ UNCHANGED <<queue, handlerThread, hclosed, waitset>>
    BY <1>5 DEF NextHandler, IsMessageHandler
  <2>2. OneHandlerThread' /\ NoStrandedWork' /\ BusyOnlyInHandler'
    BY <1>t, <1>u, <2>1 DEF OneHandlerThread, NoStrandedWork, ParserRuns, ParserDied,
                            BusyOnlyInHandler, thrVars, parVars
  <2>3. DisconnectAwaits' /\ JoinOnlyIfClosed' /\ AsleepWithoutResponse'
    BY <1>t, <1>u, <2>1 DEF DisconnectAwaits, JoinOnlyIfClosed, AsleepWithoutResponse, parVars,
                            thrVars, reqVars
  <2> QED
    BY <1>v, <2>2, <2>3
<1> QED
    BY <1>1, <1>2, <1>3, <1>4, <1>5 DEF HandlerLoop

\* Handlers.
LEMMA HandlerReturnSafe ==
    ASSUME TypeInv, SafetyInv, NEW h \in HThreads, HandlerReturn(h)
    PROVE  SafetyInv'
<1> USE DEF SafetyInv
<1>t. hpc \in [HThreads -> {"none", "top", "join", "take", "waiting", "batch", "running"}]
    BY DEF TypeInv, TypeOK
<1>1. /\ hpc[h] = "running" /\ tpc[h] = "idle"
      /\ closed => closed'
      /\ hpc' = hpc \/ hpc' = [hpc EXCEPT ![h] = "batch"]
      /\ UNCHANGED <<reqVars, waitset, parVars, thrVars, queue, handlerThread, hclosed>>
  <2>1. CASE ReturnFromEvent(h) \/ ReturnNoResponse(h)
    BY <2>1 DEF ReturnFromEvent, ReturnNoResponse, Returning, Finish
  <2>4. CASE ReturnBody(h)
    BY <2>4 DEF ReturnBody, Returning, Finish
  <2>5. CASE RaiseHandlingError(h)
    BY <2>5 DEF RaiseHandlingError, Returning, Finish
  <2>2. CASE ReturnFromCallback(h)
    BY <2>2 DEF ReturnFromCallback, Returning, Finish
  <2>3. CASE RaiseOther(h)
    BY <2>3 DEF RaiseOther, InHandler, hdlVars
  <2> QED
    BY <2>1, <2>2, <2>3, <2>4, <2>5 DEF HandlerReturn
<1>2. OneHandlerThread' /\ NoStrandedWork' /\ BusyOnlyInHandler' /\ ClosedWhenDone'
    BY <1>t, <1>1 DEF OneHandlerThread, NoStrandedWork, ParserRuns, ParserDied,
                      BusyOnlyInHandler, ClosedWhenDone,
                      parVars, thrVars
<1>3. DisconnectAwaits' /\ JoinOnlyIfClosed' /\ SentIsTracked' /\ AsleepWithoutResponse'
    BY <1>t, <1>1 DEF DisconnectAwaits, JoinOnlyIfClosed, SentIsTracked, AsleepWithoutResponse,
                      InTheHandsOfParser, reqVars, parVars, thrVars
<1> QED
    BY <1>2, <1>3

\* The invariant is inductive.
LEMMA StepSafe == TypeInv /\ SafetyInv /\ [Next]_vars => SafetyInv'
<1> SUFFICES ASSUME TypeInv, SafetyInv, [Next]_vars PROVE SafetyInv'
    OBVIOUS
<1>1. CASE Peer \/ UNCHANGED vars
  <2>1. UNCHANGED <<closed, reqVars, hdlVars, waitset, parVars, thrVars>>
    BY <1>1 DEF Peer, PeerSend, PeerRespond, PeerDisconnect, vars
  <2> QED
    BY <2>1 DEF SafetyInv, OneHandlerThread, NoStrandedWork, ParserRuns, ParserDied,
                BusyOnlyInHandler, ClosedWhenDone,
                DisconnectAwaits, JoinOnlyIfClosed, SentIsTracked, AsleepWithoutResponse, InTheHandsOfParser,
                reqVars, hdlVars, parVars, thrVars
<1>2. CASE Next /\ ~Peer
    BY <1>2, CallerSafe, ParserSafe, HandlerLoopSafe, HandlerReturnSafe DEF Next
<1> QED
    BY <1>1, <1>2

\* The strengthened invariant holds in every reachable state.
LEMMA SafetyInvariant == Spec => []SafetyInv
BY InitSafe, StepSafe, TypeInvariant, PTL DEF Spec

\* At most one handler thread exists at any time, however many have been started
\* by _enqueue_handlers() over the life of the channel.
THEOREM HandlersSerialized == Spec => []OneHandlerThread
<1>1. SafetyInv => OneHandlerThread
    BY DEF SafetyInv
<1> QED
    BY SafetyInvariant, <1>1, PTL

\* Work put into the queue always has a thread, and a handler thread that sleeps
\* in _run_handlers() does so over an empty queue and under a parser that runs,
\* unless that died of a malformed message.
THEOREM WorkNotStranded == Spec => []NoStrandedWork
<1>1. SafetyInv => NoStrandedWork
    BY DEF SafetyInv
<1> QED
    BY SafetyInvariant, <1>1, PTL

\* Whoever sleeps in wait_for_response() has a request that the parser will
\* still answer or give up, unless it died of a malformed message: no response is
\* set without the sleeper being woken, and a parser that wraps up leaves no
\* request unanswered.
THEOREM WaitersNotOrphaned == Spec => []NoOrphanedWaiter
<1>1. TypeInv /\ SafetyInv => NoOrphanedWaiter
    BY DEF TypeInv, TypeOK, SafetyInv, NoOrphanedWaiter, ParserRuns, ParserDied, SentIsTracked,
           AsleepWithoutResponse,
           InTheHandsOfParser
<1> QED
    BY SafetyInvariant, TypeInvariant, <1>1, PTL

-----------------------------------------------------------------------------
(***************************************************************************)
(* What the handler thread has in hand and what is queued for it form one  *)
(* list, which grows at its end and shrinks at its head; taking the queue  *)
(* leaves it as it is.  A thread that has nothing in hand has an empty     *)
(* batch.                                                                  *)
(***************************************************************************)
Held == IF handlerThread = None THEN <<>> ELSE batch[handlerThread]
Work == Held \o queue
Running == handlerThread # None /\ hpc[handlerThread] = "running"

IdleBatch == \A h \in HThreads : hpc[h] \notin {"batch", "running"} => batch[h] = <<>>

Base == TypeInv /\ SafetyInv /\ IdleBatch

LEMMA WorkTyped ==
    ASSUME Base
    PROVE  /\ Held \in Seq(Item) /\ queue \in Seq(Item) /\ Work \in Seq(Item)
           /\ Running => Held # <<>> /\ Work # <<>>
<1>1. /\ queue \in Seq(Item) /\ batch \in [HThreads -> Seq(Item)]
      /\ handlerThread \in HThreads \cup {None} /\ RunningOK
    BY DEF Base, TypeInv, TypeOK
<1>2. Held \in Seq(Item)
    BY <1>1 DEF Held
<1>3. Running => Held # <<>>
    BY <1>1 DEF RunningOK, Running, Held
<1> QED
    BY <1>1, <1>2, <1>3 DEF Work

\* The handler thread that does something is the one of _handler_thread.
LEMMA ActiveThread ==
    ASSUME Base, NEW h \in HThreads, hpc[h] # "none"
    PROVE  handlerThread = h /\ h # None /\ Held = batch[h] /\ (Running <=> hpc[h] = "running")
BY DEF Base, SafetyInv, OneHandlerThread, Held, Running

\* _enqueue_handlers() extends the list, also if it starts a thread.
LEMMA EnqueueWork ==
    ASSUME Base, NEW items \in Seq(Item), EnqueueHandlers(items)
    PROVE  Work' = Work \o items /\ (Running' <=> Running) /\ IdleBatch'
<1>1. /\ queue \in Seq(Item) /\ handlerThread \in HThreads \cup {None}
      /\ batch \in [HThreads -> Seq(Item)]
      /\ hpc \in [HThreads -> {"none", "top", "join", "take", "waiting", "batch", "running"}]
    BY DEF Base, TypeInv, TypeOK
<1>2. queue' = queue \o items /\ batch' = batch /\ SpawnIfNone
    BY DEF EnqueueHandlers
<1>3. CASE handlerThread = None
  <2>1. PICK h \in HThreads : hpc[h] = "none" /\ handlerThread' = h
                              /\ hpc' = [hpc EXCEPT ![h] = "top"]
    BY <1>2, <1>3 DEF SpawnIfNone
  <2>2. queue = <<>> /\ batch[h] = <<>>
    BY <1>3, <2>1 DEF Base, SafetyInv, NoStrandedWork, ParserRuns, ParserDied, IdleBatch
  <2>3. Held = <<>> /\ Held' = <<>> /\ ~Running /\ ~Running'
    BY <1>1, <1>2, <1>3, <2>1, <2>2 DEF Held, Running
  <2>4. IdleBatch'
    BY <1>1, <1>2, <2>1, <2>2 DEF IdleBatch, Base
  <2> QED
    BY <1>2, <2>2, <2>3, <2>4 DEF Work
<1>4. CASE handlerThread # None
  <2>1. handlerThread' = handlerThread /\ hpc' = hpc
    BY <1>2, <1>4 DEF SpawnIfNone
  <2>2. Held' = Held /\ (Running' <=> Running) /\ Held \in Seq(Item) /\ IdleBatch'
    BY <1>1, <1>2, <2>1 DEF Held, Running, Base, IdleBatch
  <2> QED
    BY <1>1, <1>2, <2>2 DEF Work
<1> QED
    BY <1>3, <1>4

\* The loop of the handler thread leaves the list alone, and begins with the first
\* entry of it.
LEMMA LoopWork ==
    ASSUME Base, NEW h \in HThreads, HandlerLoop(h)
    PROVE  /\ Work' = Work /\ IdleBatch'
           /\ \/ (Running' <=> Running) /\ lastIn' = lastIn
              \/ /\ ~Running /\ Running' /\ Work # <<>>
                 /\ lastIn' = IF Head(Work).kind \in {"event", "request"} THEN Head(Work).n
                              ELSE lastIn
<1>t. /\ queue \in Seq(Item) /\ handlerThread \in HThreads \cup {None}
      /\ batch \in [HThreads -> Seq(Item)]
      /\ hpc \in [HThreads -> {"none", "top", "join", "take", "waiting", "batch", "running"}]
    BY DEF Base, TypeInv, TypeOK
<1>a. /\ handlerThread = h /\ h # None /\ Held = batch[h] /\ (Running <=> hpc[h] = "running")
      /\ hpc[h] \notin {"none", "running"}
  <2>1. hpc[h] \notin {"none", "running"}
    BY DEF HandlerLoop, HandlerTop, HandlerJoin, HandlerTake, HandlerWake, NextHandler
  <2> QED
    BY <2>1, ActiveThread
<1>i. IdleBatch
    BY DEF Base
<1>1. CASE TakeQueue(h) /\ hpc[h] \in {"take", "waiting"} /\ lastIn' = lastIn
  <2>1. batch[h] = <<>> /\ Held = <<>>
    BY <1>a, <1>i, <1>1 DEF IdleBatch
  <2>2. batch' = [batch EXCEPT ![h] = queue] /\ queue' = <<>>
    BY <1>1 DEF TakeQueue
  <2>3. CASE hclosed[h] /\ queue = <<>>
    <3>1. handlerThread' = None /\ hpc' = [hpc EXCEPT ![h] = "none"]
      BY <1>1, <2>3 DEF TakeQueue
    <3>2. Held' = <<>> /\ ~Running'
      BY <3>1 DEF Held, Running
    <3>3. IdleBatch'
      BY <1>t, <1>i, <2>2, <2>3, <3>1 DEF IdleBatch
    <3> QED
      BY <1>a, <1>1, <2>1, <2>2, <2>3, <3>2, <3>3 DEF Work
  <2>4. CASE ~(hclosed[h] /\ queue = <<>>)
    <3>1. handlerThread' = h /\ hpc' = [hpc EXCEPT ![h] = "batch"]
      BY <1>a, <1>1, <2>4 DEF TakeQueue
    <3>2. Held' = queue /\ ~Running'
      BY <1>t, <1>a, <2>2, <3>1 DEF Held, Running
    <3>3. IdleBatch'
      BY <1>t, <1>i, <2>2, <3>1 DEF IdleBatch
    <3>4. Work' = Work
      BY <1>t, <2>1, <2>2, <3>2 DEF Work
    <3> QED
      BY <1>a, <1>1, <3>2, <3>3, <3>4
  <2> QED
    BY <2>3, <2>4
<1>2. CASE /\ batch' = batch /\ queue' = queue /\ handlerThread' = h /\ lastIn' = lastIn
           /\ \E pc \in {"join", "take", "waiting", "top"} : hpc' = [hpc EXCEPT ![h] = pc]
           /\ batch[h] = <<>>
  <2>1. Held' = Held /\ ~Running' /\ IdleBatch'
    BY <1>t, <1>a, <1>i, <1>2 DEF Held, Running, IdleBatch
  <2> QED
    BY <1>a, <1>2, <2>1 DEF Work
<1>3. CASE NextHandler(h) /\ batch[h] # <<>>
  <2>1. /\ batch' = batch /\ queue' = queue /\ handlerThread' = h
        /\ hpc' = [hpc EXCEPT ![h] = "running"]
        /\ lastIn' = IF Head(batch[h]).kind \in {"event", "request"} THEN Head(batch[h]).n
                     ELSE lastIn
    BY <1>3, <1>a DEF NextHandler, IsMessageHandler
  <2>2. Held' = Held /\ Running' /\ IdleBatch'
    BY <1>t, <1>a, <1>i, <2>1 DEF Held, Running, IdleBatch
  <2>3. Work # <<>> /\ Head(Work) = Head(batch[h])
    BY <1>t, <1>a, <1>3 DEF Work
  <2> QED
    BY <1>a, <2>1, <2>2, <2>3 DEF Work
<1>4. CASE HandlerTop(h) \/ HandlerJoin(h) \/ HandlerTake(h) \/ HandlerWake(h)
           \/ (NextHandler(h) /\ batch[h] = <<>>)
  <2>1. hpc[h] # "batch" => batch[h] = <<>>
    BY <1>a, <1>i DEF IdleBatch
  <2>2. CASE HandlerTop(h)
    BY <1>a, <1>2, <2>1, <2>2 DEF HandlerTop, inVars
  <2>3. CASE HandlerJoin(h)
    BY <1>a, <1>2, <2>1, <2>3 DEF HandlerJoin, inVars
  <2>4. CASE HandlerTake(h)
    BY <1>a, <1>1, <1>2, <2>1, <2>4 DEF HandlerTake, inVars
  <2>5. CASE HandlerWake(h)
    BY <1>a, <1>1, <2>5 DEF HandlerWake, inVars
  <2>6. CASE NextHandler(h) /\ batch[h] = <<>>
    BY <1>a, <1>2, <2>6 DEF NextHandler
  <2> QED
    BY <1>4, <2>2, <2>3, <2>4, <2>5, <2>6
<1> QED
    BY <1>3, <1>4 DEF HandlerLoop

LEMMA ConcatAssociative ==
    ASSUME NEW x \in Item, NEW s \in Seq(Item), NEW r \in Seq(Item)
    PROVE  (<<x>> \o s) \o r = <<x>> \o (s \o r)
<1>1. <<x>> \o s \in Seq(Item) /\ s \o r \in Seq(Item) /\ Len(<<x>> \o s) = 1 + Len(s)
    OBVIOUS
<1>2. Len((<<x>> \o s) \o r) = Len(<<x>> \o (s \o r))
    OBVIOUS
<1>3. \A i \in 1 .. Len((<<x>> \o s) \o r) : ((<<x>> \o s) \o r)[i] = (<<x>> \o (s \o r))[i]
    OBVIOUS
<1> QED
    BY <1>1, <1>2, <1>3

\* A handler that returns is removed from the head of the list, unless it is one of
\* several callbacks for a response.
LEMMA ReturnWork ==
    ASSUME Base, NEW h \in HThreads, HandlerReturn(h)
    PROVE  /\ Running /\ Work # <<>> /\ IdleBatch' /\ lastIn' = lastIn
           /\ \/ Work' = Work /\ Running' /\ ran' = ran
              \/ Work' = Tail(Work) /\ ~Running' /\ Head(Work).kind # "response" /\ ran' = ran
              \/ /\ Work' = Tail(Work) /\ ~Running' /\ Head(Work).kind = "response"
                 /\ Len(Head(Work).cbs) <= 1
                 /\ ran' = IF Head(Work).cbs = <<>> THEN ran ELSE ran \cup {Head(Head(Work).cbs)}
              \/ /\ Work' = <<ResponseItem(Head(Work).n, Tail(Head(Work).cbs))>> \o Tail(Work)
                 /\ Running' /\ Head(Work).kind = "response" /\ Len(Head(Work).cbs) > 1
                 /\ ran' = ran \cup {Head(Head(Work).cbs)}
<1>t. /\ queue \in Seq(Item) /\ batch \in [HThreads -> Seq(Item)]
      /\ hpc \in [HThreads -> {"none", "top", "join", "take", "waiting", "batch", "running"}]
      /\ IdleBatch
    BY DEF Base, TypeInv, TypeOK
<1>1. hpc[h] = "running" /\ lastIn' = lastIn
    BY DEF HandlerReturn, ReturnFromEvent, ReturnFromCallback, ReturnBody, ReturnNoResponse,
           RaiseHandlingError, RaiseOther, Returning, InHandler, inVars
<1>2. handlerThread = h /\ h # None /\ Held = batch[h] /\ Running
    BY <1>1, ActiveThread
<1>3. batch[h] # <<>> /\ Work # <<>>
    BY <1>2, WorkTyped
<1>4. /\ Head(Work) = Head(batch[h]) /\ Tail(Work) = Tail(batch[h]) \o queue
      /\ Head(batch[h]) \in Item /\ Tail(batch[h]) \in Seq(Item)
    BY <1>t, <1>2, <1>3 DEF Work
<1>c. Head(batch[h]).cbs \in Seq(Callbacks) /\ Head(batch[h]).n \in Nat
    BY <1>4 DEF Item
<1>5. ASSUME Finish(h) PROVE Work' = Tail(Work) /\ ~Running' /\ IdleBatch'
  <2>1. /\ batch' = [batch EXCEPT ![h] = Tail(@)] /\ hpc' = [hpc EXCEPT ![h] = "batch"]
        /\ queue' = queue /\ handlerThread' = h
    BY <1>2, <1>5 DEF Finish
  <2>2. Held' = Tail(batch[h]) /\ ~Running' /\ IdleBatch'
    BY <1>t, <1>2, <2>1 DEF Held, Running, IdleBatch
  <2> QED
    BY <1>4, <2>1, <2>2 DEF Work
<1>6. CASE ReturnFromEvent(h) \/ ReturnBody(h) \/ ReturnNoResponse(h) \/ RaiseHandlingError(h)
  <2>1. Finish(h) /\ ran' = ran /\ Head(batch[h]).kind # "response"
    BY <1>6 DEF ReturnFromEvent, ReturnBody, ReturnNoResponse, RaiseHandlingError, Returning, inVars
  <2> QED
    BY <1>1, <1>2, <1>3, <1>4, <1>5, <2>1
<1>7. CASE RaiseOther(h)
  <2>1. UNCHANGED hdlVars /\ ran' = ran
    BY <1>7 DEF RaiseOther, inVars
  <2>2. Work' = Work /\ Running' /\ IdleBatch'
    BY <1>t, <1>2, <2>1 DEF hdlVars, Work, Held, Running, IdleBatch
  <2> QED
    BY <1>1, <1>2, <1>3, <2>1, <2>2
<1>8. CASE ReturnFromCallback(h) /\ ~(Len(Head(batch[h]).cbs) > 1)
  <2>1. /\ Finish(h) /\ Head(batch[h]).kind = "response"
        /\ ran' = IF Head(batch[h]).cbs = <<>> THEN ran ELSE ran \cup {Head(Head(batch[h]).cbs)}
    BY <1>8 DEF ReturnFromCallback, Returning
  <2>2. Len(Head(batch[h]).cbs) <= 1
    BY <1>c, <1>8
  <2> QED
    BY <1>1, <1>2, <1>3, <1>4, <1>5, <2>1, <2>2
<1>9. CASE ReturnFromCallback(h) /\ Len(Head(batch[h]).cbs) > 1
  <2> DEFINE first == ResponseItem(Head(batch[h]).n, Tail(Head(batch[h]).cbs))
  <2>1. /\ batch' = [batch EXCEPT ![h] = <<first>> \o Tail(batch[h])]
        /\ queue' = queue /\ handlerThread' = h /\ hpc' = hpc
        /\ Head(batch[h]).kind = "response"
        /\ ran' = IF Head(batch[h]).cbs = <<>> THEN ran ELSE ran \cup {Head(Head(batch[h]).cbs)}
    BY <1>2, <1>9 DEF ReturnFromCallback, Returning
  <2>2. Head(batch[h]).cbs # <<>>
    BY <1>9
  <2>3. Held' = <<first>> \o Tail(batch[h]) /\ Running' /\ IdleBatch'
    BY <1>t, <1>1, <1>2, <2>1 DEF Held, Running, IdleBatch
  <2>4. first \in Item
    <3>1. Tail(Head(batch[h]).cbs) \in Seq(Callbacks)
      BY <1>c, <2>2
    <3> QED
      BY <1>c, <3>1 DEF ResponseItem, Item
  <2>5. Work' = <<first>> \o Tail(Work)
    <3> HIDE DEF first
    <3>1. Work' = (<<first>> \o Tail(batch[h])) \o queue
      BY <2>1, <2>3 DEF Work
    <3>2. (<<first>> \o Tail(batch[h])) \o queue = <<first>> \o (Tail(batch[h]) \o queue)
      BY <1>t, <1>4, <2>4, ConcatAssociative
    <3> QED
      BY <1>4, <3>1, <3>2
  <2> QED
    BY <1>1, <1>2, <1>3, <1>4, <1>9, <2>1, <2>2, <2>3, <2>5
<1> QED
    BY <1>6, <1>7, <1>8, <1>9 DEF HandlerReturn

\* The rest of the steps do not touch the list, other than by _enqueue_handlers().
LEMMA OthersWork ==
    ASSUME Base, UNCHANGED <<queue, handlerThread, hpc, batch>>
    PROVE  Work' = Work /\ (Running' <=> Running) /\ IdleBatch'
BY DEF Base, Work, Held, Running, IdleBatch

-----------------------------------------------------------------------------
(***************************************************************************)
(* The order of events and requests.  Their numbers increase from the last *)
(* one whose handler was started, along the list, to the message in the    *)
(* parser's hands and those on the wire; the disconnect is put at the end  *)
(* of the list by the last act of the parser.                              *)
(***************************************************************************)
Incoming(x) == x.kind \in {"event", "request"}

Before(x, y) == Incoming(y) => x.kind # "disconnect" /\ (Incoming(x) => x.n < y.n)

Sorted(s) == \A i, j \in 1 .. Len(s) : i < j => Before(s[i], s[j])

\* Everything in the list, and what was started, is older than number n.
Newer(n) == lastIn < n /\ \A i \in 1 .. Len(Work) : Incoming(Work[i]) => Work[i].n < n

OrderInv ==
    /\ Sorted(Work)
    /\ \A i \in 1 .. Len(Work) :
        Incoming(Work[i]) /\ ~(Running /\ i = 1) => lastIn < Work[i].n
    /\ pst # "done" => \A i \in 1 .. Len(Work) : Work[i].kind # "disconnect"
    /\ Newer(nextIn + 1)
    /\ Incoming(pmsg) => pmsg.n <= nextIn /\ Newer(pmsg.n)
    /\ \A i \in 1 .. Len(wire) : Incoming(wire[i]) =>
        /\ wire[i].n <= nextIn /\ Newer(wire[i].n)
        /\ Incoming(pmsg) => pmsg.n < wire[i].n
        /\ \A j \in 1 .. i - 1 : Incoming(wire[j]) => wire[j].n < wire[i].n

\* Putting entries at the end, and removing the first.
LEMMA SortedExtended ==
    ASSUME NEW s \in Seq(Item), NEW r \in Seq(Item), Sorted(s), Sorted(r),
           \A i \in 1 .. Len(s), j \in 1 .. Len(r) : Before(s[i], r[j])
    PROVE  Sorted(s \o r)
<1>1. ASSUME NEW i \in 1 .. Len(s \o r), NEW j \in 1 .. Len(s \o r), i < j
      PROVE  Before((s \o r)[i], (s \o r)[j])
  <2>0. Len(s \o r) = Len(s) + Len(r) /\ Len(s) \in Nat /\ Len(r) \in Nat
    OBVIOUS
  <2>1. CASE j <= Len(s)
    BY <1>1, <2>0, <2>1 DEF Sorted
  <2>2. CASE i > Len(s)
    <3>1. (s \o r)[i] = r[i - Len(s)] /\ (s \o r)[j] = r[j - Len(s)]
      BY <1>1, <2>0, <2>2
    <3> QED
      BY <1>1, <2>0, <2>2, <3>1 DEF Sorted
  <2>3. CASE i <= Len(s) /\ j > Len(s)
    <3>1. (s \o r)[i] = s[i] /\ (s \o r)[j] = r[j - Len(s)]
      BY <1>1, <2>0, <2>3
    <3> QED
      BY <1>1, <2>0, <2>3, <3>1
  <2> QED
    BY <2>0, <2>1, <2>2, <2>3
<1> QED
    BY <1>1 DEF Sorted

LEMMA SortedTail ==
    ASSUME NEW s \in Seq(Item), s # <<>>, Sorted(s)
    PROVE  Sorted(Tail(s))
<1>1. Len(Tail(s)) = Len(s) - 1 /\ Len(s) \in Nat
      /\ \A i \in 1 .. Len(Tail(s)) : Tail(s)[i] = s[i + 1]
    OBVIOUS
<1> QED
    BY <1>1 DEF Sorted

\* Entries of a concatenation.
LEMMA EntryOfConcat ==
    ASSUME NEW s \in Seq(Item), NEW r \in Seq(Item), NEW i \in 1 .. Len(s \o r)
    PROVE  \/ i \in 1 .. Len(s) /\ (s \o r)[i] = s[i]
           \/ i - Len(s) \in 1 .. Len(r) /\ (s \o r)[i] = r[i - Len(s)] /\ i > Len(s)
OBVIOUS

\* What the parser enqueues when it wraps up: the handlers of each outstanding
\* request, once, and then the disconnect.
LEMMA DrainItems ==
    ASSUME Base, Drain
    PROVE  \E items \in Seq(Item) :
            /\ EnqueueHandlers(items)
            /\ \A i \in 1 .. Len(items) :
                \/ items[i].kind = "disconnect" /\ items[i].cbs = <<>>
                \/ /\ items[i].kind = "response" /\ items[i].n \in sentRequests
                   /\ items[i].cbs = respHandlers[items[i].n]
            /\ \A i, j \in 1 .. Len(items) :
                items[i].kind = "response" /\ items[j].kind = "response"
                    /\ items[i].n = items[j].n => i = j
            /\ \A s \in sentRequests : \E i \in 1 .. Len(items) :
                items[i].kind = "response" /\ items[i].n = s
<1>1. /\ sentRequests \subseteq Seqs
      /\ respHandlers \in [Seqs -> Seq(Callbacks)]
    BY DEF Base, TypeInv, TypeOK
<1>2. IsFiniteSet(sentRequests) /\ Cardinality(sentRequests) \in Nat
  <2>1. IsFiniteSet(Seqs)
    BY FS_Interval DEF Seqs
  <2>2. IsFiniteSet(sentRequests)
    BY <1>1, <2>1, FS_Subset
  <2> QED
    BY <2>2, FS_CardinalityType
<1>3. PICK order \in Orderings(sentRequests) :
          EnqueueHandlers(
              [i \in 1 .. Len(order) |-> ResponseItem(order[i], respHandlers[order[i]])]
              \o <<[kind |-> "disconnect", n |-> 0, cbs |-> <<>>]>>)
    BY DEF Drain
<1> DEFINE size == Cardinality(sentRequests)
           answers == [i \in 1 .. Len(order) |-> ResponseItem(order[i], respHandlers[order[i]])]
           last == [kind |-> "disconnect", n |-> 0, cbs |-> <<>>]
           items == answers \o <<last>>
<1>4. /\ order \in [1 .. size -> sentRequests]
      /\ \A i, j \in 1 .. size : order[i] = order[j] => i = j
    BY <1>3 DEF Orderings
<1>5. Len(order) = size
    BY <1>2, <1>4
<1>6. \A s \in sentRequests : \E i \in 1 .. size : order[i] = s
  <2>1. order \in Injection(1 .. size, sentRequests)
    BY <1>4 DEF Injection, IsInjective
  <2>2. Cardinality(1 .. size) = size
    BY <1>2, FS_Interval
  <2>3. order \in Surjection(1 .. size, sentRequests)
    BY <1>2, <2>1, <2>2, FS_Injection
  <2> QED
    BY <2>3 DEF Surjection
<1>7. \A i \in 1 .. size : order[i] \in sentRequests /\ order[i] \in Seqs
    BY <1>1, <1>4
<1>8. \A i \in 1 .. size :
          /\ answers[i] = ResponseItem(order[i], respHandlers[order[i]])
          /\ answers[i] \in Item
          /\ answers[i].kind = "response" /\ answers[i].n = order[i]
          /\ answers[i].cbs = respHandlers[order[i]]
    BY <1>1, <1>5, <1>7 DEF ResponseItem, Item, Seqs
<1>9. answers \in Seq(Item) /\ Len(answers) = size /\ last \in Item /\ <<last>> \in Seq(Item)
  <2>1. last \in Item
    BY DEF Item
  <2>2. answers = [i \in 1 .. size |-> answers[i]] /\ size \in Nat
    BY <1>2, <1>5
  <2> HIDE DEF answers, last, size
  <2>3. answers \in Seq(Item) /\ Len(answers) = size
    BY <1>8, <2>2
  <2> QED
    BY <2>1, <2>3
<1>10. EnqueueHandlers(items)
    BY <1>3
<1> HIDE DEF answers, last
<1>11. items \in Seq(Item) /\ Len(items) = size + 1 /\ items[size + 1] = last
       /\ \A i \in 1 .. size : items[i] = answers[i]
    BY <1>2, <1>9
<1>12. last.kind = "disconnect" /\ last.cbs = <<>>
    BY DEF last
<1> HIDE DEF items, size
<1>13. \A i \in 1 .. Len(items) : i \in 1 .. size \/ i = size + 1
    BY <1>2, <1>11 DEF size
<1>14. size \in Nat /\ \A i \in 1 .. size : i \in 1 .. Len(items)
    BY <1>2, <1>11 DEF size
<1>15. \A i \in 1 .. Len(items) :
          \/ items[i].kind = "disconnect" /\ items[i].cbs = <<>>
          \/ /\ items[i].kind = "response" /\ items[i].n \in sentRequests
             /\ items[i].cbs = respHandlers[items[i].n]
    BY <1>7, <1>8, <1>11, <1>12, <1>13
<1>16. \A i, j \in 1 .. Len(items) :
          items[i].kind = "response" /\ items[j].kind = "response"
              /\ items[i].n = items[j].n => i = j
    BY <1>4, <1>8, <1>11, <1>12, <1>13
<1>17. \A s \in sentRequests : \E i \in 1 .. Len(items) :
          items[i].kind = "response" /\ items[i].n = s
    BY <1>6, <1>8, <1>11, <1>14
<1> QED
    BY <1>10, <1>11, <1>15, <1>16, <1>17

\* Handlers of responses, and the disconnect, never come before their turn.
LEMMA QuietOrder ==
    ASSUME Base, OrderInv, NEW items \in Seq(Item), EnqueueHandlers(items),
           \A i \in 1 .. Len(items) : ~Incoming(items[i]),
           \A i \in 1 .. Len(items) : items[i].kind # "disconnect" \/ pst' = "done",
           pst' # "done" => pst # "done",
           pmsg' = pmsg \/ ~Incoming(pmsg'),
           UNCHANGED <<lastIn, wire, nextIn>>
    PROVE  OrderInv'
<1>1. Work' = Work \o items /\ (Running' <=> Running) /\ Work \in Seq(Item)
    BY EnqueueWork, WorkTyped
<1>2. \A i \in 1 .. Len(Work') :
        \/ i \in 1 .. Len(Work) /\ Work'[i] = Work[i]
        \/ i > Len(Work) /\ i - Len(Work) \in 1 .. Len(items) /\ Work'[i] = items[i - Len(Work)]
    BY <1>1, EntryOfConcat
<1>3. Sorted(Work')
  <2>1. Sorted(items)
    BY DEF Sorted, Before
  <2>2. \A i \in 1 .. Len(Work), j \in 1 .. Len(items) : Before(Work[i], items[j])
    BY DEF Before
  <2> QED
    BY <1>1, <2>1, <2>2, SortedExtended DEF OrderInv
<1>4. \A n : Newer(n) =>
        lastIn' < n /\ \A i \in 1 .. Len(Work') : Incoming(Work'[i]) => Work'[i].n < n
    BY <1>2 DEF Newer
<1>5. \A i \in 1 .. Len(Work') : Incoming(Work'[i]) => i \in 1 .. Len(Work) /\ Work'[i] = Work[i]
    BY <1>2
<1>6. pst' # "done" => \A i \in 1 .. Len(Work') : Work'[i].kind # "disconnect"
    BY <1>2 DEF OrderInv
<1>7. \A i \in 1 .. Len(Work') :
        Incoming(Work'[i]) /\ ~(Running' /\ i = 1) => lastIn' < Work'[i].n
    BY <1>1, <1>5 DEF OrderInv
<1>8. (Newer(nextIn + 1))'
    BY <1>4 DEF OrderInv, Newer
<1>9. (Incoming(pmsg) => pmsg.n <= nextIn /\ Newer(pmsg.n))'
    BY <1>4 DEF OrderInv, Newer
<1>10. (\A i \in 1 .. Len(wire) : Incoming(wire[i]) =>
        /\ wire[i].n <= nextIn /\ Newer(wire[i].n)
        /\ Incoming(pmsg) => pmsg.n < wire[i].n
        /\ \A j \in 1 .. i - 1 : Incoming(wire[j]) => wire[j].n < wire[i].n)'
    BY <1>4 DEF OrderInv, Newer
<1> QED
    BY <1>3, <1>6, <1>7, <1>8, <1>9, <1>10 DEF OrderInv

LEMMA InitOrder == Init => IdleBatch /\ OrderInv
<1> SUFFICES ASSUME Init PROVE IdleBatch /\ OrderInv
    OBVIOUS
<1>1. Work = <<>> /\ wire = <<>> /\ Len(Work) = 0 /\ Len(wire) = 0
    BY DEF Init, Work, Held
<1>2. ~Incoming(pmsg) /\ Newer(nextIn + 1)
    BY <1>1 DEF Init, Incoming, NoMessage, Newer
<1>3. IdleBatch
    BY DEF Init, IdleBatch
<1> QED
    BY <1>1, <1>2, <1>3 DEF OrderInv, Sorted

\* The parser: a message that it reads is older than the rest of the wire, and it
\* enqueues what it has read before it reads on.
LEMMA ParserOrder ==
    ASSUME Base, OrderInv, Parser
    PROVE  IdleBatch' /\ OrderInv'
<1>t. /\ pmsg \in Message /\ wire \in Seq(Message) /\ lastIn \in Nat /\ nextIn \in Nat
      /\ respHandlers \in [Seqs -> Seq(Callbacks)] /\ PoppedOK
    BY DEF Base, TypeInv, TypeOK
<1>n. ~Incoming(NoMessage)
    BY DEF Incoming, NoMessage
<1>1. CASE ReadMessage
  <2>1. /\ wire # <<>> /\ wire' = Tail(wire) /\ (pmsg' = Head(wire) \/ pmsg' = pmsg)
        /\ pst # "done" /\ UNCHANGED <<lastIn, nextIn, queue, handlerThread, hpc, batch>>
    BY <1>1 DEF ReadMessage, inVars, hdlVars
  <2>2. Work' = Work /\ (Running' <=> Running) /\ IdleBatch'
    BY <2>1, OthersWork
  <2>3. /\ Len(wire) \in Nat /\ Len(wire') = Len(wire) - 1 /\ Head(wire) = wire[1]
        /\ 1 \in 1 .. Len(wire)
        /\ \A i \in 1 .. Len(wire') : i + 1 \in 1 .. Len(wire) /\ wire'[i] = wire[i + 1]
    BY <1>t, <2>1
  <2>4. \A i \in 1 .. Len(wire) : wire[i].n \in Nat
    <3>1. \A i \in 1 .. Len(wire) : wire[i] \in Message
      BY <1>t
    <3> QED
      BY <3>1 DEF Message
  <2>5. (Incoming(pmsg) => pmsg.n <= nextIn /\ Newer(pmsg.n))'
    BY <2>1, <2>2, <2>3 DEF OrderInv, Newer
  <2>6. (\A i \in 1 .. Len(wire) : Incoming(wire[i]) =>
          /\ wire[i].n <= nextIn /\ Newer(wire[i].n)
          /\ Incoming(pmsg) => pmsg.n < wire[i].n
          /\ \A j \in 1 .. i - 1 : Incoming(wire[j]) => wire[j].n < wire[i].n)'
    <3>1. ASSUME NEW i \in 1 .. Len(wire'), Incoming(wire'[i])
          PROVE  /\ wire'[i].n <= nextIn' /\ (Newer(wire[i].n))'
                 /\ Incoming(pmsg') => pmsg'.n < wire'[i].n
                 /\ \A j \in 1 .. i - 1 : Incoming(wire'[j]) => wire'[j].n < wire'[i].n
      <4>1. i + 1 \in 1 .. Len(wire) /\ wire'[i] = wire[i + 1] /\ 1 \in 1 .. (i + 1) - 1
        BY <2>3, <3>1
      <4>2. wire'[i].n <= nextIn' /\ (Newer(wire[i].n))'
        BY <2>1, <2>2, <3>1, <4>1 DEF OrderInv, Newer
      <4>3. Incoming(pmsg') => pmsg'.n < wire'[i].n
        BY <2>1, <2>3, <3>1, <4>1 DEF OrderInv
      <4>4. \A j \in 1 .. i - 1 : j + 1 \in 1 .. (i + 1) - 1 /\ wire'[j] = wire[j + 1]
        BY <2>3, <3>1
      <4>5. \A j \in 1 .. i - 1 : Incoming(wire'[j]) => wire'[j].n < wire'[i].n
        BY <3>1, <4>1, <4>4 DEF OrderInv
      <4> QED
        BY <4>2, <4>3, <4>5
    <3> QED
      BY <3>1
  <2> QED
    BY <2>1, <2>2, <2>5, <2>6 DEF OrderInv, Newer
<1>2. CASE ParseInvalid \/ PopRequest
  <2>1. /\ wire' = wire /\ (pmsg' = NoMessage \/ pmsg' = pmsg)
        /\ pst # "done" /\ UNCHANGED <<lastIn, nextIn, queue, handlerThread, hpc, batch>>
    BY <1>2 DEF ParseInvalid, PopRequest, NextMessage, inVars, hdlVars, peerVars
  <2>2. Work' = Work /\ (Running' <=> Running) /\ IdleBatch'
    BY <2>1, OthersWork
  <2> QED
    BY <1>n, <2>1, <2>2 DEF OrderInv, Newer
<1>3. CASE SetResponse \/ SetUnknownResponse
  <2>1. ASSUME NEW s \in Nat, NEW cbs \in Seq(Callbacks), EnqueueHandlers(<<ResponseItem(s, cbs)>>)
        PROVE  IdleBatch' /\ OrderInv'
    <3> DEFINE items == <<ResponseItem(s, cbs)>>
    <3>1. pst # "done" /\ pst' # "done" /\ pmsg' = NoMessage /\ UNCHANGED <<lastIn, wire, nextIn>>
      BY <1>3 DEF SetResponse, SetUnknownResponse, NextMessage, inVars, peerVars
    <3>2. ResponseItem(s, cbs) \in Item /\ ResponseItem(s, cbs).kind = "response"
      BY DEF ResponseItem, Item
    <3>3. items \in Seq(Item) /\ \A i \in 1 .. Len(items) : items[i].kind = "response"
      BY <3>2
    <3>4. EnqueueHandlers(items)
      BY <2>1
    <3> HIDE DEF items
    <3>5. IdleBatch'
      BY <3>3, <3>4, EnqueueWork
    <3> QED
      BY <1>n, <3>1, <3>3, <3>4, <3>5, QuietOrder DEF Incoming
  <2>2. CASE SetResponse
    <3>1. /\ EnqueueHandlers(<<ResponseItem(pmsg.n, respHandlers[pmsg.n])>>)
          /\ pmsg.n \in Seqs
      BY <1>t, <2>2 DEF SetResponse, PoppedOK
    <3>2. pmsg.n \in Nat /\ respHandlers[pmsg.n] \in Seq(Callbacks)
      BY <1>t, <3>1 DEF Seqs
    <3> QED
      BY <2>1, <3>1, <3>2
  <2>3. CASE SetUnknownResponse
    <3>1. EnqueueHandlers(<<ResponseItem(0, <<>>)>>) /\ 0 \in Nat /\ <<>> \in Seq(Callbacks)
      BY <2>3 DEF SetUnknownResponse
    <3> QED
      BY <2>1, <3>1
  <2> QED
    BY <1>3, <2>2, <2>3
<1>4. CASE Drain
  <2>1. PICK items \in Seq(Item) :
            /\ EnqueueHandlers(items)
            /\ \A i \in 1 .. Len(items) : items[i].kind \in {"disconnect", "response"}
    BY <1>4, DrainItems
  <2>2. pst' = "done" /\ pmsg' = pmsg /\ UNCHANGED <<lastIn, wire, nextIn>>
    BY <1>4 DEF Drain, inVars, peerVars
  <2>3. IdleBatch'
    BY <2>1, EnqueueWork
  <2> QED
    BY <2>1, <2>2, <2>3, QuietOrder DEF Incoming
<1>5. CASE ParseEventOrRequest
  <2> DEFINE item == [kind |-> pmsg.kind, n |-> pmsg.n, cbs |-> <<>>]
  <2>1. /\ EnqueueHandlers(<<item>>) /\ Incoming(pmsg) /\ pst # "done" /\ pst' # "done"
        /\ pmsg' = NoMessage /\ UNCHANGED <<lastIn, wire, nextIn>>
    BY <1>5 DEF ParseEventOrRequest, NextMessage, inVars, peerVars, Incoming
  <2>2. item \in Item /\ Incoming(item) /\ item.n = pmsg.n /\ item.kind # "disconnect"
        /\ item.n \in Nat
    BY <1>t, <1>5, <2>1 DEF ParseEventOrRequest, Incoming, Item, Message
  <2> HIDE DEF item
  <2>s. <<item>> \in Seq(Item) /\ Len(<<item>>) = 1 /\ <<item>>[1] = item
    BY <2>2
  <2>3. Work' = Work \o <<item>> /\ (Running' <=> Running) /\ IdleBatch' /\ Work \in Seq(Item)
        /\ <<item>> \in Seq(Item)
    BY <2>1, <2>s, EnqueueWork, WorkTyped
  <2>4. \A i \in 1 .. Len(Work') : \/ i \in 1 .. Len(Work) /\ Work'[i] = Work[i]
                                   \/ Work'[i] = item
    BY <2>2, <2>3
  <2>5. lastIn < item.n /\ \A i \in 1 .. Len(Work) : Incoming(Work[i]) => Work[i].n < item.n
    BY <2>1, <2>2 DEF OrderInv, Newer
  <2>6. Sorted(Work')
    <3>1. Sorted(<<item>>)
      BY <2>2 DEF Sorted
    <3>2. \A i \in 1 .. Len(Work) : Before(Work[i], item)
      BY <2>1, <2>5 DEF Before, OrderInv
    <3>3. \A i \in 1 .. Len(Work), j \in 1 .. Len(<<item>>) : Before(Work[i], <<item>>[j])
      BY <2>s, <3>2
    <3> QED
      BY <2>s, <2>3, <3>1, <3>3, SortedExtended DEF OrderInv
  <2>7. \A n : Newer(n) /\ item.n < n =>
          lastIn' < n /\ \A i \in 1 .. Len(Work') : Incoming(Work'[i]) => Work'[i].n < n
    BY <2>1, <2>4 DEF Newer
  <2>8. (\A i \in 1 .. Len(Work) :
            Incoming(Work[i]) /\ ~(Running /\ i = 1) => lastIn < Work[i].n)'
    BY <2>1, <2>3, <2>4, <2>5 DEF OrderInv
  <2>9. \A i \in 1 .. Len(Work') : Work'[i].kind # "disconnect"
    BY <2>1, <2>2, <2>4 DEF OrderInv
  <2>10. (Newer(nextIn + 1))'
    <3>1. item.n < nextIn + 1
      BY <1>t, <2>1, <2>2 DEF OrderInv
    <3> QED
      BY <2>1, <2>7, <3>1 DEF OrderInv, Newer
  <2>11. (\A i \in 1 .. Len(wire) : Incoming(wire[i]) =>
          /\ wire[i].n <= nextIn /\ Newer(wire[i].n)
          /\ Incoming(pmsg) => pmsg.n < wire[i].n
          /\ \A j \in 1 .. i - 1 : Incoming(wire[j]) => wire[j].n < wire[i].n)'
    BY <1>n, <2>1, <2>2, <2>7 DEF OrderInv, Newer
  <2> QED
    BY <1>n, <2>1, <2>3, <2>6, <2>8, <2>9, <2>10, <2>11 DEF OrderInv
<1> QED
    BY <1>1, <1>2, <1>3, <1>4, <1>5 DEF Parser

\* Threads that use the channel: on_response() may enqueue the handler of a response.
LEMMA CallerOrder ==
    ASSUME Base, OrderInv, NEW t \in Threads, Caller(t)
    PROVE  IdleBatch' /\ OrderInv'
<1>t. /\ respHandlers \in [Seqs -> Seq(Callbacks)] /\ RequestOK
    BY DEF Base, TypeInv, TypeOK
<1>1. UNCHANGED <<lastIn, wire, nextIn, pmsg, pst>>
  <2>1. CASE TakeSeq(t) \/ RegisterAndWrite(t) \/ BeginWait(t) \/ WakeFromWait(t) \/ Forget(t)
             \/ Close(t)
    BY <2>1 DEF TakeSeq, RegisterAndWrite, BeginWait, WakeFromWait, Forget, Close, inVars,
                peerVars, parVars
  <2>2. CASE \E c \in Callbacks : OnResponse(t, c)
    BY <2>2 DEF OnResponse, inVars, peerVars, parVars
  <2>3. CASE \E n \in 1 .. MaxIn : RespondDeferred(t, n)
    BY <2>3 DEF RespondDeferred, peerVars, parVars
  <2> QED
    BY <2>1, <2>2, <2>3 DEF Caller
<1>2. CASE UNCHANGED hdlVars
  <2>1. Work' = Work /\ (Running' <=> Running) /\ IdleBatch'
    BY <1>2, OthersWork DEF hdlVars
  <2> QED
    BY <1>1, <2>1 DEF OrderInv, Newer
<1>3. CASE \E c \in Callbacks : OnResponse(t, c) /\ ~UNCHANGED hdlVars
  <2>1. PICK c \in Callbacks : OnResponse(t, c) /\ ~UNCHANGED hdlVars
    BY <1>3
  <2> DEFINE item == ResponseItem(treq[t], Append(respHandlers[treq[t]], c))
             items == <<item>>
  <2>2. EnqueueHandlers(items) /\ tpc[t] = "sent"
    BY <2>1 DEF OnResponse
  <2>3. treq[t] \in Nat /\ Append(respHandlers[treq[t]], c) \in Seq(Callbacks)
    BY <1>t, <2>2 DEF RequestOK, Seqs
  <2>4. item \in Item /\ item.kind = "response"
    BY <2>3 DEF ResponseItem, Item
  <2> HIDE DEF item
  <2>5. items \in Seq(Item) /\ \A i \in 1 .. Len(items) : items[i].kind = "response"
    BY <2>4
  <2> HIDE DEF items
  <2>6. IdleBatch'
    BY <2>2, <2>5, EnqueueWork
  <2> QED
    BY <1>1, <2>2, <2>5, <2>6, QuietOrder DEF Incoming
<1>4. UNCHANGED hdlVars \/ \E c \in Callbacks : OnResponse(t, c)
    BY DEF Caller, TakeSeq, RegisterAndWrite, BeginWait, WakeFromWait, Forget, Close,
           RespondDeferred
<1> QED
    BY <1>2, <1>3, <1>4

\* The handler thread starts the entry at the head.
LEMMA LoopOrder ==
    ASSUME Base, OrderInv, NEW h \in HThreads, HandlerLoop(h)
    PROVE  IdleBatch' /\ OrderInv'
<1>1. UNCHANGED <<wire, nextIn, pmsg, pst>>
    BY DEF HandlerLoop, HandlerTop, HandlerJoin, HandlerTake, HandlerWake, NextHandler, peerVars,
           parVars
<1>2. Work' = Work /\ IdleBatch' /\ Work \in Seq(Item)
    BY LoopWork, WorkTyped
<1>3. CASE (Running' <=> Running) /\ lastIn' = lastIn
    BY <1>1, <1>2, <1>3 DEF OrderInv, Newer
<1>4. CASE /\ ~Running /\ Running' /\ Work # <<>>
           /\ lastIn' = IF Head(Work).kind \in {"event", "request"} THEN Head(Work).n ELSE lastIn
  <2>1. 1 \in 1 .. Len(Work) /\ Head(Work) = Work[1] /\ Len(Work) \in Nat
    BY <1>2, <1>4
  <2>2. CASE ~Incoming(Work[1])
    <3>1. lastIn' = lastIn
      BY <1>4, <2>1, <2>2 DEF Incoming
    <3> QED
      BY <1>1, <1>2, <1>4, <3>1 DEF OrderInv, Newer
  <2>3. CASE Incoming(Work[1])
    <3>1. lastIn' = Work[1].n
      BY <1>4, <2>1, <2>3 DEF Incoming
    <3>2. \A n : Newer(n) => lastIn' < n
      BY <2>1, <2>3, <3>1 DEF Newer
    <3>3. \A i \in 1 .. Len(Work) : Incoming(Work[i]) /\ i # 1 => lastIn' < Work[i].n
      BY <2>1, <2>3, <3>1 DEF OrderInv, Sorted, Before
    <3> QED
      BY <1>1, <1>2, <1>4, <3>2, <3>3 DEF OrderInv, Newer
  <2> QED
    BY <2>2, <2>3
<1> QED
    BY <1>3, <1>4, LoopWork

\* A handler that returns leaves the rest of the list in order.
LEMMA ReturnOrder ==
    ASSUME Base, OrderInv, NEW h \in HThreads, HandlerReturn(h)
    PROVE  IdleBatch' /\ OrderInv'
<1>1. UNCHANGED <<wire, nextIn, pmsg, pst>>
    BY DEF HandlerReturn, ReturnFromEvent, ReturnFromCallback, ReturnBody, ReturnNoResponse,
           RaiseHandlingError, RaiseOther, peerVars, parVars
<1>2. Running /\ Work # <<>> /\ IdleBatch' /\ lastIn' = lastIn /\ Work \in Seq(Item)
    BY ReturnWork, WorkTyped
<1>3. CASE Work' = Work /\ Running'
    BY <1>1, <1>2, <1>3 DEF OrderInv, Newer
<1>4. CASE Work' = Tail(Work) /\ ~Running'
  <2>1. Len(Work') = Len(Work) - 1 /\ Len(Work) \in Nat
        /\ \A i \in 1 .. Len(Work') : i + 1 \in 1 .. Len(Work) /\ i + 1 # 1 /\ Work'[i] = Work[i + 1]
    BY <1>2, <1>4
  <2>2. Sorted(Work')
    BY <1>2, <1>4, SortedTail DEF OrderInv
  <2>3. \A n : Newer(n) =>
          lastIn' < n /\ \A i \in 1 .. Len(Work') : Incoming(Work'[i]) => Work'[i].n < n
    BY <1>2, <2>1 DEF Newer
  <2>4. \A i \in 1 .. Len(Work') : Incoming(Work'[i]) => lastIn' < Work'[i].n
    BY <1>2, <2>1 DEF OrderInv
  <2>5. pst' # "done" => \A i \in 1 .. Len(Work') : Work'[i].kind # "disconnect"
    BY <1>1, <2>1 DEF OrderInv
  <2> QED
    BY <1>1, <1>2, <2>2, <2>3, <2>4, <2>5 DEF OrderInv, Newer
<1>5. CASE /\ Work' = <<ResponseItem(Head(Work).n, Tail(Head(Work).cbs))>> \o Tail(Work)
           /\ Running' /\ Head(Work).kind = "response" /\ Len(Head(Work).cbs) > 1
  <2>1. /\ Len(Work') = Len(Work) /\ Len(Work) \in Nat /\ Work[1].kind = "response"
        /\ Work'[1] = ResponseItem(Head(Work).n, Tail(Head(Work).cbs))
        /\ \A i \in 1 .. Len(Work) : i # 1 => Work'[i] = Work[i]
    BY <1>2, <1>5
  <2>2. Work'[1].kind = "response"
    BY <2>1 DEF ResponseItem
  <2>3. \A i \in 1 .. Len(Work) :
          /\ Incoming(Work'[i]) => i # 1 /\ Work'[i] = Work[i]
          /\ Incoming(Work[i]) => i # 1 /\ Work'[i] = Work[i]
          /\ Work'[i].kind = "disconnect" <=> Work[i].kind = "disconnect"
    BY <2>1, <2>2 DEF Incoming
  <2>4. Sorted(Work')
    BY <2>1, <2>3 DEF OrderInv, Sorted, Before
  <2>5. \A n : Newer(n) =>
          lastIn' < n /\ \A i \in 1 .. Len(Work') : Incoming(Work'[i]) => Work'[i].n < n
    BY <1>2, <2>1, <2>3 DEF Newer
  <2>6. \A i \in 1 .. Len(Work') : Incoming(Work'[i]) => lastIn' < Work'[i].n
    BY <1>2, <2>1, <2>3 DEF OrderInv
  <2>7. pst' # "done" => \A i \in 1 .. Len(Work') : Work'[i].kind # "disconnect"
    BY <1>1, <2>1, <2>3 DEF OrderInv
  <2> QED
    BY <1>1, <1>2, <2>4, <2>5, <2>6, <2>7 DEF OrderInv, Newer
<1> QED
    BY <1>3, <1>4, <1>5, ReturnWork

\* The other party numbers its messages.
LEMMA PeerOrder ==
    ASSUME Base, OrderInv, Peer
    PROVE  IdleBatch' /\ OrderInv'
<1>t. nextIn \in Nat /\ wire \in Seq(Message) /\ lastIn \in Nat /\ pmsg \in Message
    BY DEF Base, TypeInv, TypeOK
<1>1. UNCHANGED <<queue, handlerThread, hpc, batch, lastIn, pmsg, pst>>
    BY DEF Peer, PeerSend, PeerRespond, PeerDisconnect, hdlVars, inVars, parVars
<1>2. Work' = Work /\ (Running' <=> Running) /\ IdleBatch' /\ Work \in Seq(Item)
    BY <1>1, OthersWork, WorkTyped
<1>n. /\ \A i \in 1 .. Len(Work) : Work[i].n \in Nat
      /\ \A i \in 1 .. Len(wire) : wire[i].n \in Nat
      /\ pmsg.n \in Nat
  <2>1. /\ \A i \in 1 .. Len(Work) : Work[i] \in Item
        /\ \A i \in 1 .. Len(wire) : wire[i] \in Message
    BY <1>t, <1>2
  <2> QED
    BY <1>t, <2>1 DEF Item, Message
<1>l. \A n \in Nat : nextIn <= n => lastIn < n + 1
  <2>1. lastIn < nextIn + 1
    BY DEF OrderInv, Newer
  <2> QED
    BY <1>t, <2>1
<1>3. CASE PeerDisconnect
    BY <1>1, <1>2, <1>3 DEF PeerDisconnect, OrderInv, Newer
<1>4. CASE Peer /\ ~PeerDisconnect
  <2>1. PICK m \in Message :
          /\ wire' = Append(wire, m)
          /\ \/ Incoming(m) /\ m.n = nextIn + 1 /\ nextIn' = nextIn + 1
             \/ ~Incoming(m) /\ nextIn' \in {nextIn, nextIn + 1}
    <3>1. CASE \E kind \in AllKinds : PeerSend(kind)
      <4>1. PICK kind \in AllKinds : PeerSend(kind)
        BY <3>1
      <4> DEFINE m == [kind |-> kind, n |-> IF kind \in {"event", "request"} THEN nextIn + 1 ELSE 0]
      <4>2. m \in Message /\ wire' = Append(wire, m) /\ nextIn' = nextIn + 1
        BY <1>t, <4>1 DEF PeerSend, Message
      <4>3. (Incoming(m) /\ m.n = nextIn + 1) \/ ~Incoming(m)
        BY DEF Incoming
      <4> HIDE DEF m
      <4> QED
        BY <4>2, <4>3
    <3>2. CASE \E s \in Seqs : PeerRespond(s)
      <4>1. PICK s \in Seqs : PeerRespond(s)
        BY <3>2
      <4> DEFINE m == [kind |-> "response", n |-> s]
      <4>2. m \in Message /\ wire' = Append(wire, m) /\ nextIn' = nextIn
        BY <4>1 DEF PeerRespond, Message, AllKinds, Seqs
      <4>3. ~Incoming(m)
        BY DEF Incoming
      <4> HIDE DEF m
      <4> QED
        BY <4>2, <4>3
    <3> QED
      BY <1>4, <3>1, <3>2 DEF Peer
  <2>2. /\ Len(wire') = Len(wire) + 1 /\ Len(wire) \in Nat /\ wire'[Len(wire) + 1] = m
        /\ \A i \in 1 .. Len(wire) : wire'[i] = wire[i]
    BY <1>t, <2>1
  <2>3. nextIn' \in Nat /\ nextIn <= nextIn'
    BY <1>t, <2>1
  <2>4. (Newer(nextIn + 1))'
    <3>1. lastIn < nextIn' + 1
      BY <1>l, <2>3
    <3>2. \A i \in 1 .. Len(Work) : Incoming(Work[i]) => Work[i].n < nextIn + 1
      BY DEF OrderInv, Newer
    <3>3. \A i \in 1 .. Len(Work) : Incoming(Work[i]) => Work[i].n < nextIn' + 1
      BY <1>t, <1>n, <2>3, <3>2
    <3> QED
      BY <1>1, <1>2, <3>1, <3>3 DEF Newer
  <2>5. (Incoming(pmsg) => pmsg.n <= nextIn /\ Newer(pmsg.n))'
    BY <1>t, <1>n, <1>1, <1>2, <2>3 DEF OrderInv, Newer
  <2>6. (\A i \in 1 .. Len(wire) : Incoming(wire[i]) =>
          /\ wire[i].n <= nextIn /\ Newer(wire[i].n)
          /\ Incoming(pmsg) => pmsg.n < wire[i].n
          /\ \A j \in 1 .. i - 1 : Incoming(wire[j]) => wire[j].n < wire[i].n)'
    <3>1. ASSUME NEW i \in 1 .. Len(wire), Incoming(wire'[i])
          PROVE  /\ wire'[i].n <= nextIn' /\ (Newer(wire[i].n))'
                 /\ Incoming(pmsg') => pmsg'.n < wire'[i].n
                 /\ \A j \in 1 .. i - 1 : Incoming(wire'[j]) => wire'[j].n < wire'[i].n
      <4>1. wire'[i] = wire[i] /\ wire[i].n \in Nat /\ \A j \in 1 .. i - 1 : wire'[j] = wire[j]
        BY <1>n, <2>2, <3>1
      <4>2. wire'[i].n <= nextIn'
        BY <1>t, <2>3, <3>1, <4>1 DEF OrderInv
      <4> QED
        BY <1>1, <1>2, <3>1, <4>1, <4>2 DEF OrderInv, Newer
    <3>2. ASSUME Incoming(m)
          PROVE  /\ m.n <= nextIn' /\ lastIn' < m.n
                 /\ \A i \in 1 .. Len(Work') : Incoming(Work'[i]) => Work'[i].n < m.n
                 /\ Incoming(pmsg') => pmsg'.n < m.n
                 /\ \A j \in 1 .. Len(wire) : Incoming(wire'[j]) => wire'[j].n < m.n
      <4>1. m.n = nextIn + 1 /\ nextIn' = nextIn + 1
        BY <2>1, <3>2
      <4>2. /\ m.n <= nextIn' /\ lastIn' < m.n
            /\ \A i \in 1 .. Len(Work') : Incoming(Work'[i]) => Work'[i].n < m.n
        BY <1>t, <1>1, <1>2, <4>1 DEF OrderInv, Newer
      <4>3. Incoming(pmsg') => pmsg'.n < m.n
        BY <1>t, <1>n, <1>1, <4>1 DEF OrderInv
      <4>4. \A j \in 1 .. Len(wire) : Incoming(wire'[j]) => wire'[j].n < m.n
        BY <1>t, <1>n, <2>2, <4>1 DEF OrderInv
      <4> QED
        BY <4>2, <4>3, <4>4
    <3>3. \A i \in 1 .. Len(wire') : i \in 1 .. Len(wire) \/ i = Len(wire) + 1
      BY <2>2
    <3>4. (Len(wire) + 1) - 1 = Len(wire)
      BY <2>2
    <3> QED
      BY <2>2, <3>1, <3>2, <3>3, <3>4 DEF Newer
  <2> QED
    BY <1>1, <1>2, <2>4, <2>5, <2>6 DEF OrderInv
<1> QED
    BY <1>3, <1>4

LEMMA OrderInvariant == Spec => [](Base /\ OrderInv)
<1>1. Init => Base /\ OrderInv
    BY InitTyped, InitSafe, InitOrder DEF Base
<1>2. ASSUME Base, OrderInv, [Next]_vars PROVE (Base /\ OrderInv)'
  <2>1. TypeInv' /\ SafetyInv'
    BY <1>2, StepTyped, StepSafe DEF Base
  <2>2. CASE UNCHANGED vars
    <3>1. /\ Work' = Work /\ (Running' <=> Running) /\ IdleBatch'
          /\ UNCHANGED <<lastIn, wire, nextIn, pmsg, pst>>
      BY <1>2, <2>2, OthersWork DEF vars, hdlVars, inVars, parVars, peerVars
    <3> QED
      BY <1>2, <2>1, <3>1 DEF OrderInv, Newer, Base
  <2>3. CASE Next
    BY <1>2, <2>1, <2>3, CallerOrder, ParserOrder, LoopOrder, ReturnOrder, PeerOrder DEF Next, Base
  <2> QED
    BY <1>2, <2>2, <2>3
<1> QED
    BY <1>1, <1>2, PTL DEF Spec

\* Events and requests are handled in the order in which they came, each once, and
\* none after the disconnect, whatever threads come and go in between.
THEOREM MessagesInOrder == Spec => []HandledInOrder
<1>1. ASSUME Base, OrderInv PROVE HandledInOrder
  <2>1. Held \in Seq(Item) /\ queue \in Seq(Item) /\ Work \in Seq(Item)
        /\ (Running => Held # <<>>)
    BY <1>1, WorkTyped
  <2>2. CASE ~Running
    <3>1. Backlog = Work
      BY <2>2 DEF Backlog, Work, Held, Running
    <3>2. DOMAIN Work = 1 .. Len(Work)
      BY <2>1
    <3> HIDE DEF Work
    <3> QED
      BY <1>1, <2>2, <3>1, <3>2 DEF HandledInOrder, OrderInv, Sorted, Before, Incoming
  <2>3. CASE Running
    <3>1. Backlog = Tail(Held) \o queue
      BY <2>3 DEF Backlog, Held, Running
    <3>2. Backlog = Tail(Work) /\ Work # <<>>
      BY <2>1, <2>3, <3>1 DEF Work
    <3>3. /\ DOMAIN Backlog = 1 .. Len(Work) - 1 /\ Len(Work) \in Nat
          /\ \A i \in DOMAIN Backlog : i + 1 \in 1 .. Len(Work) /\ i + 1 # 1
                                       /\ Backlog[i] = Work[i + 1]
      BY <2>1, <3>2
    <3>4. \A i \in DOMAIN Backlog : Incoming(Backlog[i]) => Backlog[i].n > lastIn
      <4>1. \A i \in DOMAIN Backlog : Incoming(Backlog[i]) => lastIn < Backlog[i].n
        BY <1>1, <3>3 DEF OrderInv
      <4> QED
        BY <4>1
    <3>5. \A i, j \in DOMAIN Backlog : j < i => Before(Backlog[j], Backlog[i])
      BY <1>1, <3>3 DEF OrderInv, Sorted
    <3> QED
      BY <3>4, <3>5 DEF HandledInOrder, Before, Incoming
  <2> QED
    BY <2>2, <2>3
<1> QED
    BY <1>1, OrderInvariant, PTL

-----------------------------------------------------------------------------
(***************************************************************************)
(* Callbacks.  One that was passed to on_response() is in one place: with  *)
(* its request, as long as that has no response; in one entry of the list, *)
(* at one position; or it has been invoked.                                *)
(***************************************************************************)
At(c, s, k) == s \in Seqs /\ k \in 1 .. Len(respHandlers[s]) /\ respHandlers[s][k] = c
In(c, i, j) == i \in 1 .. Len(Work) /\ j \in 1 .. Len(Work[i].cbs) /\ Work[i].cbs[j] = c

Answered(c) == cbReq[c] \in Seqs /\ response[cbReq[c]] # None

OnceInv ==
    /\ \A c \in ran : Answered(c)
    /\ \A c \in Callbacks : \A s, k : At(c, s, k) => cbReq[c] = s /\ response[s] = None
    /\ \A c \in Callbacks : \A s, k, l : At(c, s, k) /\ At(c, s, l) => k = l
    /\ \A c \in Callbacks : \A i, j : In(c, i, j) => Answered(c) /\ c \notin ran
    /\ \A c \in Callbacks : \A i, j, m, l : In(c, i, j) /\ In(c, m, l) => i = m /\ j = l
    /\ \A c \in Callbacks : cbReq[c] # 0 =>
        \/ c \in ran
        \/ \E k : At(c, cbReq[c], k)
        \/ \E i, j : In(c, i, j)
    /\ \A i \in 1 .. Len(Work) : Work[i].kind # "response" => Work[i].cbs = <<>>

LEMMA InitOnce == Init => OnceInv
<1> SUFFICES ASSUME Init PROVE OnceInv
    OBVIOUS
<1>1. Work = <<>> /\ Len(Work) = 0
    BY DEF Init, Work, Held
<1>2. \A c, i, j : ~In(c, i, j)
    BY <1>1 DEF In
<1>3. \A c, s, k : ~At(c, s, k)
    BY DEF At, Init
<1> QED
    BY <1>1, <1>2, <1>3 DEF Init, OnceInv

\* Nothing that matters here changes.
LEMMA FrameOnce ==
    ASSUME OnceInv, Work' = Work, UNCHANGED <<ran, respHandlers, cbReq, response>>
    PROVE  OnceInv'
<1>1. \A c, i, j : In(c, i, j)' <=> In(c, i, j)
    BY DEF In
<1>2. \A c, s, k : At(c, s, k)' <=> At(c, s, k)
    BY DEF At
<1>3. \A c : Answered(c)' <=> Answered(c)
    BY DEF Answered
<1> QED
    BY <1>1, <1>2, <1>3 DEF OnceInv

\* The callbacks of the requests in S are moved to the list, each request's to one
\* entry, when these requests get their responses.
LEMMA MoveOnce ==
    ASSUME Base, OnceInv, NEW S \in SUBSET Seqs, NEW items \in Seq(Item),
           Work' = Work \o items,
           \A i \in 1 .. Len(items) :
                items[i].cbs = <<>> \/ (/\ items[i].kind = "response" /\ items[i].n \in S
                                        /\ items[i].cbs = respHandlers[items[i].n]),
           \A i, j \in 1 .. Len(items) :
                items[i].cbs # <<>> /\ items[j].cbs # <<>> /\ items[i].n = items[j].n => i = j,
           \A s \in S : respHandlers[s] = <<>>
                        \/ \E i \in 1 .. Len(items) : items[i].n = s /\ items[i].cbs = respHandlers[s],
           respHandlers' = [s \in Seqs |-> IF s \in S THEN <<>> ELSE respHandlers[s]],
           \A s \in Seqs : IF s \in S THEN response'[s] # None ELSE response'[s] = response[s],
           UNCHANGED <<ran, cbReq>>
    PROVE  OnceInv'
<1>t. /\ Work \in Seq(Item) /\ respHandlers \in [Seqs -> Seq(Callbacks)]
      /\ \A i \in 1 .. Len(items) : items[i].cbs \in Seq(Callbacks)
      /\ cbReq \in [Callbacks -> 0 .. MaxSeq]
      /\ ran \subseteq Callbacks
  <2>1. \A i \in 1 .. Len(items) : items[i] \in Item
    OBVIOUS
  <2> QED
    BY <2>1, WorkTyped DEF Base, TypeInv, TypeOK, Item
<1>1. \A i \in 1 .. Len(Work') :
        \/ i \in 1 .. Len(Work) /\ Work'[i] = Work[i]
        \/ i > Len(Work) /\ i - Len(Work) \in 1 .. Len(items) /\ Work'[i] = items[i - Len(Work)]
    BY <1>t, EntryOfConcat
<1>2. /\ \A i \in 1 .. Len(Work) : i \in 1 .. Len(Work') /\ Work'[i] = Work[i]
      /\ \A i \in 1 .. Len(items) : Len(Work) + i \in 1 .. Len(Work')
                                    /\ Work'[Len(Work) + i] = items[i]
      /\ Len(Work) \in Nat
    BY <1>t
<1> DEFINE New(c, i, j) == i \in 1 .. Len(items) /\ j \in 1 .. Len(items[i].cbs)
                           /\ items[i].cbs[j] = c
<1>3. ASSUME NEW c, NEW i, NEW j, New(c, i, j)
      PROVE  At(c, items[i].n, j) /\ items[i].n \in S /\ items[i].cbs # <<>>
  <2>1. items[i].cbs # <<>>
    BY <1>3, <1>t
  <2> QED
    BY <1>3, <2>1 DEF At
<1>4. \A c, i, j : In(c, i, j)' => In(c, i, j) \/ (New(c, i - Len(Work), j) /\ i > Len(Work))
  <2>1. SUFFICES ASSUME NEW c, NEW i, NEW j, In(c, i, j)'
                 PROVE  In(c, i, j) \/ (New(c, i - Len(Work), j) /\ i > Len(Work))
    OBVIOUS
  <2>2. i \in 1 .. Len(Work') /\ j \in 1 .. Len(Work'[i].cbs) /\ Work'[i].cbs[j] = c
    BY <2>1 DEF In
  <2>3. CASE i \in 1 .. Len(Work) /\ Work'[i] = Work[i]
    <3>1. In(c, i, j)
      BY <2>2, <2>3 DEF In
    <3> QED
      BY <3>1
  <2>4. CASE i > Len(Work) /\ i - Len(Work) \in 1 .. Len(items)
             /\ Work'[i] = items[i - Len(Work)]
    BY <2>2, <2>4
  <2> QED
    BY <1>1, <2>2, <2>3, <2>4
<1> HIDE DEF New
<1>5. \A c, i, j : In(c, i, j) => In(c, i, j)'
    BY <1>2 DEF In
<1>6. \A c, s, k : At(c, s, k)' <=> At(c, s, k) /\ s \notin S
    BY DEF At
<1>7. \A c, s, k : At(c, s, k) /\ s \in S => \E i, j : In(c, i, j)'
  <2>1. SUFFICES ASSUME NEW c, NEW s, NEW k, At(c, s, k), s \in S
                 PROVE  \E i, j : In(c, i, j)'
    OBVIOUS
  <2>2. respHandlers[s] # <<>>
    BY <1>t, <2>1 DEF At
  <2>3. PICK i \in 1 .. Len(items) : items[i].cbs = respHandlers[s]
    BY <2>1, <2>2
  <2>4. PICK m : m = Len(Work) + i
    OBVIOUS
  <2>5. m \in 1 .. Len(Work') /\ Work'[m] = items[i]
    BY <1>2, <2>4
  <2>6. k \in 1 .. Len(respHandlers[s]) /\ respHandlers[s][k] = c
    BY <2>1 DEF At
  <2>7. In(c, m, k)'
    BY <2>3, <2>5, <2>6 DEF In
  <2> QED
    BY <2>7
<1>8. \A c \in Callbacks : Answered(c) => Answered(c)'
    BY DEF Answered
<1>9. \A c \in Callbacks : \A i, j : In(c, i, j)' => Answered(c)' /\ c \notin ran'
  <2>1. SUFFICES ASSUME NEW c \in Callbacks, NEW i, NEW j, In(c, i, j)'
                 PROVE  Answered(c)' /\ c \notin ran'
    OBVIOUS
  <2>2. CASE In(c, i, j)
    BY <1>8, <2>2 DEF OnceInv
  <2>3. CASE New(c, i - Len(Work), j)
    <3> DEFINE s == items[i - Len(Work)].n
    <3>1. At(c, s, j) /\ s \in S
      BY <1>3, <2>3
    <3>2. cbReq[c] = s /\ response[s] = None
      BY <3>1 DEF OnceInv
    <3>3. c \notin ran
      BY <3>2 DEF OnceInv, Answered
    <3> QED
      BY <3>1, <3>2, <3>3 DEF Answered
  <2> QED
    BY <1>4, <2>1, <2>2, <2>3
<1>10. \A c \in Callbacks : \A i, j, m, l : In(c, i, j)' /\ In(c, m, l)' => i = m /\ j = l
  <2>1. SUFFICES ASSUME NEW c \in Callbacks, NEW i, NEW j, NEW m, NEW l, In(c, i, j)', In(c, m, l)'
                 PROVE  i = m /\ j = l
    OBVIOUS
  <2>2. \A x, y : New(c, x, y) => ~Answered(c)
    <3>1. \A q, k : At(c, q, k) => ~Answered(c)
      BY DEF OnceInv, Answered
    <3> QED
      BY <1>3, <3>1
  <2>3. CASE In(c, i, j) \/ In(c, m, l)
    <3>1. Answered(c)
      BY <2>3 DEF OnceInv
    <3>2. In(c, i, j) /\ In(c, m, l)
      BY <1>4, <2>1, <2>2, <3>1
    <3> QED
      BY <3>2 DEF OnceInv
  <2>4. CASE New(c, i - Len(Work), j) /\ New(c, m - Len(Work), l)
    <3> DEFINE a == i - Len(Work)
               b == m - Len(Work)
    <3>r. a \in 1 .. Len(items) /\ b \in 1 .. Len(items)
      BY <2>4 DEF New
    <3>1. /\ At(c, items[a].n, j) /\ At(c, items[b].n, l)
          /\ items[a].cbs # <<>> /\ items[b].cbs # <<>>
      BY <1>3, <2>4
    <3>0. cbReq[c] = items[a].n /\ cbReq[c] = items[b].n
      BY <3>1 DEF OnceInv
    <3>2. items[a].n = items[b].n /\ j = l
      BY <3>0, <3>1 DEF OnceInv
    <3>3. a = b
      BY <3>r, <3>1, <3>2
    <3>4. i \in Int /\ m \in Int
      BY <2>1 DEF In
    <3> QED
      BY <1>2, <3>2, <3>3, <3>4
  <2> QED
    BY <1>4, <2>1, <2>3, <2>4
<1>11. \A c \in Callbacks : cbReq'[c] # 0 =>
        \/ c \in ran'
        \/ \E k : At(c, cbReq[c], k)'
        \/ \E i, j : In(c, i, j)'
    BY <1>5, <1>6, <1>7 DEF OnceInv
<1>12. \A i \in 1 .. Len(Work') : Work'[i].kind # "response" => Work'[i].cbs = <<>>
    BY <1>1 DEF OnceInv
<1>13. \A c \in ran' : Answered(c)'
    BY <1>t, <1>8 DEF OnceInv
<1>14. \A c \in Callbacks : \A s, k : At(c, s, k)' => cbReq'[c] = s /\ response'[s] = None
  <2>1. SUFFICES ASSUME NEW c \in Callbacks, NEW s, NEW k, At(c, s, k)'
                 PROVE  cbReq'[c] = s /\ response'[s] = None
    OBVIOUS
  <2>2. At(c, s, k) /\ s \in Seqs \ S
    BY <1>6, <2>1 DEF At
  <2>3. cbReq[c] = s /\ response[s] = None
    BY <2>2 DEF OnceInv
  <2> QED
    BY <2>2, <2>3
<1>15. \A c \in Callbacks : \A s, k, l : At(c, s, k)' /\ At(c, s, l)' => k = l
    BY <1>6 DEF OnceInv
<1> QED
    BY <1>9, <1>10, <1>11, <1>12, <1>13, <1>14, <1>15 DEF OnceInv

\* One entry for the response to one request.
LEMMA MoveOneOnce ==
    ASSUME Base, OnceInv, NEW s \in Seqs,
           EnqueueHandlers(<<ResponseItem(s, respHandlers[s])>>), ClearHandlers({s}),
           response'[s] # None, \A r \in Seqs \ {s} : response'[r] = response[r],
           UNCHANGED <<ran, cbReq>>
    PROVE  OnceInv'
<1> DEFINE items == <<ResponseItem(s, respHandlers[s])>>
           S == {s}
<1>1. respHandlers[s] \in Seq(Callbacks)
    BY DEF Base, TypeInv, TypeOK
<1>2. /\ ResponseItem(s, respHandlers[s]) \in Item
      /\ ResponseItem(s, respHandlers[s]).kind = "response"
      /\ ResponseItem(s, respHandlers[s]).n = s
      /\ ResponseItem(s, respHandlers[s]).cbs = respHandlers[s]
    BY <1>1 DEF ResponseItem, Item, Seqs
<1>3. /\ items \in Seq(Item) /\ Len(items) = 1
      /\ items[1].kind = "response" /\ items[1].n = s /\ items[1].cbs = respHandlers[s]
    BY <1>2
<1>4. EnqueueHandlers(items)
    OBVIOUS
<1> HIDE DEF items
<1>5. Work' = Work \o items
    BY <1>3, <1>4, EnqueueWork
<1>6. \A i \in 1 .. Len(items) : i = 1
    BY <1>3
<1>7. respHandlers' = [r \in Seqs |-> IF r \in S THEN <<>> ELSE respHandlers[r]]
    BY DEF ClearHandlers
<1>8. \A i \in 1 .. Len(items) :
        items[i].cbs = <<>> \/ (/\ items[i].kind = "response" /\ items[i].n \in S
                                /\ items[i].cbs = respHandlers[items[i].n])
    BY <1>3, <1>6
<1>9. \A r \in S : respHandlers[r] = <<>>
                   \/ \E i \in 1 .. Len(items) : items[i].n = r /\ items[i].cbs = respHandlers[r]
    BY <1>3
<1>10. \A i, j \in 1 .. Len(items) :
            items[i].cbs # <<>> /\ items[j].cbs # <<>> /\ items[i].n = items[j].n => i = j
    BY <1>6
<1>11. \A r \in Seqs : IF r \in S THEN response'[r] # None ELSE response'[r] = response[r]
    OBVIOUS
<1>12. items \in Seq(Item) /\ S \in SUBSET Seqs
    BY <1>3
<1> HIDE DEF S
<1> QED
    BY <1>5, <1>7, <1>8, <1>9, <1>10, <1>11, <1>12, MoveOnce

\* An entry without callbacks.
LEMMA MoveNoneOnce ==
    ASSUME Base, OnceInv, NEW item \in Item, item.cbs = <<>>, EnqueueHandlers(<<item>>),
           UNCHANGED <<ran, cbReq, respHandlers, response>>
    PROVE  OnceInv'
<1> DEFINE items == <<item>>
<1>1. items \in Seq(Item) /\ \A i \in 1 .. Len(items) : items[i].cbs = <<>>
    OBVIOUS
<1>2. EnqueueHandlers(items)
    OBVIOUS
<1> HIDE DEF items
<1>3. Work' = Work \o items
    BY <1>1, <1>2, EnqueueWork
<1>4. respHandlers' = [r \in Seqs |-> IF r \in {} THEN <<>> ELSE respHandlers[r]]
    BY DEF Base, TypeInv, TypeOK
<1>5. {} \in SUBSET Seqs
    OBVIOUS
<1> QED
    BY <1>1, <1>3, <1>4, <1>5, MoveOnce

LEMMA ParserOnce ==
    ASSUME Base, OnceInv, Parser
    PROVE  OnceInv'
<1>t. /\ pmsg \in Message /\ sentRequests \subseteq Seqs /\ PoppedOK
      /\ response \in [Seqs -> {None, "reply", "lost"}]
      /\ respHandlers \in [Seqs -> Seq(Callbacks)]
    BY DEF Base, TypeInv, TypeOK
<1>1. CASE ReadMessage \/ ParseInvalid \/ PopRequest
  <2>1. UNCHANGED <<queue, handlerThread, hpc, batch, ran, respHandlers, cbReq, response>>
    BY <1>1 DEF ReadMessage, ParseInvalid, PopRequest, hdlVars, inVars, reqVars
  <2> QED
    BY <2>1, OthersWork, FrameOnce
<1>2. CASE ParseEventOrRequest
  <2> DEFINE item == [kind |-> pmsg.kind, n |-> pmsg.n, cbs |-> <<>>]
  <2>1. EnqueueHandlers(<<item>>) /\ UNCHANGED <<ran, respHandlers, cbReq, response>>
    BY <1>2 DEF ParseEventOrRequest, inVars, reqVars
  <2>2. item \in Item /\ item.cbs = <<>>
    BY <1>t, <1>2 DEF ParseEventOrRequest, Item, Message
  <2> HIDE DEF item
  <2> QED
    BY <2>1, <2>2, MoveNoneOnce
<1>3. CASE SetUnknownResponse
  <2> DEFINE item == ResponseItem(0, <<>>)
  <2>1. EnqueueHandlers(<<item>>) /\ UNCHANGED <<ran, respHandlers, cbReq, response>>
    BY <1>3 DEF SetUnknownResponse, inVars, reqVars
  <2>2. item \in Item /\ item.cbs = <<>>
    BY DEF ResponseItem, Item
  <2> HIDE DEF item
  <2> QED
    BY <2>1, <2>2, MoveNoneOnce
<1>4. CASE SetResponse
  <2>1. pmsg.n \in Seqs
    BY <1>t, <1>4 DEF SetResponse, PoppedOK
  <2>2. /\ EnqueueHandlers(<<ResponseItem(pmsg.n, respHandlers[pmsg.n])>>)
        /\ ClearHandlers({pmsg.n}) /\ UNCHANGED <<ran, cbReq>>
        /\ response' = [response EXCEPT ![pmsg.n] = "reply"]
    BY <1>4 DEF SetResponse, inVars
  <2>3. response'[pmsg.n] # None /\ \A r \in Seqs \ {pmsg.n} : response'[r] = response[r]
    BY <1>t, <2>1, <2>2
  <2> QED
    BY <2>1, <2>2, <2>3, MoveOneOnce
<1>5. CASE Drain
  <2>1. PICK items \in Seq(Item) :
            /\ EnqueueHandlers(items)
            /\ \A i \in 1 .. Len(items) :
                \/ items[i].kind = "disconnect" /\ items[i].cbs = <<>>
                \/ /\ items[i].kind = "response" /\ items[i].n \in sentRequests
                   /\ items[i].cbs = respHandlers[items[i].n]
            /\ \A i, j \in 1 .. Len(items) :
                items[i].kind = "response" /\ items[j].kind = "response"
                    /\ items[i].n = items[j].n => i = j
            /\ \A s \in sentRequests : \E i \in 1 .. Len(items) :
                items[i].kind = "response" /\ items[i].n = s
    BY <1>5, DrainItems
  <2>2. /\ response' = [s \in Seqs |-> IF s \in sentRequests THEN "lost" ELSE response[s]]
        /\ respHandlers' = [s \in Seqs |-> IF s \in sentRequests THEN <<>> ELSE respHandlers[s]]
        /\ UNCHANGED <<ran, cbReq>>
    BY <1>5 DEF Drain, ClearHandlers, inVars
  <2>3. Work' = Work \o items
    BY <2>1, EnqueueWork
  <2>4. \A i \in 1 .. Len(items) :
          items[i].cbs = <<>> \/ (/\ items[i].kind = "response" /\ items[i].n \in sentRequests
                                  /\ items[i].cbs = respHandlers[items[i].n])
    BY <2>1
  <2>5. \A i, j \in 1 .. Len(items) :
          items[i].cbs # <<>> /\ items[j].cbs # <<>> /\ items[i].n = items[j].n => i = j
    BY <2>1
  <2>6. \A s \in sentRequests : \E i \in 1 .. Len(items) :
          items[i].n = s /\ items[i].cbs = respHandlers[s]
    BY <2>1
  <2>7. \A s \in Seqs : IF s \in sentRequests THEN response'[s] # None ELSE response'[s] = response[s]
    BY <2>2
  <2>8. sentRequests \in SUBSET Seqs
    BY <1>t
  <2> QED
    BY <2>2, <2>3, <2>4, <2>5, <2>6, <2>7, <2>8, MoveOnce
<1> QED
    BY <1>1, <1>2, <1>3, <1>4, <1>5 DEF Parser

\* on_response(): a new callback goes to its request, or into an entry of its own.
LEMMA RegisterOnce ==
    ASSUME Base, OnceInv, NEW t \in Threads, NEW c \in Callbacks, OnResponse(t, c)
    PROVE  OnceInv'
<1>t. /\ respHandlers \in [Seqs -> Seq(Callbacks)] /\ RequestOK
      /\ cbReq \in [Callbacks -> 0 .. MaxSeq] /\ ran \subseteq Callbacks /\ Work \in Seq(Item)
    BY WorkTyped DEF Base, TypeInv, TypeOK
<1>1. PICK s : s = treq[t]
    OBVIOUS
<1>2. /\ tpc[t] = "sent" /\ cbReq[c] = 0 /\ cbReq' = [cbReq EXCEPT ![c] = s]
      /\ UNCHANGED <<response, ran>>
    BY <1>1 DEF OnResponse, inVars
<1>3. s \in Seqs /\ s # 0
    BY <1>t, <1>1, <1>2 DEF RequestOK, Seqs
<1>4. /\ c \notin ran
      /\ \A r, k : ~At(c, r, k)
      /\ \A i, j : ~In(c, i, j)
  <2>1. ~Answered(c) /\ \A r, k : At(c, r, k) => r # 0
    BY <1>2 DEF Answered, Seqs, At
  <2> QED
    BY <1>2, <2>1 DEF OnceInv
<1>5. \A d \in Callbacks : d # c => cbReq'[d] = cbReq[d] /\ (Answered(d)' <=> Answered(d))
    BY <1>t, <1>2 DEF Answered
<1>6. cbReq'[c] = s
    BY <1>t, <1>2
<1>7. CASE response[s] = None
  <2>1. /\ respHandlers' = [respHandlers EXCEPT ![s] = Append(respHandlers[s], c)]
        /\ UNCHANGED <<queue, handlerThread, hpc, batch>>
    BY <1>1, <1>7 DEF OnResponse, hdlVars
  <2>2. Work' = Work
    BY <2>1, OthersWork
  <2>3. \A d, i, j : In(d, i, j)' <=> In(d, i, j)
    BY <2>2 DEF In
  <2>4. /\ Len(respHandlers[s]) \in Nat /\ Len(respHandlers'[s]) = Len(respHandlers[s]) + 1
        /\ respHandlers'[s][Len(respHandlers[s]) + 1] = c
        /\ \A k \in 1 .. Len(respHandlers[s]) : respHandlers'[s][k] = respHandlers[s][k]
        /\ \A r \in Seqs : r # s => respHandlers'[r] = respHandlers[r]
    BY <1>t, <1>3, <2>1
  <2>5. \A d, r, k : At(d, r, k) => At(d, r, k)'
    BY <2>4 DEF At
  <2>6. \A d, r, k : At(d, r, k)' =>
            At(d, r, k) \/ (d = c /\ r = s /\ k = Len(respHandlers[s]) + 1)
    BY <2>4 DEF At
  <2>7. \E k : At(c, s, k)'
    <3>1. PICK k : k = Len(respHandlers[s]) + 1
      OBVIOUS
    <3>2. At(c, s, k)'
      BY <1>3, <2>4, <3>1 DEF At
    <3> QED
      BY <3>2
  <2>8. \A d \in Callbacks : \A r, k : At(d, r, k)' => cbReq'[d] = r /\ response'[r] = None
    BY <1>2, <1>4, <1>5, <1>6, <1>7, <2>6 DEF OnceInv
  <2>9. \A d \in Callbacks : \A r, k, l : At(d, r, k)' /\ At(d, r, l)' => k = l
    BY <1>4, <2>6 DEF OnceInv
  <2>10. \A d \in Callbacks : \A i, j : In(d, i, j)' => Answered(d)' /\ d \notin ran'
    BY <1>2, <1>4, <1>5, <2>3 DEF OnceInv
  <2>11. \A d \in ran' : Answered(d)'
    BY <1>t, <1>2, <1>4, <1>5 DEF OnceInv
  <2>12. \A d \in Callbacks : cbReq'[d] # 0 =>
            d \in ran' \/ (\E k : At(d, cbReq[d], k)') \/ (\E i, j : In(d, i, j)')
    <3>1. SUFFICES ASSUME NEW d \in Callbacks, cbReq'[d] # 0, d # c
                   PROVE  d \in ran' \/ (\E k : At(d, cbReq[d], k)') \/ (\E i, j : In(d, i, j)')
      BY <1>6, <2>7
    <3>2. PICK r : r = cbReq[d] /\ r = cbReq'[d]
      BY <1>5, <3>1
    <3>a. d \in ran \/ (\E k : At(d, cbReq[d], k)) \/ (\E i, j : In(d, i, j))
      <4>1. cbReq[d] # 0
        BY <3>1, <3>2
      <4> QED
        BY <4>1 DEF OnceInv
    <3>3. d \in ran \/ (\E k : At(d, r, k)) \/ (\E i, j : In(d, i, j))
      BY <3>a, <3>2
    <3>4. d \in ran' \/ (\E k : At(d, r, k)') \/ (\E i, j : In(d, i, j)')
      BY <1>2, <2>3, <2>5, <3>3
    <3> QED
      BY <3>2, <3>4
  <2>13. \A d \in Callbacks : \A i, j, m, l : In(d, i, j)' /\ In(d, m, l)' => i = m /\ j = l
    BY <2>3 DEF OnceInv
  <2> QED
    BY <2>2, <2>8, <2>9, <2>10, <2>11, <2>12, <2>13 DEF OnceInv
<1>8. CASE response[s] # None
  <2> DEFINE item == ResponseItem(s, Append(respHandlers[s], c))
  <2>1. EnqueueHandlers(<<item>>) /\ ClearHandlers({s})
    BY <1>1, <1>8 DEF OnResponse
  <2>2. respHandlers[s] = <<>>
    <3>1. respHandlers[s] # <<>> => 1 \in 1 .. Len(respHandlers[s]) /\ respHandlers[s][1] \in Callbacks
      BY <1>t, <1>3
    <3>2. \A k : k \in 1 .. Len(respHandlers[s]) /\ respHandlers[s][k] \in Callbacks => response[s] = None
      BY <1>3 DEF OnceInv, At
    <3> QED
      BY <1>8, <3>1, <3>2
  <2>3. item \in Item /\ item.kind = "response" /\ item.cbs = <<c>>
    BY <1>3, <2>2 DEF ResponseItem, Item, Seqs
  <2> HIDE DEF item
  <2>4. Work' = Work \o <<item>>
    <3>1. <<item>> \in Seq(Item)
      BY <2>3
    <3> QED
      BY <2>1, <3>1, EnqueueWork
  <2>5. /\ Len(Work') = Len(Work) + 1 /\ Len(Work) \in Nat /\ Work'[Len(Work) + 1] = item
        /\ \A i \in 1 .. Len(Work) : Work'[i] = Work[i]
    BY <1>t, <2>3, <2>4
  <2>6. \A r \in Seqs : respHandlers'[r] = respHandlers[r]
    BY <2>1, <2>2 DEF ClearHandlers
  <2>7. \A d, r, k : At(d, r, k)' <=> At(d, r, k)
    BY <2>6 DEF At
  <2>8. \A d, i, j : In(d, i, j) => In(d, i, j)'
    BY <2>5 DEF In
  <2>9. \A d, i, j : In(d, i, j)' => In(d, i, j) \/ (d = c /\ i = Len(Work) + 1 /\ j = 1)
    <3>1. SUFFICES ASSUME NEW d, NEW i, NEW j, In(d, i, j)'
                   PROVE  In(d, i, j) \/ (d = c /\ i = Len(Work) + 1 /\ j = 1)
      OBVIOUS
    <3>2. i \in 1 .. Len(Work') /\ j \in 1 .. Len(Work'[i].cbs) /\ Work'[i].cbs[j] = d
      BY <3>1 DEF In
    <3>3. CASE i \in 1 .. Len(Work)
      BY <2>5, <3>2, <3>3 DEF In
    <3>4. CASE i = Len(Work) + 1
      BY <2>3, <2>5, <3>2, <3>4
    <3> QED
      BY <2>5, <3>2, <3>3, <3>4
  <2>10. \E i, j : In(c, i, j)'
    <3>1. PICK i : i = Len(Work) + 1
      OBVIOUS
    <3>2. In(c, i, 1)'
      BY <2>3, <2>5, <3>1 DEF In
    <3> QED
      BY <3>2
  <2>11. Answered(c)'
    BY <1>2, <1>3, <1>6, <1>8 DEF Answered
  <2>12. \A d \in Callbacks : \A r, k : At(d, r, k)' => cbReq'[d] = r /\ response'[r] = None
    BY <1>2, <1>4, <1>5, <2>7 DEF OnceInv
  <2>13. \A d \in Callbacks : \A i, j : In(d, i, j)' => Answered(d)' /\ d \notin ran'
    BY <1>2, <1>4, <1>5, <2>9, <2>11 DEF OnceInv
  <2>14. \A d \in ran' : Answered(d)'
    BY <1>t, <1>2, <1>4, <1>5 DEF OnceInv
  <2>15. \A d \in Callbacks : cbReq'[d] # 0 =>
            d \in ran' \/ (\E k : At(d, cbReq[d], k)') \/ (\E i, j : In(d, i, j)')
    <3>1. SUFFICES ASSUME NEW d \in Callbacks, cbReq'[d] # 0, d # c
                   PROVE  d \in ran' \/ (\E k : At(d, cbReq[d], k)') \/ (\E i, j : In(d, i, j)')
      BY <2>10
    <3>2. PICK r : r = cbReq[d] /\ r = cbReq'[d]
      BY <1>5, <3>1
    <3>a. d \in ran \/ (\E k : At(d, cbReq[d], k)) \/ (\E i, j : In(d, i, j))
      <4>1. cbReq[d] # 0
        BY <3>1, <3>2
      <4> QED
        BY <4>1 DEF OnceInv
    <3>3. d \in ran \/ (\E k : At(d, r, k)) \/ (\E i, j : In(d, i, j))
      BY <3>a, <3>2
    <3>4. d \in ran' \/ (\E k : At(d, r, k)') \/ (\E i, j : In(d, i, j)')
      BY <1>2, <2>7, <2>8, <3>3
    <3> QED
      BY <3>2, <3>4
  <2>16. \A d \in Callbacks : \A i, j, m, l : In(d, i, j)' /\ In(d, m, l)' => i = m /\ j = l
    BY <1>4, <2>9 DEF OnceInv
  <2>17. \A d \in Callbacks : \A r, k, l : At(d, r, k)' /\ At(d, r, l)' => k = l
    BY <2>7 DEF OnceInv
  <2>18. \A i \in 1 .. Len(Work') : Work'[i].kind # "response" => Work'[i].cbs = <<>>
    BY <2>3, <2>5 DEF OnceInv
  <2> QED
    BY <2>12, <2>13, <2>14, <2>15, <2>16, <2>17, <2>18 DEF OnceInv
<1> QED
    BY <1>7, <1>8

\* run_handlers() invokes the first callback of the entry at the head.
LEMMA ReturnOnce ==
    ASSUME Base, OnceInv, NEW h \in HThreads, HandlerReturn(h)
    PROVE  OnceInv'
<1>t. /\ Work \in Seq(Item) /\ ran \subseteq Callbacks
      /\ cbReq \in [Callbacks -> 0 .. MaxSeq]
    BY WorkTyped DEF Base, TypeInv, TypeOK
<1>u. UNCHANGED <<respHandlers, cbReq, response>>
    BY DEF HandlerReturn, ReturnFromEvent, ReturnFromCallback, ReturnBody, ReturnNoResponse,
           RaiseHandlingError, RaiseOther, reqVars
<1>w. Work # <<>> /\ 1 \in 1 .. Len(Work) /\ Head(Work) = Work[1] /\ Work[1] \in Item
      /\ Len(Work) \in Nat
  <2>1. Work # <<>>
    BY ReturnWork
  <2> QED
    BY <1>t, <2>1
<1>c. Work[1].cbs \in Seq(Callbacks)
    BY <1>w DEF Item
<1>1. \A c, s, k : At(c, s, k)' <=> At(c, s, k)
    BY <1>u DEF At
<1>2. \A c : Answered(c)' <=> Answered(c)
    BY <1>u DEF Answered
<1>3. CASE Work' = Work /\ ran' = ran
    BY <1>u, <1>3, FrameOnce
<1>tail. ASSUME Work' = Tail(Work)
         PROVE  /\ \A c, i, j : In(c, i, j)' <=> In(c, i + 1, j) /\ i \in Nat \ {0}
                /\ \A i \in 1 .. Len(Work') : Work'[i].kind # "response" => Work'[i].cbs = <<>>
  <2>1. /\ Len(Work') = Len(Work) - 1
        /\ \A i \in 1 .. Len(Work') : i + 1 \in 1 .. Len(Work) /\ Work'[i] = Work[i + 1]
    BY <1>t, <1>w, <1>tail
  <2>2. \A i : i \in 1 .. Len(Work') <=> i + 1 \in 1 .. Len(Work) /\ i \in Nat \ {0}
    BY <1>w, <2>1
  <2> QED
    BY <2>1, <2>2 DEF In, OnceInv
<1>4. CASE Work' = Tail(Work) /\ ran' = ran /\ Work[1].cbs = <<>>
  <2>1. \A c, j : ~In(c, 1, j)
    BY <1>4 DEF In
  <2>2. \A c, i, j : In(c, i, j) => i - 1 \in Nat \ {0} /\ (i - 1) + 1 = i
    <3>1. SUFFICES ASSUME NEW c, NEW i, NEW j, In(c, i, j)
                   PROVE  i - 1 \in Nat \ {0} /\ (i - 1) + 1 = i
      OBVIOUS
    <3>2. i \in 1 .. Len(Work) /\ i # 1
      <4>1. i \in 1 .. Len(Work)
        BY <3>1 DEF In
      <4> QED
        BY <2>1, <3>1, <4>1
    <3> QED
      BY <1>w, <3>2
  <2>3. \A c, i, j : In(c, i, j) => In(c, i - 1, j)' 
    <3>1. SUFFICES ASSUME NEW c, NEW i, NEW j, In(c, i, j) PROVE In(c, i - 1, j)'
      OBVIOUS
    <3>2. PICK m : m = i - 1
      OBVIOUS
    <3>3. In(c, m, j)'
      BY <1>tail, <1>4, <2>2, <3>1, <3>2
    <3> QED
      BY <3>2, <3>3
  <2>4. \A c \in Callbacks : cbReq'[c] # 0 =>
            c \in ran' \/ (\E k : At(c, cbReq[c], k)') \/ (\E i, j : In(c, i, j)')
    BY <1>u, <1>1, <1>4, <2>3 DEF OnceInv
  <2>5. \A c \in Callbacks : \A i, j : In(c, i, j)' => Answered(c)' /\ c \notin ran'
    BY <1>2, <1>tail, <1>4 DEF OnceInv
  <2>6. \A c \in Callbacks : \A i, j, m, l : In(c, i, j)' /\ In(c, m, l)' => i = m /\ j = l
    <3>1. SUFFICES ASSUME NEW c \in Callbacks, NEW i, NEW j, NEW m, NEW l,
                          In(c, i, j)', In(c, m, l)'
                   PROVE  i = m /\ j = l
      OBVIOUS
    <3>2. In(c, i + 1, j) /\ In(c, m + 1, l) /\ i \in Nat /\ m \in Nat
      BY <1>tail, <1>4, <3>1
    <3>3. i + 1 = m + 1 /\ j = l
      BY <3>2 DEF OnceInv
    <3> QED
      BY <3>2, <3>3
  <2> QED
    BY <1>u, <1>1, <1>2, <1>tail, <1>4, <2>4, <2>5, <2>6 DEF OnceInv
<1>5. CASE /\ \/ Work' = Tail(Work) /\ Len(Work[1].cbs) <= 1
              \/ /\ Work' = <<ResponseItem(Work[1].n, Tail(Work[1].cbs))>> \o Tail(Work)
                 /\ Len(Work[1].cbs) > 1
           /\ Work[1].cbs # <<>> /\ ran' = ran \cup {Head(Work[1].cbs)}
  <2>1. PICK d : d = Head(Work[1].cbs)
    OBVIOUS
  <2>2. d \in Callbacks /\ In(d, 1, 1) /\ ran' = ran \cup {d}
    BY <1>w, <1>c, <1>5, <2>1 DEF In
  <2>3. Answered(d) /\ \A i, j : In(d, i, j) => i = 1 /\ j = 1
    BY <2>2 DEF OnceInv
  <2>4. /\ \A c, i, j, m, l : In(c, i, j)' /\ In(c, m, l)' =>
            \E a, b, e, f : /\ In(c, a, b) /\ In(c, e, f) /\ ~(a = 1 /\ b = 1) /\ ~(e = 1 /\ f = 1)
                            /\ (a = e /\ b = f => i = m /\ j = l)
        /\ \A c, a, b : In(c, a, b) /\ ~(a = 1 /\ b = 1) => \E i, j : In(c, i, j)'
        /\ \A i \in 1 .. Len(Work') : Work'[i].kind # "response" => Work'[i].cbs = <<>>
    <3>1. CASE Work' = Tail(Work) /\ Len(Work[1].cbs) <= 1
      <4>1. Len(Work[1].cbs) = 1
        BY <1>c, <1>5, <3>1
      <4>2. \A c, j : In(c, 1, j) => j = 1
        BY <4>1 DEF In
      <4>3. ASSUME NEW c, NEW i, NEW j, NEW m, NEW l, In(c, i, j)', In(c, m, l)'
            PROVE  \E a, b, e, f :
                      /\ In(c, a, b) /\ In(c, e, f) /\ ~(a = 1 /\ b = 1) /\ ~(e = 1 /\ f = 1)
                      /\ (a = e /\ b = f => i = m /\ j = l)
        <5>1. /\ In(c, i + 1, j) /\ i \in Nat \ {0} /\ In(c, m + 1, l) /\ m \in Nat \ {0}
          BY <1>tail, <3>1, <4>3
        <5>2. i + 1 # 1 /\ m + 1 # 1 /\ (i + 1 = m + 1 => i = m)
          BY <5>1
        <5> QED
          BY <5>1, <5>2
      <4>4. ASSUME NEW c, NEW a, NEW b, In(c, a, b), ~(a = 1 /\ b = 1)
            PROVE  \E i, j : In(c, i, j)'
        <5>1. PICK i : i = a - 1
          OBVIOUS
        <5>2. a # 1 /\ a \in Nat /\ i \in Nat \ {0} /\ i + 1 = a
          BY <1>w, <4>2, <4>4, <5>1 DEF In
        <5>3. In(c, i, b)'
          BY <1>tail, <3>1, <4>4, <5>2
        <5> QED
          BY <5>3
      <4> QED
        BY <1>tail, <3>1, <4>3, <4>4
    <3>2. CASE /\ Work' = <<ResponseItem(Work[1].n, Tail(Work[1].cbs))>> \o Tail(Work)
               /\ Len(Work[1].cbs) > 1
      <4>1. /\ Len(Work') = Len(Work)
            /\ Work'[1] = ResponseItem(Work[1].n, Tail(Work[1].cbs))
            /\ \A i \in 1 .. Len(Work) : i # 1 => Work'[i] = Work[i]
        BY <1>t, <1>w, <3>2
      <4>2. Work'[1].kind = "response" /\ Work'[1].cbs = Tail(Work[1].cbs)
        BY <4>1 DEF ResponseItem
      <4>3. /\ Len(Work'[1].cbs) = Len(Work[1].cbs) - 1 /\ Len(Work[1].cbs) \in Nat
            /\ \A j \in 1 .. Len(Work'[1].cbs) : Work'[1].cbs[j] = Work[1].cbs[j + 1]
        BY <1>c, <1>5, <4>2
      <4>4. /\ \A c, i, j : i # 1 => (In(c, i, j)' <=> In(c, i, j))
            /\ \A c, j : In(c, 1, j)' <=> In(c, 1, j + 1) /\ j \in Nat \ {0}
        <5>1. \A c, i, j : i # 1 => (In(c, i, j)' <=> In(c, i, j))
          BY <4>1 DEF In
        <5>2. \A j : j \in 1 .. Len(Work'[1].cbs) <=>
                        j + 1 \in 1 .. Len(Work[1].cbs) /\ j \in Nat \ {0}
          BY <4>3
        <5>3. \A c, j : In(c, 1, j)' <=> In(c, 1, j + 1) /\ j \in Nat \ {0}
          BY <1>w, <4>1, <4>3, <5>2 DEF In
        <5> QED
          BY <5>1, <5>3
      <4>5. ASSUME NEW c, NEW i, NEW j, In(c, i, j)'
            PROVE  \E b : In(c, i, b) /\ ~(i = 1 /\ b = 1) /\ j \in Int
                          /\ b = IF i = 1 THEN j + 1 ELSE j
        <5>0. j \in Int
          BY <4>5 DEF In
        <5>1. CASE i # 1
          BY <4>4, <4>5, <5>0, <5>1
        <5>2. CASE i = 1
          <6>1. In(c, i, j + 1) /\ j \in Nat \ {0}
            BY <4>4, <4>5, <5>2
          <6>2. j + 1 # 1
            BY <6>1
          <6> QED
            BY <5>0, <5>2, <6>1, <6>2
        <5> QED
          BY <5>1, <5>2
      <4>6. ASSUME NEW c, NEW i, NEW j, NEW m, NEW l, In(c, i, j)', In(c, m, l)'
            PROVE  \E a, b, e, f :
                      /\ In(c, a, b) /\ In(c, e, f) /\ ~(a = 1 /\ b = 1) /\ ~(e = 1 /\ f = 1)
                      /\ (a = e /\ b = f => i = m /\ j = l)
        <5>1. PICK b : In(c, i, b) /\ ~(i = 1 /\ b = 1) /\ j \in Int
                       /\ b = IF i = 1 THEN j + 1 ELSE j
          BY <4>5, <4>6
        <5>2. PICK f : In(c, m, f) /\ ~(m = 1 /\ f = 1) /\ l \in Int
                       /\ f = IF m = 1 THEN l + 1 ELSE l
          BY <4>5, <4>6
        <5>3. i = m /\ b = f => j = l
          BY <5>1, <5>2
        <5> QED
          BY <5>1, <5>2, <5>3
      <4>7. ASSUME NEW c, NEW a, NEW b, In(c, a, b), ~(a = 1 /\ b = 1)
            PROVE  \E i, j : In(c, i, j)'
        <5>1. CASE a # 1
          BY <4>4, <4>7, <5>1
        <5>2. CASE a = 1
          <6>1. PICK j : j = b - 1
            OBVIOUS
          <6>2. b \in 1 .. Len(Work[1].cbs) /\ b # 1
            BY <4>7, <5>2 DEF In
          <6>3. j \in Nat \ {0} /\ j + 1 = b
            BY <4>3, <6>1, <6>2
          <6>4. In(c, 1, j)'
            BY <4>4, <4>7, <5>2, <6>3
          <6> QED
            BY <6>4
        <5> QED
          BY <5>1, <5>2
      <4>8. \A i \in 1 .. Len(Work') : Work'[i].kind # "response" => Work'[i].cbs = <<>>
        BY <4>1, <4>2 DEF OnceInv
      <4> QED
        BY <4>6, <4>7, <4>8
    <3> QED
      BY <1>5, <3>1, <3>2
  <2>5. \A c \in Callbacks : \A i, j, m, l : In(c, i, j)' /\ In(c, m, l)' => i = m /\ j = l
    BY <2>4 DEF OnceInv
  <2>6. \A c \in Callbacks : \A i, j : In(c, i, j)' => Answered(c)' /\ c \notin ran'
    <3>1. SUFFICES ASSUME NEW c \in Callbacks, NEW i, NEW j, In(c, i, j)'
                   PROVE  Answered(c)' /\ c \notin ran'
      OBVIOUS
    <3>2. PICK a, b : In(c, a, b) /\ ~(a = 1 /\ b = 1)
      BY <2>4, <3>1
    <3>3. c # d
      BY <2>3, <3>2
    <3> QED
      BY <1>2, <2>2, <3>2, <3>3 DEF OnceInv
  <2>7. \A c \in Callbacks : cbReq'[c] # 0 =>
            c \in ran' \/ (\E k : At(c, cbReq[c], k)') \/ (\E i, j : In(c, i, j)')
    <3>1. SUFFICES ASSUME NEW c \in Callbacks, cbReq'[c] # 0, c # d
                   PROVE  c \in ran' \/ (\E k : At(c, cbReq[c], k)') \/ (\E i, j : In(c, i, j)')
      BY <2>2
    <3>2. c \in ran \/ (\E k : At(c, cbReq[c], k)) \/ (\E i, j : In(c, i, j))
      BY <1>u, <3>1 DEF OnceInv
    <3>3. CASE \E i, j : In(c, i, j)
      <4>1. PICK i, j : In(c, i, j)
        BY <3>3
      <4>2. ~(i = 1 /\ j = 1)
        <5>1. SUFFICES ASSUME i = 1, j = 1 PROVE c = d
          BY <3>1
        <5> QED
          BY <2>1, <4>1, <5>1, <1>c, <1>5 DEF In
      <4> QED
        BY <2>4, <4>1, <4>2
    <3>4. CASE \E k : At(c, cbReq[c], k)
      BY <1>u, <1>1, <3>4
    <3>5. CASE c \in ran
      BY <2>2, <3>5
    <3> QED
      BY <3>2, <3>3, <3>4, <3>5
  <2>8. \A c \in ran' : Answered(c)'
    BY <1>2, <2>2, <2>3 DEF OnceInv
  <2> QED
    BY <1>u, <1>1, <2>4, <2>5, <2>6, <2>7, <2>8 DEF OnceInv
<1> QED
  <2>1. Head(Work).kind # "response" => Work[1].cbs = <<>>
    BY <1>w DEF OnceInv
  <2>2. Len(Work[1].cbs) > 1 => Work[1].cbs # <<>>
    BY <1>c
  <2> QED
    BY <1>w, <1>3, <1>4, <1>5, <2>1, <2>2, ReturnWork

LEMMA StepOnce ==
    ASSUME Base, OnceInv, [Next]_vars
    PROVE  OnceInv'
<1>1. CASE UNCHANGED vars \/ Peer
  <2>1. UNCHANGED <<queue, handlerThread, hpc, batch, ran, respHandlers, cbReq, response>>
    BY <1>1 DEF Peer, PeerSend, PeerRespond, PeerDisconnect, vars, hdlVars, inVars, reqVars
  <2> QED
    BY <2>1, OthersWork, FrameOnce
<1>2. ASSUME NEW h \in HThreads, HandlerLoop(h) PROVE OnceInv'
  <2>1. UNCHANGED <<ran, respHandlers, cbReq, response>>
    BY <1>2 DEF HandlerLoop, HandlerTop, HandlerJoin, HandlerTake, HandlerWake, NextHandler, inVars,
                reqVars
  <2> QED
    BY <1>2, <2>1, LoopWork, FrameOnce
<1>3. ASSUME NEW t \in Threads, Caller(t) PROVE OnceInv'
  <2>1. CASE \E c \in Callbacks : OnResponse(t, c)
    BY <2>1, RegisterOnce
  <2>2. CASE TakeSeq(t) \/ RegisterAndWrite(t) \/ BeginWait(t) \/ WakeFromWait(t) \/ Forget(t)
             \/ Close(t)
    <3>1. UNCHANGED <<queue, handlerThread, hpc, batch, ran, respHandlers, cbReq, response>>
      BY <2>2 DEF TakeSeq, RegisterAndWrite, BeginWait, WakeFromWait, Forget, Close,
                  hdlVars, inVars, reqVars
    <3> QED
      BY <3>1, OthersWork, FrameOnce
  <2>3. CASE \E n \in 1 .. MaxIn : RespondDeferred(t, n)
    <3>1. UNCHANGED <<queue, handlerThread, hpc, batch, ran, respHandlers, cbReq, response>>
      BY <2>3 DEF RespondDeferred, hdlVars, inVars, reqVars
    <3> QED
      BY <3>1, OthersWork, FrameOnce
  <2> QED
    BY <1>3, <2>1, <2>2, <2>3 DEF Caller
<1> QED
    BY <1>1, <1>2, <1>3, ParserOnce, ReturnOnce DEF Next

LEMMA OnceInvariant == Spec => [](Base /\ OnceInv)
<1>1. Base /\ OnceInv /\ [Next]_vars => OnceInv'
    BY StepOnce
<1>2. Spec => []Base
    BY OrderInvariant, PTL
<1> QED
    BY <1>1, <1>2, InitOnce, PTL DEF Spec

\* The positions of a callback in a list of entries, counted.
LEMMA InvocationsOf ==
    ASSUME NEW items \in Seq(Item), NEW c
    PROVE  \A p : p \in Invocations(items, c) <=>
            \E i \in 1 .. Len(items) : \E j \in 1 .. Len(items[i].cbs) :
                p = <<i, j>> /\ items[i].cbs[j] = c
<1>1. DOMAIN items = 1 .. Len(items)
    OBVIOUS
<1>2. \A i \in 1 .. Len(items) : DOMAIN items[i].cbs = 1 .. Len(items[i].cbs)
  <2>1. \A i \in 1 .. Len(items) : items[i] \in Item
    OBVIOUS
  <2>2. \A i \in 1 .. Len(items) : items[i].cbs \in Seq(Callbacks)
    BY <2>1 DEF Item
  <2> QED
    BY <2>2
<1> QED
    BY <1>1, <1>2 DEF Invocations

LEMMA NoInvocations ==
    ASSUME NEW items \in Seq(Item), NEW c,
           \A i \in 1 .. Len(items) : \A j \in 1 .. Len(items[i].cbs) : items[i].cbs[j] # c
    PROVE  Cardinality(Invocations(items, c)) = 0
<1>1. Invocations(items, c) = {}
    BY InvocationsOf
<1> QED
    BY <1>1, FS_EmptySet

LEMMA OneInvocation ==
    ASSUME NEW items \in Seq(Item), NEW c,
           NEW a \in 1 .. Len(items), NEW b \in 1 .. Len(items[a].cbs), items[a].cbs[b] = c,
           \A i \in 1 .. Len(items) : \A j \in 1 .. Len(items[i].cbs) :
                items[i].cbs[j] = c => i = a /\ j = b
    PROVE  Cardinality(Invocations(items, c)) = 1
<1>1. Invocations(items, c) = {<<a, b>>}
    BY InvocationsOf
<1> QED
    BY <1>1, FS_Singleton

\* Every callback passed to on_response() is in exactly one place, from which it
\* cannot but be invoked once: whether it comes before the response, after it, or the
\* connection goes down in between.
THEOREM CallbacksOnce == Spec => []CallbackExactlyOnce
<1>1. ASSUME Base, OnceInv, NEW c \in Callbacks
      PROVE  LET registered == {s \in Seqs : \E i \in DOMAIN respHandlers[s] :
                                                respHandlers[s][i] = c}
                 places == Cardinality(registered)
                           + Cardinality(Invocations(queue, c))
                           + (IF handlerThread = None THEN 0
                              ELSE Cardinality(Invocations(batch[handlerThread], c)))
                           + (IF c \in ran THEN 1 ELSE 0)
             IN  /\ places = IF cbReq[c] = 0 THEN 0 ELSE 1
                 /\ \A s \in registered : response[s] = None /\ cbReq[c] = s
  <2> DEFINE registered == {s \in Seqs : \E i \in DOMAIN respHandlers[s] : respHandlers[s][i] = c}
             held == IF handlerThread = None THEN 0
                     ELSE Cardinality(Invocations(batch[handlerThread], c))
  <2>t. /\ respHandlers \in [Seqs -> Seq(Callbacks)] /\ Held \in Seq(Item) /\ queue \in Seq(Item)
        /\ Work \in Seq(Item) /\ cbReq \in [Callbacks -> 0 .. MaxSeq] /\ ran \subseteq Callbacks
    BY <1>1, WorkTyped DEF Base, TypeInv, TypeOK
  <2>1. \A s \in Seqs : DOMAIN respHandlers[s] = 1 .. Len(respHandlers[s])
    BY <2>t
  <2>2. \A s : s \in registered <=> \E k : At(c, s, k)
    BY <2>1 DEF At
  <2>3. held = Cardinality(Invocations(Held, c))
    <3>1. CASE handlerThread = None
      <4>1. \A i \in 1 .. Len(<<>>) : \A j \in 1 .. Len(<<>>[i].cbs) : <<>>[i].cbs[j] # c
        OBVIOUS
      <4>2. <<>> \in Seq(Item)
        OBVIOUS
      <4>3. Cardinality(Invocations(<<>>, c)) = 0
        BY <4>1, <4>2, NoInvocations
      <4> QED
        BY <3>1, <4>3 DEF Held
    <3>2. CASE handlerThread # None
      BY <3>2 DEF Held
    <3> QED
      BY <3>1, <3>2
  <2>4. /\ \A i \in 1 .. Len(Held) : i \in 1 .. Len(Work) /\ Work[i] = Held[i]
        /\ \A i \in 1 .. Len(queue) : Len(Held) + i \in 1 .. Len(Work)
                                      /\ Work[Len(Held) + i] = queue[i]
        /\ \A i \in 1 .. Len(Work) :
            \/ i \in 1 .. Len(Held) /\ Work[i] = Held[i]
            \/ i - Len(Held) \in 1 .. Len(queue) /\ Work[i] = queue[i - Len(Held)]
        /\ Len(Held) \in Nat /\ Len(queue) \in Nat
    BY <2>t DEF Work
  <2>5. \A s \in registered : response[s] = None /\ cbReq[c] = s
    BY <1>1, <2>2 DEF OnceInv
  <2> HIDE DEF registered, held
  <2>6. registered \subseteq {cbReq[c]}
    BY <2>5
  <2>7. ASSUME \A i, j : ~In(c, i, j)
        PROVE  held = 0 /\ Cardinality(Invocations(queue, c)) = 0
    <3>1. \A i \in 1 .. Len(Held) : \A j \in 1 .. Len(Held[i].cbs) : Held[i].cbs[j] # c
      BY <2>4, <2>7 DEF In
    <3>2. \A i \in 1 .. Len(queue) : \A j \in 1 .. Len(queue[i].cbs) : queue[i].cbs[j] # c
      <4>1. SUFFICES ASSUME NEW i \in 1 .. Len(queue), NEW j \in 1 .. Len(queue[i].cbs),
                            queue[i].cbs[j] = c
                     PROVE  FALSE
        OBVIOUS
      <4>2. In(c, Len(Held) + i, j)
        BY <2>4, <4>1 DEF In
      <4> QED
        BY <2>7, <4>2
    <3> QED
      BY <2>t, <2>3, <3>1, <3>2, NoInvocations
  <2>8. ASSUME NEW a, NEW b, In(c, a, b)
        PROVE  \/ held = 1 /\ Cardinality(Invocations(queue, c)) = 0
               \/ held = 0 /\ Cardinality(Invocations(queue, c)) = 1
    <3>0. \A i, j : In(c, i, j) => i = a /\ j = b
      BY <1>1, <2>8 DEF OnceInv
    <3>1. a \in 1 .. Len(Work) /\ b \in 1 .. Len(Work[a].cbs) /\ Work[a].cbs[b] = c
      BY <2>8 DEF In
    <3>2. CASE a \in 1 .. Len(Held) /\ Work[a] = Held[a]
      <4>1. \A i \in 1 .. Len(Held) : \A j \in 1 .. Len(Held[i].cbs) :
                Held[i].cbs[j] = c => i = a /\ j = b
        BY <2>4, <3>0 DEF In
      <4>2. \A i \in 1 .. Len(queue) : \A j \in 1 .. Len(queue[i].cbs) : queue[i].cbs[j] # c
        <5>1. SUFFICES ASSUME NEW i \in 1 .. Len(queue), NEW j \in 1 .. Len(queue[i].cbs),
                              queue[i].cbs[j] = c
                       PROVE  FALSE
          OBVIOUS
        <5>2. In(c, Len(Held) + i, j)
          BY <2>4, <5>1 DEF In
        <5>3. Len(Held) + i = a
          BY <3>0, <5>2
        <5> QED
          BY <2>4, <3>2, <5>3
      <4>3. held = 1
        BY <2>t, <2>3, <3>1, <3>2, <4>1, OneInvocation
      <4>4. Cardinality(Invocations(queue, c)) = 0
        BY <2>t, <4>2, NoInvocations
      <4> QED
        BY <4>3, <4>4
    <3>3. CASE a - Len(Held) \in 1 .. Len(queue) /\ Work[a] = queue[a - Len(Held)]
      <4>0. PICK m : m = a - Len(Held)
        OBVIOUS
      <4>1. \A i \in 1 .. Len(queue) : \A j \in 1 .. Len(queue[i].cbs) :
                queue[i].cbs[j] = c => i = m /\ j = b
        <5>1. SUFFICES ASSUME NEW i \in 1 .. Len(queue), NEW j \in 1 .. Len(queue[i].cbs),
                              queue[i].cbs[j] = c
                       PROVE  i = m /\ j = b
          OBVIOUS
        <5>2. In(c, Len(Held) + i, j)
          BY <2>4, <5>1 DEF In
        <5>3. Len(Held) + i = a /\ j = b
          BY <3>0, <5>2
        <5> QED
          BY <2>4, <4>0, <5>3
      <4>2. \A i \in 1 .. Len(Held) : \A j \in 1 .. Len(Held[i].cbs) : Held[i].cbs[j] # c
        <5>1. SUFFICES ASSUME NEW i \in 1 .. Len(Held), NEW j \in 1 .. Len(Held[i].cbs),
                              Held[i].cbs[j] = c
                       PROVE  FALSE
          OBVIOUS
        <5>2. In(c, i, j)
          BY <2>4, <5>1 DEF In
        <5>3. i = a
          BY <3>0, <5>2
        <5> QED
          BY <2>4, <3>3, <5>3
      <4>3. held = 0
        BY <2>t, <2>3, <4>2, NoInvocations
      <4>4. m \in 1 .. Len(queue) /\ b \in 1 .. Len(queue[m].cbs) /\ queue[m].cbs[b] = c
        BY <3>1, <3>3, <4>0
      <4>5. Cardinality(Invocations(queue, c)) = 1
        <5>1. \A x \in 1 .. Len(queue) : \A y \in 1 .. Len(queue[x].cbs) :
                  queue[x].cbs[y] = c => x = m /\ y = b
          BY <4>1
        <5>2. queue \in Seq(Item)
          BY <2>t
        <5> QED
          BY <4>4, <5>1, <5>2, OneInvocation
      <4> QED
        BY <4>3, <4>5
    <3> QED
      BY <2>4, <3>1, <3>2, <3>3
  <2>9. Cardinality(registered) + Cardinality(Invocations(queue, c)) + held
            + (IF c \in ran THEN 1 ELSE 0)
        = IF cbReq[c] = 0 THEN 0 ELSE 1
    <3>1. CASE \E i, j : In(c, i, j)
      <4>1. PICK a, b : In(c, a, b)
        BY <3>1
      <4>2. c \notin ran /\ Answered(c)
        BY <1>1, <4>1 DEF OnceInv
      <4>3. registered = {}
        BY <2>5, <4>2 DEF Answered
      <4>4. Cardinality(registered) = 0 /\ cbReq[c] # 0
        BY <4>2, <4>3, FS_EmptySet DEF Answered, Seqs
      <4>5. \/ held = 1 /\ Cardinality(Invocations(queue, c)) = 0
            \/ held = 0 /\ Cardinality(Invocations(queue, c)) = 1
        BY <2>8, <4>1
      <4> QED
        BY <4>2, <4>4, <4>5
    <3>2. CASE \A i, j : ~In(c, i, j)
      <4>1. held = 0 /\ Cardinality(Invocations(queue, c)) = 0
        BY <2>7, <3>2
      <4>2. CASE registered # {}
        <5>1. registered = {cbReq[c]} /\ cbReq[c] \in registered
          BY <2>6, <4>2
        <5>2. c \notin ran /\ cbReq[c] # 0
          BY <1>1, <2>2, <2>5, <5>1 DEF OnceInv, Answered, At, Seqs
        <5>3. Cardinality(registered) = 1
          BY <5>1, FS_Singleton
        <5> QED
          BY <4>1, <5>2, <5>3
      <4>3. CASE registered = {}
        <5>1. Cardinality(registered) = 0
          BY <4>3, FS_EmptySet
        <5>2. \A s, k : ~At(c, s, k)
          BY <2>2, <4>3
        <5>3. c \in ran <=> cbReq[c] # 0
          BY <1>1, <3>2, <5>2 DEF OnceInv, Answered, Seqs
        <5> QED
          BY <4>1, <5>1, <5>3
      <4> QED
        BY <4>2, <4>3
    <3> QED
      BY <3>1, <3>2
  <2> QED
    BY <2>5, <2>9 DEF registered, held
<1>2. Base /\ OnceInv => CallbackExactlyOnce
    BY <1>1 DEF CallbackExactlyOnce
<1> QED
    BY <1>2, OnceInvariant, PTL

-----------------------------------------------------------------------------
(***************************************************************************)
(* RequestContract.  A request is named by its sequence number, and the    *)
(* number is drawn in one region and registered in another: the numbers    *)
(* that threads hold in between are new, and no two of them are the same.  *)
(* A request that the parser has popped is in nobody else's hands.         *)
(***************************************************************************)
Outstanding(s) == s \in sentRequests \/ (pst = "popped" /\ pmsg.n = s)
Used(s) == Outstanding(s) \/ response[s] # None
Numbered(t) == tpc[t] = "numbered"

FreshInv ==
    /\ pst = "popped" => pmsg.n \notin sentRequests
    /\ \A s \in Seqs : Outstanding(s) => response[s] = None
    /\ \A s \in Seqs : Used(s) => s < nextSeq
    /\ \A t \in Threads : Numbered(t) => treq[t] < nextSeq /\ ~Used(treq[t])
    /\ \A t, u \in Threads : Numbered(t) /\ Numbered(u) /\ treq[t] = treq[u] => t = u

LEMMA InitFresh == Init => FreshInv
BY DEF Init, FreshInv, Outstanding, Used, Numbered

\* Nothing is numbered, registered or answered.
LEMMA FrameFresh ==
    ASSUME FreshInv, UNCHANGED <<nextSeq, sentRequests, response>>,
           pst' = "popped" => pst = "popped" /\ pmsg' = pmsg,
           \A t \in Threads : Numbered(t)' => Numbered(t) /\ treq'[t] = treq[t]
    PROVE  FreshInv'
<1>1. \A s : Outstanding(s)' => Outstanding(s)
    BY DEF Outstanding
<1>2. \A s : Used(s)' => Used(s)
    BY <1>1 DEF Used
<1> QED
    BY <1>1, <1>2 DEF FreshInv

LEMMA CallerFresh ==
    ASSUME Base, FreshInv, NEW t \in Threads, Caller(t)
    PROVE  FreshInv'
<1>t. /\ tpc \in [Threads -> {"idle", "numbered", "sent", "waiting"}]
      /\ treq \in [Threads -> 0 .. MaxSeq] /\ nextSeq \in 1 .. MaxSeq + 1
      /\ Numbered(t) => treq[t] \in Seqs
    BY DEF Base, TypeInv, TypeOK, RequestOK, Numbered
<1>1. CASE TakeSeq(t)
  <2>1. /\ UNCHANGED <<sentRequests, response, pst, pmsg>> /\ nextSeq <= MaxSeq
        /\ nextSeq' = nextSeq + 1 /\ treq'[t] = nextSeq
        /\ \A u \in Threads : u # t => tpc'[u] = tpc[u] /\ treq'[u] = treq[u]
    BY <1>t, <1>1 DEF TakeSeq, parVars
  <2>2. (\A s : Outstanding(s)' <=> Outstanding(s)) /\ (\A s : Used(s)' <=> Used(s))
    BY <2>1 DEF Outstanding, Used
  <2>3. nextSeq \in Seqs /\ nextSeq < nextSeq' /\ ~Used(nextSeq)
    BY <1>t, <2>1 DEF FreshInv, Seqs
  <2>4. \A u \in Threads : u # t => (Numbered(u)' <=> Numbered(u))
    BY <2>1 DEF Numbered
  <2>5. \A u \in Threads : Numbered(u)' => treq'[u] < nextSeq' /\ ~Used(treq'[u])
    BY <1>t, <2>1, <2>3, <2>4 DEF FreshInv
  <2>6. \A u, v \in Threads : Numbered(u)' /\ Numbered(v)' /\ treq'[u] = treq'[v] => u = v
    BY <1>t, <2>1, <2>3, <2>4 DEF FreshInv
  <2>7. \A s \in Seqs : Used(s)' => s < nextSeq'
    BY <1>t, <2>1, <2>2 DEF FreshInv, Seqs
  <2>8. \A u \in Threads : Numbered(u)' => ~Used(treq[u])'
    BY <2>1, <2>5 DEF Used, Outstanding
  <2> QED
    BY <2>1, <2>2, <2>5, <2>6, <2>7, <2>8 DEF FreshInv
<1>2. CASE RegisterAndWrite(t)
  <2>1. /\ sentRequests' = sentRequests \cup {treq[t]} /\ Numbered(t)
        /\ UNCHANGED <<nextSeq, response, pst, pmsg>> /\ ~Numbered(t)'
        /\ \A u \in Threads : u # t => tpc'[u] = tpc[u] /\ treq'[u] = treq[u]
    BY <1>t, <1>2 DEF RegisterAndWrite, parVars, Numbered
  <2>2. \A s : (Outstanding(s)' <=> Outstanding(s) \/ s = treq[t])
    BY <2>1 DEF Outstanding
  <2>3. \A s : (Used(s)' <=> Used(s) \/ s = treq[t])
    BY <2>1, <2>2 DEF Used
  <2>4. treq[t] \in Seqs /\ treq[t] < nextSeq /\ ~Used(treq[t])
    BY <1>t, <2>1 DEF FreshInv
  <2>5. \A u \in Threads : Numbered(u)' => Numbered(u) /\ u # t /\ treq'[u] = treq[u]
    BY <2>1 DEF Numbered
  <2>6. response[treq[t]] = None /\ (pst = "popped" => pmsg.n # treq[t])
    BY <2>4 DEF Used, Outstanding
  <2>7. pst' = "popped" => pmsg'.n \notin sentRequests'
    BY <2>1, <2>6 DEF FreshInv
  <2>8. \A s \in Seqs : Outstanding(s)' => response'[s] = None
    BY <2>1, <2>2, <2>6 DEF FreshInv
  <2>9. \A s \in Seqs : Used(s)' => s < nextSeq'
    BY <2>1, <2>3, <2>4 DEF FreshInv
  <2>10. \A u \in Threads : Numbered(u)' => treq'[u] < nextSeq' /\ ~Used(treq[u])'
    <3>1. SUFFICES ASSUME NEW u \in Threads, Numbered(u)'
                   PROVE  treq'[u] < nextSeq' /\ ~Used(treq[u])'
      OBVIOUS
    <3>2. Numbered(u) /\ u # t /\ treq'[u] = treq[u]
      BY <2>5, <3>1
    <3>3. treq[u] # treq[t] /\ treq[u] < nextSeq /\ ~Used(treq[u])
      BY <2>1, <3>2 DEF FreshInv
    <3>4. PICK r : r = treq[u]
      OBVIOUS
    <3>5. ~Used(r)'
      BY <2>3, <3>3, <3>4
    <3>6. ~Used(treq[u])'
      BY <3>2, <3>4, <3>5
    <3> QED
      BY <2>1, <3>2, <3>3, <3>6
  <2>11. \A u, v \in Threads : Numbered(u)' /\ Numbered(v)' /\ treq'[u] = treq'[v] => u = v
    BY <2>5 DEF FreshInv
  <2> QED
    BY <2>7, <2>8, <2>9, <2>10, <2>11 DEF FreshInv
<1>3. CASE BeginWait(t) \/ WakeFromWait(t) \/ Forget(t) \/ Close(t)
  <2>1. /\ UNCHANGED <<nextSeq, sentRequests, response, pst, pmsg>>
        /\ \A u \in Threads : tpc'[u] = "numbered" => tpc[u] = "numbered" /\ treq'[u] = treq[u]
    BY <1>t, <1>3 DEF BeginWait, WakeFromWait, Forget, Close, reqVars, parVars, thrVars
  <2> QED
    BY <2>1, FrameFresh DEF Numbered
<1>4. CASE (\E c \in Callbacks : OnResponse(t, c)) \/ (\E n \in 1 .. MaxIn : RespondDeferred(t, n))
  <2>1. UNCHANGED <<nextSeq, sentRequests, response, pst, pmsg, tpc, treq>>
    BY <1>4 DEF OnResponse, RespondDeferred, reqVars, parVars, thrVars
  <2> QED
    BY <2>1, FrameFresh DEF Numbered
<1> QED
    BY <1>1, <1>2, <1>3, <1>4 DEF Caller

LEMMA ParserFresh ==
    ASSUME Base, FreshInv, Parser
    PROVE  FreshInv'
<1>t. /\ response \in [Seqs -> {None, "reply", "lost"}] /\ sentRequests \subseteq Seqs
      /\ pst = "popped" => pmsg.n \in Seqs
    BY DEF Base, TypeInv, TypeOK, PoppedOK
<1>u. UNCHANGED <<nextSeq, tpc, treq>>
    BY DEF Parser, ReadMessage, ParseEventOrRequest, ParseInvalid, PopRequest, SetResponse,
           SetUnknownResponse, Drain, reqVars, thrVars
<1>n. \A t \in Threads : Numbered(t)' <=> Numbered(t)
    BY <1>u DEF Numbered
<1>1. CASE ReadMessage \/ ParseEventOrRequest \/ ParseInvalid \/ SetUnknownResponse
  <2>1. UNCHANGED <<sentRequests, response>> /\ pst' # "popped"
    BY <1>1 DEF ReadMessage, ParseEventOrRequest, ParseInvalid, SetUnknownResponse, reqVars,
                NextMessage
  <2> QED
    BY <1>u, <1>n, <2>1, FrameFresh
<1>2. CASE PopRequest /\ pmsg.n \notin sentRequests
  <2>1. UNCHANGED <<sentRequests, response>> /\ pst' # "popped"
    BY <1>2 DEF PopRequest
  <2> QED
    BY <1>u, <1>n, <2>1, FrameFresh
<1>s. ASSUME \A s \in Seqs : Used(s)' => Used(s)
      PROVE  /\ \A s \in Seqs : Used(s)' => s < nextSeq'
             /\ \A t \in Threads : Numbered(t)' => treq'[t] < nextSeq' /\ ~Used(treq[t])'
             /\ \A t, u \in Threads :
                    Numbered(t)' /\ Numbered(u)' /\ treq'[t] = treq'[u] => t = u
  <2>1. \A t \in Threads : Numbered(t) => treq[t] \in Seqs
    BY DEF Base, TypeInv, RequestOK, Numbered
  <2>2. \A t \in Threads : Numbered(t)' => treq'[t] < nextSeq' /\ ~Used(treq[t])'
    <3>1. SUFFICES ASSUME NEW t \in Threads, Numbered(t)'
                   PROVE  treq'[t] < nextSeq' /\ ~Used(treq[t])'
      OBVIOUS
    <3>2. treq[t] \in Seqs /\ treq[t] < nextSeq /\ ~Used(treq[t]) /\ treq'[t] = treq[t]
      BY <1>u, <1>n, <2>1, <3>1 DEF FreshInv
    <3>3. PICK r : r = treq[t]
      OBVIOUS
    <3>4. ~Used(r)'
      BY <1>s, <3>2, <3>3
    <3>5. ~Used(treq[t])'
      BY <3>2, <3>3, <3>4
    <3> QED
      BY <1>u, <3>2, <3>5
  <2> QED
    BY <1>u, <1>n, <1>s, <2>2 DEF FreshInv
<1>3. CASE PopRequest /\ pmsg.n \in sentRequests
  <2>1. /\ pst' = "popped" /\ sentRequests' = sentRequests \ {pmsg.n} /\ pst = "got"
        /\ UNCHANGED <<response, pmsg>>
    BY <1>3 DEF PopRequest
  <2>2. \A s : Outstanding(s)' <=> Outstanding(s)
    BY <1>3, <2>1 DEF Outstanding
  <2>3. \A s : Used(s)' <=> Used(s)
    BY <2>1, <2>2 DEF Used
  <2>4. pst' = "popped" => pmsg'.n \notin sentRequests'
    BY <2>1
  <2>5. \A s \in Seqs : Outstanding(s)' => response'[s] = None
    BY <2>1, <2>2 DEF FreshInv
  <2> QED
    BY <1>s, <2>3, <2>4, <2>5 DEF FreshInv
<1>4. CASE SetResponse
  <2>1. /\ pst = "popped" /\ pst' = "reading" /\ sentRequests' = sentRequests /\ pmsg.n \in Seqs
        /\ response' = [response EXCEPT ![pmsg.n] = "reply"]
    BY <1>t, <1>4 DEF SetResponse, NextMessage
  <2>2. \A s \in Seqs : s # pmsg.n => response'[s] = response[s]
    BY <1>t, <2>1
  <2>3. \A s : Outstanding(s)' <=> s \in sentRequests
    BY <2>1 DEF Outstanding
  <2>4. Outstanding(pmsg.n) /\ pmsg.n \notin sentRequests
    BY <2>1 DEF Outstanding, FreshInv
  <2>5. \A s \in Seqs : Outstanding(s)' => response'[s] = None
    BY <2>2, <2>3, <2>4 DEF FreshInv, Outstanding
  <2>6. \A s \in Seqs : Used(s)' => Used(s)
    BY <2>2, <2>3, <2>4 DEF Used, Outstanding
  <2>7. pst' # "popped"
    BY <2>1
  <2> QED
    BY <1>s, <2>5, <2>6, <2>7 DEF FreshInv
<1>5. CASE Drain
  <2>1. /\ pst = "reading" /\ pst' = "done" /\ sentRequests' = {}
        /\ response' = [s \in Seqs |-> IF s \in sentRequests THEN "lost" ELSE response[s]]
    BY <1>5 DEF Drain
  <2>2. \A s : ~Outstanding(s)'
    BY <2>1 DEF Outstanding
  <2>3. \A s \in Seqs : Used(s)' => Used(s)
    BY <2>1, <2>2 DEF Used, Outstanding
  <2>4. pst' # "popped"
    BY <2>1
  <2> QED
    BY <1>s, <2>2, <2>3, <2>4 DEF FreshInv
<1> QED
    BY <1>1, <1>2, <1>3, <1>4, <1>5 DEF Parser

LEMMA FreshInvariant == Spec => [](Base /\ OnceInv /\ FreshInv)
<1>1. ASSUME Base, FreshInv, [Next]_vars
      PROVE  FreshInv'
  <2>1. CASE UNCHANGED vars \/ Peer
    <3>1. UNCHANGED <<nextSeq, sentRequests, response, pst, pmsg, tpc, treq>>
      BY <2>1 DEF Peer, PeerSend, PeerRespond, PeerDisconnect, vars, reqVars, parVars, thrVars
    <3> QED
      BY <1>1, <3>1, FrameFresh DEF Numbered
  <2>2. CASE \E h \in HThreads : HandlerLoop(h)
    <3>1. UNCHANGED <<nextSeq, sentRequests, response, pst, pmsg, tpc, treq>>
      BY <2>2 DEF HandlerLoop, HandlerTop, HandlerJoin, HandlerTake, HandlerWake, NextHandler,
                  reqVars, parVars, thrVars
    <3> QED
      BY <1>1, <3>1, FrameFresh DEF Numbered
  <2>3. CASE \E h \in HThreads : HandlerReturn(h)
    <3>1. UNCHANGED <<nextSeq, sentRequests, response, pst, pmsg, tpc, treq>>
      BY <2>3 DEF HandlerReturn, ReturnFromEvent, ReturnFromCallback, ReturnBody,
                  ReturnNoResponse, RaiseHandlingError, RaiseOther, reqVars, parVars, thrVars
    <3> QED
      BY <1>1, <3>1, FrameFresh DEF Numbered
  <2> QED
    BY <1>1, <2>1, <2>2, <2>3, CallerFresh, ParserFresh DEF Next
<1>2. Base /\ FreshInv /\ [Next]_vars => FreshInv'
    BY <1>1
<1> QED
    BY <1>2, OnceInvariant, InitFresh, PTL DEF Spec

\* The state of the contract, as Contract derives it.
Status == [s \in Seqs |->
            IF response[s] # None THEN response[s]
            ELSE IF s \in sentRequests \/ (pst = "popped" /\ pmsg.n = s) THEN "pending"
            ELSE "unissued"]
Waiting == [t \in Threads |-> IF tpc[t] = "waiting" THEN treq[t] ELSE 0]

LEMMA StatusOf ==
    ASSUME NEW s \in Seqs
    PROVE  /\ response[s] # None => Status[s] = response[s]
           /\ response[s] = None /\ Outstanding(s) => Status[s] = "pending"
           /\ response[s] = None /\ ~Outstanding(s) => Status[s] = "unissued"
BY DEF Status, Outstanding

\* What a step has to show for each action of the contract.
LEMMA ContractSteps ==
    /\ Status' = Status /\ (pst = "done" <=> pst' = "done") /\ Waiting' = Waiting
       /\ cbReq' = cbReq /\ ran' = ran => UNCHANGED Contract!vars
    /\ \A s \in Seqs :
        /\ Status[s] = "unissued" /\ Status' = [Status EXCEPT ![s] = "pending"]
        /\ (pst = "done" <=> pst' = "done") /\ Waiting' = Waiting /\ cbReq' = cbReq /\ ran' = ran
        => Contract!Issue(s)
    /\ \A s \in Seqs :
        /\ pst # "done" /\ Status[s] = "pending" /\ Status' = [Status EXCEPT ![s] = "reply"]
        /\ pst' # "done" /\ Waiting' = Waiting /\ cbReq' = cbReq /\ ran' = ran
        => Contract!Reply(s)
    /\ (/\ pst # "done" /\ pst' = "done" /\ Waiting' = Waiting /\ cbReq' = cbReq /\ ran' = ran
        /\ Status' = [s \in Seqs |-> IF Status[s] = "pending" THEN "lost" ELSE Status[s]])
       => Contract!GoDown
    /\ \A t \in Threads, s \in Seqs :
        /\ Waiting[t] = 0 /\ Status[s] = "pending" /\ pst # "done" /\ pst' # "done"
        /\ Waiting' = [Waiting EXCEPT ![t] = s] /\ Status' = Status
        /\ cbReq' = cbReq /\ ran' = ran
        => Contract!Wait(t, s)
    /\ \A t \in Threads :
        /\ Waiting[t] # 0 /\ Status[Waiting[t]] \in {"reply", "lost"}
        /\ Waiting' = [Waiting EXCEPT ![t] = 0] /\ Status' = Status
        /\ (pst = "done" <=> pst' = "done") /\ cbReq' = cbReq /\ ran' = ran
        => Contract!Return(t)
    /\ \A c \in Callbacks, s \in Seqs :
        /\ cbReq[c] = 0 /\ Status[s] # "unissued" /\ cbReq' = [cbReq EXCEPT ![c] = s]
        /\ Waiting' = Waiting /\ Status' = Status /\ (pst = "done" <=> pst' = "done")
        /\ ran' = ran
        => Contract!Register(c, s)
    /\ \A c \in Callbacks :
        /\ cbReq[c] # 0 /\ Status[cbReq[c]] \in {"reply", "lost"} /\ c \notin ran
        /\ ran' = ran \cup {c} /\ Waiting' = Waiting /\ Status' = Status
        /\ (pst = "done" <=> pst' = "done") /\ cbReq' = cbReq
        => Contract!Invoke(c)
BY DEF Status, Waiting, Contract!vars, Contract!Issue, Contract!Reply, Contract!GoDown,
       Contract!Wait, Contract!Return, Contract!Complete, Contract!Register, Contract!Invoke

\* The contract's state is a function of these.
LEMMA SameStatus ==
    ASSUME UNCHANGED response, \A s \in Seqs : Outstanding(s)' <=> Outstanding(s)
    PROVE  Status' = Status
BY DEF Status, Outstanding

LEMMA InitContract == Init => Contract!Init
BY DEF Init, Contract!Init

\* A sender's step is one of the contract's: sending a request issues it, and
\* waiting, returning and registering a callback are what they are there.
LEMMA CallerContract ==
    ASSUME Base, FreshInv, NEW t \in Threads, Caller(t)
    PROVE  [Contract!Next]_Contract!vars
<1>t. /\ tpc \in [Threads -> {"idle", "numbered", "sent", "waiting"}]
      /\ treq \in [Threads -> 0 .. MaxSeq] /\ cbReq \in [Callbacks -> 0 .. MaxSeq]
      /\ response \in [Seqs -> {None, "reply", "lost"}]
      /\ tpc[t] # "idle" => treq[t] \in Seqs /\ treq[t] # 0
      /\ \A u \in Threads : tpc[u] # "idle" => treq[u] \in Seqs
    BY DEF Base, TypeInv, TypeOK, RequestOK, Seqs
<1>u. UNCHANGED <<response, pst, pmsg, ran>>
    BY DEF Caller, TakeSeq, RegisterAndWrite, BeginWait, WakeFromWait, OnResponse, Forget, Close,
           RespondDeferred, reqVars, parVars, inVars
<1>s. sentRequests' = sentRequests => Status' = Status
    BY <1>u, SameStatus DEF Outstanding
<1>i. tpc[t] \in {"sent", "waiting"} /\ response[treq[t]] = None =>
            pst # "done" /\ Outstanding(treq[t])
    BY DEF Base, SafetyInv, SentIsTracked, InTheHandsOfParser, Outstanding
<1>w. \A u \in Threads : Waiting[u] = IF tpc[u] = "waiting" THEN treq[u] ELSE 0
    BY DEF Waiting
<1>1. CASE TakeSeq(t) \/ Forget(t) \/ Close(t) \/ \E n \in 1 .. MaxIn : RespondDeferred(t, n)
  <2>1. /\ sentRequests' = sentRequests /\ cbReq' = cbReq
        /\ \/ tpc' = tpc /\ treq' = treq
           \/ /\ tpc[t] \in {"idle", "sent"} /\ tpc'[t] \in {"idle", "numbered"}
              /\ \A u \in Threads : u # t => tpc'[u] = tpc[u] /\ treq'[u] = treq[u]
    <3>1. CASE TakeSeq(t) \/ Forget(t)
      BY <1>t, <3>1 DEF TakeSeq, Forget, CanCall, reqVars
    <3>2. CASE Close(t) \/ \E n \in 1 .. MaxIn : RespondDeferred(t, n)
      BY <3>2 DEF Close, RespondDeferred, reqVars, thrVars
    <3> QED
      BY <1>1, <3>1, <3>2
  <2>2. Waiting' = Waiting
    BY <2>1 DEF Waiting
  <2> QED
    BY <1>u, <1>s, <2>1, <2>2, ContractSteps
<1>2. CASE RegisterAndWrite(t)
  <2>1. /\ sentRequests' = sentRequests \cup {treq[t]} /\ tpc[t] = "numbered" /\ cbReq' = cbReq
        /\ tpc'[t] \in {"sent", "idle"}
        /\ \A u \in Threads : u # t => tpc'[u] = tpc[u] /\ treq'[u] = treq[u]
    BY <1>t, <1>2 DEF RegisterAndWrite
  <2>2. Waiting' = Waiting
    BY <2>1 DEF Waiting
  <2>3. PICK r : r = treq[t]
    OBVIOUS
  <2>4. r \in Seqs /\ response[r] = None /\ ~Outstanding(r)
    BY <1>t, <2>1, <2>3 DEF FreshInv, Numbered, Used
  <2>5. Status[r] = "unissued"
    BY <2>4, StatusOf
  <2>6. Status' = [Status EXCEPT ![r] = "pending"]
    BY <1>u, <2>1, <2>3, <2>4 DEF Status
  <2>7. Contract!Issue(r)
    BY <1>u, <2>1, <2>2, <2>4, <2>5, <2>6, ContractSteps
  <2> QED
    BY <2>4, <2>7 DEF Contract!Next
<1>3. CASE BeginWait(t)
  <2>1. /\ sentRequests' = sentRequests /\ cbReq' = cbReq /\ treq' = treq
        /\ tpc[t] = "sent" /\ response[treq[t]] = None /\ tpc' = [tpc EXCEPT ![t] = "waiting"]
    BY <1>3 DEF BeginWait, reqVars
  <2>2. PICK r : r = treq[t]
    OBVIOUS
  <2>3. r \in Seqs /\ pst # "done" /\ Outstanding(r) /\ response[r] = None
    BY <1>t, <1>i, <2>1, <2>2
  <2>4. Status[r] = "pending" /\ Waiting[t] = 0
    BY <1>w, <2>1, <2>3, StatusOf
  <2>5. Waiting' = [Waiting EXCEPT ![t] = r]
    BY <1>t, <2>1, <2>2 DEF Waiting
  <2>6. Contract!Wait(t, r)
    BY <1>u, <1>s, <2>1, <2>3, <2>4, <2>5, ContractSteps
  <2> QED
    BY <2>3, <2>6 DEF Contract!Next
<1>4. CASE WakeFromWait(t)
  <2>1. /\ sentRequests' = sentRequests /\ cbReq' = cbReq /\ treq' = treq /\ tpc[t] = "waiting"
        /\ \/ tpc' = tpc
           \/ response[treq[t]] # None /\ tpc' = [tpc EXCEPT ![t] = "sent"]
    BY <1>4 DEF WakeFromWait, reqVars
  <2>2. CASE tpc' = tpc
    <3>1. Waiting' = Waiting
      BY <2>1, <2>2 DEF Waiting
    <3> QED
      BY <1>u, <1>s, <2>1, <3>1, ContractSteps
  <2>3. CASE response[treq[t]] # None /\ tpc' = [tpc EXCEPT ![t] = "sent"]
    <3>1. Waiting' = [Waiting EXCEPT ![t] = 0]
      BY <1>t, <2>1, <2>3 DEF Waiting
    <3>2. Waiting[t] # 0 /\ Waiting[t] \in Seqs /\ response[Waiting[t]] # None
      BY <1>t, <1>w, <2>1, <2>3
    <3>3. Status[Waiting[t]] \in {"reply", "lost"}
      BY <1>t, <3>2, StatusOf
    <3>4. Contract!Return(t)
      BY <1>u, <1>s, <2>1, <3>1, <3>2, <3>3, ContractSteps
    <3> QED
      BY <3>4 DEF Contract!Next
  <2> QED
    BY <2>1, <2>2, <2>3
<1>5. ASSUME NEW c \in Callbacks, OnResponse(t, c)
      PROVE  [Contract!Next]_Contract!vars
  <2>1. /\ sentRequests' = sentRequests /\ cbReq[c] = 0 /\ tpc[t] = "sent"
        /\ cbReq' = [cbReq EXCEPT ![c] = treq[t]] /\ tpc' = tpc /\ treq' = treq
    BY <1>5 DEF OnResponse, thrVars
  <2>2. PICK r : r = treq[t]
    OBVIOUS
  <2>3. r \in Seqs /\ (response[r] = None => Outstanding(r))
    BY <1>t, <1>i, <2>1, <2>2
  <2>4. Status[r] # "unissued"
    <3>1. CASE response[r] = None
      BY <2>3, <3>1, StatusOf
    <3>2. CASE response[r] # None
      BY <1>t, <2>3, <3>2, StatusOf
    <3> QED
      BY <3>1, <3>2
  <2>5. Waiting' = Waiting
    BY <2>1 DEF Waiting
  <2>6. Contract!Register(c, r)
    BY <1>u, <1>s, <2>1, <2>2, <2>3, <2>4, <2>5, ContractSteps
  <2> QED
    BY <2>3, <2>6 DEF Contract!Next
<1> QED
    BY <1>1, <1>2, <1>3, <1>4, <1>5 DEF Caller

\* The parser's: popping a request changes nothing for the contract, the response
\* completes it, and the end of the connection completes all that are left.
LEMMA ParserContract ==
    ASSUME Base, FreshInv, Parser
    PROVE  [Contract!Next]_Contract!vars
<1>t. /\ response \in [Seqs -> {None, "reply", "lost"}] /\ sentRequests \subseteq Seqs
      /\ pst = "popped" => pmsg.n \in Seqs
    BY DEF Base, TypeInv, TypeOK, PoppedOK
<1>u. UNCHANGED <<cbReq, ran, tpc, treq>>
    BY DEF Parser, ReadMessage, ParseEventOrRequest, ParseInvalid, PopRequest, SetResponse,
           SetUnknownResponse, Drain, reqVars, thrVars, inVars
<1>w. Waiting' = Waiting
    BY <1>u DEF Waiting
<1>1. CASE ReadMessage \/ ParseEventOrRequest \/ ParseInvalid \/ SetUnknownResponse
  <2>1. /\ UNCHANGED <<sentRequests, response>> /\ pst \notin {"popped", "done"}
        /\ pst' \notin {"popped", "done"}
    BY <1>1 DEF ReadMessage, ParseEventOrRequest, ParseInvalid, SetUnknownResponse, reqVars,
                NextMessage
  <2>2. Status' = Status
    BY <2>1, SameStatus DEF Outstanding
  <2> QED
    BY <1>u, <1>w, <2>1, <2>2, ContractSteps
<1>2. CASE PopRequest
  <2>1. /\ UNCHANGED <<response, pmsg>> /\ pst = "got"
        /\ \/ /\ pst' = "popped" /\ pmsg.n \in sentRequests
              /\ sentRequests' = sentRequests \ {pmsg.n}
           \/ pst' = "unknown" /\ sentRequests' = sentRequests
    BY <1>2 DEF PopRequest
  <2>2. \A s \in Seqs : Outstanding(s)' <=> Outstanding(s)
    BY <2>1 DEF Outstanding
  <2>3. Status' = Status
    BY <2>1, <2>2, SameStatus
  <2> QED
    BY <1>u, <1>w, <2>1, <2>3, ContractSteps
<1>3. CASE SetResponse
  <2>1. /\ pst = "popped" /\ pst' = "reading" /\ sentRequests' = sentRequests
        /\ response' = [response EXCEPT ![pmsg.n] = "reply"]
    BY <1>3 DEF SetResponse, NextMessage
  <2>2. PICK r : r = pmsg.n
    OBVIOUS
  <2>3. r \in Seqs /\ Outstanding(r) /\ response[r] = None
    BY <1>t, <2>1, <2>2 DEF FreshInv, Outstanding
  <2>4. Status[r] = "pending"
    BY <2>3, StatusOf
  <2>5. Status' = [Status EXCEPT ![r] = "reply"]
    BY <1>t, <2>1, <2>2, <2>3 DEF Status
  <2>6. Contract!Reply(r)
    BY <1>u, <1>w, <2>1, <2>3, <2>4, <2>5, ContractSteps
  <2> QED
    BY <2>3, <2>6 DEF Contract!Next
<1>4. CASE Drain
  <2>1. /\ pst = "reading" /\ pst' = "done" /\ sentRequests' = {}
        /\ response' = [s \in Seqs |-> IF s \in sentRequests THEN "lost" ELSE response[s]]
    BY <1>4 DEF Drain
  <2>2. \A s \in Seqs : Outstanding(s) <=> s \in sentRequests
    BY <2>1 DEF Outstanding
  <2>3. \A s \in Seqs : Status'[s] = IF Status[s] = "pending" THEN "lost" ELSE Status[s]
    <3>1. SUFFICES ASSUME NEW s \in Seqs
                   PROVE  Status'[s] = IF Status[s] = "pending" THEN "lost" ELSE Status[s]
      OBVIOUS
    <3>2. CASE s \in sentRequests
      <4>1. Status[s] = "pending"
        BY <2>2, <3>2, StatusOf DEF FreshInv
      <4>2. response'[s] = "lost"
        BY <2>1, <3>2
      <4>3. Status'[s] = "lost"
        BY <4>2 DEF Status
      <4> QED
        BY <4>1, <4>3
    <3>3. CASE s \notin sentRequests
      <4>1. response'[s] = response[s] /\ ~Outstanding(s)' /\ ~Outstanding(s)
        BY <2>1, <2>2, <3>3 DEF Outstanding
      <4>2. Status'[s] = Status[s]
        BY <4>1 DEF Status, Outstanding
      <4>3. Status[s] # "pending"
        BY <1>t, <4>1, StatusOf
      <4> QED
        BY <4>2, <4>3
    <3> QED
      BY <3>2, <3>3
  <2>4. Status' = [s \in Seqs |-> IF Status[s] = "pending" THEN "lost" ELSE Status[s]]
    BY <2>3 DEF Status
  <2>5. Contract!GoDown
    BY <1>u, <1>w, <2>1, <2>4, ContractSteps
  <2> QED
    BY <2>5 DEF Contract!Next
<1> QED
    BY <1>1, <1>2, <1>3, <1>4 DEF Parser

\* The handler thread's: what it runs is an invocation.
LEMMA ReturnContract ==
    ASSUME Base, OnceInv, NEW h \in HThreads, HandlerReturn(h)
    PROVE  [Contract!Next]_Contract!vars
<1>u. UNCHANGED <<sentRequests, response, cbReq, pst, pmsg, tpc, treq>>
    BY DEF HandlerReturn, ReturnFromEvent, ReturnFromCallback, ReturnBody, ReturnNoResponse,
           RaiseHandlingError, RaiseOther, reqVars, parVars, thrVars
<1>w. Waiting' = Waiting
    BY <1>u DEF Waiting
<1>s. Status' = Status
    BY <1>u, SameStatus DEF Outstanding
<1>1. CASE ran' = ran
    BY <1>u, <1>w, <1>s, <1>1, ContractSteps
<1>2. CASE ran' # ran
  <2>1. /\ hpc[h] = "running" /\ Head(batch[h]).cbs # <<>>
        /\ ran' = ran \cup {Head(Head(batch[h]).cbs)}
    BY <1>2 DEF HandlerReturn, ReturnFromEvent, ReturnFromCallback, ReturnBody, ReturnNoResponse,
                RaiseHandlingError, RaiseOther, inVars, Returning
  <2>2. /\ batch[h] \in Seq(Item) /\ queue \in Seq(Item) /\ batch[h] # <<>>
        /\ handlerThread = h /\ h # None
        /\ response \in [Seqs -> {None, "reply", "lost"}]
    BY <2>1 DEF Base, TypeInv, TypeOK, RunningOK, SafetyInv, OneHandlerThread
  <2>3. Work = batch[h] \o queue
    BY <2>2 DEF Work, Held
  <2>4. Head(batch[h]) = Work[1] /\ Work[1] \in Item /\ 1 \in 1 .. Len(Work)
    BY <2>2, <2>3
  <2>5. Work[1].cbs \in Seq(Callbacks)
    BY <2>4 DEF Item
  <2>6. PICK c : c = Work[1].cbs[1]
    OBVIOUS
  <2>7. /\ c \in Callbacks /\ 1 \in 1 .. Len(Work[1].cbs)
        /\ ran' = ran \cup {c}
    BY <2>1, <2>4, <2>5, <2>6
  <2>8. In(c, 1, 1)
    BY <2>4, <2>6, <2>7 DEF In
  <2>9. c \notin ran /\ cbReq[c] \in Seqs /\ response[cbReq[c]] # None
    BY <2>7, <2>8 DEF OnceInv, Answered
  <2>10. cbReq[c] # 0 /\ Status[cbReq[c]] \in {"reply", "lost"}
    BY <2>2, <2>9, StatusOf DEF Seqs
  <2>11. Contract!Invoke(c)
    BY <1>u, <1>w, <1>s, <2>7, <2>9, <2>10, ContractSteps
  <2> QED
    BY <2>7, <2>11 DEF Contract!Next
<1> QED
    BY <1>1, <1>2

\* The channel implements RequestContract: for every interleaving, a request is
\* completed once, by its reply or by the loss of the connection, nobody waits for
\* what cannot come any more, and a callback runs once, for a completed request.
THEOREM ContractKept == Spec => KeepsContract
<1>1. ASSUME Base, OnceInv, FreshInv, [Next]_vars
      PROVE  [Contract!Next]_Contract!vars
  <2>1. ASSUME UNCHANGED <<sentRequests, response, cbReq, pst, pmsg, tpc, treq, ran>>
        PROVE  [Contract!Next]_Contract!vars
    <3>1. Waiting' = Waiting
      BY <2>1 DEF Waiting
    <3>2. Status' = Status
      BY <2>1, SameStatus DEF Outstanding
    <3> QED
      BY <2>1, <3>1, <3>2, ContractSteps
  <2>2. CASE UNCHANGED vars \/ Peer
    BY <2>1, <2>2 DEF Peer, PeerSend, PeerRespond, PeerDisconnect, vars, reqVars, parVars,
                      thrVars, inVars
  <2>3. CASE \E h \in HThreads : HandlerLoop(h)
    BY <2>1, <2>3 DEF HandlerLoop, HandlerTop, HandlerJoin, HandlerTake, HandlerWake, NextHandler,
                      reqVars, parVars, thrVars, inVars
  <2> QED
    BY <1>1, <2>2, <2>3, CallerContract, ParserContract, ReturnContract DEF Next
<1>2. Base /\ OnceInv /\ FreshInv /\ [Next]_vars => [Contract!Next]_Contract!vars
    BY <1>1
<1>3. Spec => Contract!Spec
    BY <1>2, InitContract, FreshInvariant, PTL DEF Spec, Contract!Spec
<1> QED
    BY <1>3 DEF KeepsContract
=============================================================================
