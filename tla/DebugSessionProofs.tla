------------------------- MODULE DebugSessionProofs -------------------------
(***************************************************************************)
(* Theorems about DebugSession, for any start requests, any number of      *)
(* events and, unless a theorem says otherwise, any faults.                *)
(***************************************************************************)
EXTENDS DebugSession, SequenceTheorems, TLAPS

-----------------------------------------------------------------------------
(***************************************************************************)
(* Sequences of messages, told apart by their kinds, and by the events of  *)
(* one process t among them.                                               *)
(***************************************************************************)
Any == [kind : {"initialized", "started", "failed", "process", "event", "exited",
                "terminated", "disconnect"},
        src : Threads, n : Nat]

Has(s, kinds) == \E i \in 1 .. Len(s) : s[i].kind \in kinds
Once(s, kinds) ==
    \A i, j \in 1 .. Len(s) : i < j => ~(s[i].kind \in kinds /\ s[j].kind \in kinds)
Follows(s) ==
    \A i \in 1 .. Len(s) :
        PassedOn(s[i]) => \E j \in 1 .. i - 1 : s[j].kind = "started"

IsEvent(m, t) == m.kind = "event" /\ m.src = t
Ordered(s, t) ==
    \A i, j \in 1 .. Len(s) : i < j /\ IsEvent(s[i], t) /\ IsEvent(s[j], t) => s[i].n < s[j].n
Precedes(s, r, t) ==
    \A i \in 1 .. Len(s), j \in 1 .. Len(r) :
        IsEvent(s[i], t) /\ IsEvent(r[j], t) => s[i].n < r[j].n
Bounded(s, t, e) == \A i \in 1 .. Len(s) : IsEvent(s[i], t) => s[i].n <= e
NoneOf(s, t) == \A i \in 1 .. Len(s) : ~IsEvent(s[i], t)

\* Where the entries of a concatenation come from.
LEMMA Entry ==
    ASSUME NEW s \in Seq(Any), NEW r \in Seq(Any)
    PROVE  /\ s \o r \in Seq(Any) /\ Len(s) \in Nat /\ Len(r) \in Nat
           /\ Len(s \o r) = Len(s) + Len(r)
           /\ \A i \in 1 .. Len(s) : i \in 1 .. Len(s \o r) /\ (s \o r)[i] = s[i]
           /\ \A i \in 1 .. Len(r) :
                i + Len(s) \in 1 .. Len(s \o r) /\ (s \o r)[i + Len(s)] = r[i]
           /\ \A i \in 1 .. Len(s \o r) :
                \/ i \in 1 .. Len(s) /\ (s \o r)[i] = s[i]
                \/ i - Len(s) \in 1 .. Len(r) /\ (s \o r)[i] = r[i - Len(s)] /\ i > Len(s)
OBVIOUS

LEMMA NumbersAreNat ==
    ASSUME NEW s \in Seq(Any)
    PROVE  \A i \in 1 .. Len(s) : s[i].n \in Nat
<1>1. \A i \in 1 .. Len(s) : s[i] \in Any
    OBVIOUS
<1>2. \A m \in Any : m.n \in Nat
    BY DEF Any
<1> QED
    BY <1>1, <1>2

LEMMA HasConcat ==
    ASSUME NEW s \in Seq(Any), NEW r \in Seq(Any), NEW K
    PROVE  Has(s \o r, K) <=> (Has(s, K) \/ Has(r, K))
<1>1. ASSUME Has(s \o r, K) PROVE Has(s, K) \/ Has(r, K)
    BY <1>1, Entry DEF Has
<1>2. ASSUME Has(s, K) PROVE Has(s \o r, K)
    BY <1>2, Entry DEF Has
<1>3. ASSUME Has(r, K) PROVE Has(s \o r, K)
  <2>1. PICK i \in 1 .. Len(r) : r[i].kind \in K
    BY <1>3 DEF Has
  <2>2. i + Len(s) \in 1 .. Len(s \o r) /\ (s \o r)[i + Len(s)].kind \in K
    BY <2>1, Entry
  <2> QED
    BY <2>2 DEF Has
<1> QED
    BY <1>1, <1>2, <1>3

\* A kind that is new is there once.
LEMMA OnceConcat ==
    ASSUME NEW s \in Seq(Any), NEW r \in Seq(Any), NEW K,
           Once(s, K), Once(r, K), ~Has(s, K) \/ ~Has(r, K)
    PROVE  Once(s \o r, K)
<1>1. SUFFICES ASSUME NEW i \in 1 .. Len(s \o r), NEW j \in 1 .. Len(s \o r), i < j,
                      (s \o r)[i].kind \in K, (s \o r)[j].kind \in K
               PROVE  FALSE
    BY DEF Once
<1>2. CASE i \in 1 .. Len(s) /\ j \in 1 .. Len(s)
    BY <1>1, <1>2, Entry DEF Once
<1>3. CASE i - Len(s) \in 1 .. Len(r) /\ j - Len(s) \in 1 .. Len(r) /\ i > Len(s) /\ j > Len(s)
  <2>1. (s \o r)[i] = r[i - Len(s)] /\ (s \o r)[j] = r[j - Len(s)] /\ i - Len(s) < j - Len(s)
    BY <1>1, <1>3, Entry
  <2> QED
    BY <1>1, <1>3, <2>1 DEF Once
<1>4. CASE i \in 1 .. Len(s) /\ j - Len(s) \in 1 .. Len(r) /\ j > Len(s)
  <2>1. (s \o r)[i] = s[i] /\ (s \o r)[j] = r[j - Len(s)]
    BY <1>1, <1>4, Entry
  <2> QED
    BY <1>1, <1>4, <2>1 DEF Has
<1> QED
    BY <1>1, <1>2, <1>3, <1>4, Entry

\* After "started" anything may follow; before it, anything but events.
LEMMA FollowsConcat ==
    ASSUME NEW s \in Seq(Any), NEW r \in Seq(Any), Follows(s),
           Has(s, {"started"}) \/ \A i \in 1 .. Len(r) : ~PassedOn(r[i])
    PROVE  Follows(s \o r)
<1>1. SUFFICES ASSUME NEW i \in 1 .. Len(s \o r), PassedOn((s \o r)[i])
               PROVE  \E j \in 1 .. i - 1 : (s \o r)[j].kind = "started"
    BY DEF Follows
<1>2. CASE i \in 1 .. Len(s) /\ (s \o r)[i] = s[i]
  <2>1. PICK j \in 1 .. i - 1 : s[j].kind = "started"
    BY <1>1, <1>2 DEF Follows
  <2>2. j \in 1 .. Len(s)
    BY <1>2, Entry
  <2> QED
    BY <2>1, <2>2, Entry
<1>3. CASE i - Len(s) \in 1 .. Len(r) /\ (s \o r)[i] = r[i - Len(s)] /\ i > Len(s)
  <2>1. PICK j \in 1 .. Len(s) : s[j].kind = "started"
    BY <1>1, <1>3 DEF Has
  <2>2. j \in 1 .. i - 1
    BY <1>3, Entry
  <2> QED
    BY <2>1, <2>2, Entry
<1> QED
    BY <1>2, <1>3, Entry

LEMMA OrderedConcat ==
    ASSUME NEW s \in Seq(Any), NEW r \in Seq(Any), NEW t,
           Ordered(s, t), Ordered(r, t), Precedes(s, r, t)
    PROVE  Ordered(s \o r, t)
<1>1. SUFFICES ASSUME NEW i \in 1 .. Len(s \o r), NEW j \in 1 .. Len(s \o r), i < j,
                      IsEvent((s \o r)[i], t), IsEvent((s \o r)[j], t)
               PROVE  (s \o r)[i].n < (s \o r)[j].n
    BY DEF Ordered
<1>2. CASE i \in 1 .. Len(s) /\ j \in 1 .. Len(s)
    BY <1>1, <1>2, Entry DEF Ordered
<1>3. CASE i - Len(s) \in 1 .. Len(r) /\ j - Len(s) \in 1 .. Len(r) /\ i > Len(s) /\ j > Len(s)
  <2>1. (s \o r)[i] = r[i - Len(s)] /\ (s \o r)[j] = r[j - Len(s)] /\ i - Len(s) < j - Len(s)
    BY <1>1, <1>3, Entry
  <2> QED
    BY <1>1, <1>3, <2>1 DEF Ordered
<1>4. CASE i \in 1 .. Len(s) /\ j - Len(s) \in 1 .. Len(r) /\ j > Len(s)
  <2>1. (s \o r)[i] = s[i] /\ (s \o r)[j] = r[j - Len(s)]
    BY <1>1, <1>4, Entry
  <2> QED
    BY <1>1, <1>4, <2>1 DEF Precedes
<1> QED
    BY <1>1, <1>2, <1>3, <1>4, Entry

LEMMA PrecedesConcat ==
    ASSUME NEW s \in Seq(Any), NEW r \in Seq(Any), NEW q, NEW t
    PROVE  /\ Precedes(s, q, t) /\ Precedes(r, q, t) => Precedes(s \o r, q, t)
           /\ Precedes(q, s, t) /\ Precedes(q, r, t) => Precedes(q, s \o r, t)
<1>1. ASSUME Precedes(s, q, t), Precedes(r, q, t) PROVE Precedes(s \o r, q, t)
  <2>1. SUFFICES ASSUME NEW i \in 1 .. Len(s \o r), NEW j \in 1 .. Len(q),
                        IsEvent((s \o r)[i], t), IsEvent(q[j], t)
                 PROVE  (s \o r)[i].n < q[j].n
    BY DEF Precedes
  <2>2. \/ i \in 1 .. Len(s) /\ (s \o r)[i] = s[i]
        \/ i - Len(s) \in 1 .. Len(r) /\ (s \o r)[i] = r[i - Len(s)]
    BY Entry
  <2> QED
    BY <1>1, <2>1, <2>2 DEF Precedes
<1>2. ASSUME Precedes(q, s, t), Precedes(q, r, t) PROVE Precedes(q, s \o r, t)
  <2>1. SUFFICES ASSUME NEW i \in 1 .. Len(s \o r), NEW j \in 1 .. Len(q),
                        IsEvent((s \o r)[i], t), IsEvent(q[j], t)
                 PROVE  q[j].n < (s \o r)[i].n
    BY DEF Precedes
  <2>2. \/ i \in 1 .. Len(s) /\ (s \o r)[i] = s[i]
        \/ i - Len(s) \in 1 .. Len(r) /\ (s \o r)[i] = r[i - Len(s)]
    BY Entry
  <2> QED
    BY <1>2, <2>1, <2>2 DEF Precedes
<1> QED
    BY <1>1, <1>2

LEMMA BoundedConcat ==
    ASSUME NEW s \in Seq(Any), NEW r \in Seq(Any), NEW t, NEW e,
           Bounded(s, t, e), Bounded(r, t, e)
    PROVE  Bounded(s \o r, t, e)
BY Entry DEF Bounded

\* What is not about t does not matter, and the empty sequence is about nobody.
LEMMA NoneMatters ==
    ASSUME NEW s, NEW t, NoneOf(s, t)
    PROVE  /\ Ordered(s, t)
           /\ \A q : Precedes(s, q, t) /\ Precedes(q, s, t)
           /\ \A e : Bounded(s, t, e)
BY DEF NoneOf, Ordered, Precedes, Bounded

LEMMA EmptyMatters == \A t : NoneOf(<<>>, t)
BY DEF NoneOf

\* The head of a queue, and the rest of it.
LEMMA HeadAndTail ==
    ASSUME NEW q \in Seq(Any), q # <<>>, NEW t
    PROVE  /\ <<Head(q)>> \in Seq(Any) /\ Tail(q) \in Seq(Any)
           /\ \A e : Bounded(q, t, e) => Bounded(<<Head(q)>>, t, e) /\ Bounded(Tail(q), t, e)
           /\ \A s : Precedes(s, q, t) => Precedes(s, <<Head(q)>>, t) /\ Precedes(s, Tail(q), t)
           /\ Ordered(q, t) => /\ Ordered(<<Head(q)>>, t) /\ Ordered(Tail(q), t)
                               /\ Precedes(<<Head(q)>>, Tail(q), t)
<1>1. /\ <<Head(q)>> \in Seq(Any) /\ Len(<<Head(q)>>) = 1 /\ <<Head(q)>>[1] = q[1]
      /\ Tail(q) \in Seq(Any) /\ Len(Tail(q)) = Len(q) - 1 /\ Len(q) \in Nat /\ Len(q) > 0
      /\ \A i \in 1 .. Len(Tail(q)) : Tail(q)[i] = q[i + 1] /\ i + 1 \in 1 .. Len(q)
    OBVIOUS
<1>2. ASSUME NEW e, Bounded(q, t, e) PROVE Bounded(<<Head(q)>>, t, e) /\ Bounded(Tail(q), t, e)
    BY <1>1, <1>2 DEF Bounded
<1>3. ASSUME NEW s, Precedes(s, q, t)
      PROVE  Precedes(s, <<Head(q)>>, t) /\ Precedes(s, Tail(q), t)
    BY <1>1, <1>3 DEF Precedes
<1>4. ASSUME Ordered(q, t)
      PROVE  /\ Ordered(<<Head(q)>>, t) /\ Ordered(Tail(q), t)
             /\ Precedes(<<Head(q)>>, Tail(q), t)
  <2>1. Ordered(<<Head(q)>>, t)
    BY <1>1 DEF Ordered
  <2>2. Ordered(Tail(q), t)
    BY <1>1, <1>4 DEF Ordered
  <2>3. Precedes(<<Head(q)>>, Tail(q), t)
    BY <1>1, <1>4 DEF Ordered, Precedes
  <2> QED
    BY <2>1, <2>2, <2>3
<1> QED
    BY <1>1, <1>2, <1>3, <1>4

-----------------------------------------------------------------------------
(***************************************************************************)
(* The way of the events of process t: from its queue q they are put into  *)
(* d while events are deferred, or sent to the client, c; they are         *)
(* numbered up to e.                                                       *)
(***************************************************************************)
Flow(c, d, q, t, e) ==
    /\ Ordered(c, t) /\ Ordered(d, t) /\ Ordered(q, t)
    /\ Precedes(c, d, t) /\ Precedes(c, q, t) /\ Precedes(d, q, t)
    /\ Bounded(c, t, e) /\ Bounded(d, t, e) /\ Bounded(q, t, e)

LEMMA FlowSay ==
    ASSUME NEW c \in Seq(Any), NEW d \in Seq(Any), NEW q \in Seq(Any), NEW t, NEW e,
           NEW b \in Seq(Any), NoneOf(b, t), Flow(c, d, q, t, e)
    PROVE  Flow(c \o b, d, q, t, e)
<1>1. /\ Ordered(b, t) /\ Precedes(c, b, t) /\ Precedes(b, d, t) /\ Precedes(b, q, t)
      /\ Bounded(b, t, e)
    BY NoneMatters
<1> QED
    BY <1>1, OrderedConcat, PrecedesConcat, BoundedConcat DEF Flow

LEMMA FlowRespond ==
    ASSUME NEW c \in Seq(Any), NEW d \in Seq(Any), NEW q \in Seq(Any), NEW t, NEW e,
           Flow(c, d, q, t, e)
    PROVE  Flow(c \o d, <<>>, q, t, e)
<1>1. NoneOf(<<>>, t)
    BY EmptyMatters
<1>2. /\ Ordered(<<>>, t) /\ Precedes(c \o d, <<>>, t) /\ Precedes(<<>>, q, t)
      /\ Bounded(<<>>, t, e)
    BY <1>1, NoneMatters
<1> QED
    BY <1>2, OrderedConcat, PrecedesConcat, BoundedConcat DEF Flow

\* The head of the queue is deferred or sent; or it is dropped.
LEMMA FlowDefer ==
    ASSUME NEW c \in Seq(Any), NEW d \in Seq(Any), NEW q \in Seq(Any), NEW t, NEW e,
           q # <<>>, Flow(c, d, q, t, e)
    PROVE  Flow(c, d \o <<Head(q)>>, Tail(q), t, e)
<1>1. <<Head(q)>> \in Seq(Any) /\ Tail(q) \in Seq(Any)
    BY HeadAndTail
<1>2. /\ Ordered(<<Head(q)>>, t) /\ Ordered(Tail(q), t) /\ Precedes(<<Head(q)>>, Tail(q), t)
      /\ Precedes(c, <<Head(q)>>, t) /\ Precedes(c, Tail(q), t)
      /\ Precedes(d, <<Head(q)>>, t) /\ Precedes(d, Tail(q), t)
      /\ Bounded(<<Head(q)>>, t, e) /\ Bounded(Tail(q), t, e)
    BY HeadAndTail DEF Flow
<1> QED
    BY <1>1, <1>2, OrderedConcat, PrecedesConcat, BoundedConcat DEF Flow

LEMMA FlowSend ==
    ASSUME NEW c \in Seq(Any), NEW q \in Seq(Any), NEW t, NEW e,
           q # <<>>, Flow(c, <<>>, q, t, e)
    PROVE  Flow(c \o <<Head(q)>>, <<>>, Tail(q), t, e)
<1>1. <<Head(q)>> \in Seq(Any) /\ Tail(q) \in Seq(Any) /\ NoneOf(<<>>, t)
    BY HeadAndTail, EmptyMatters
<1>2. /\ Ordered(<<Head(q)>>, t) /\ Ordered(Tail(q), t) /\ Precedes(<<Head(q)>>, Tail(q), t)
      /\ Precedes(c, <<Head(q)>>, t) /\ Precedes(c, Tail(q), t)
      /\ Bounded(<<Head(q)>>, t, e) /\ Bounded(Tail(q), t, e)
    BY HeadAndTail DEF Flow
<1>3. /\ Precedes(c \o <<Head(q)>>, <<>>, t) /\ Precedes(<<>>, Tail(q), t)
    BY <1>1, NoneMatters
<1> QED
    BY <1>1, <1>2, <1>3, OrderedConcat, PrecedesConcat, BoundedConcat DEF Flow

LEMMA FlowDrop ==
    ASSUME NEW c \in Seq(Any), NEW d \in Seq(Any), NEW q \in Seq(Any), NEW t, NEW e,
           q # <<>>, Flow(c, d, q, t, e)
    PROVE  Flow(c, d, Tail(q), t, e)
BY HeadAndTail DEF Flow

\* A message of another process is deferred.
LEMMA FlowDeferOther ==
    ASSUME NEW c \in Seq(Any), NEW d \in Seq(Any), NEW q \in Seq(Any), NEW t, NEW e,
           NEW b \in Seq(Any), NoneOf(b, t), Flow(c, d, q, t, e)
    PROVE  Flow(c, d \o b, q, t, e)
<1>1. /\ Ordered(b, t) /\ Precedes(c, b, t) /\ Precedes(d, b, t) /\ Precedes(b, q, t)
      /\ Bounded(b, t, e)
    BY NoneMatters
<1> QED
    BY <1>1, OrderedConcat, PrecedesConcat, BoundedConcat DEF Flow

\* The process sends something else than an event, or one that is new.
LEMMA FlowQueue ==
    ASSUME NEW c \in Seq(Any), NEW d \in Seq(Any), NEW q \in Seq(Any), NEW t, NEW e,
           NEW b \in Seq(Any), NoneOf(b, t), Flow(c, d, q, t, e)
    PROVE  Flow(c, d, q \o b, t, e)
<1>1. /\ Ordered(b, t) /\ Precedes(c, b, t) /\ Precedes(d, b, t) /\ Precedes(q, b, t)
      /\ Bounded(b, t, e)
    BY NoneMatters
<1> QED
    BY <1>1, OrderedConcat, PrecedesConcat, BoundedConcat DEF Flow

LEMMA FlowMore ==
    ASSUME NEW c \in Seq(Any), NEW d \in Seq(Any), NEW q \in Seq(Any), NEW t, NEW e \in Nat,
           Flow(c, d, q, t, e)
    PROVE  Flow(c, d, q, t, e + 1)
<1>1. ASSUME NEW s \in Seq(Any), Bounded(s, t, e)
      PROVE  Bounded(s, t, e + 1)
  <2>1. \A i \in 1 .. Len(s) : s[i].n \in Nat
    BY NumbersAreNat
  <2> QED
    BY <1>1, <2>1 DEF Bounded
<1> QED
    BY <1>1 DEF Flow

LEMMA FlowOutput ==
    ASSUME NEW c \in Seq(Any), NEW d \in Seq(Any), NEW q \in Seq(Any), NEW t \in Threads,
           NEW e \in Nat, Flow(c, d, q, t, e)
    PROVE  Flow(c, d, q \o <<Output(t, e + 1)>>, t, e + 1)
<1> DEFINE b == <<Output(t, e + 1)>>
<1>1. /\ b \in Seq(Any) /\ Len(b) = 1 /\ b[1].n = e + 1
    BY DEF Output, Any
<1>2. ASSUME NEW s \in Seq(Any), Bounded(s, t, e)
      PROVE  Precedes(s, b, t)
  <2>1. \A i \in 1 .. Len(s) : s[i].n \in Nat
    BY NumbersAreNat
  <2> QED
    BY <1>1, <1>2, <2>1 DEF Bounded, Precedes
<1>3. Ordered(b, t) /\ Bounded(b, t, e + 1)
    BY <1>1 DEF Ordered, Bounded
<1>4. Precedes(c, b, t) /\ Precedes(d, b, t) /\ Precedes(q, b, t)
    BY <1>2 DEF Flow
<1>5. Flow(c, d, q, t, e + 1)
    BY FlowMore
<1> HIDE DEF b
<1>6. Flow(c, d, q \o b, t, e + 1)
    BY <1>1, <1>3, <1>4, <1>5, OrderedConcat, PrecedesConcat, BoundedConcat DEF Flow
<1> QED
    BY <1>6 DEF b

-----------------------------------------------------------------------------
(***************************************************************************)
(* The traffic of a session: what is said to the client, what is deferred, *)
(* and the queues.  A handler of the server's messages has one at hand.    *)
(***************************************************************************)
MessageOf(t) == {m \in Message : m.src = t}
QuietOf(t) == {m \in MessageOf(t) : m.kind # "event"}
Passed == {"process", "event", "exited"}
Deferable == {m \in Message : m.kind \in Passed /\ m.src # "client"}
Told == {m \in Sent : m.kind = "event" => m.src # "client"}
Word == {m \in Sent : ~PassedOn(m)}
Words == {<<>>} \cup {<<m>> : m \in Word}

TrafficTypes ==
    /\ deferring \in BOOLEAN
    /\ deferred \in Seq(Deferable)
    /\ toClient \in Seq(Told)
    /\ lq \in Seq(MessageOf("launcher"))
    /\ vq \in Seq(MessageOf("server"))
    /\ events \in 0 .. MaxEvents
    /\ vpc \in {"idle", "server", "connection"}
    /\ vpc # "idle" => vq # <<>>
    /\ ~deferring => deferred = <<>>

\* The ways in which a step changes it.
Says == /\ deferring' = deferring /\ deferred' = deferred
        /\ \E b \in Words : toClient' = toClient \o b
Moves(q, r, t) ==
    \E b \in Seq(QuietOf(t)) : r = q \o b \/ (q # <<>> /\ r = Tail(q) \o b)
Outputs(q, r, t) ==
    events < MaxEvents /\ r = q \o <<Output(t, events + 1)>> /\ events' = events + 1
Hands(q, r) ==
    /\ q # <<>> /\ Head(q).kind \in Passed /\ r = Tail(q)
    /\ PropagateAfterStart(Head(q))
Responds ==
    /\ deferring' = FALSE /\ deferred' = <<>>
    /\ toClient' = (toClient \o <<ToClient("started")>>) \o deferred

Traffic ==
    \/ Says /\ Moves(lq, lq', "launcher") /\ Moves(vq, vq', "server") /\ events' = events
    \/ Says /\ Outputs(lq, lq', "launcher") /\ vq' = vq
    \/ Says /\ Outputs(vq, vq', "server") /\ lq' = lq
    \/ Hands(lq, lq') /\ vq' = vq /\ events' = events
    \/ Hands(vq, vq') /\ lq' = lq /\ events' = events
    \/ Responds /\ UNCHANGED <<lq, vq, events>>

LEMMA TrafficFacts ==
    ASSUME TrafficTypes
    PROVE  /\ deferred \in Seq(Any) /\ toClient \in Seq(Any) /\ lq \in Seq(Any)
           /\ vq \in Seq(Any) /\ events \in Nat
           /\ \A b \in Words : b \in Seq(Any) /\ b \in Seq(Told)
           /\ \A m \in MessageOf("launcher") \cup MessageOf("server") \cup Deferable \cup Told :
                m \in Any
<1>1. \A m \in MessageOf("launcher") \cup MessageOf("server") \cup Deferable \cup Told : m \in Any
  <2>1. Sent \cup Message \subseteq Any
    BY BoundsAssumption DEF Message, Sent, Any
  <2> QED
    BY <2>1 DEF MessageOf, Deferable, Told
<1>2. \A m \in Word : m \in Any /\ m \in Told
  <2>1. Sent \subseteq Any
    BY BoundsAssumption DEF Sent, Any
  <2> QED
    BY <2>1 DEF Word, Told, PassedOn
<1>3. \A b \in Words : b \in Seq(Any) /\ b \in Seq(Told)
  <2>1. ASSUME NEW m \in Word PROVE <<m>> \in Seq(Any) /\ <<m>> \in Seq(Told)
    BY <1>2
  <2>2. <<>> \in Seq(Any) /\ <<>> \in Seq(Told)
    OBVIOUS
  <2> QED
    BY <2>1, <2>2 DEF Words
<1>4. events \in Nat
    BY BoundsAssumption DEF TrafficTypes
<1>5. /\ Seq(Deferable) \subseteq Seq(Any) /\ Seq(Told) \subseteq Seq(Any)
      /\ Seq(MessageOf("launcher")) \subseteq Seq(Any) /\ Seq(MessageOf("server")) \subseteq Seq(Any)
    BY <1>1, SeqMonotonic
<1> QED
    BY <1>1, <1>3, <1>4, <1>5 DEF TrafficTypes

\* Nothing is said, or one word.
LEMMA SaysNothing == TrafficTypes /\ UNCHANGED eventVars => Says
<1>1. <<>> \in Words
    BY DEF Words
<1>2. TrafficTypes => toClient \o <<>> = toClient
    BY DEF TrafficTypes
<1> QED
    BY <1>1, <1>2 DEF Says, eventVars

LEMMA SaysWord ==
    ASSUME TrafficTypes, NEW m \in Word, NEW open \in BOOLEAN,
           deferring' = deferring, deferred' = deferred,
           toClient' = IF open THEN toClient \o <<m>> ELSE toClient
    PROVE  Says
<1>1. <<m>> \in Words /\ <<>> \in Words
    BY DEF Words
<1>2. toClient \o <<>> = toClient
    BY DEF TrafficTypes
<1> QED
    BY <1>1, <1>2 DEF Says

LEMMA WordsToClient ==
    \A k \in {"initialized", "started", "failed", "exited", "terminated"} :
        ToClient(k) \in Word /\ Plain(k) \in Word
BY BoundsAssumption DEF ToClient, Plain, Word, Sent, Threads, PassedOn

\* The queues do not move, or lose their head, or gain what is no event.
LEMMA MovesNot ==
    ASSUME NEW q, NEW t, q \in Seq(MessageOf(t))
    PROVE  /\ Moves(q, q, t)
           /\ q # <<>> => Moves(q, Tail(q), t)
           /\ \A b \in Seq(QuietOf(t)) : Moves(q, q \o b, t) /\ (q # <<>> => Moves(q, Tail(q) \o b, t))
<1>1. <<>> \in Seq(QuietOf(t)) /\ q \o <<>> = q
    OBVIOUS
<1>2. q # <<>> => Tail(q) \o <<>> = Tail(q)
    OBVIOUS
<1> QED
    BY <1>1, <1>2 DEF Moves

LEMMA MovesMore ==
    ASSUME NEW t, NEW q \in Seq(MessageOf(t)), NEW m \in QuietOf(t)
    PROVE  /\ Moves(q, Append(q, m), t)
           /\ q # <<>> => Moves(q, Append(Tail(q), m), t)
<1>1. <<m>> \in Seq(QuietOf(t))
    OBVIOUS
<1>2. Append(q, m) = q \o <<m>>
  <2>1. m \in MessageOf(t)
    BY DEF QuietOf
  <2> QED
    BY <2>1, AppendIsConcat
<1>3. q # <<>> => Append(Tail(q), m) = Tail(q) \o <<m>>
  <2>1. m \in MessageOf(t)
    BY DEF QuietOf
  <2>2. q # <<>> => Tail(q) \in Seq(MessageOf(t))
    OBVIOUS
  <2> QED
    BY <2>1, <2>2, AppendIsConcat
<1> QED
    BY <1>1, <1>2, <1>3, MovesNot

LEMMA QuietMessages ==
    \A k \in {"process", "exited", "terminated", "disconnect"} :
        Plain(k) \in QuietOf("launcher") /\ FromServer(k) \in QuietOf("server")
BY BoundsAssumption DEF Plain, FromServer, QuietOf, MessageOf, Message, Threads

\* The steps that say nothing and move no queue.
LEMMA IdleTraffic == TrafficTypes /\ UNCHANGED <<eventVars, lq, vq, events>> => Traffic
<1> SUFFICES ASSUME TrafficTypes, UNCHANGED <<eventVars, lq, vq, events>> PROVE Traffic
    OBVIOUS
<1>1. Moves(lq, lq, "launcher") /\ Moves(vq, vq, "server")
    BY MovesNot DEF TrafficTypes
<1> QED
    BY <1>1, SaysNothing DEF Traffic

\* The steps that say at most a word.
LEMMA SayingTraffic == TrafficTypes /\ Says /\ UNCHANGED <<lq, vq, events>> => Traffic
<1> SUFFICES ASSUME TrafficTypes, Says, UNCHANGED <<lq, vq, events>> PROVE Traffic
    OBVIOUS
<1>1. Moves(lq, lq, "launcher") /\ Moves(vq, vq, "server")
    BY MovesNot DEF TrafficTypes
<1> QED
    BY <1>1 DEF Traffic

LEMMA ResponseTraffic ==
    ASSUME TrafficTypes, NEW k \in {"initialized", "started", "failed"},
           SendOrCrash(<<ToClient(k)>>) \/ ReturnOrCrash(<<ToClient(k)>>),
           deferring' = deferring, deferred' = deferred, clientOpen \in BOOLEAN
    PROVE  Says
<1>1. ToClient(k) \in Word
    BY WordsToClient
<1>2. toClient' = IF clientOpen THEN toClient \o <<ToClient(k)>> ELSE toClient
    BY DEF SendOrCrash, ReturnOrCrash
<1> QED
    BY <1>1, <1>2, SaysWord

ClientTypes ==
    /\ cpc \in {"idle", "await_launcher", "launching", "await_pid", "no_debug",
                "await_server", "initialize", "start_server", "configuring",
                "delegating", "finalizing", "terminating", "not_injected",
                "disconnecting", "gone"}
    /\ start \in StartKinds \cup {"none"}
    /\ startSet \in BOOLEAN /\ hasStarted \in BOOLEAN
    /\ clientUp \in BOOLEAN /\ clientOpen \in BOOLEAN

LEMMA ClientTraffic ==
    ASSUME TrafficTypes, ClientTypes, ClientThread \/ ClientRequest
    PROVE  Traffic /\ UNCHANGED <<vq, vpc>>
<1>t. clientOpen \in BOOLEAN
    BY DEF ClientTypes
<1>1. CASE LauncherAwaited \/ PidAwaited \/ ServerAttached \/ InjectFails \/ ServerInitialized
           \/ CloseClient \/ ClientDisconnect
    BY <1>1, IdleTraffic DEF LauncherAwaited, PidAwaited, ServerAttached, InjectFails,
       ServerInitialized, CloseClient, ClientDisconnect, launcherVars, serverVars
<1>2. CASE ClientRequest
    BY <1>2, IdleTraffic DEF ClientRequest, StartRequest, ConfigurationDone,
       ConfigurationDoneEarly, Delegate, TerminateRequest, DisconnectRequest, launcherVars,
       serverVars
<1>3. CASE LauncherLaunches
  <2>1. lq' = Append(lq, Plain("process")) /\ UNCHANGED <<eventVars, vq, vpc, events>>
    BY <1>3 DEF LauncherLaunches, serverVars
  <2>2. Moves(lq, lq', "launcher") /\ Moves(vq, vq', "server")
    BY <2>1, MovesMore, MovesNot, QuietMessages DEF TrafficTypes
  <2> QED
    BY <2>1, <2>2, SaysNothing DEF Traffic
<1>4. CASE LauncherTimeout \/ PidTimeout \/ ServerTimeout \/ LaunchRefused \/ InitializeFails
           \/ StartRefused
  <2>1. /\ SendOrCrash(<<ToClient("failed")>>) \/ ReturnOrCrash(<<ToClient("failed")>>)
        /\ UNCHANGED <<deferring, deferred, lq, vq, vpc, events>>
    BY <1>4 DEF LauncherTimeout, PidTimeout, ServerTimeout, LaunchRefused, InitializeFails,
       StartRefused, StartFails, StartErrs, launcherVars, serverVars
  <2> QED
    BY <1>t, <2>1, ResponseTraffic, SayingTraffic
<1>5. CASE NoSubprocess \/ StartLost \/ ConfigureLost
  <2>1. /\ SendOrCrash(<<ToClient("started")>>)
        /\ UNCHANGED <<deferring, deferred, lq, vq, vpc, events>>
    BY <1>5 DEF NoSubprocess, StartLost, ConfigureLost, launcherVars, serverVars
  <2> QED
    BY <1>t, <2>1, ResponseTraffic, SayingTraffic
<1>6. CASE ServerStarted
  <2>1. /\ SendOrCrash(<<ToClient("initialized")>>)
        /\ UNCHANGED <<deferring, deferred, lq, vq, vpc, events>>
    BY <1>6 DEF ServerStarted, launcherVars, serverVars
  <2> QED
    BY <1>t, <2>1, ResponseTraffic, SayingTraffic
<1>7. CASE NoDebugStarted \/ Configured
  <2>1. /\ IF clientOpen THEN RespondAndPropagate(<<ToClient("started")>>) ELSE UNCHANGED eventVars
        /\ UNCHANGED <<lq, vq, vpc, events>>
    BY <1>7 DEF NoDebugStarted, Configured, launcherVars, serverVars
  <2>2. CASE clientOpen
    <3>1. Responds
      BY <2>1, <2>2 DEF RespondAndPropagate, Responds
    <3> QED
      BY <2>1, <3>1 DEF Traffic
  <2>3. CASE ~clientOpen
    BY <2>1, <2>3, IdleTraffic
  <2> QED
    BY <2>2, <2>3
<1>8. CASE ConfigureRefused
  <2>1. /\ toClient' = IF clientOpen THEN Append(toClient, ToClient("failed")) ELSE toClient
        /\ UNCHANGED <<deferring, deferred, lq, vq, vpc, events>>
    BY <1>8 DEF ConfigureRefused, launcherVars, serverVars
  <2>2. ToClient("failed") \in Word /\ ToClient("failed") \in Told
    BY WordsToClient DEF Word, Told, PassedOn
  <2>3. Append(toClient, ToClient("failed")) = toClient \o <<ToClient("failed")>>
    BY <2>2, AppendIsConcat DEF TrafficTypes
  <2> QED
    BY <1>t, <2>1, <2>2, <2>3, SaysWord, SayingTraffic
<1>9. CASE Delegated
  <2>1. toClient \o <<>> = toClient
    BY DEF TrafficTypes
  <2>2. UNCHANGED <<eventVars, lq, vq, vpc, events>>
    BY <1>9, <2>1 DEF Delegated, ReturnOrCrash, launcherVars, serverVars, eventVars
  <2> QED
    BY <2>2, IdleTraffic
<1> QED
    BY <1>1, <1>2, <1>3, <1>4, <1>5, <1>6, <1>7, <1>8, <1>9 DEF ClientThread

LEMMA LauncherTraffic ==
    ASSUME TrafficTypes, ClientTypes, LauncherThread
    PROVE  Traffic /\ UNCHANGED <<vq, vpc>>
<1>t. clientOpen \in BOOLEAN /\ lq \in Seq(MessageOf("launcher"))
    BY DEF ClientTypes, TrafficTypes
<1>v. Moves(vq, vq, "server")
    BY MovesNot DEF TrafficTypes
<1>1. CASE LauncherConnected
    BY <1>1, IdleTraffic DEF LauncherConnected, serverVars
<1>2. CASE LauncherProcess \/ LauncherEvent
  <2>1. Hands(lq, lq') /\ UNCHANGED <<vq, vpc, events>>
    BY <1>2 DEF LauncherProcess, LauncherEvent, Hands, Passed, serverVars
  <2> QED
    BY <2>1 DEF Traffic
<1>3. CASE LauncherExited \/ LauncherDisconnect
  <2>1. lq # <<>> /\ lq' = Tail(lq) /\ UNCHANGED <<eventVars, vq, vpc, events>>
    BY <1>3 DEF LauncherExited, LauncherDisconnect, serverVars
  <2>2. Moves(lq, lq', "launcher")
    BY <1>t, <2>1, MovesNot
  <2> QED
    BY <1>v, <2>1, <2>2, SaysNothing DEF Traffic
<1>4. CASE LauncherTerminated
  <2>1. /\ lq # <<>>
        /\ lq' = IF proc = "gone" THEN Tail(lq) ELSE Append(Tail(lq), Plain("disconnect"))
        /\ toClient' = IF clientOpen THEN Append(toClient, Plain("exited")) ELSE toClient
        /\ UNCHANGED <<deferring, deferred, vq, vpc, events>>
    BY <1>4 DEF LauncherTerminated, serverVars
  <2>2. Moves(lq, lq', "launcher")
    BY <1>t, <2>1, MovesNot, MovesMore, QuietMessages
  <2>3. Plain("exited") \in Word /\ Plain("exited") \in Told
    BY WordsToClient DEF Word, Told, PassedOn
  <2>4. Append(toClient, Plain("exited")) = toClient \o <<Plain("exited")>>
    BY <2>3, AppendIsConcat DEF TrafficTypes
  <2>5. Says
    BY <1>t, <2>1, <2>3, <2>4, SaysWord
  <2> QED
    BY <1>v, <2>1, <2>2, <2>5 DEF Traffic
<1> QED
    BY <1>1, <1>2, <1>3, <1>4 DEF LauncherThread

LEMMA ServerTraffic ==
    ASSUME TrafficTypes, ServerThread
    PROVE  Traffic /\ (vpc' # "idle" => vq' # <<>>) /\ vpc' \in {"idle", "server", "connection"}
<1>t. vq \in Seq(MessageOf("server")) /\ (vpc # "idle" => vq # <<>>)
    BY DEF TrafficTypes
<1>l. Moves(lq, lq, "launcher")
    BY MovesNot DEF TrafficTypes
<1>1. CASE ServerPick
    BY <1>1, IdleTraffic DEF ServerPick, launcherVars
<1>2. CASE ConnectionHandles \/ ServerTerminated
  <2>1. /\ vpc # "idle" /\ vpc' = "idle" /\ UNCHANGED <<eventVars, lq, events>>
        /\ vq' = Tail(vq) \/ vq' = Append(Tail(vq), FromServer("disconnect"))
    BY <1>2 DEF ConnectionHandles, ServerTerminated, launcherVars
  <2>2. Moves(vq, vq', "server")
    BY <1>t, <2>1, MovesNot, MovesMore, QuietMessages
  <2> QED
    BY <1>l, <2>1, <2>2, SaysNothing DEF Traffic
<1>3. CASE ServerDisconnect
  <2>1. vpc # "idle" /\ vpc' = "idle" /\ UNCHANGED <<eventVars, lq, events>> /\ vq' = Tail(vq)
    BY <1>3 DEF ServerDisconnect, launcherVars
  <2>2. Moves(vq, vq', "server")
    BY <1>t, <2>1, MovesNot
  <2> QED
    BY <1>l, <2>1, <2>2, SaysNothing DEF Traffic
<1>4. CASE ServerEvent
  <2>1. /\ vpc # "idle" /\ vpc' = "idle" /\ UNCHANGED <<lq, events>> /\ vq' = Tail(vq)
        /\ Head(vq).kind \in Passed
        /\ UNCHANGED eventVars \/ PropagateAfterStart(Head(vq))
    BY <1>4 DEF ServerEvent, launcherVars, Passed
  <2>2. CASE UNCHANGED eventVars
    <3>1. Moves(vq, vq', "server")
      BY <1>t, <2>1, MovesNot
    <3> QED
      BY <1>l, <2>1, <2>2, <3>1, SaysNothing DEF Traffic
  <2>3. CASE PropagateAfterStart(Head(vq))
    BY <1>t, <2>1, <2>3 DEF Traffic, Hands
  <2> QED
    BY <2>1, <2>2, <2>3
<1> QED
    BY <1>1, <1>2, <1>3, <1>4 DEF ServerThread

LEMMA FinalizeTraffic ==
    ASSUME TrafficTypes, ClientTypes, FinalizeStep
    PROVE  Traffic /\ UNCHANGED <<vq, vpc>>
<1>t. clientOpen \in BOOLEAN /\ clientUp \in BOOLEAN
    BY DEF ClientTypes
<1>1. CASE FinAsk \/ FinDetach \/ FinLauncher \/ FinExitAwaited \/ FinKill \/ FinDrained
    BY <1>1, IdleTraffic DEF FinAsk, FinDetach, FinLauncher, FinExitAwaited, FinKill, FinDrained,
       launcherVars, serverVars
<1>2. CASE FinClient
  <2>1. /\ toClient' = IF clientUp /\ clientOpen
                       THEN Append(toClient, ToClient("terminated")) ELSE toClient
        /\ UNCHANGED <<deferring, deferred, lq, vq, vpc, events>>
    BY <1>2 DEF FinClient, launcherVars, serverVars
  <2>2. ToClient("terminated") \in Word /\ ToClient("terminated") \in Told
    BY WordsToClient DEF Word, Told, PassedOn
  <2>3. Append(toClient, ToClient("terminated")) = toClient \o <<ToClient("terminated")>>
    BY <2>2, AppendIsConcat DEF TrafficTypes
  <2>4. toClient' = IF clientUp /\ clientOpen THEN toClient \o <<ToClient("terminated")>> ELSE toClient
    BY <2>1, <2>3
  <2>5. Says
    BY <1>t, <2>1, <2>2, <2>4, SaysWord
  <2> QED
    BY <2>1, <2>5, SayingTraffic
<1>3. CASE FinReturn
  <2>1. toClient \o <<>> = toClient
    BY DEF TrafficTypes
  <2>2. UNCHANGED <<eventVars, lq, vq, vpc, events>>
    BY <1>3, <2>1 DEF FinReturn, ReturnOrCrash, launcherVars, serverVars, eventVars
  <2> QED
    BY <2>2, IdleTraffic
<1>4. CASE NotInjected
  <2>1. /\ SendOrCrash(<<ToClient("initialized")>>)
        /\ UNCHANGED <<deferring, deferred, lq, vq, vpc, events>>
    BY <1>4 DEF NotInjected, launcherVars, serverVars
  <2> QED
    BY <1>t, <2>1, ResponseTraffic, SayingTraffic
<1> QED
    BY <1>1, <1>2, <1>3, <1>4 DEF FinalizeStep

LEMMA EnvironmentTraffic ==
    ASSUME TrafficTypes, Environment
    PROVE  Traffic /\ vpc' = vpc /\ (vq # <<>> => vq' # <<>>)
<1>t. /\ lq \in Seq(MessageOf("launcher")) /\ vq \in Seq(MessageOf("server"))
      /\ events \in Nat /\ events \in 0 .. MaxEvents
    BY TrafficFacts DEF TrafficTypes
<1>m. Moves(lq, lq, "launcher") /\ Moves(vq, vq, "server")
    BY <1>t, MovesNot
<1>1. CASE ClientLost \/ LauncherAccepted
    BY <1>1, IdleTraffic DEF ClientLost, LauncherAccepted, launcherVars, serverVars
<1>2. CASE DebuggeeExits \/ LauncherTerminates \/ LauncherDies
  <2>1. /\ \E k \in {"exited", "terminated", "disconnect"} : lq' = Append(lq, Plain(k))
        /\ UNCHANGED <<eventVars, vq, vpc, events>>
    BY <1>2 DEF DebuggeeExits, LauncherTerminates, LauncherDies, serverVars
  <2>2. Moves(lq, lq', "launcher")
    BY <1>t, <2>1, MovesMore, QuietMessages
  <2> QED
    BY <1>m, <2>1, <2>2, SaysNothing DEF Traffic
<1>3. CASE ServerExits
  <2>1. /\ vq' = vq \o <<FromServer("exited"), FromServer("terminated")>>
        /\ UNCHANGED <<eventVars, lq, vpc, events>>
    BY <1>3 DEF ServerExits, launcherVars
  <2>2. <<FromServer("exited"), FromServer("terminated")>> \in Seq(QuietOf("server"))
    BY QuietMessages
  <2>3. Moves(vq, vq', "server")
    BY <1>t, <2>1, <2>2, MovesNot
  <2>4. vq' # <<>>
    <3>1. <<FromServer("exited"), FromServer("terminated")>> \in Seq(MessageOf("server"))
      BY QuietMessages DEF QuietOf
    <3> QED
      BY <1>t, <2>1, <3>1
  <2> QED
    BY <1>m, <2>1, <2>3, <2>4, SaysNothing DEF Traffic
<1>4. CASE ServerDies
  <2>1. vq' = Append(vq, FromServer("disconnect")) /\ UNCHANGED <<eventVars, lq, vpc, events>>
    BY <1>4 DEF ServerDies, launcherVars
  <2>2. Moves(vq, vq', "server")
    BY <1>t, <2>1, MovesMore, QuietMessages
  <2>3. vq' # <<>>
    BY <1>t, <2>1, QuietMessages DEF QuietOf
  <2> QED
    BY <1>m, <2>1, <2>2, <2>3, SaysNothing DEF Traffic
<1>5. CASE LauncherOutput
  <2>1. /\ lq' = Append(lq, Output("launcher", events + 1)) /\ events < MaxEvents
        /\ events' = events + 1 /\ UNCHANGED <<eventVars, vq, vpc>>
    BY <1>5 DEF LauncherOutput, serverVars
  <2>2. Output("launcher", events + 1) \in MessageOf("launcher")
    BY <1>t, <2>1, BoundsAssumption DEF Output, MessageOf, Message, Threads
  <2>3. Outputs(lq, lq', "launcher")
    BY <1>t, <2>1, <2>2, AppendIsConcat DEF Outputs
  <2> QED
    BY <2>1, <2>3, SaysNothing DEF Traffic
<1>6. CASE ServerOutput
  <2>1. /\ vq' = Append(vq, Output("server", events + 1)) /\ events < MaxEvents
        /\ events' = events + 1 /\ UNCHANGED <<eventVars, lq, vpc>>
    BY <1>6 DEF ServerOutput, launcherVars
  <2>2. Output("server", events + 1) \in MessageOf("server")
    BY <1>t, <2>1, BoundsAssumption DEF Output, MessageOf, Message, Threads
  <2>3. Outputs(vq, vq', "server")
    BY <1>t, <2>1, <2>2, AppendIsConcat DEF Outputs
  <2>4. vq' # <<>>
    BY <1>t, <2>1, <2>2
  <2> QED
    BY <2>1, <2>3, <2>4, SaysNothing DEF Traffic
<1> QED
    BY <1>1, <1>2, <1>3, <1>4, <1>5, <1>6 DEF Environment

\* Every step's traffic is of one of these kinds.
LEMMA EveryTraffic ==
    ASSUME TrafficTypes, ClientTypes, [Next]_vars
    PROVE  /\ Traffic
           /\ vpc' \in {"idle", "server", "connection"}
           /\ vpc' # "idle" => vq' # <<>>
<1>t. vpc \in {"idle", "server", "connection"} /\ (vpc # "idle" => vq # <<>>)
    BY DEF TrafficTypes
<1>1. CASE ClientThread \/ ClientRequest
    BY <1>t, <1>1, ClientTraffic
<1>2. CASE LauncherThread
    BY <1>t, <1>2, LauncherTraffic
<1>3. CASE ServerThread
    BY <1>3, ServerTraffic
<1>4. CASE FinalizeStep
    BY <1>t, <1>4, FinalizeTraffic
<1>5. CASE Environment
    BY <1>t, <1>5, EnvironmentTraffic
<1>6. CASE UNCHANGED vars
  <2>1. UNCHANGED <<eventVars, lq, vq, events, vpc>>
    BY <1>6 DEF vars, launcherVars, serverVars
  <2> QED
    BY <1>t, <2>1, IdleTraffic
<1> QED
    BY <1>1, <1>2, <1>3, <1>4, <1>5, <1>6 DEF Next

LEMMA TrafficTyped ==
    ASSUME TrafficTypes, Traffic, vpc' \in {"idle", "server", "connection"},
           vpc' # "idle" => vq' # <<>>
    PROVE  TrafficTypes'
<1>t. /\ deferring \in BOOLEAN /\ deferred \in Seq(Deferable) /\ toClient \in Seq(Told)
      /\ lq \in Seq(MessageOf("launcher")) /\ vq \in Seq(MessageOf("server"))
      /\ events \in 0 .. MaxEvents /\ (~deferring => deferred = <<>>)
    BY DEF TrafficTypes
<1>1. ASSUME Says
      PROVE  /\ deferring' \in BOOLEAN /\ deferred' \in Seq(Deferable)
             /\ toClient' \in Seq(Told) /\ (~deferring' => deferred' = <<>>)
  <2>1. PICK b \in Words : toClient' = toClient \o b
    BY <1>1 DEF Says
  <2>2. b \in Seq(Told)
    BY TrafficFacts
  <2>3. toClient' \in Seq(Told)
    BY <1>t, <2>1, <2>2
  <2> QED
    BY <1>t, <1>1, <2>3 DEF Says
<1>2. ASSUME NEW t \in Threads, NEW q \in Seq(MessageOf(t)), NEW r, Moves(q, r, t)
      PROVE  r \in Seq(MessageOf(t))
  <2>1. PICK b \in Seq(QuietOf(t)) : r = q \o b \/ (q # <<>> /\ r = Tail(q) \o b)
    BY <1>2 DEF Moves
  <2>2. QuietOf(t) \subseteq MessageOf(t)
    BY DEF QuietOf
  <2>3. b \in Seq(MessageOf(t))
    BY <2>2, SeqMonotonic
  <2>4. q \o b \in Seq(MessageOf(t)) /\ (q # <<>> => Tail(q) \o b \in Seq(MessageOf(t)))
    BY <2>3
  <2> QED
    BY <2>1, <2>4
<1>3. ASSUME NEW t \in Threads, NEW q \in Seq(MessageOf(t)), NEW r, Outputs(q, r, t)
      PROVE  r \in Seq(MessageOf(t)) /\ events' \in 0 .. MaxEvents
  <2>1. Output(t, events + 1) \in MessageOf(t) /\ events' \in 0 .. MaxEvents
    BY <1>t, <1>3, BoundsAssumption DEF Outputs, Output, MessageOf, Message
  <2> QED
    BY <1>3, <2>1 DEF Outputs
<1>4. ASSUME NEW t \in {"launcher", "server"}, NEW q \in Seq(MessageOf(t)), NEW r, Hands(q, r)
      PROVE  /\ deferring' \in BOOLEAN /\ deferred' \in Seq(Deferable)
             /\ toClient' \in Seq(Told) /\ (~deferring' => deferred' = <<>>)
             /\ r \in Seq(MessageOf(t))
  <2>1. PICK m : m = Head(q)
    OBVIOUS
  <2>2. m \in MessageOf(t) /\ m.kind \in Passed /\ r \in Seq(MessageOf(t))
    BY <1>4, <2>1 DEF Hands
  <2>3. m \in Deferable
    BY <2>2 DEF MessageOf, Deferable
  <2>4. m \in Told
    BY <2>2 DEF MessageOf, Told, Message, Sent, Passed
  <2>5. PropagateAfterStart(m)
    BY <1>4, <2>1 DEF Hands
  <2>6. deferred' \in Seq(Deferable)
    BY <1>t, <2>3, <2>5 DEF PropagateAfterStart
  <2>7. toClient' \in Seq(Told)
    BY <1>t, <2>4, <2>5 DEF PropagateAfterStart
  <2> QED
    BY <1>t, <2>2, <2>5, <2>6, <2>7 DEF PropagateAfterStart
<1>5. ASSUME Responds
      PROVE  /\ deferring' \in BOOLEAN /\ deferred' \in Seq(Deferable)
             /\ toClient' \in Seq(Told) /\ (~deferring' => deferred' = <<>>)
  <2>1. Deferable \subseteq Told /\ ToClient("started") \in Told
    <3>1. Deferable \subseteq Told
      BY DEF Deferable, Told, Message, Sent, Passed
    <3> QED
      BY <3>1, WordsToClient DEF Word, Told, PassedOn
  <2>2. deferred \in Seq(Told) /\ <<ToClient("started")>> \in Seq(Told)
    BY <1>t, <2>1, SeqMonotonic
  <2>3. toClient' \in Seq(Told)
    BY <1>t, <1>5, <2>2 DEF Responds
  <2>4. <<>> \in Seq(Deferable) /\ FALSE \in BOOLEAN
    OBVIOUS
  <2> QED
    BY <1>5, <2>3, <2>4 DEF Responds
<1>6. "launcher" \in Threads /\ "server" \in Threads
    BY DEF Threads
<1>7. /\ deferring' \in BOOLEAN /\ deferred' \in Seq(Deferable)
      /\ toClient' \in Seq(Told) /\ (~deferring' => deferred' = <<>>)
    BY <1>t, <1>1, <1>4, <1>5 DEF Traffic
<1>8. lq' \in Seq(MessageOf("launcher")) /\ vq' \in Seq(MessageOf("server"))
    BY <1>t, <1>2, <1>3, <1>4, <1>6 DEF Traffic
<1>9. events' \in 0 .. MaxEvents
    BY <1>t, <1>3, <1>6 DEF Traffic
<1> QED
    BY <1>7, <1>8, <1>9 DEF TrafficTypes

-----------------------------------------------------------------------------
\* Once events are not deferred, the start request has been answered.
StartInv == Follows(toClient) /\ (~deferring => Has(toClient, {"started"}))

LEMMA TrafficFollows ==
    ASSUME TrafficTypes, Traffic, StartInv
    PROVE  StartInv'
<1>t. /\ deferring \in BOOLEAN /\ deferred \in Seq(Any) /\ toClient \in Seq(Any)
      /\ lq \in Seq(Any) /\ vq \in Seq(Any)
    BY TrafficFacts DEF TrafficTypes
<1>i. Follows(toClient) /\ (~deferring => Has(toClient, {"started"}))
    BY DEF StartInv
<1>1. CASE Says
  <2>1. PICK b \in Words : toClient' = toClient \o b
    BY <1>1 DEF Says
  <2>2. b \in Seq(Any)
    BY TrafficFacts
  <2>3. \A i \in 1 .. Len(b) : ~PassedOn(b[i])
    BY DEF Words, Word
  <2>4. Follows(toClient \o b)
    BY <1>t, <1>i, <2>2, <2>3, FollowsConcat
  <2>5. Has(toClient, {"started"}) => Has(toClient \o b, {"started"})
    BY <1>t, <2>2, HasConcat
  <2> QED
    BY <1>1, <1>i, <2>1, <2>4, <2>5 DEF Says, StartInv
<1>2. ASSUME NEW q \in Seq(Any), NEW r, Hands(q, r)
      PROVE  StartInv'
  <2>1. PICK m : m = Head(q)
    OBVIOUS
  <2>2. m \in Any /\ <<m>> \in Seq(Any) /\ PropagateAfterStart(m)
    BY <1>2, <2>1 DEF Hands
  <2>3. CASE toClient' = toClient
    BY <1>i, <2>2, <2>3 DEF PropagateAfterStart, StartInv
  <2>4. CASE ~deferring /\ toClient' = Append(toClient, m)
    <3>1. toClient' = toClient \o <<m>>
      BY <1>t, <2>2, <2>4, AppendIsConcat
    <3>2. Follows(toClient \o <<m>>) /\ Has(toClient \o <<m>>, {"started"})
      BY <1>t, <1>i, <2>2, <2>4, FollowsConcat, HasConcat
    <3> QED
      BY <3>1, <3>2 DEF StartInv
  <2> QED
    BY <2>2, <2>3, <2>4 DEF PropagateAfterStart
<1>3. CASE Responds
  <2> DEFINE b == <<ToClient("started")>>
  <2>1. b \in Seq(Any) /\ (\A i \in 1 .. Len(b) : ~PassedOn(b[i])) /\ Has(b, {"started"})
    <3>1. /\ ToClient("started") \in Any /\ ToClient("started").kind = "started"
          /\ ~PassedOn(ToClient("started"))
      BY DEF ToClient, Any, Threads, PassedOn
    <3>2. b \in Seq(Any) /\ Len(b) = 1 /\ b[1].kind = "started" /\ ~PassedOn(b[1])
      BY <3>1
    <3> QED
      BY <3>2 DEF Has
  <2> HIDE DEF b
  <2>2. toClient \o b \in Seq(Any) /\ Follows(toClient \o b) /\ Has(toClient \o b, {"started"})
    BY <1>t, <1>i, <2>1, FollowsConcat, HasConcat
  <2>3. Follows((toClient \o b) \o deferred) /\ Has((toClient \o b) \o deferred, {"started"})
    BY <1>t, <2>2, FollowsConcat, HasConcat
  <2>4. toClient' = (toClient \o b) \o deferred
    BY <1>3 DEF Responds, b
  <2> QED
    BY <2>3, <2>4 DEF StartInv
<1> QED
    BY <1>t, <1>1, <1>2, <1>3 DEF Traffic

-----------------------------------------------------------------------------
\* The events of the launcher, and those of the server, are on their way in order.
OrderInv ==
    /\ Flow(toClient, deferred, lq, "launcher", events)
    /\ Flow(toClient, deferred, vq, "server", events)

LEMMA SaysFlow ==
    ASSUME TrafficTypes, NEW q \in Seq(Any), NEW t, NEW e, Says,
           Flow(toClient, deferred, q, t, e)
    PROVE  Flow(toClient', deferred', q, t, e)
<1>1. PICK b \in Words : toClient' = toClient \o b
    BY DEF Says
<1>2. b \in Seq(Any) /\ deferred \in Seq(Any) /\ toClient \in Seq(Any)
    BY TrafficFacts
<1>3. NoneOf(b, t)
    BY DEF Words, Word, NoneOf, IsEvent, PassedOn
<1> QED
    BY <1>1, <1>2, <1>3, FlowSay DEF Says

LEMMA MovesFlow ==
    ASSUME NEW c \in Seq(Any), NEW d \in Seq(Any), NEW t \in Threads, NEW q \in Seq(MessageOf(t)),
           NEW r, NEW e, Moves(q, r, t), Flow(c, d, q, t, e), q \in Seq(Any)
    PROVE  Flow(c, d, r, t, e)
<1>1. PICK b \in Seq(QuietOf(t)) : r = q \o b \/ (q # <<>> /\ r = Tail(q) \o b)
    BY DEF Moves
<1>2. QuietOf(t) \subseteq Any
    BY BoundsAssumption DEF QuietOf, MessageOf, Message, Any
<1>3. b \in Seq(Any)
    BY <1>2, SeqMonotonic
<1>4. NoneOf(b, t)
    BY DEF NoneOf, IsEvent, QuietOf
<1>5. CASE r = q \o b
    BY <1>3, <1>4, <1>5, FlowQueue
<1>6. CASE q # <<>> /\ r = Tail(q) \o b
  <2>1. Tail(q) \in Seq(Any) /\ Flow(c, d, Tail(q), t, e)
    BY <1>6, FlowDrop
  <2> QED
    BY <1>3, <1>4, <1>6, <2>1, FlowQueue
<1> QED
    BY <1>1, <1>5, <1>6

\* A message that is passed on from the queue of t, past those of process u.
LEMMA HandsFlow ==
    ASSUME TrafficTypes, NEW t \in {"launcher", "server"}, NEW u \in {"launcher", "server"},
           t # u, NEW q \in Seq(MessageOf(t)), NEW p \in Seq(Any), NEW r, NEW e, q \in Seq(Any),
           Hands(q, r), Flow(toClient, deferred, q, t, e), Flow(toClient, deferred, p, u, e)
    PROVE  Flow(toClient', deferred', r, t, e) /\ Flow(toClient', deferred', p, u, e)
<1>t. /\ deferring \in BOOLEAN /\ deferred \in Seq(Any) /\ toClient \in Seq(Any)
      /\ (~deferring => deferred = <<>>)
    BY TrafficFacts DEF TrafficTypes
<1>1. PICK m : m = Head(q)
    OBVIOUS
<1>2. /\ q # <<>> /\ r = Tail(q) /\ m \in Any /\ <<m>> \in Seq(Any) /\ PropagateAfterStart(m)
      /\ m \in MessageOf(t)
    BY <1>1 DEF Hands
<1>3. NoneOf(<<m>>, u)
    BY <1>2 DEF NoneOf, IsEvent, MessageOf
<1>4. CASE deferring
  <2>1. toClient' = toClient /\ deferred' = deferred \o <<m>>
    BY <1>t, <1>2, <1>4, AppendIsConcat DEF PropagateAfterStart
  <2> QED
    BY <1>t, <1>1, <1>2, <1>3, <2>1, FlowDefer, FlowDeferOther
<1>5. CASE ~deferring /\ toClient' = Append(toClient, m)
  <2>1. toClient' = toClient \o <<m>> /\ deferred' = <<>> /\ deferred = <<>>
    BY <1>t, <1>2, <1>5, AppendIsConcat DEF PropagateAfterStart
  <2> QED
    BY <1>t, <1>1, <1>2, <1>3, <2>1, FlowSend, FlowSay
<1>6. CASE ~deferring /\ toClient' = toClient
  <2>1. deferred' = deferred
    BY <1>2, <1>6 DEF PropagateAfterStart
  <2> QED
    BY <1>t, <1>2, <1>6, <2>1, FlowDrop
<1> QED
    BY <1>t, <1>2, <1>4, <1>5, <1>6 DEF PropagateAfterStart

LEMMA TrafficOrdered ==
    ASSUME TrafficTypes, Traffic, OrderInv
    PROVE  OrderInv'
<1>t. /\ deferred \in Seq(Any) /\ toClient \in Seq(Any)
      /\ lq \in Seq(Any) /\ vq \in Seq(Any) /\ events \in Nat
      /\ lq \in Seq(MessageOf("launcher")) /\ vq \in Seq(MessageOf("server"))
    BY TrafficFacts DEF TrafficTypes
<1>i. /\ Flow(toClient, deferred, lq, "launcher", events)
      /\ Flow(toClient, deferred, vq, "server", events)
    BY DEF OrderInv
<1>h. "launcher" \in Threads /\ "server" \in Threads
    BY DEF Threads
<1>1. CASE Says /\ Moves(lq, lq', "launcher") /\ Moves(vq, vq', "server") /\ events' = events
  <2>1. /\ Flow(toClient, deferred, lq', "launcher", events) /\ lq' \in Seq(Any)
        /\ Flow(toClient, deferred, vq', "server", events) /\ vq' \in Seq(Any)
    <3>1. lq' \in Seq(Any) /\ vq' \in Seq(Any)
      <4>1. ASSUME NEW t \in {"launcher", "server"}, NEW q \in Seq(Any), NEW r, Moves(q, r, t)
            PROVE  r \in Seq(Any)
        <5>1. QuietOf(t) \subseteq Any
          BY TrafficFacts DEF QuietOf
        <5>2. Seq(QuietOf(t)) \subseteq Seq(Any)
          BY <5>1, SeqMonotonic
        <5>3. PICK b \in Seq(Any) : r = q \o b \/ (q # <<>> /\ r = Tail(q) \o b)
          BY <4>1, <5>2 DEF Moves
        <5>4. q \o b \in Seq(Any) /\ (q # <<>> => Tail(q) \o b \in Seq(Any))
          OBVIOUS
        <5> QED
          BY <5>3, <5>4
      <4> QED
        BY <1>t, <1>1, <4>1
    <3> QED
      BY <1>t, <1>i, <1>h, <1>1, <3>1, MovesFlow
  <2>2. /\ Flow(toClient', deferred', lq', "launcher", events)
        /\ Flow(toClient', deferred', vq', "server", events)
    BY <1>1, <2>1, SaysFlow
  <2> QED
    BY <1>1, <2>2 DEF OrderInv
<1>2. ASSUME NEW t \in {"launcher", "server"}, NEW u \in {"launcher", "server"},
             NEW q \in Seq(Any), NEW r, NEW p \in Seq(Any), Says, Outputs(q, r, t),
             Flow(toClient, deferred, q, t, events), Flow(toClient, deferred, p, u, events)
      PROVE  Flow(toClient', deferred', r, t, events') /\ Flow(toClient', deferred', p, u, events')
  <2>1. /\ r = q \o <<Output(t, events + 1)>> /\ events' = events + 1
        /\ <<Output(t, events + 1)>> \in Seq(Any)
    BY <1>t, <1>2 DEF Outputs, Output, Any, Threads
  <2>2. Flow(toClient, deferred, r, t, events') /\ Flow(toClient, deferred, p, u, events')
    BY <1>t, <1>h, <1>2, <2>1, FlowOutput, FlowMore
  <2>3. r \in Seq(Any)
    BY <1>2, <2>1
  <2> QED
    BY <1>2, <2>2, <2>3, SaysFlow
<1>3. CASE Says /\ Outputs(lq, lq', "launcher") /\ vq' = vq
    BY <1>t, <1>i, <1>2, <1>3 DEF OrderInv
<1>4. CASE Says /\ Outputs(vq, vq', "server") /\ lq' = lq
    BY <1>t, <1>i, <1>2, <1>4 DEF OrderInv
<1>5. CASE Hands(lq, lq') /\ vq' = vq /\ events' = events
    BY <1>t, <1>i, <1>5, HandsFlow DEF OrderInv
<1>6. CASE Hands(vq, vq') /\ lq' = lq /\ events' = events
    BY <1>t, <1>i, <1>6, HandsFlow DEF OrderInv
<1>7. CASE Responds /\ UNCHANGED <<lq, vq, events>>
  <2> DEFINE b == <<ToClient("started")>>
  <2>1. b \in Seq(Any) /\ NoneOf(b, "launcher") /\ NoneOf(b, "server")
    <3>1. ToClient("started") \in Any /\ ToClient("started").kind = "started"
      BY DEF ToClient, Any, Threads
    <3> QED
      BY <3>1 DEF NoneOf, IsEvent
  <2>2. toClient' = (toClient \o b) \o deferred /\ deferred' = <<>>
    BY <1>7 DEF Responds
  <2> HIDE DEF b
  <2>3. /\ toClient \o b \in Seq(Any)
        /\ Flow(toClient \o b, deferred, lq, "launcher", events)
        /\ Flow(toClient \o b, deferred, vq, "server", events)
    BY <1>t, <1>i, <2>1, FlowSay
  <2>4. /\ Flow((toClient \o b) \o deferred, <<>>, lq, "launcher", events)
        /\ Flow((toClient \o b) \o deferred, <<>>, vq, "server", events)
    BY <1>t, <2>3, FlowRespond
  <2> QED
    BY <1>7, <2>2, <2>4 DEF OrderInv
<1> QED
    BY <1>1, <1>3, <1>4, <1>5, <1>6, <1>7 DEF Traffic

-----------------------------------------------------------------------------
(***************************************************************************)
(* The other variables.                                                    *)
(***************************************************************************)
LauncherTypes ==
    /\ launcher \in {"missing", "up", "down"}
    /\ pidKnown \in BOOLEAN /\ exitKnown \in BOOLEAN
    /\ proc \in {"absent", "spawned", "accepted", "connected", "running", "exited",
                 "terminated", "gone"}
ServerTypes ==
    /\ server \in {"missing", "up", "down"}
    /\ srvLink \in {"absent", "up", "down"}
FinTypes ==
    /\ slock \in Threads \cup {"none"}
    /\ fin \in {"no", "server", "detach", "launcher", "exit", "kill", "drain", "client",
                "done"}
    /\ finBy \in Threads \cup {"none"}
    /\ terminate \in BOOLEAN /\ killed \in BOOLEAN
EndTypes == registered \in BOOLEAN /\ crashed \in BOOLEAN
ControlTypes == ClientTypes /\ LauncherTypes /\ ServerTypes /\ FinTypes /\ EndTypes
TypeInv == TrafficTypes /\ ControlTypes

LEMMA FinalizeTyped ==
    ASSUME FinTypes, NEW t \in Threads,
           Finalize(t, ByDefault) \/ Finalize(t, TRUE) \/ Finalize(t, FALSE)
    PROVE  FinTypes'
<1>1. PICK term \in BOOLEAN : Finalize(t, term)
  <2>1. ByDefault \in BOOLEAN
    BY DEF ByDefault
  <2> QED
    BY <2>1
<1> QED
    BY <1>1 DEF FinTypes, Finalize, finVars

LEMMA CrashTyped ==
    ASSUME ClientTypes, NEW what,
           SendOrCrash(what) \/ ReturnOrCrash(what)
    PROVE  crashed' \in BOOLEAN
<1>1. crashed' \in {FALSE, ~clientOpen} /\ clientOpen \in BOOLEAN
    BY DEF SendOrCrash, ReturnOrCrash, ClientTypes
<1>2. CASE crashed' = FALSE
    BY <1>2
<1>3. CASE crashed' = ~clientOpen
    BY <1>3
<1> QED
    BY <1>1, <1>2, <1>3

LEMMA ClientTyped == ControlTypes /\ ClientThread => ControlTypes'
<1> SUFFICES ASSUME ControlTypes, ClientThread PROVE ControlTypes'
    OBVIOUS
<1>t. ClientTypes /\ LauncherTypes /\ ServerTypes /\ FinTypes /\ EndTypes
    BY DEF ControlTypes
<1>1. CASE LauncherAwaited
    BY <1>t, <1>1 DEF LauncherAwaited, Threads, launcherVars, serverVars, finVars, ControlTypes,
       ClientTypes, LauncherTypes, ServerTypes, FinTypes, EndTypes
<1>2. CASE LauncherTimeout
  <2>1. crashed' \in BOOLEAN
    BY <1>t, <1>2, CrashTyped DEF LauncherTimeout, StartFails
  <2> QED
    BY <1>t, <1>2, <2>1 DEF LauncherTimeout, StartFails, launcherVars, serverVars, finVars,
       ControlTypes, ClientTypes, LauncherTypes, ServerTypes, FinTypes, EndTypes
<1>3. CASE LauncherLaunches
    BY <1>t, <1>3 DEF LauncherLaunches, serverVars, finVars, ControlTypes, ClientTypes,
       LauncherTypes, ServerTypes, FinTypes, EndTypes
<1>4. CASE LaunchRefused
  <2>1. crashed' \in BOOLEAN
    BY <1>t, <1>4, CrashTyped DEF LaunchRefused, StartErrs
  <2> QED
    BY <1>t, <1>4, <2>1 DEF LaunchRefused, StartErrs, launcherVars, serverVars, finVars,
       ControlTypes, ClientTypes, LauncherTypes, ServerTypes, FinTypes, EndTypes
<1>5. CASE PidAwaited
    BY <1>t, <1>5 DEF PidAwaited, Threads, launcherVars, serverVars, finVars, ControlTypes,
       ClientTypes, LauncherTypes, ServerTypes, FinTypes, EndTypes
<1>6. CASE PidTimeout
  <2>1. crashed' \in BOOLEAN
    BY <1>t, <1>6, CrashTyped DEF PidTimeout, StartFails
  <2> QED
    BY <1>t, <1>6, <2>1 DEF PidTimeout, StartFails, launcherVars, serverVars, finVars,
       ControlTypes, ClientTypes, LauncherTypes, ServerTypes, FinTypes, EndTypes
<1>7. CASE ServerAttached
    BY <1>t, <1>7 DEF ServerAttached, launcherVars, finVars, ControlTypes, ClientTypes,
       LauncherTypes, ServerTypes, FinTypes, EndTypes
<1>8. CASE ServerTimeout
  <2>1. crashed' \in BOOLEAN
    BY <1>t, <1>8, CrashTyped DEF ServerTimeout, StartFails
  <2> QED
    BY <1>t, <1>8, <2>1 DEF ServerTimeout, StartFails, launcherVars, serverVars, finVars,
       ControlTypes, ClientTypes, LauncherTypes, ServerTypes, FinTypes, EndTypes
<1>9. CASE InjectFails
  <2>1. FinTypes'
    BY <1>t, <1>9, FinalizeTyped DEF InjectFails, Threads
  <2> QED
    BY <1>t, <1>9, <2>1 DEF InjectFails, launcherVars, serverVars, ControlTypes,
       ClientTypes, LauncherTypes, ServerTypes, EndTypes
<1>10. CASE NoSubprocess
  <2>1. FinTypes'
    BY <1>t, <1>10, FinalizeTyped DEF NoSubprocess, Threads
  <2>2. crashed' \in BOOLEAN
    BY <1>t, <1>10, CrashTyped DEF NoSubprocess
  <2> QED
    BY <1>t, <1>10, <2>1, <2>2 DEF NoSubprocess, launcherVars, serverVars, ControlTypes,
       ClientTypes, LauncherTypes, ServerTypes, EndTypes
<1>11. CASE ServerInitialized
    BY <1>t, <1>11 DEF ServerInitialized, launcherVars, serverVars, finVars, ControlTypes,
       ClientTypes, LauncherTypes, ServerTypes, FinTypes, EndTypes
<1>12. CASE InitializeFails
  <2>1. crashed' \in BOOLEAN
    BY <1>t, <1>12, CrashTyped DEF InitializeFails, StartErrs
  <2> QED
    BY <1>t, <1>12, <2>1 DEF InitializeFails, StartErrs, launcherVars, serverVars, finVars,
       ControlTypes, ClientTypes, LauncherTypes, ServerTypes, FinTypes, EndTypes
<1>13. CASE ServerStarted
  <2>1. crashed' \in BOOLEAN
    BY <1>t, <1>13, CrashTyped DEF ServerStarted
  <2> QED
    BY <1>t, <1>13, <2>1 DEF ServerStarted, launcherVars, serverVars, finVars, ControlTypes,
       ClientTypes, LauncherTypes, ServerTypes, FinTypes, EndTypes
<1>14. CASE StartRefused
  <2>1. crashed' \in BOOLEAN
    BY <1>t, <1>14, CrashTyped DEF StartRefused, StartErrs
  <2> QED
    BY <1>t, <1>14, <2>1 DEF StartRefused, StartErrs, launcherVars, serverVars, finVars,
       ControlTypes, ClientTypes, LauncherTypes, ServerTypes, FinTypes, EndTypes
<1>15. CASE StartLost
  <2>1. FinTypes'
    BY <1>t, <1>15, FinalizeTyped DEF StartLost, Threads
  <2>2. crashed' \in BOOLEAN
    BY <1>t, <1>15, CrashTyped DEF StartLost
  <2> QED
    BY <1>t, <1>15, <2>1, <2>2 DEF StartLost, launcherVars, serverVars, ControlTypes,
       ClientTypes, LauncherTypes, ServerTypes, EndTypes
<1>16. CASE NoDebugStarted
    BY <1>t, <1>16 DEF NoDebugStarted, launcherVars, serverVars, finVars, ControlTypes,
       ClientTypes, LauncherTypes, ServerTypes, FinTypes, EndTypes
<1>17. CASE Configured
    BY <1>t, <1>17 DEF Configured, launcherVars, serverVars, finVars, ControlTypes,
       ClientTypes, LauncherTypes, ServerTypes, FinTypes, EndTypes
<1>18. CASE ConfigureLost
  <2>1. FinTypes'
    BY <1>t, <1>18, FinalizeTyped DEF ConfigureLost, Threads
  <2>2. crashed' \in BOOLEAN
    BY <1>t, <1>18, CrashTyped DEF ConfigureLost
  <2> QED
    BY <1>t, <1>18, <2>1, <2>2 DEF ConfigureLost, launcherVars, serverVars, ControlTypes,
       ClientTypes, LauncherTypes, ServerTypes, EndTypes
<1>19. CASE ConfigureRefused
    BY <1>t, <1>19 DEF ConfigureRefused, launcherVars, serverVars, finVars, ControlTypes,
       ClientTypes, LauncherTypes, ServerTypes, FinTypes, EndTypes
<1>20. CASE Delegated
  <2>1. crashed' \in BOOLEAN
    BY <1>t, <1>20, CrashTyped DEF Delegated
  <2> QED
    BY <1>t, <1>20, <2>1 DEF Delegated, launcherVars, serverVars, finVars, ControlTypes,
       ClientTypes, LauncherTypes, ServerTypes, FinTypes, EndTypes
<1>21. CASE CloseClient
  <2>1. /\ crashed' = ~clientOpen /\ clientOpen' = FALSE /\ cpc' = "idle" /\ slock' = "none"
        /\ UNCHANGED <<start, startSet, hasStarted, clientUp, launcherVars, serverVars, finVars,
                       registered>>
    BY <1>21 DEF CloseClient
  <2>2. crashed' \in BOOLEAN /\ clientOpen' \in BOOLEAN
    BY <1>t, <2>1, Zenon DEF ClientTypes
  <2> QED
    BY <1>t, <2>1, <2>2 DEF launcherVars, serverVars, finVars, ControlTypes, ClientTypes,
       LauncherTypes, ServerTypes, FinTypes, EndTypes
<1>22. CASE ClientDisconnect
  <2>1. FinTypes'
    BY <1>t, <1>22, FinalizeTyped DEF ClientDisconnect, Threads
  <2>2. /\ clientUp' = FALSE /\ cpc' = "gone"
        /\ registered' = StillRegistered(FALSE, launcher = "up", server = "up")
        /\ UNCHANGED <<start, startSet, hasStarted, clientOpen, launcherVars, serverVars, crashed>>
    BY <1>22 DEF ClientDisconnect
  <2>3. registered' \in BOOLEAN
    BY <1>t, <2>2 DEF EndTypes, StillRegistered
  <2>4. clientUp' \in BOOLEAN
    BY <2>2, Zenon
  <2>5. /\ cpc' = "gone"
        /\ UNCHANGED <<start, startSet, hasStarted, clientOpen, launcherVars, serverVars, crashed>>
    BY <2>2
  <2>6. ClientTypes' /\ EndTypes'
    BY <1>t, <2>3, <2>4, <2>5 DEF ClientTypes, EndTypes
  <2>7. LauncherTypes' /\ ServerTypes'
    BY <1>t, <2>5 DEF launcherVars, serverVars, LauncherTypes, ServerTypes
  <2> QED
    BY <2>1, <2>6, <2>7 DEF ControlTypes
<1> QED
    BY <1>1, <1>2, <1>3, <1>4, <1>5, <1>6, <1>7, <1>8, <1>9, <1>10, <1>11, <1>12, <1>13,
       <1>14, <1>15, <1>16, <1>17, <1>18, <1>19, <1>20, <1>21, <1>22 DEF ClientThread

LEMMA RequestTyped == ControlTypes /\ ClientRequest => ControlTypes'
<1> SUFFICES ASSUME ControlTypes, ClientRequest PROVE ControlTypes'
    OBVIOUS
<1>t. ClientTypes /\ LauncherTypes /\ ServerTypes /\ FinTypes /\ EndTypes
    BY DEF ControlTypes
<1>1. CASE \E kind \in Starts : StartRequest(kind)
    BY <1>t, <1>1, StartsAssumption DEF StartRequest, StartKinds, Threads, serverVars, finVars, ControlTypes,
       ClientTypes, LauncherTypes, ServerTypes, FinTypes, EndTypes
<1>2. CASE ConfigurationDone
    BY <1>t, <1>2 DEF ConfigurationDone, Threads, CanHandle, launcherVars, serverVars, finVars,
       ControlTypes, ClientTypes, LauncherTypes, ServerTypes, FinTypes, EndTypes
<1>3. CASE ConfigurationDoneEarly
    BY <1>t, <1>3 DEF ConfigurationDoneEarly, CanHandle, launcherVars, serverVars, finVars,
       ControlTypes, ClientTypes, LauncherTypes, ServerTypes, FinTypes, EndTypes
<1>4. CASE Delegate
    BY <1>t, <1>4 DEF Delegate, Threads, CanHandle, launcherVars, serverVars, finVars, ControlTypes,
       ClientTypes, LauncherTypes, ServerTypes, FinTypes, EndTypes
<1>5. CASE TerminateRequest
  <2>1. FinTypes'
    BY <1>t, <1>5, FinalizeTyped DEF TerminateRequest, Threads
  <2> QED
    BY <1>t, <1>5, <2>1 DEF TerminateRequest, CanHandle, launcherVars, serverVars,
       ControlTypes, ClientTypes, LauncherTypes, ServerTypes, EndTypes
<1>6. CASE DisconnectRequest
  <2>1. FinTypes'
    BY <1>t, <1>6, FinalizeTyped DEF DisconnectRequest, Threads, finVars, FinTypes
  <2> QED
    BY <1>t, <1>6, <2>1 DEF DisconnectRequest, CanHandle, finVars, launcherVars, serverVars,
       ControlTypes, ClientTypes, LauncherTypes, ServerTypes, EndTypes
<1> QED
    BY <1>1, <1>2, <1>3, <1>4, <1>5, <1>6 DEF ClientRequest

LEMMA LauncherTyped == ControlTypes /\ LauncherThread => ControlTypes'
<1> SUFFICES ASSUME ControlTypes, LauncherThread PROVE ControlTypes'
    OBVIOUS
<1>t. ClientTypes /\ LauncherTypes /\ ServerTypes /\ FinTypes /\ EndTypes
    BY DEF ControlTypes
<1>1. CASE LauncherConnected
    BY <1>t, <1>1 DEF LauncherConnected, clientVars, serverVars, finVars, ControlTypes,
       ClientTypes, LauncherTypes, ServerTypes, FinTypes, EndTypes
<1>2. CASE LauncherProcess
    BY <1>t, <1>2 DEF LauncherProcess, clientVars, serverVars, finVars, ControlTypes,
       ClientTypes, LauncherTypes, ServerTypes, FinTypes, EndTypes
<1>3. CASE LauncherEvent
    BY <1>t, <1>3 DEF LauncherEvent, clientVars, serverVars, finVars, ControlTypes,
       ClientTypes, LauncherTypes, ServerTypes, FinTypes, EndTypes
<1>4. CASE LauncherExited
    BY <1>t, <1>4 DEF LauncherExited, clientVars, serverVars, finVars, ControlTypes,
       ClientTypes, LauncherTypes, ServerTypes, FinTypes, EndTypes
<1>5. CASE LauncherTerminated
    BY <1>t, <1>5 DEF LauncherTerminated, clientVars, serverVars, finVars, ControlTypes,
       ClientTypes, LauncherTypes, ServerTypes, FinTypes, EndTypes
<1>6. CASE LauncherDisconnect
  <2>1. FinTypes'
    BY <1>t, <1>6, FinalizeTyped DEF LauncherDisconnect, Threads
  <2> QED
    BY <1>t, <1>6, <2>1 DEF LauncherDisconnect, StillRegistered, clientVars, serverVars,
       ControlTypes, ClientTypes, LauncherTypes, ServerTypes, EndTypes
<1> QED
    BY <1>1, <1>2, <1>3, <1>4, <1>5, <1>6 DEF LauncherThread

LEMMA ServerTyped == ControlTypes /\ ServerThread => ControlTypes'
<1> SUFFICES ASSUME ControlTypes, ServerThread PROVE ControlTypes'
    OBVIOUS
<1>t. ClientTypes /\ LauncherTypes /\ ServerTypes /\ FinTypes /\ EndTypes
    BY DEF ControlTypes
<1>1. CASE ServerPick
    BY <1>t, <1>1 DEF ServerPick, clientVars, launcherVars, finVars, ControlTypes,
       ClientTypes, LauncherTypes, ServerTypes, FinTypes, EndTypes
<1>2. CASE ConnectionHandles
    BY <1>t, <1>2 DEF ConnectionHandles, clientVars, launcherVars, finVars, ControlTypes,
       ClientTypes, LauncherTypes, ServerTypes, FinTypes, EndTypes
<1>3. CASE ServerEvent
    BY <1>t, <1>3 DEF ServerEvent, clientVars, launcherVars, finVars, ControlTypes,
       ClientTypes, LauncherTypes, ServerTypes, FinTypes, EndTypes
<1>4. CASE ServerTerminated
    BY <1>t, <1>4 DEF ServerTerminated, clientVars, launcherVars, finVars, ControlTypes,
       ClientTypes, LauncherTypes, ServerTypes, FinTypes, EndTypes
<1>5. CASE ServerDisconnect
  <2>1. FinTypes'
    BY <1>t, <1>5, FinalizeTyped DEF ServerDisconnect, Threads
  <2> QED
    BY <1>t, <1>5, <2>1 DEF ServerDisconnect, StillRegistered, clientVars, launcherVars,
       ControlTypes, ClientTypes, LauncherTypes, ServerTypes, EndTypes
<1> QED
    BY <1>1, <1>2, <1>3, <1>4, <1>5 DEF ServerThread

LEMMA FinTyped == ControlTypes /\ FinalizeStep => ControlTypes'
<1> SUFFICES ASSUME ControlTypes, FinalizeStep PROVE ControlTypes'
    OBVIOUS
<1>t. ClientTypes /\ LauncherTypes /\ ServerTypes /\ FinTypes /\ EndTypes
    BY DEF ControlTypes
<1>1. CASE FinAsk
    BY <1>t, <1>1 DEF FinAsk, FinHolds, TerminateDebuggee, clientVars, launcherVars,
       serverVars, ControlTypes, ClientTypes, LauncherTypes, ServerTypes, FinTypes, EndTypes
<1>2. CASE FinDetach
    BY <1>t, <1>2 DEF FinDetach, FinHolds, StillRegistered, clientVars, launcherVars,
       ControlTypes, ClientTypes, LauncherTypes, ServerTypes, FinTypes, EndTypes
<1>3. CASE FinLauncher
    BY <1>t, <1>3 DEF FinLauncher, FinHolds, clientVars, launcherVars, serverVars,
       ControlTypes, ClientTypes, LauncherTypes, ServerTypes, FinTypes, EndTypes
<1>4. CASE FinExitAwaited
    BY <1>t, <1>4 DEF FinExitAwaited, clientVars, launcherVars, serverVars, ControlTypes,
       ClientTypes, LauncherTypes, ServerTypes, FinTypes, EndTypes
<1>5. CASE FinKill
    BY <1>t, <1>5 DEF FinKill, FinHolds, TerminateDebuggee, clientVars, launcherVars,
       serverVars, ControlTypes, ClientTypes, LauncherTypes, ServerTypes, FinTypes, EndTypes
<1>6. CASE FinDrained
    BY <1>t, <1>6 DEF FinDrained, clientVars, launcherVars, serverVars, ControlTypes,
       ClientTypes, LauncherTypes, ServerTypes, FinTypes, EndTypes
<1>7. CASE FinClient
    BY <1>t, <1>7 DEF FinClient, FinHolds, clientVars, launcherVars, serverVars,
       ControlTypes, ClientTypes, LauncherTypes, ServerTypes, FinTypes, EndTypes
<1>8. CASE FinReturn
  <2>1. crashed' \in BOOLEAN
    BY <1>t, <1>8, CrashTyped DEF FinReturn, EndTypes
  <2> QED
    BY <1>t, <1>8, <2>1 DEF FinReturn, FinHolds, launcherVars, serverVars, finVars,
       ControlTypes, ClientTypes, LauncherTypes, ServerTypes, FinTypes, EndTypes
<1>9. CASE NotInjected
  <2>1. crashed' \in BOOLEAN
    BY <1>t, <1>9, CrashTyped DEF NotInjected
  <2> QED
    BY <1>t, <1>9, <2>1 DEF NotInjected, FinHolds, launcherVars, serverVars, finVars,
       ControlTypes, ClientTypes, LauncherTypes, ServerTypes, FinTypes, EndTypes
<1> QED
    BY <1>1, <1>2, <1>3, <1>4, <1>5, <1>6, <1>7, <1>8, <1>9 DEF FinalizeStep

LEMMA EnvTyped == ControlTypes /\ Environment => ControlTypes'
<1> SUFFICES ASSUME ControlTypes, Environment PROVE ControlTypes'
    OBVIOUS
<1>t. ClientTypes /\ LauncherTypes /\ ServerTypes /\ FinTypes /\ EndTypes
    BY DEF ControlTypes
<1>1. CASE ClientLost
  <2>1. /\ clientOpen' = FALSE
        /\ UNCHANGED <<slock, cpc, start, startSet, hasStarted, clientUp, launcherVars, serverVars,
                       finVars, registered, crashed>>
    BY <1>1 DEF ClientLost
  <2>2. clientOpen' \in BOOLEAN
    BY <2>1, Zenon
  <2> QED
    BY <1>t, <2>1, <2>2 DEF launcherVars, serverVars, finVars, ControlTypes, ClientTypes,
       LauncherTypes, ServerTypes, FinTypes, EndTypes
<1>2. CASE LauncherAccepted
    BY <1>t, <1>2 DEF LauncherAccepted, clientVars, serverVars, finVars, ControlTypes,
       ClientTypes, LauncherTypes, ServerTypes, FinTypes, EndTypes
<1>3. CASE LauncherOutput
    BY <1>t, <1>3 DEF LauncherOutput, clientVars, serverVars, finVars, ControlTypes,
       ClientTypes, LauncherTypes, ServerTypes, FinTypes, EndTypes
<1>4. CASE DebuggeeExits
    BY <1>t, <1>4 DEF DebuggeeExits, clientVars, serverVars, finVars, ControlTypes,
       ClientTypes, LauncherTypes, ServerTypes, FinTypes, EndTypes
<1>5. CASE LauncherTerminates
    BY <1>t, <1>5 DEF LauncherTerminates, clientVars, serverVars, finVars, ControlTypes,
       ClientTypes, LauncherTypes, ServerTypes, FinTypes, EndTypes
<1>6. CASE LauncherDies
    BY <1>t, <1>6 DEF LauncherDies, clientVars, serverVars, finVars, ControlTypes,
       ClientTypes, LauncherTypes, ServerTypes, FinTypes, EndTypes
<1>7. CASE ServerOutput
    BY <1>t, <1>7 DEF ServerOutput, clientVars, launcherVars, finVars, ControlTypes,
       ClientTypes, LauncherTypes, ServerTypes, FinTypes, EndTypes
<1>8. CASE ServerExits
    BY <1>t, <1>8 DEF ServerExits, clientVars, launcherVars, finVars, ControlTypes,
       ClientTypes, LauncherTypes, ServerTypes, FinTypes, EndTypes
<1>9. CASE ServerDies
    BY <1>t, <1>9 DEF ServerDies, clientVars, launcherVars, finVars, ControlTypes,
       ClientTypes, LauncherTypes, ServerTypes, FinTypes, EndTypes
<1> QED
    BY <1>1, <1>2, <1>3, <1>4, <1>5, <1>6, <1>7, <1>8, <1>9 DEF Environment

-----------------------------------------------------------------------------
Inductive == TypeInv /\ StartInv /\ OrderInv

LEMMA InitInductive == Init => Inductive
<1> SUFFICES ASSUME Init PROVE Inductive
    OBVIOUS
<1>1. ControlTypes
    BY DEF Init, ControlTypes, ClientTypes, LauncherTypes, ServerTypes, FinTypes, EndTypes
<1>2. TrafficTypes
    BY BoundsAssumption DEF Init, TrafficTypes
<1>3. StartInv
    BY DEF Init, StartInv, Follows
<1>4. \A t : Flow(<<>>, <<>>, <<>>, t, 0)
    BY EmptyMatters, NoneMatters DEF Flow
<1> QED
    BY <1>1, <1>2, <1>3, <1>4 DEF Init, Inductive, TypeInv, OrderInv

LEMMA StepInductive == Inductive /\ [Next]_vars => Inductive'
<1> SUFFICES ASSUME Inductive, [Next]_vars PROVE Inductive'
    OBVIOUS
<1>t. TrafficTypes /\ ControlTypes /\ ClientTypes /\ StartInv /\ OrderInv
    BY DEF Inductive, TypeInv, ControlTypes
<1>1. /\ Traffic /\ vpc' \in {"idle", "server", "connection"}
      /\ vpc' # "idle" => vq' # <<>>
    BY <1>t, EveryTraffic
<1>2. ControlTypes'
  <2>1. CASE UNCHANGED vars
    BY <1>t, <2>1 DEF vars, clientVars, launcherVars, serverVars, finVars, ControlTypes,
       ClientTypes, LauncherTypes, ServerTypes, FinTypes, EndTypes
  <2> QED
    BY <1>t, <2>1, ClientTyped, RequestTyped, LauncherTyped, ServerTyped, FinTyped, EnvTyped
       DEF Next
<1>3. TrafficTypes' /\ StartInv' /\ OrderInv'
    BY <1>t, <1>1, TrafficTyped, TrafficFollows, TrafficOrdered
<1> QED
    BY <1>2, <1>3 DEF Inductive, TypeInv

LEMMA IsInductive == Spec => []Inductive
BY InitInductive, StepInductive, PTL DEF Spec

(***************************************************************************)
(* Every variable keeps its type.                                          *)
(***************************************************************************)
THEOREM TypesAreKept == Spec => []TypeOK
<1>1. Inductive => TypeOK
  <2> SUFFICES ASSUME Inductive PROVE TypeOK
    OBVIOUS
  <2>1. ControlTypes /\ TrafficTypes
    BY DEF Inductive, TypeInv
  <2>2. /\ Deferable \subseteq Message /\ Told \subseteq Sent
        /\ MessageOf("launcher") \subseteq Message /\ MessageOf("server") \subseteq Message
    BY DEF Deferable, Told, MessageOf
  <2>3. /\ deferred \in Seq(Message) /\ toClient \in Seq(Sent) /\ lq \in Seq(Message)
        /\ vq \in Seq(Message)
    BY <2>1, <2>2, SeqMonotonic DEF TrafficTypes
  <2> QED
    BY <2>1, <2>3 DEF TypeOK, TrafficTypes, ControlTypes, ClientTypes, LauncherTypes, ServerTypes,
       FinTypes, EndTypes
<1> QED
    BY <1>1, IsInductive, PTL

(***************************************************************************)
(* Whatever the launcher and the server send, and whenever they do, none   *)
(* of the events that propagate_after_start() passes on overtakes the      *)
(* success of the start request.  This is every event of the debuggee but  *)
(* the "exited" that the launcher's handler sends by itself.               *)
(***************************************************************************)
THEOREM NothingBeforeStart == Spec => []EventsFollowStart
<1>1. Inductive => EventsFollowStart
    BY DEF Inductive, StartInv, Follows, EventsFollowStart, SentBefore
<1> QED
    BY <1>1, IsInductive, PTL

(***************************************************************************)
(* Neither deferring nor the interleaving of the handler threads reorders  *)
(* or repeats the events of the launcher, or those of the server.          *)
(***************************************************************************)
THEOREM EventsStayInOrder == Spec => []EventsInOrder
<1>1. Inductive => EventsInOrder
  <2> SUFFICES ASSUME Inductive,
                      NEW i \in 1 .. Len(toClient), NEW j \in 1 .. Len(toClient), i < j,
                      toClient[i].kind = "event", toClient[j].kind = "event",
                      toClient[i].src = toClient[j].src
               PROVE  toClient[i].n < toClient[j].n
    BY DEF EventsInOrder
  <2>1. toClient[i] \in Told
    BY DEF Inductive, TypeInv, TrafficTypes
  <2>2. toClient[i].src \in {"launcher", "server"}
    BY <2>1 DEF Told, Sent, Threads
  <2>3. Ordered(toClient, "launcher") /\ Ordered(toClient, "server")
    BY DEF Inductive, OrderInv, Flow
  <2> QED
    BY <2>2, <2>3 DEF Ordered, IsEvent
<1> QED
    BY <1>1, IsInductive, PTL

-----------------------------------------------------------------------------
(***************************************************************************)
(* The launcher, as the adapter sees it: what its process does with the    *)
(* connection, and that a "disconnect" is the last of its messages.        *)
(***************************************************************************)
Last(q) == \A i \in 1 .. Len(q) : q[i].kind = "disconnect" => i = Len(q)
NoEnd(q) == \A i \in 1 .. Len(q) : q[i].kind # "disconnect"

ProcInv ==
    /\ proc \in {"absent", "spawned", "accepted"} => launcher = "missing" /\ lq = <<>>
    /\ proc \in {"connected", "running", "exited", "terminated"} => launcher = "up"
    /\ launcher = "missing" => proc \in {"absent", "spawned", "accepted"}
    /\ launcher = "down" => proc = "gone" /\ lq = <<>>
    /\ Last(lq) /\ (proc # "gone" => NoEnd(lq))

\* On the way to a launcher or to a server, nothing has begun to finalize, unless
\* the launcher has come and gone.
WayInv ==
    /\ start = "none" => proc = "absent" /\ srvLink = "absent"
    /\ cpc \in {"await_launcher", "launching", "await_pid", "await_server"} => start # "none"
    /\ cpc \in {"await_launcher", "launching", "await_pid"} => srvLink = "absent"
    /\ srvLink = "absent" => vq = <<>>
    /\ proc = "accepted" => cpc = "await_launcher"
    /\ cpc = "await_launcher" /\ launcher = "missing" => fin = "no"

LEMMA LastAppended ==
    ASSUME NEW q \in Seq(Any), NEW m \in Any, NoEnd(q)
    PROVE  Last(Append(q, m)) /\ (m.kind # "disconnect" => NoEnd(Append(q, m)))
<1>1. /\ Len(Append(q, m)) = Len(q) + 1 /\ Len(q) \in Nat
      /\ Append(q, m)[Len(q) + 1] = m
      /\ \A i \in 1 .. Len(q) : Append(q, m)[i] = q[i]
    OBVIOUS
<1>2. \A i \in 1 .. Len(Append(q, m)) :
        (i \in 1 .. Len(q) /\ Append(q, m)[i].kind # "disconnect") \/ (i = Len(q) + 1)
    BY <1>1 DEF NoEnd
<1>3. Last(Append(q, m))
    BY <1>1, <1>2 DEF Last
<1>4. ASSUME m.kind # "disconnect" PROVE NoEnd(Append(q, m))
    BY <1>1, <1>2, <1>4 DEF NoEnd
<1> QED
    BY <1>3, <1>4

LEMMA LastTail ==
    ASSUME NEW q \in Seq(Any), q # <<>>, Last(q)
    PROVE  /\ Last(Tail(q)) /\ (NoEnd(q) => NoEnd(Tail(q)))
           /\ Head(q).kind = "disconnect" => Tail(q) = <<>>
<1>1. /\ Len(Tail(q)) = Len(q) - 1 /\ Len(q) \in Nat /\ Len(q) > 0
      /\ \A i \in 1 .. Len(Tail(q)) : i + 1 \in 1 .. Len(q) /\ Tail(q)[i] = q[i + 1]
      /\ Head(q) = q[1]
    OBVIOUS
<1>2. Last(Tail(q))
  <2>1. SUFFICES ASSUME NEW i \in 1 .. Len(Tail(q)), Tail(q)[i].kind = "disconnect"
                 PROVE  i = Len(Tail(q))
    BY DEF Last
  <2>2. i + 1 \in 1 .. Len(q) /\ q[i + 1].kind = "disconnect"
    BY <1>1, <2>1
  <2>3. i + 1 = Len(q)
    BY <2>2 DEF Last
  <2>4. i \in Nat /\ Len(q) \in Nat /\ Len(Tail(q)) = Len(q) - 1
    BY <1>1, <2>1
  <2> QED
    BY <2>3, <2>4
<1>3. NoEnd(q) => NoEnd(Tail(q))
    BY <1>1 DEF NoEnd
<1>4. ASSUME Head(q).kind = "disconnect" PROVE Tail(q) = <<>>
  <2>1. 1 \in 1 .. Len(q) /\ q[1].kind = "disconnect"
    BY <1>1, <1>4
  <2>2. Len(q) = 1
    BY <2>1 DEF Last
  <2> QED
    BY <1>1, <2>2
<1> QED
    BY <1>2, <1>3, <1>4

LEMMA PlainAny == \A k \in {"process", "exited", "terminated", "disconnect"} :
    Plain(k) \in Any /\ Plain(k).kind = k
BY DEF Plain, Any, Threads

\* Only these steps concern the launcher.
LauncherSteps ==
    \/ \E kind \in Starts : StartRequest(kind)
    \/ LauncherLaunches \/ LauncherThread \/ LauncherAccepted \/ LauncherOutput
    \/ DebuggeeExits \/ LauncherTerminates \/ LauncherDies

LEMMA OtherSteps == [Next]_vars => UNCHANGED launcherVars \/ LauncherSteps
<1> SUFFICES ASSUME [Next]_vars, ~LauncherSteps PROVE UNCHANGED launcherVars
    OBVIOUS
<1>1. CASE ClientThread
    BY <1>1 DEF ClientThread, LauncherSteps, LauncherAwaited, LauncherTimeout, LaunchRefused,
       PidAwaited, PidTimeout, ServerAttached, ServerTimeout, InjectFails, NoSubprocess,
       ServerInitialized, InitializeFails, ServerStarted, StartRefused, StartLost, NoDebugStarted,
       Configured, ConfigureLost, ConfigureRefused, Delegated, CloseClient, ClientDisconnect,
       StartFails, StartErrs
<1>2. CASE ClientRequest
    BY <1>2 DEF ClientRequest, LauncherSteps, ConfigurationDone, ConfigurationDoneEarly, Delegate,
       TerminateRequest, DisconnectRequest
<1>3. CASE ServerThread
    BY <1>3 DEF ServerThread, ServerPick, ConnectionHandles, ServerEvent, ServerTerminated,
       ServerDisconnect
<1>4. CASE FinalizeStep
    BY <1>4 DEF FinalizeStep, FinAsk, FinDetach, FinLauncher, FinExitAwaited, FinKill, FinDrained,
       FinClient, FinReturn, NotInjected
<1>5. CASE Environment
    BY <1>5 DEF Environment, LauncherSteps, ClientLost, ServerOutput, ServerExits, ServerDies
<1>6. CASE UNCHANGED vars
    BY <1>6 DEF vars
<1> QED
    BY <1>1, <1>2, <1>3, <1>4, <1>5, <1>6 DEF Next, LauncherSteps

LEMMA StepProc ==
    ASSUME TypeInv, ProcInv, WayInv, [Next]_vars
    PROVE  ProcInv'
<1>t. lq \in Seq(Any) /\ LauncherTypes
    BY TrafficFacts DEF TypeInv, ControlTypes
<1>p. Last(lq) /\ (proc # "gone" => NoEnd(lq))
    BY DEF ProcInv
<1>u. lq # <<>> => launcher = "up"
    BY <1>t DEF ProcInv, LauncherTypes
<1>1. CASE UNCHANGED launcherVars
    BY <1>1 DEF ProcInv, launcherVars
<1>2. CASE \E kind \in Starts : StartRequest(kind)
  <2>1. /\ start = "none" /\ proc' \in {"spawned", proc} /\ UNCHANGED <<launcher, lq>>
    BY <1>2 DEF StartRequest
  <2>2. proc = "absent"
    BY <2>1 DEF WayInv
  <2> QED
    BY <2>1, <2>2 DEF ProcInv
<1>3. CASE LauncherConnected
  <2>1. proc = "accepted" /\ proc' = "connected" /\ launcher' = "up" /\ lq' = lq
    BY <1>3 DEF LauncherConnected
  <2> QED
    BY <1>p, <2>1 DEF ProcInv
<1>4. CASE LauncherAccepted
  <2>1. proc = "spawned" /\ proc' = "accepted" /\ launcher' = launcher /\ lq' = lq
    BY <1>4 DEF LauncherAccepted
  <2> QED
    BY <1>p, <2>1 DEF ProcInv
<1>5. ASSUME NEW m \in Any, lq' = Append(lq, m), launcher' = launcher,
             proc \in {"connected", "running", "exited", "terminated"},
             proc' \in {"running", "exited", "terminated", "gone"},
             m.kind = "disconnect" => proc' = "gone"
      PROVE  ProcInv'
  <2>1. NoEnd(lq) /\ launcher = "up"
    BY <1>p, <1>5 DEF ProcInv
  <2>2. Last(lq') /\ (m.kind # "disconnect" => NoEnd(lq'))
    BY <1>t, <1>5, <2>1, LastAppended
  <2> QED
    BY <1>5, <2>1, <2>2 DEF ProcInv
<1>6. CASE LauncherLaunches \/ DebuggeeExits \/ LauncherTerminates \/ LauncherDies
  <2>1. \E k \in {"process", "exited", "terminated", "disconnect"} :
            /\ lq' = Append(lq, Plain(k)) /\ launcher' = launcher
            /\ proc \in {"connected", "running", "exited", "terminated"}
            /\ proc' \in {"running", "exited", "terminated", "gone"}
            /\ k = "disconnect" => proc' = "gone"
    BY <1>6 DEF LauncherLaunches, DebuggeeExits, LauncherTerminates, LauncherDies
  <2> QED
    BY <1>5, <2>1, PlainAny
<1>7. CASE LauncherOutput
  <2>1. /\ lq' = Append(lq, Output("launcher", events + 1)) /\ launcher' = launcher
        /\ proc = "running" /\ proc' = proc
    BY <1>7 DEF LauncherOutput
  <2>2. Output("launcher", events + 1) \in Any /\ Output("launcher", events + 1).kind = "event"
    BY TrafficFacts DEF Output, Any, Threads, TypeInv
  <2> QED
    BY <1>5, <2>1, <2>2
<1>8. CASE LauncherProcess \/ LauncherEvent \/ LauncherExited
  <2>1. lq # <<>> /\ lq' = Tail(lq) /\ UNCHANGED <<proc, launcher>>
    BY <1>8 DEF LauncherProcess, LauncherEvent, LauncherExited
  <2> QED
    BY <1>t, <1>p, <1>u, <2>1, LastTail DEF ProcInv
<1>9. CASE LauncherTerminated
  <2>1. /\ lq # <<>> /\ proc' = "gone" /\ launcher' = launcher
        /\ lq' = IF proc = "gone" THEN Tail(lq) ELSE Append(Tail(lq), Plain("disconnect"))
    BY <1>9 DEF LauncherTerminated
  <2>2. CASE proc = "gone"
    BY <1>t, <1>p, <1>u, <2>1, <2>2, LastTail DEF ProcInv
  <2>3. CASE proc # "gone"
    <3>1. NoEnd(Tail(lq)) /\ Tail(lq) \in Seq(Any) /\ Plain("disconnect") \in Any
      BY <1>t, <1>p, <2>1, <2>3, LastTail, PlainAny
    <3>2. Last(lq')
      BY <2>1, <2>3, <3>1, LastAppended
    <3> QED
      BY <1>u, <2>1, <3>2 DEF ProcInv
  <2> QED
    BY <2>2, <2>3
<1>10. CASE LauncherDisconnect
  <2>1. /\ lq # <<>> /\ Head(lq).kind = "disconnect" /\ lq' = Tail(lq)
        /\ launcher' = "down" /\ proc' = proc
    BY <1>10 DEF LauncherDisconnect
  <2>2. lq' = <<>>
    BY <1>t, <1>p, <2>1, LastTail
  <2>3. proc = "gone"
    <3>1. Head(lq) = lq[1] /\ 1 \in 1 .. Len(lq)
      BY <1>t, <2>1
    <3> QED
      BY <1>p, <2>1, <3>1 DEF NoEnd
  <2> QED
    BY <2>1, <2>2, <2>3 DEF ProcInv, Last
<1> QED
    BY <1>1, <1>2, <1>3, <1>4, <1>6, <1>7, <1>8, <1>9, <1>10, OtherSteps
       DEF LauncherSteps, LauncherThread

LEMMA StepWay ==
    ASSUME TypeInv, ProcInv, WayInv, [Next]_vars, "late" \notin Faults
    PROVE  WayInv'
<1>t. /\ vpc # "idle" => srvLink # "absent"
      /\ proc \in {"spawned", "accepted"} => launcher = "missing"
      /\ lq # <<>> => proc # "absent"
    BY DEF TypeInv, TrafficTypes, WayInv, ProcInv
<1>s. Starts \subseteq StartKinds /\ "none" \notin StartKinds
    BY StartsAssumption DEF StartKinds
<1>1. CASE ClientThread
  <2>1. CASE LauncherAwaited
    BY <1>t, <2>1 DEF LauncherAwaited, launcherVars, serverVars, finVars, WayInv
  <2>2. CASE LauncherTimeout
    BY <1>t, <2>2 DEF LauncherTimeout, StartFails, launcherVars, serverVars, finVars, WayInv
  <2>3. CASE LauncherLaunches
    BY <1>t, <2>3 DEF LauncherLaunches, serverVars, finVars, WayInv
  <2>4. CASE LaunchRefused
    BY <1>t, <2>4 DEF LaunchRefused, StartErrs, launcherVars, serverVars, finVars, WayInv
  <2>5. CASE PidAwaited
    BY <1>t, <2>5 DEF PidAwaited, launcherVars, serverVars, finVars, WayInv
  <2>6. CASE PidTimeout
    BY <1>t, <2>6 DEF PidTimeout, StartFails, launcherVars, serverVars, finVars, WayInv
  <2>7. CASE ServerAttached
    BY <1>t, <2>7 DEF ServerAttached, launcherVars, finVars, WayInv
  <2>8. CASE ServerTimeout
    BY <1>t, <2>8 DEF ServerTimeout, StartFails, launcherVars, serverVars, finVars, WayInv
  <2>9. CASE InjectFails
    BY <1>t, <2>9 DEF InjectFails, Finalize, launcherVars, serverVars, finVars, WayInv
  <2>10. CASE NoSubprocess
    BY <1>t, <2>10 DEF NoSubprocess, Finalize, launcherVars, serverVars, finVars, WayInv
  <2>11. CASE ServerInitialized
    BY <1>t, <2>11 DEF ServerInitialized, launcherVars, serverVars, finVars, WayInv
  <2>12. CASE InitializeFails
    BY <1>t, <2>12 DEF InitializeFails, StartErrs, launcherVars, serverVars, finVars, WayInv
  <2>13. CASE ServerStarted
    BY <1>t, <2>13 DEF ServerStarted, launcherVars, serverVars, finVars, WayInv
  <2>14. CASE StartRefused
    BY <1>t, <2>14 DEF StartRefused, StartErrs, launcherVars, serverVars, finVars, WayInv
  <2>15. CASE StartLost
    BY <1>t, <2>15 DEF StartLost, Finalize, launcherVars, serverVars, finVars, WayInv
  <2>16. CASE NoDebugStarted
    BY <1>t, <2>16 DEF NoDebugStarted, launcherVars, serverVars, finVars, WayInv
  <2>17. CASE Configured
    BY <1>t, <2>17 DEF Configured, launcherVars, serverVars, finVars, WayInv
  <2>18. CASE ConfigureLost
    BY <1>t, <2>18 DEF ConfigureLost, Finalize, launcherVars, serverVars, finVars, WayInv
  <2>19. CASE ConfigureRefused
    BY <1>t, <2>19 DEF ConfigureRefused, launcherVars, serverVars, finVars, WayInv
  <2>20. CASE Delegated
    BY <1>t, <2>20 DEF Delegated, launcherVars, serverVars, finVars, WayInv
  <2>21. CASE CloseClient
    BY <1>t, <2>21 DEF CloseClient, FinalizedByOther, launcherVars, serverVars, finVars,
       WayInv
  <2>22. CASE ClientDisconnect
    BY <1>t, <2>22 DEF ClientDisconnect, Finalize, launcherVars, serverVars, finVars, WayInv
  <2> QED
    BY <1>1, <2>1, <2>2, <2>3, <2>4, <2>5, <2>6, <2>7, <2>8, <2>9, <2>10, <2>11, <2>12,
       <2>13, <2>14, <2>15, <2>16, <2>17, <2>18, <2>19, <2>20, <2>21, <2>22 DEF ClientThread
<1>2. CASE ClientRequest
  <2>1. CASE \E kind \in Starts : StartRequest(kind)
    BY <1>t, <1>s, <2>1 DEF StartRequest, serverVars, finVars, WayInv
  <2>2. CASE ConfigurationDone
    BY <1>t, <2>2 DEF ConfigurationDone, CanHandle, launcherVars, serverVars, finVars,
       WayInv
  <2>3. CASE ConfigurationDoneEarly
    BY <1>t, <2>3 DEF ConfigurationDoneEarly, CanHandle, launcherVars, serverVars, finVars,
       WayInv
  <2>4. CASE Delegate
    BY <1>t, <2>4 DEF Delegate, CanHandle, launcherVars, serverVars, finVars, WayInv
  <2>5. CASE TerminateRequest
    BY <1>t, <2>5 DEF TerminateRequest, CanHandle, Finalize, launcherVars, serverVars,
       finVars, WayInv
  <2>6. CASE DisconnectRequest
    BY <1>t, <2>6 DEF DisconnectRequest, CanHandle, Finalize, finVars, launcherVars,
       serverVars, WayInv
  <2> QED
    BY <1>2, <2>1, <2>2, <2>3, <2>4, <2>5, <2>6 DEF ClientRequest
<1>3. CASE LauncherThread
  <2>1. CASE LauncherConnected
    BY <1>t, <2>1 DEF LauncherConnected, clientVars, serverVars, finVars, WayInv
  <2>2. CASE LauncherProcess
    BY <1>t, <2>2 DEF LauncherProcess, clientVars, serverVars, finVars, WayInv
  <2>3. CASE LauncherEvent
    BY <1>t, <2>3 DEF LauncherEvent, clientVars, serverVars, finVars, WayInv
  <2>4. CASE LauncherExited
    BY <1>t, <2>4 DEF LauncherExited, clientVars, serverVars, finVars, WayInv
  <2>5. CASE LauncherTerminated
    BY <1>t, <2>5 DEF LauncherTerminated, clientVars, serverVars, finVars, WayInv
  <2>6. CASE LauncherDisconnect
    BY <1>t, <2>6 DEF LauncherDisconnect, Finalize, clientVars, serverVars, finVars, WayInv
  <2> QED
    BY <1>3, <2>1, <2>2, <2>3, <2>4, <2>5, <2>6 DEF LauncherThread
<1>4. CASE ServerThread
  <2>1. CASE ServerPick
    BY <1>t, <2>1 DEF ServerPick, clientVars, launcherVars, finVars, WayInv
  <2>2. CASE ConnectionHandles
    BY <1>t, <2>2 DEF ConnectionHandles, clientVars, launcherVars, finVars, WayInv
  <2>3. CASE ServerEvent
    BY <1>t, <2>3 DEF ServerEvent, clientVars, launcherVars, finVars, WayInv
  <2>4. CASE ServerTerminated
    BY <1>t, <2>4 DEF ServerTerminated, clientVars, launcherVars, finVars, WayInv
  <2>5. CASE ServerDisconnect
    BY <1>t, <2>5 DEF ServerDisconnect, Finalize, clientVars, launcherVars, finVars, WayInv
  <2> QED
    BY <1>4, <2>1, <2>2, <2>3, <2>4, <2>5 DEF ServerThread
<1>5. CASE FinalizeStep
  <2>1. CASE FinAsk
    BY <1>t, <2>1 DEF FinAsk, FinHolds, clientVars, launcherVars, serverVars, WayInv
  <2>2. CASE FinDetach
    BY <1>t, <2>2 DEF FinDetach, FinHolds, clientVars, launcherVars, WayInv
  <2>3. CASE FinLauncher
    BY <1>t, <2>3 DEF FinLauncher, FinHolds, clientVars, launcherVars, serverVars, WayInv
  <2>4. CASE FinExitAwaited
    BY <1>t, <2>4 DEF FinExitAwaited, clientVars, launcherVars, serverVars, WayInv
  <2>5. CASE FinKill
    BY <1>t, <2>5 DEF FinKill, FinHolds, clientVars, launcherVars, serverVars, WayInv
  <2>6. CASE FinDrained
    BY <1>t, <2>6 DEF FinDrained, clientVars, launcherVars, serverVars, WayInv
  <2>7. CASE FinClient
    BY <1>t, <2>7 DEF FinClient, FinHolds, clientVars, launcherVars, serverVars, WayInv
  <2>8. CASE FinReturn
    BY <1>t, <2>8 DEF FinReturn, FinHolds, launcherVars, serverVars, finVars, WayInv
  <2>9. CASE NotInjected
    BY <1>t, <2>9 DEF NotInjected, FinHolds, launcherVars, serverVars, finVars, WayInv
  <2> QED
    BY <1>5, <2>1, <2>2, <2>3, <2>4, <2>5, <2>6, <2>7, <2>8, <2>9 DEF FinalizeStep
<1>6. CASE Environment
  <2>1. CASE ClientLost
    BY <1>t, <2>1 DEF ClientLost, launcherVars, serverVars, finVars, WayInv
  <2>2. CASE LauncherAccepted
    BY <1>t, <2>2 DEF LauncherAccepted, clientVars, serverVars, finVars, WayInv
  <2>3. CASE LauncherOutput
    BY <1>t, <2>3 DEF LauncherOutput, clientVars, serverVars, finVars, WayInv
  <2>4. CASE DebuggeeExits
    BY <1>t, <2>4 DEF DebuggeeExits, clientVars, serverVars, finVars, WayInv
  <2>5. CASE LauncherTerminates
    BY <1>t, <2>5 DEF LauncherTerminates, clientVars, serverVars, finVars, WayInv
  <2>6. CASE LauncherDies
    BY <1>t, <2>6 DEF LauncherDies, clientVars, serverVars, finVars, WayInv
  <2>7. CASE ServerOutput
    BY <1>t, <2>7 DEF ServerOutput, clientVars, launcherVars, finVars, WayInv
  <2>8. CASE ServerExits
    BY <1>t, <2>8 DEF ServerExits, clientVars, launcherVars, finVars, WayInv
  <2>9. CASE ServerDies
    BY <1>t, <2>9 DEF ServerDies, clientVars, launcherVars, finVars, WayInv
  <2> QED
    BY <1>6, <2>1, <2>2, <2>3, <2>4, <2>5, <2>6, <2>7, <2>8, <2>9 DEF Environment
<1>7. CASE UNCHANGED vars
    BY <1>7 DEF vars, clientVars, launcherVars, serverVars, finVars, WayInv
<1> QED
    BY <1>1, <1>2, <1>3, <1>4, <1>5, <1>6, <1>7 DEF Next

\* finalize() runs once, and tells the client when the launcher is gone or never came.
FinInv == fin \in {"client", "done"} => launcher # "up"

LEMMA StepFin ==
    ASSUME ProcInv, WayInv, FinInv, [Next]_vars
    PROVE  FinInv' /\ (fin = "done" => fin' = "done")
<1>t. proc = "accepted" => fin = "no"
    BY DEF ProcInv, WayInv
<1>1. CASE ClientThread
  <2>1. CASE LauncherAwaited
    BY <1>t, <2>1 DEF LauncherAwaited, launcherVars, serverVars, finVars, FinInv
  <2>2. CASE LauncherTimeout
    BY <1>t, <2>2 DEF LauncherTimeout, StartFails, launcherVars, serverVars, finVars, FinInv
  <2>3. CASE LauncherLaunches
    BY <1>t, <2>3 DEF LauncherLaunches, serverVars, finVars, FinInv
  <2>4. CASE LaunchRefused
    BY <1>t, <2>4 DEF LaunchRefused, StartErrs, launcherVars, serverVars, finVars, FinInv
  <2>5. CASE PidAwaited
    BY <1>t, <2>5 DEF PidAwaited, launcherVars, serverVars, finVars, FinInv
  <2>6. CASE PidTimeout
    BY <1>t, <2>6 DEF PidTimeout, StartFails, launcherVars, serverVars, finVars, FinInv
  <2>7. CASE ServerAttached
    BY <1>t, <2>7 DEF ServerAttached, launcherVars, finVars, FinInv
  <2>8. CASE ServerTimeout
    BY <1>t, <2>8 DEF ServerTimeout, StartFails, launcherVars, serverVars, finVars, FinInv
  <2>9. CASE InjectFails
    BY <1>t, <2>9 DEF InjectFails, Finalize, launcherVars, serverVars, finVars, FinInv
  <2>10. CASE NoSubprocess
    BY <1>t, <2>10 DEF NoSubprocess, Finalize, launcherVars, serverVars, finVars, FinInv
  <2>11. CASE ServerInitialized
    BY <1>t, <2>11 DEF ServerInitialized, launcherVars, serverVars, finVars, FinInv
  <2>12. CASE InitializeFails
    BY <1>t, <2>12 DEF InitializeFails, StartErrs, launcherVars, serverVars, finVars, FinInv
  <2>13. CASE ServerStarted
    BY <1>t, <2>13 DEF ServerStarted, launcherVars, serverVars, finVars, FinInv
  <2>14. CASE StartRefused
    BY <1>t, <2>14 DEF StartRefused, StartErrs, launcherVars, serverVars, finVars, FinInv
  <2>15. CASE StartLost
    BY <1>t, <2>15 DEF StartLost, Finalize, launcherVars, serverVars, finVars, FinInv
  <2>16. CASE NoDebugStarted
    BY <1>t, <2>16 DEF NoDebugStarted, launcherVars, serverVars, finVars, FinInv
  <2>17. CASE Configured
    BY <1>t, <2>17 DEF Configured, launcherVars, serverVars, finVars, FinInv
  <2>18. CASE ConfigureLost
    BY <1>t, <2>18 DEF ConfigureLost, Finalize, launcherVars, serverVars, finVars, FinInv
  <2>19. CASE ConfigureRefused
    BY <1>t, <2>19 DEF ConfigureRefused, launcherVars, serverVars, finVars, FinInv
  <2>20. CASE Delegated
    BY <1>t, <2>20 DEF Delegated, launcherVars, serverVars, finVars, FinInv
  <2>21. CASE CloseClient
    BY <1>t, <2>21 DEF CloseClient, FinalizedByOther, launcherVars, serverVars, finVars,
       FinInv
  <2>22. CASE ClientDisconnect
    BY <1>t, <2>22 DEF ClientDisconnect, Finalize, launcherVars, serverVars, finVars, FinInv
  <2> QED
    BY <1>1, <2>1, <2>2, <2>3, <2>4, <2>5, <2>6, <2>7, <2>8, <2>9, <2>10, <2>11, <2>12,
       <2>13, <2>14, <2>15, <2>16, <2>17, <2>18, <2>19, <2>20, <2>21, <2>22 DEF ClientThread
<1>2. CASE ClientRequest
  <2>1. CASE \E kind \in Starts : StartRequest(kind)
    BY <1>t, <2>1 DEF StartRequest, serverVars, finVars, FinInv
  <2>2. CASE ConfigurationDone
    BY <1>t, <2>2 DEF ConfigurationDone, CanHandle, launcherVars, serverVars, finVars,
       FinInv
  <2>3. CASE ConfigurationDoneEarly
    BY <1>t, <2>3 DEF ConfigurationDoneEarly, CanHandle, launcherVars, serverVars, finVars,
       FinInv
  <2>4. CASE Delegate
    BY <1>t, <2>4 DEF Delegate, CanHandle, launcherVars, serverVars, finVars, FinInv
  <2>5. CASE TerminateRequest
    BY <1>t, <2>5 DEF TerminateRequest, CanHandle, Finalize, launcherVars, serverVars,
       finVars, FinInv
  <2>6. CASE DisconnectRequest
    BY <1>t, <2>6 DEF DisconnectRequest, CanHandle, Finalize, finVars, launcherVars,
       serverVars, FinInv
  <2> QED
    BY <1>2, <2>1, <2>2, <2>3, <2>4, <2>5, <2>6 DEF ClientRequest
<1>3. CASE LauncherThread
  <2>1. CASE LauncherConnected
    BY <1>t, <2>1 DEF LauncherConnected, clientVars, serverVars, finVars, FinInv
  <2>2. CASE LauncherProcess
    BY <1>t, <2>2 DEF LauncherProcess, clientVars, serverVars, finVars, FinInv
  <2>3. CASE LauncherEvent
    BY <1>t, <2>3 DEF LauncherEvent, clientVars, serverVars, finVars, FinInv
  <2>4. CASE LauncherExited
    BY <1>t, <2>4 DEF LauncherExited, clientVars, serverVars, finVars, FinInv
  <2>5. CASE LauncherTerminated
    BY <1>t, <2>5 DEF LauncherTerminated, clientVars, serverVars, finVars, FinInv
  <2>6. CASE LauncherDisconnect
    BY <1>t, <2>6 DEF LauncherDisconnect, Finalize, clientVars, serverVars, finVars, FinInv
  <2> QED
    BY <1>3, <2>1, <2>2, <2>3, <2>4, <2>5, <2>6 DEF LauncherThread
<1>4. CASE ServerThread
  <2>1. CASE ServerPick
    BY <1>t, <2>1 DEF ServerPick, clientVars, launcherVars, finVars, FinInv
  <2>2. CASE ConnectionHandles
    BY <1>t, <2>2 DEF ConnectionHandles, clientVars, launcherVars, finVars, FinInv
  <2>3. CASE ServerEvent
    BY <1>t, <2>3 DEF ServerEvent, clientVars, launcherVars, finVars, FinInv
  <2>4. CASE ServerTerminated
    BY <1>t, <2>4 DEF ServerTerminated, clientVars, launcherVars, finVars, FinInv
  <2>5. CASE ServerDisconnect
    BY <1>t, <2>5 DEF ServerDisconnect, Finalize, clientVars, launcherVars, finVars, FinInv
  <2> QED
    BY <1>4, <2>1, <2>2, <2>3, <2>4, <2>5 DEF ServerThread
<1>5. CASE FinalizeStep
  <2>1. CASE FinAsk
    BY <1>t, <2>1 DEF FinAsk, FinHolds, clientVars, launcherVars, serverVars, FinInv
  <2>2. CASE FinDetach
    BY <1>t, <2>2 DEF FinDetach, FinHolds, clientVars, launcherVars, FinInv
  <2>3. CASE FinLauncher
    BY <1>t, <2>3 DEF FinLauncher, FinHolds, clientVars, launcherVars, serverVars, FinInv
  <2>4. CASE FinExitAwaited
    BY <1>t, <2>4 DEF FinExitAwaited, clientVars, launcherVars, serverVars, FinInv
  <2>5. CASE FinKill
    BY <1>t, <2>5 DEF FinKill, FinHolds, clientVars, launcherVars, serverVars, FinInv
  <2>6. CASE FinDrained
    BY <1>t, <2>6 DEF FinDrained, clientVars, launcherVars, serverVars, FinInv
  <2>7. CASE FinClient
    BY <1>t, <2>7 DEF FinClient, FinHolds, clientVars, launcherVars, serverVars, FinInv
  <2>8. CASE FinReturn
    BY <1>t, <2>8 DEF FinReturn, FinHolds, launcherVars, serverVars, finVars, FinInv
  <2>9. CASE NotInjected
    BY <1>t, <2>9 DEF NotInjected, FinHolds, launcherVars, serverVars, finVars, FinInv
  <2> QED
    BY <1>5, <2>1, <2>2, <2>3, <2>4, <2>5, <2>6, <2>7, <2>8, <2>9 DEF FinalizeStep
<1>6. CASE Environment
  <2>1. CASE ClientLost
    BY <1>t, <2>1 DEF ClientLost, launcherVars, serverVars, finVars, FinInv
  <2>2. CASE LauncherAccepted
    BY <1>t, <2>2 DEF LauncherAccepted, clientVars, serverVars, finVars, FinInv
  <2>3. CASE LauncherOutput
    BY <1>t, <2>3 DEF LauncherOutput, clientVars, serverVars, finVars, FinInv
  <2>4. CASE DebuggeeExits
    BY <1>t, <2>4 DEF DebuggeeExits, clientVars, serverVars, finVars, FinInv
  <2>5. CASE LauncherTerminates
    BY <1>t, <2>5 DEF LauncherTerminates, clientVars, serverVars, finVars, FinInv
  <2>6. CASE LauncherDies
    BY <1>t, <2>6 DEF LauncherDies, clientVars, serverVars, finVars, FinInv
  <2>7. CASE ServerOutput
    BY <1>t, <2>7 DEF ServerOutput, clientVars, launcherVars, finVars, FinInv
  <2>8. CASE ServerExits
    BY <1>t, <2>8 DEF ServerExits, clientVars, launcherVars, finVars, FinInv
  <2>9. CASE ServerDies
    BY <1>t, <2>9 DEF ServerDies, clientVars, launcherVars, finVars, FinInv
  <2> QED
    BY <1>6, <2>1, <2>2, <2>3, <2>4, <2>5, <2>6, <2>7, <2>8, <2>9 DEF Environment
<1>7. CASE UNCHANGED vars
    BY <1>t, <1>7 DEF vars, clientVars, launcherVars, serverVars, finVars, FinInv
<1> QED
    BY <1>1, <1>2, <1>3, <1>4, <1>5, <1>6, <1>7 DEF Next

-----------------------------------------------------------------------------
(***************************************************************************)
(* Who says what to the client: "terminated" is FinClient's word, and only *)
(* the handlers of a start request and of "configurationDone" answer the   *)
(* start request.                                                          *)
(***************************************************************************)
Answers == {"started", "failed"}
Other == Passed \cup {"initialized"}

Adds(kinds) ==
    \E b \in Seq(Any) :
        /\ toClient' = toClient \o b
        /\ \A i \in 1 .. Len(b) : b[i].kind \in kinds
        /\ Once(b, Answers) /\ Once(b, {"terminated"})

AnswersStart ==
    \/ LauncherTimeout \/ LaunchRefused \/ PidTimeout \/ ServerTimeout \/ NoSubprocess
    \/ InitializeFails \/ StartRefused \/ StartLost \/ NoDebugStarted
    \/ Configured \/ ConfigureLost \/ ConfigureRefused

LEMMA AddsNothing == \A kinds : TrafficTypes /\ toClient' = toClient => Adds(kinds)
<1> SUFFICES ASSUME NEW kinds, TrafficTypes, toClient' = toClient PROVE Adds(kinds)
    OBVIOUS
<1>1. <<>> \in Seq(Any) /\ toClient \o <<>> = toClient
    BY DEF TrafficTypes
<1>2. \A i \in 1 .. Len(<<>>) : FALSE
    OBVIOUS
<1>3. Once(<<>>, Answers) /\ Once(<<>>, {"terminated"})
    BY <1>2 DEF Once
<1> QED
    BY <1>1, <1>2, <1>3 DEF Adds

LEMMA AddsWord ==
    ASSUME TrafficTypes, NEW kinds, NEW m \in Any, m.kind \in kinds, NEW open \in BOOLEAN,
           toClient' = IF open THEN Append(toClient, m) ELSE toClient
    PROVE  Adds(kinds)
<1>1. CASE ~open
    BY <1>1, AddsNothing
<1>2. CASE open
  <2>1. <<m>> \in Seq(Any) /\ Len(<<m>>) = 1 /\ <<m>>[1] = m
    OBVIOUS
  <2>2. toClient' = toClient \o <<m>>
    BY <1>2, TrafficFacts, AppendIsConcat
  <2>3. \A i \in 1 .. Len(<<m>>) : i = 1
    BY <2>1
  <2>4. Once(<<m>>, Answers) /\ Once(<<m>>, {"terminated"})
    BY <2>1 DEF Once
  <2> QED
    BY <2>1, <2>2, <2>3, <2>4 DEF Adds
<1> QED
    BY <1>1, <1>2

LEMMA AddsSent ==
    ASSUME TrafficTypes, ClientTypes, NEW k \in {"initialized", "started", "failed"},
           NEW kinds, k \in kinds,
           SendOrCrash(<<ToClient(k)>>) \/ ReturnOrCrash(<<ToClient(k)>>)
    PROVE  Adds(kinds)
<1>1. ToClient(k) \in Any /\ ToClient(k).kind = k
    BY DEF ToClient, Any, Threads
<1>2. toClient' = IF clientOpen THEN toClient \o <<ToClient(k)>> ELSE toClient
    BY DEF SendOrCrash, ReturnOrCrash
<1>3. Append(toClient, ToClient(k)) = toClient \o <<ToClient(k)>>
    BY <1>1, TrafficFacts, AppendIsConcat
<1>4. clientOpen \in BOOLEAN
    BY DEF ClientTypes
<1> QED
    BY <1>1, <1>2, <1>3, <1>4, AddsWord

LEMMA AddsPassed ==
    ASSUME TrafficTypes, ClientTypes, NEW q \in Seq(Any), q # <<>>, Head(q).kind \in Passed,
           PropagateAfterStart(Head(q))
    PROVE  Adds(Other)
<1>1. PICK m : m = Head(q)
    OBVIOUS
<1>2. m \in Any /\ m.kind \in Other /\ PropagateAfterStart(m)
    BY <1>1 DEF Other
<1>3. PICK open \in BOOLEAN : toClient' = IF open THEN Append(toClient, m) ELSE toClient
    BY <1>2 DEF PropagateAfterStart
<1> QED
    BY <1>2, <1>3, AddsWord

LEMMA AddsResponse ==
    ASSUME TrafficTypes, RespondAndPropagate(<<ToClient("started")>>)
    PROVE  Adds(Answers \cup Other)
<1>t. /\ deferred \in Seq(Any) /\ toClient \in Seq(Any) /\ deferred \in Seq(Deferable)
      /\ \A m \in Deferable : m.kind \in Passed
    BY TrafficFacts DEF TrafficTypes, Deferable
<1> DEFINE w == <<ToClient("started")>>
<1>1. /\ w \in Seq(Any) /\ Len(w) = 1 /\ w[1].kind = "started"
    BY DEF ToClient, Any, Threads
<1>2. toClient' = (toClient \o w) \o deferred
    BY DEF RespondAndPropagate
<1> HIDE DEF w
<1>3. toClient' = toClient \o (w \o deferred) /\ w \o deferred \in Seq(Any)
    BY <1>t, <1>1, <1>2, ConcatAssociative
<1>4. \A i \in 1 .. Len(w) : w[i].kind = "started"
    BY <1>1
<1>5. \A i \in 1 .. Len(deferred) : deferred[i].kind \in Passed
    BY <1>t
<1>6. \A i \in 1 .. Len(w \o deferred) : (w \o deferred)[i].kind \in Answers \cup Other
  <2>1. SUFFICES ASSUME NEW i \in 1 .. Len(w \o deferred)
                 PROVE  (w \o deferred)[i].kind \in Answers \cup Other
    OBVIOUS
  <2>2. \/ i \in 1 .. Len(w) /\ (w \o deferred)[i] = w[i]
        \/ /\ i - Len(w) \in 1 .. Len(deferred)
           /\ (w \o deferred)[i] = deferred[i - Len(w)]
    BY <1>t, <1>1, Entry
  <2> QED
    BY <1>4, <1>5, <2>2 DEF Answers, Other
<1>7. Once(w \o deferred, Answers) /\ Once(w \o deferred, {"terminated"})
  <2>1. Once(w, Answers) /\ Once(w, {"terminated"}) /\ ~Has(w, {"terminated"})
    BY <1>1, <1>4 DEF Once, Has
  <2>2. /\ Once(deferred, Answers) /\ Once(deferred, {"terminated"})
        /\ ~Has(deferred, Answers)
    BY <1>5 DEF Once, Has, Answers, Passed
  <2> QED
    BY <1>t, <1>1, <2>1, <2>2, OnceConcat
<1> QED
    BY <1>3, <1>6, <1>7 DEF Adds

LEMMA WhatIsSaid ==
    ASSUME TypeInv, [Next]_vars
    PROVE  \/ FinClient /\ Adds({"terminated"})
           \/ AnswersStart /\ Adds(Answers \cup Other)
           \/ Adds(Other)
<1>t. TrafficTypes /\ ClientTypes /\ clientOpen \in BOOLEAN /\ clientUp \in BOOLEAN
    BY DEF TypeInv, ControlTypes, ClientTypes
<1>1. CASE NoDebugStarted \/ Configured
  <2>1. IF clientOpen THEN RespondAndPropagate(<<ToClient("started")>>) ELSE UNCHANGED eventVars
    BY <1>1 DEF NoDebugStarted, Configured
  <2>2. Adds(Answers \cup Other)
    BY <1>t, <2>1, AddsResponse, AddsNothing DEF eventVars
  <2> QED
    BY <1>1, <2>2 DEF AnswersStart
<1>2. CASE LauncherTimeout \/ PidTimeout \/ ServerTimeout \/ LaunchRefused \/ InitializeFails
           \/ StartRefused
  <2>1. SendOrCrash(<<ToClient("failed")>>) \/ ReturnOrCrash(<<ToClient("failed")>>)
    BY <1>2 DEF LauncherTimeout, PidTimeout, ServerTimeout, LaunchRefused, InitializeFails,
       StartRefused, StartFails, StartErrs
  <2>2. Adds(Answers \cup Other)
    BY <1>t, <2>1, AddsSent DEF Answers
  <2> QED
    BY <1>2, <2>2 DEF AnswersStart
<1>3. CASE NoSubprocess \/ StartLost \/ ConfigureLost
  <2>1. SendOrCrash(<<ToClient("started")>>)
    BY <1>3 DEF NoSubprocess, StartLost, ConfigureLost
  <2>2. Adds(Answers \cup Other)
    BY <1>t, <2>1, AddsSent DEF Answers
  <2> QED
    BY <1>3, <2>2 DEF AnswersStart
<1>4. CASE ConfigureRefused
  <2>1. toClient' = IF clientOpen THEN Append(toClient, ToClient("failed")) ELSE toClient
    BY <1>4 DEF ConfigureRefused
  <2>2. ToClient("failed") \in Any /\ ToClient("failed").kind \in Answers \cup Other
    BY DEF ToClient, Any, Threads, Answers
  <2>3. Adds(Answers \cup Other)
    BY <1>t, <2>1, <2>2, AddsWord
  <2> QED
    BY <1>4, <2>3 DEF AnswersStart
<1>5. CASE ServerStarted \/ NotInjected
  <2>1. SendOrCrash(<<ToClient("initialized")>>)
    BY <1>5 DEF ServerStarted, NotInjected
  <2> QED
    BY <1>t, <2>1, AddsSent DEF Other
<1>6. CASE FinClient
  <2>1. PICK open \in BOOLEAN :
            toClient' = IF open THEN Append(toClient, ToClient("terminated")) ELSE toClient
    BY <1>6 DEF FinClient
  <2>2. ToClient("terminated") \in Any /\ ToClient("terminated").kind = "terminated"
    BY DEF ToClient, Any, Threads
  <2>3. Adds({"terminated"})
    BY <1>t, <2>1, <2>2, AddsWord
  <2> QED
    BY <1>6, <2>3
<1>7. CASE LauncherTerminated
  <2>1. toClient' = IF clientOpen THEN Append(toClient, Plain("exited")) ELSE toClient
    BY <1>7 DEF LauncherTerminated
  <2> QED
    BY <1>t, <2>1, PlainAny, AddsWord DEF Other, Passed
<1>8. CASE LauncherProcess \/ LauncherEvent
  <2>1. lq # <<>> /\ Head(lq).kind \in Passed /\ PropagateAfterStart(Head(lq))
    BY <1>8 DEF LauncherProcess, LauncherEvent, Passed
  <2> QED
    BY <1>t, <2>1, TrafficFacts, AddsPassed
<1>9. CASE ServerEvent
  <2>1. /\ vq # <<>> /\ Head(vq).kind \in Passed
        /\ UNCHANGED eventVars \/ PropagateAfterStart(Head(vq))
    BY <1>t, <1>9 DEF ServerEvent, Passed, TrafficTypes
  <2>2. CASE UNCHANGED eventVars
    BY <1>t, <2>2, AddsNothing DEF eventVars
  <2>3. CASE PropagateAfterStart(Head(vq))
    BY <1>t, <2>1, <2>3, TrafficFacts, AddsPassed
  <2> QED
    BY <2>1, <2>2, <2>3
<1>10. CASE Delegated \/ FinReturn
  <2>1. toClient \o <<>> = toClient
    BY <1>t DEF TrafficTypes
  <2>2. toClient' = toClient
    BY <1>10, <2>1 DEF Delegated, FinReturn, ReturnOrCrash
  <2> QED
    BY <1>t, <2>2, AddsNothing
<1>11. CASE toClient' = toClient
    BY <1>t, <1>11, AddsNothing
<1>12. CASE ClientThread
    BY <1>1, <1>2, <1>3, <1>4, <1>5, <1>10, <1>11, <1>12 DEF ClientThread, LauncherAwaited,
       LauncherLaunches, PidAwaited, ServerAttached, InjectFails, ServerInitialized, CloseClient,
       ClientDisconnect, eventVars
<1>13. CASE ClientRequest
    BY <1>11, <1>13 DEF ClientRequest, StartRequest, ConfigurationDone, ConfigurationDoneEarly,
       Delegate, TerminateRequest, DisconnectRequest, eventVars
<1>14. CASE LauncherThread
    BY <1>7, <1>8, <1>11, <1>14 DEF LauncherThread, LauncherConnected, LauncherExited,
       LauncherDisconnect, eventVars
<1>15. CASE ServerThread
    BY <1>9, <1>11, <1>15 DEF ServerThread, ServerPick, ConnectionHandles, ServerTerminated,
       ServerDisconnect, eventVars
<1>16. CASE FinalizeStep
    BY <1>5, <1>6, <1>10, <1>11, <1>16 DEF FinalizeStep, FinAsk, FinDetach, FinLauncher,
       FinExitAwaited, FinKill, FinDrained, eventVars
<1>17. CASE Environment
    BY <1>11, <1>17 DEF Environment, ClientLost, LauncherAccepted, LauncherOutput, DebuggeeExits,
       LauncherTerminates, LauncherDies, ServerOutput, ServerExits, ServerDies, eventVars
<1>18. CASE UNCHANGED vars
    BY <1>11, <1>18 DEF vars, eventVars
<1> QED
    BY <1>12, <1>13, <1>14, <1>15, <1>16, <1>17, <1>18 DEF Next

-----------------------------------------------------------------------------
\* The client is told once, by finalize() as it ends.
TermInv ==
    /\ Once(toClient, {"terminated"})
    /\ Has(toClient, {"terminated"}) => fin = "done"

LEMMA StepTerm ==
    ASSUME TypeInv, ProcInv, WayInv, FinInv, TermInv, [Next]_vars
    PROVE  TermInv'
<1>t. toClient \in Seq(Any)
    BY TrafficFacts DEF TypeInv
<1>d. fin = "done" => fin' = "done"
    BY StepFin
<1>1. CASE FinClient /\ Adds({"terminated"})
  <2>1. PICK b \in Seq(Any) : toClient' = toClient \o b /\ Once(b, {"terminated"})
    BY <1>1 DEF Adds
  <2>2. fin = "client" /\ fin' = "done"
    BY <1>1 DEF FinClient, FinHolds
  <2>3. ~Has(toClient, {"terminated"})
    BY <2>2 DEF TermInv
  <2> QED
    BY <1>t, <2>1, <2>2, <2>3, OnceConcat DEF TermInv
<1>2. CASE Adds(Answers \cup Other) \/ Adds(Other)
  <2>1. PICK b \in Seq(Any) :
            /\ toClient' = toClient \o b
            /\ \A i \in 1 .. Len(b) : b[i].kind \in Answers \cup Other
            /\ Once(b, {"terminated"})
    BY <1>2 DEF Adds
  <2>2. ~Has(b, {"terminated"})
    BY <2>1 DEF Has, Answers, Other, Passed
  <2> QED
    BY <1>t, <1>d, <2>1, <2>2, OnceConcat, HasConcat DEF TermInv
<1> QED
    BY <1>1, <1>2, WhatIsSaid

(***************************************************************************)
(* Unless the launcher connects only when the wait for it has timed out,   *)
(* "terminated" is sent once, and after the last message of the launcher,  *)
(* whatever else goes wrong and whoever finalizes the session.             *)
(***************************************************************************)
THEOREM TerminatedIsLast ==
    ASSUME "late" \notin Faults
    PROVE  Spec => []TerminatedAfterLauncher
<1> DEFINE IInv == TypeInv /\ ProcInv /\ WayInv /\ FinInv /\ TermInv
<1>1. Init => IInv
  <2> SUFFICES ASSUME Init PROVE IInv
    OBVIOUS
  <2>1. TypeInv
    BY InitInductive DEF Inductive
  <2>2. ProcInv /\ WayInv /\ FinInv
    BY DEF Init, ProcInv, WayInv, FinInv, Last, NoEnd
  <2>3. TermInv
    BY DEF Init, TermInv, Once, Has
  <2> QED
    BY <2>1, <2>2, <2>3
<1>2. Inductive /\ Inductive' /\ IInv /\ [Next]_vars => IInv'
    BY StepProc, StepWay, StepFin, StepTerm DEF Inductive
<1>3. IInv => TerminatedAfterLauncher
  <2> SUFFICES ASSUME IInv PROVE TerminatedAfterLauncher
    OBVIOUS
  <2>t. launcher \in {"missing", "up", "down"} /\ toClient \in Seq(Any)
        /\ proc \in {"absent", "spawned", "accepted", "connected", "running", "exited",
                     "terminated", "gone"}
    BY TrafficFacts DEF TypeInv, ControlTypes, LauncherTypes
  <2>1. ASSUME WasSent({"terminated"}) PROVE launcher # "up" /\ lq = <<>>
    <3>1. fin = "done"
      BY <2>1 DEF WasSent, Has, TermInv
    <3>2. launcher # "up"
      BY <3>1 DEF FinInv
    <3> QED
      BY <2>t, <3>2 DEF ProcInv
  <2>2. \A i \in 1 .. Len(toClient) :
          toClient[i].kind = "terminated" => ~SentBefore(i, {"terminated"})
    <3>1. SUFFICES ASSUME NEW i \in 1 .. Len(toClient), toClient[i].kind = "terminated",
                          NEW j \in 1 .. i - 1, toClient[j].kind \in {"terminated"}
                   PROVE  FALSE
      BY DEF SentBefore
    <3>2. j \in 1 .. Len(toClient) /\ j < i
      BY <2>t, <3>1
    <3> QED
      BY <3>1, <3>2 DEF TermInv, Once
  <2> QED
    BY <2>1, <2>2 DEF TerminatedAfterLauncher
<1> HIDE DEF IInv
<1> QED
    BY <1>1, <1>2, <1>3, IsInductive, PTL DEF Spec

-----------------------------------------------------------------------------
(***************************************************************************)
(* The response to the start request is still to come while it is handled, *)
(* and between "initialized" and "configurationDone".                      *)
(***************************************************************************)
Asking == {"await_launcher", "launching", "await_pid", "no_debug", "await_server", "initialize",
           "start_server", "not_injected"}
Answered == Has(toClient, Answers)

AskInv ==
    /\ start = "none" => ~Answered /\ ~startSet /\ cpc \notin Asking \cup {"configuring"}
    /\ cpc \in Asking => ~Answered /\ ~startSet
    /\ cpc = "configuring" => ~Answered /\ hasStarted
    /\ startSet /\ ~hasStarted => ~Answered

\* A step that answers leaves nothing to answer.
LEMMA AnswerAsked ==
    ASSUME AskInv, AnswersStart
    PROVE  ~Answered /\ AskInv'
<1>1. CASE LauncherTimeout
    BY <1>1 DEF LauncherTimeout, StartFails, AskInv, Asking
<1>2. CASE LaunchRefused
    BY <1>2 DEF LaunchRefused, StartErrs, AskInv, Asking
<1>3. CASE PidTimeout
    BY <1>3 DEF PidTimeout, StartFails, AskInv, Asking
<1>4. CASE ServerTimeout
    BY <1>4 DEF ServerTimeout, StartFails, AskInv, Asking
<1>5. CASE NoSubprocess
    BY <1>5 DEF NoSubprocess, AskInv, Asking
<1>6. CASE InitializeFails
    BY <1>6 DEF InitializeFails, StartErrs, AskInv, Asking
<1>7. CASE StartRefused
    BY <1>7 DEF StartRefused, StartErrs, AskInv, Asking
<1>8. CASE StartLost
    BY <1>8 DEF StartLost, AskInv, Asking
<1>9. CASE NoDebugStarted
    BY <1>9 DEF NoDebugStarted, AskInv, Asking
<1>10. CASE Configured
    BY <1>10 DEF Configured, AskInv, Asking
<1>11. CASE ConfigureLost
    BY <1>11 DEF ConfigureLost, AskInv, Asking
<1>12. CASE ConfigureRefused
    BY <1>12 DEF ConfigureRefused, AskInv, Asking
<1> QED
    BY <1>1, <1>2, <1>3, <1>4, <1>5, <1>6, <1>7, <1>8, <1>9, <1>10, <1>11, <1>12 DEF AnswersStart

LEMMA OthersAsk ==
    ASSUME AskInv, Answered' <=> Answered, [Next]_vars, ~AnswersStart
    PROVE  AskInv'
<1>s. Starts \subseteq StartKinds /\ "none" \notin StartKinds
    BY StartsAssumption DEF StartKinds
<1>1. CASE ClientThread
  <2>1. CASE LauncherAwaited
    BY <2>1 DEF LauncherAwaited, AskInv, Asking
  <2>2. CASE LauncherLaunches
    BY <2>2 DEF LauncherLaunches, AskInv, Asking
  <2>3. CASE PidAwaited
    BY <2>3 DEF PidAwaited, AskInv, Asking
  <2>4. CASE ServerAttached
    BY <2>4 DEF ServerAttached, AskInv, Asking
  <2>5. CASE InjectFails
    BY <2>5 DEF InjectFails, AskInv, Asking
  <2>6. CASE ServerInitialized
    BY <2>6 DEF ServerInitialized, AskInv, Asking
  <2>7. CASE ServerStarted
    BY <2>7 DEF ServerStarted, AskInv, Asking
  <2>8. CASE Delegated
    BY <2>8 DEF Delegated, AskInv, Asking
  <2>9. CASE CloseClient
    BY <2>9 DEF CloseClient, FinalizedByOther, AskInv, Asking
  <2>10. CASE ClientDisconnect
    BY <2>10 DEF ClientDisconnect, AskInv, Asking
  <2> QED
    BY <1>1, <2>1, <2>2, <2>3, <2>4, <2>5, <2>6, <2>7, <2>8, <2>9, <2>10 DEF ClientThread, AnswersStart
<1>2. CASE ClientRequest
  <2>1. CASE \E kind \in Starts : StartRequest(kind)
    BY <1>s, <2>1 DEF StartRequest, AskInv, Asking
  <2>2. CASE ConfigurationDone
    BY <2>2 DEF ConfigurationDone, CanHandle, AskInv, Asking
  <2>3. CASE ConfigurationDoneEarly
    BY <2>3 DEF ConfigurationDoneEarly, CanHandle, AskInv, Asking
  <2>4. CASE Delegate
    BY <2>4 DEF Delegate, CanHandle, AskInv, Asking
  <2>5. CASE TerminateRequest
    BY <2>5 DEF TerminateRequest, CanHandle, AskInv, Asking
  <2>6. CASE DisconnectRequest
    BY <2>6 DEF DisconnectRequest, CanHandle, AskInv, Asking
  <2> QED
    BY <1>2, <2>1, <2>2, <2>3, <2>4, <2>5, <2>6 DEF ClientRequest
<1>3. CASE LauncherThread
  <2>1. CASE LauncherConnected
    BY <2>1 DEF LauncherConnected, clientVars, AskInv, Asking
  <2>2. CASE LauncherProcess
    BY <2>2 DEF LauncherProcess, clientVars, AskInv, Asking
  <2>3. CASE LauncherEvent
    BY <2>3 DEF LauncherEvent, clientVars, AskInv, Asking
  <2>4. CASE LauncherExited
    BY <2>4 DEF LauncherExited, clientVars, AskInv, Asking
  <2>5. CASE LauncherTerminated
    BY <2>5 DEF LauncherTerminated, clientVars, AskInv, Asking
  <2>6. CASE LauncherDisconnect
    BY <2>6 DEF LauncherDisconnect, clientVars, AskInv, Asking
  <2> QED
    BY <1>3, <2>1, <2>2, <2>3, <2>4, <2>5, <2>6 DEF LauncherThread
<1>4. CASE ServerThread
  <2>1. CASE ServerPick
    BY <2>1 DEF ServerPick, clientVars, AskInv, Asking
  <2>2. CASE ConnectionHandles
    BY <2>2 DEF ConnectionHandles, clientVars, AskInv, Asking
  <2>3. CASE ServerEvent
    BY <2>3 DEF ServerEvent, clientVars, AskInv, Asking
  <2>4. CASE ServerTerminated
    BY <2>4 DEF ServerTerminated, clientVars, AskInv, Asking
  <2>5. CASE ServerDisconnect
    BY <2>5 DEF ServerDisconnect, clientVars, AskInv, Asking
  <2> QED
    BY <1>4, <2>1, <2>2, <2>3, <2>4, <2>5 DEF ServerThread
<1>5. CASE FinalizeStep
  <2>1. CASE FinAsk
    BY <2>1 DEF FinAsk, clientVars, AskInv, Asking
  <2>2. CASE FinDetach
    BY <2>2 DEF FinDetach, clientVars, AskInv, Asking
  <2>3. CASE FinLauncher
    BY <2>3 DEF FinLauncher, clientVars, AskInv, Asking
  <2>4. CASE FinExitAwaited
    BY <2>4 DEF FinExitAwaited, clientVars, AskInv, Asking
  <2>5. CASE FinKill
    BY <2>5 DEF FinKill, clientVars, AskInv, Asking
  <2>6. CASE FinDrained
    BY <2>6 DEF FinDrained, clientVars, AskInv, Asking
  <2>7. CASE FinClient
    BY <2>7 DEF FinClient, clientVars, AskInv, Asking
  <2>8. CASE FinReturn
    BY <2>8 DEF FinReturn, AskInv, Asking
  <2>9. CASE NotInjected
    BY <2>9 DEF NotInjected, AskInv, Asking
  <2> QED
    BY <1>5, <2>1, <2>2, <2>3, <2>4, <2>5, <2>6, <2>7, <2>8, <2>9 DEF FinalizeStep
<1>6. CASE Environment
  <2>1. CASE ClientLost
    BY <2>1 DEF ClientLost, AskInv, Asking
  <2>2. CASE LauncherAccepted
    BY <2>2 DEF LauncherAccepted, clientVars, AskInv, Asking
  <2>3. CASE LauncherOutput
    BY <2>3 DEF LauncherOutput, clientVars, AskInv, Asking
  <2>4. CASE DebuggeeExits
    BY <2>4 DEF DebuggeeExits, clientVars, AskInv, Asking
  <2>5. CASE LauncherTerminates
    BY <2>5 DEF LauncherTerminates, clientVars, AskInv, Asking
  <2>6. CASE LauncherDies
    BY <2>6 DEF LauncherDies, clientVars, AskInv, Asking
  <2>7. CASE ServerOutput
    BY <2>7 DEF ServerOutput, clientVars, AskInv, Asking
  <2>8. CASE ServerExits
    BY <2>8 DEF ServerExits, clientVars, AskInv, Asking
  <2>9. CASE ServerDies
    BY <2>9 DEF ServerDies, clientVars, AskInv, Asking
  <2> QED
    BY <1>6, <2>1, <2>2, <2>3, <2>4, <2>5, <2>6, <2>7, <2>8, <2>9 DEF Environment
<1>7. CASE UNCHANGED vars
    BY <1>7 DEF vars, clientVars, AskInv, Asking
<1> QED
    BY <1>1, <1>2, <1>3, <1>4, <1>5, <1>6, <1>7 DEF Next

\* What has been asked is answered, unless it waits for "configurationDone".
AnswerInv ==
    /\ hasStarted => startSet \/ crashed
    /\ /\ start # "none" /\ cpc \notin Asking \cup {"configuring"}
       /\ startSet => hasStarted
       /\ clientOpen /\ ~crashed
       => Answered

LEMMA OthersLeave ==
    ASSUME AskInv, AnswerInv, Answered' <=> Answered, ClientTypes, [Next]_vars, ~AnswersStart
    PROVE  AnswerInv'
<1>c. CASE crashed
    BY <1>c DEF Next, vars, clientVars, AnswerInv, Asking
<1> SUFFICES ASSUME ~crashed PROVE AnswerInv'
    BY <1>c
<1>s. Starts \subseteq StartKinds /\ "none" \notin StartKinds
    BY StartsAssumption DEF StartKinds
<1>1. CASE ClientThread
  <2>1. CASE LauncherAwaited
    BY <2>1 DEF LauncherAwaited, AskInv, AnswerInv, Asking
  <2>2. CASE LauncherLaunches
    BY <2>2 DEF LauncherLaunches, AskInv, AnswerInv, Asking
  <2>3. CASE PidAwaited
    BY <2>3 DEF PidAwaited, AskInv, AnswerInv, Asking
  <2>4. CASE ServerAttached
    BY <2>4 DEF ServerAttached, AskInv, AnswerInv, Asking
  <2>5. CASE InjectFails
    BY <2>5 DEF InjectFails, AskInv, AnswerInv, Asking
  <2>6. CASE ServerInitialized
    BY <2>6 DEF ServerInitialized, AskInv, AnswerInv, Asking
  <2>7. CASE ServerStarted
    BY <2>7 DEF ServerStarted, AskInv, AnswerInv, Asking
  <2>8. CASE Delegated
    BY <2>8 DEF Delegated, AskInv, AnswerInv, Asking
  <2>9. CASE CloseClient
    BY <2>9 DEF CloseClient, FinalizedByOther, AskInv, AnswerInv, Asking
  <2>10. CASE ClientDisconnect
    BY <2>10 DEF ClientDisconnect, AskInv, AnswerInv, Asking
  <2> QED
    BY <1>1, <2>1, <2>2, <2>3, <2>4, <2>5, <2>6, <2>7, <2>8, <2>9, <2>10 DEF ClientThread, AnswersStart
<1>2. CASE ClientRequest
  <2>1. CASE \E kind \in Starts : StartRequest(kind)
    BY <1>s, <2>1 DEF StartRequest, AskInv, AnswerInv, Asking
  <2>2. CASE ConfigurationDone
    BY <2>2 DEF ConfigurationDone, CanHandle, AskInv, AnswerInv, Asking
  <2>3. CASE ConfigurationDoneEarly
    BY <2>3 DEF ConfigurationDoneEarly, CanHandle, AskInv, AnswerInv, Asking
  <2>4. CASE Delegate
    BY <2>4 DEF Delegate, CanHandle, AskInv, AnswerInv, Asking
  <2>5. CASE TerminateRequest
    BY <2>5 DEF TerminateRequest, CanHandle, AskInv, AnswerInv, Asking
  <2>6. CASE DisconnectRequest
    BY <2>6 DEF DisconnectRequest, CanHandle, AskInv, AnswerInv, Asking
  <2> QED
    BY <1>2, <2>1, <2>2, <2>3, <2>4, <2>5, <2>6 DEF ClientRequest
<1>3. CASE LauncherThread
  <2>1. CASE LauncherConnected
    BY <2>1 DEF LauncherConnected, clientVars, AskInv, AnswerInv, Asking
  <2>2. CASE LauncherProcess
    BY <2>2 DEF LauncherProcess, clientVars, AskInv, AnswerInv, Asking
  <2>3. CASE LauncherEvent
    BY <2>3 DEF LauncherEvent, clientVars, AskInv, AnswerInv, Asking
  <2>4. CASE LauncherExited
    BY <2>4 DEF LauncherExited, clientVars, AskInv, AnswerInv, Asking
  <2>5. CASE LauncherTerminated
    BY <2>5 DEF LauncherTerminated, clientVars, AskInv, AnswerInv, Asking
  <2>6. CASE LauncherDisconnect
    BY <2>6 DEF LauncherDisconnect, clientVars, AskInv, AnswerInv, Asking
  <2> QED
    BY <1>3, <2>1, <2>2, <2>3, <2>4, <2>5, <2>6 DEF LauncherThread
<1>4. CASE ServerThread
  <2>1. CASE ServerPick
    BY <2>1 DEF ServerPick, clientVars, AskInv, AnswerInv, Asking
  <2>2. CASE ConnectionHandles
    BY <2>2 DEF ConnectionHandles, clientVars, AskInv, AnswerInv, Asking
  <2>3. CASE ServerEvent
    BY <2>3 DEF ServerEvent, clientVars, AskInv, AnswerInv, Asking
  <2>4. CASE ServerTerminated
    BY <2>4 DEF ServerTerminated, clientVars, AskInv, AnswerInv, Asking
  <2>5. CASE ServerDisconnect
    BY <2>5 DEF ServerDisconnect, clientVars, AskInv, AnswerInv, Asking
  <2> QED
    BY <1>4, <2>1, <2>2, <2>3, <2>4, <2>5 DEF ServerThread
<1>5. CASE FinalizeStep
  <2>1. CASE FinAsk
    BY <2>1 DEF FinAsk, clientVars, AskInv, AnswerInv, Asking
  <2>2. CASE FinDetach
    BY <2>2 DEF FinDetach, clientVars, AskInv, AnswerInv, Asking
  <2>3. CASE FinLauncher
    BY <2>3 DEF FinLauncher, clientVars, AskInv, AnswerInv, Asking
  <2>4. CASE FinExitAwaited
    BY <2>4 DEF FinExitAwaited, clientVars, AskInv, AnswerInv, Asking
  <2>5. CASE FinKill
    BY <2>5 DEF FinKill, clientVars, AskInv, AnswerInv, Asking
  <2>6. CASE FinDrained
    BY <2>6 DEF FinDrained, clientVars, AskInv, AnswerInv, Asking
  <2>7. CASE FinClient
    BY <2>7 DEF FinClient, clientVars, AskInv, AnswerInv, Asking
  <2>8. CASE FinReturn
    BY <2>8 DEF FinReturn, AskInv, AnswerInv, Asking
  <2>9. CASE NotInjected
    BY <2>9 DEF NotInjected, AskInv, AnswerInv, Asking
  <2> QED
    BY <1>5, <2>1, <2>2, <2>3, <2>4, <2>5, <2>6, <2>7, <2>8, <2>9 DEF FinalizeStep
<1>6. CASE Environment
  <2>1. CASE ClientLost
    BY <2>1 DEF ClientLost, AskInv, AnswerInv, Asking
  <2>2. CASE LauncherAccepted
    BY <2>2 DEF LauncherAccepted, clientVars, AskInv, AnswerInv, Asking
  <2>3. CASE LauncherOutput
    BY <2>3 DEF LauncherOutput, clientVars, AskInv, AnswerInv, Asking
  <2>4. CASE DebuggeeExits
    BY <2>4 DEF DebuggeeExits, clientVars, AskInv, AnswerInv, Asking
  <2>5. CASE LauncherTerminates
    BY <2>5 DEF LauncherTerminates, clientVars, AskInv, AnswerInv, Asking
  <2>6. CASE LauncherDies
    BY <2>6 DEF LauncherDies, clientVars, AskInv, AnswerInv, Asking
  <2>7. CASE ServerOutput
    BY <2>7 DEF ServerOutput, clientVars, AskInv, AnswerInv, Asking
  <2>8. CASE ServerExits
    BY <2>8 DEF ServerExits, clientVars, AskInv, AnswerInv, Asking
  <2>9. CASE ServerDies
    BY <2>9 DEF ServerDies, clientVars, AskInv, AnswerInv, Asking
  <2> QED
    BY <1>6, <2>1, <2>2, <2>3, <2>4, <2>5, <2>6, <2>7, <2>8, <2>9 DEF Environment
<1>7. CASE UNCHANGED vars
    BY <1>7 DEF vars, clientVars, AskInv, AnswerInv, Asking
<1> QED
    BY <1>1, <1>2, <1>3, <1>4, <1>5, <1>6, <1>7 DEF Next

\* A step that answers does answer, unless the client is not there.
LEMMA AnswersGiven ==
    ASSUME TrafficTypes, AnswersStart, clientOpen
    PROVE  Answered'
<1>t. toClient \in Seq(Any) /\ deferred \in Seq(Any)
    BY TrafficFacts
<1>1. ASSUME NEW k \in Answers, NEW r \in Seq(Any), toClient' = (toClient \o <<ToClient(k)>>) \o r
      PROVE  Answered'
  <2> DEFINE b == <<ToClient(k)>>
  <2>1. ToClient(k) \in Any /\ ToClient(k).kind = k
    BY <1>1 DEF ToClient, Any, Threads, Answers
  <2>2. b \in Seq(Any) /\ Has(b, Answers)
    BY <1>1, <2>1 DEF Has
  <2>3. toClient' = (toClient \o b) \o r
    BY <1>1
  <2> HIDE DEF b
  <2>4. Has(toClient \o b, Answers)
    BY <1>t, <2>2, HasConcat
  <2>5. toClient \o b \in Seq(Any)
    BY <1>t, <2>2
  <2>6. Has((toClient \o b) \o r, Answers)
    BY <1>1, <2>4, <2>5, HasConcat
  <2> QED
    BY <2>3, <2>6 DEF Answered
<1>2. ASSUME NEW k \in Answers, toClient' = toClient \o <<ToClient(k)>>
      PROVE  Answered'
  <2>1. <<>> \in Seq(Any) /\ (toClient \o <<ToClient(k)>>) \o <<>> = toClient \o <<ToClient(k)>>
    BY <1>t, <1>2 DEF ToClient, Any, Threads, Answers
  <2> QED
    BY <1>1, <1>2, <2>1
<1>3. "started" \in Answers /\ "failed" \in Answers
    BY DEF Answers
<1>4. CASE NoDebugStarted \/ Configured
  <2>1. toClient' = (toClient \o <<ToClient("started")>>) \o deferred
    BY <1>4 DEF NoDebugStarted, Configured, RespondAndPropagate
  <2> QED
    BY <1>t, <1>1, <1>3, <2>1
<1>5. CASE LauncherTimeout \/ PidTimeout \/ ServerTimeout \/ LaunchRefused \/ InitializeFails
           \/ StartRefused
  <2>1. SendOrCrash(<<ToClient("failed")>>) \/ ReturnOrCrash(<<ToClient("failed")>>)
    BY <1>5 DEF LauncherTimeout, PidTimeout, ServerTimeout, LaunchRefused, InitializeFails,
       StartRefused, StartFails, StartErrs
  <2> QED
    BY <1>2, <1>3, <2>1 DEF SendOrCrash, ReturnOrCrash
<1>6. CASE NoSubprocess \/ StartLost \/ ConfigureLost
  <2>1. SendOrCrash(<<ToClient("started")>>)
    BY <1>6 DEF NoSubprocess, StartLost, ConfigureLost
  <2> QED
    BY <1>2, <1>3, <2>1 DEF SendOrCrash
<1>7. CASE ConfigureRefused
  <2>1. toClient' = toClient \o <<ToClient("failed")>>
    BY <1>t, <1>7, AppendIsConcat DEF ConfigureRefused, ToClient, Any, Threads
  <2> QED
    BY <1>2, <1>3, <2>1
<1> QED
    BY <1>4, <1>5, <1>6, <1>7 DEF AnswersStart

LEMMA StepAnswer ==
    ASSUME TypeInv, AskInv, AnswerInv, [Next]_vars
    PROVE  AnswerInv'
<1>t. TrafficTypes /\ ClientTypes /\ toClient \in Seq(Any)
    BY TrafficFacts DEF TypeInv, ControlTypes
<1>1. CASE AnswersStart
  <2>1. /\ clientOpen' = clientOpen
        /\ \/ startSet' = startSet /\ hasStarted' = hasStarted /\ (~crashed => (hasStarted => startSet))
           \/ startSet' = TRUE
    BY <1>1 DEF AnswersStart, AnswerInv, LauncherTimeout, StartFails, LaunchRefused, StartErrs,
       PidTimeout, ServerTimeout, NoSubprocess, InitializeFails, StartRefused, StartLost,
       NoDebugStarted, Configured, ConfigureLost, ConfigureRefused
  <2>2. clientOpen => Answered'
    BY <1>t, <1>1, AnswersGiven
  <2>3. ~crashed \/ UNCHANGED vars
    BY DEF Next
  <2>4. CASE UNCHANGED vars
    BY <2>4 DEF vars, clientVars, eventVars, AnswerInv, Answered
  <2> QED
    BY <2>1, <2>2, <2>3, <2>4 DEF AnswerInv
<1>2. CASE ~AnswersStart
  <2>1. PICK b \in Seq(Any) :
            /\ toClient' = toClient \o b
            /\ \A i \in 1 .. Len(b) : b[i].kind \in Other \cup {"terminated"}
    BY <1>2, WhatIsSaid DEF Adds
  <2>2. ~Has(b, Answers)
    BY <2>1 DEF Has, Answers, Other, Passed
  <2>3. Answered' <=> Answered
    BY <1>t, <2>1, <2>2, HasConcat DEF Answered
  <2> QED
    BY <1>t, <1>2, <2>3, OthersLeave
<1> QED
    BY <1>1, <1>2

\* How the adapter goes down, and until then: a handler of the client runs only
\* while its channel is open, if the client does not leave in the middle of it.
Excused == \/ ~clientOpen /\ "vanish" \in Faults
           \/ hasStarted /\ Faults \cap {"refuse", "early"} # {}
OpenInv ==
    /\ crashed => Excused
    /\ cpc \notin {"idle", "gone"} /\ ~crashed => clientOpen \/ "vanish" \in Faults

LEMMA StepOpen ==
    ASSUME ClientTypes, AskInv, OpenInv, [Next]_vars
    PROVE  OpenInv'
<1>c. CASE crashed
    BY <1>c DEF Next, vars, clientVars, OpenInv, Excused
<1> SUFFICES ASSUME ~crashed PROVE OpenInv'
    BY <1>c
<1>s. clientOpen \in BOOLEAN /\ hasStarted \in BOOLEAN
    BY DEF ClientTypes
<1>1. CASE ClientThread
  <2>1. CASE LauncherAwaited
    BY <1>s, <2>1 DEF LauncherAwaited, OpenInv, Excused
  <2>2. CASE LauncherTimeout
    BY <1>s, <2>2 DEF LauncherTimeout, StartFails, SendOrCrash, OpenInv, Excused
  <2>3. CASE LauncherLaunches
    BY <1>s, <2>3 DEF LauncherLaunches, OpenInv, Excused
  <2>4. CASE LaunchRefused
    BY <1>s, <2>4 DEF LaunchRefused, StartErrs, ReturnOrCrash, OpenInv, Excused
  <2>5. CASE PidAwaited
    BY <1>s, <2>5 DEF PidAwaited, OpenInv, Excused
  <2>6. CASE PidTimeout
    BY <1>s, <2>6 DEF PidTimeout, StartFails, SendOrCrash, OpenInv, Excused
  <2>7. CASE ServerAttached
    BY <1>s, <2>7 DEF ServerAttached, OpenInv, Excused
  <2>8. CASE ServerTimeout
    BY <1>s, <2>8 DEF ServerTimeout, StartFails, SendOrCrash, OpenInv, Excused
  <2>9. CASE InjectFails
    BY <1>s, <2>9 DEF InjectFails, OpenInv, Excused
  <2>10. CASE NoSubprocess
    BY <1>s, <2>10 DEF NoSubprocess, SendOrCrash, OpenInv, Excused
  <2>11. CASE ServerInitialized
    BY <1>s, <2>11 DEF ServerInitialized, OpenInv, Excused
  <2>12. CASE InitializeFails
    BY <1>s, <2>12 DEF InitializeFails, StartErrs, ReturnOrCrash, OpenInv, Excused
  <2>13. CASE ServerStarted
    BY <1>s, <2>13 DEF ServerStarted, SendOrCrash, OpenInv, Excused
  <2>14. CASE StartRefused
    BY <1>s, <2>14 DEF StartRefused, StartErrs, ReturnOrCrash, OpenInv, Excused
  <2>15. CASE StartLost
    BY <1>s, <2>15 DEF StartLost, SendOrCrash, OpenInv, Excused
  <2>16. CASE NoDebugStarted
    BY <1>s, <2>16 DEF NoDebugStarted, OpenInv, Excused
  <2>17. CASE Configured
    BY <1>s, <2>17 DEF Configured, OpenInv, Excused
  <2>18. CASE ConfigureLost
    BY <1>s, <2>18 DEF ConfigureLost, SendOrCrash, OpenInv, Excused
  <2>19. CASE ConfigureRefused
    BY <1>s, <2>19 DEF ConfigureRefused, AskInv, OpenInv, Excused
  <2>20. CASE Delegated
    BY <1>s, <2>20 DEF Delegated, ReturnOrCrash, OpenInv, Excused
  <2>21. CASE CloseClient
    BY <1>s, <2>21 DEF CloseClient, FinalizedByOther, OpenInv, Excused
  <2>22. CASE ClientDisconnect
    BY <1>s, <2>22 DEF ClientDisconnect, OpenInv, Excused
  <2> QED
    BY <1>1, <2>1, <2>2, <2>3, <2>4, <2>5, <2>6, <2>7, <2>8, <2>9, <2>10, <2>11, <2>12,
       <2>13, <2>14, <2>15, <2>16, <2>17, <2>18, <2>19, <2>20, <2>21, <2>22 DEF ClientThread
<1>2. CASE ClientRequest
  <2>1. CASE \E kind \in Starts : StartRequest(kind)
    BY <1>s, <2>1 DEF StartRequest, OpenInv, Excused
  <2>2. CASE ConfigurationDone
    BY <1>s, <2>2 DEF ConfigurationDone, CanHandle, OpenInv, Excused
  <2>3. CASE ConfigurationDoneEarly
    BY <1>s, <2>3 DEF ConfigurationDoneEarly, CanHandle, OpenInv, Excused
  <2>4. CASE Delegate
    BY <1>s, <2>4 DEF Delegate, CanHandle, OpenInv, Excused
  <2>5. CASE TerminateRequest
    BY <1>s, <2>5 DEF TerminateRequest, CanHandle, OpenInv, Excused
  <2>6. CASE DisconnectRequest
    BY <1>s, <2>6 DEF DisconnectRequest, CanHandle, OpenInv, Excused
  <2> QED
    BY <1>2, <2>1, <2>2, <2>3, <2>4, <2>5, <2>6 DEF ClientRequest
<1>3. CASE LauncherThread
  <2>1. CASE LauncherConnected
    BY <1>s, <2>1 DEF LauncherConnected, clientVars, OpenInv, Excused
  <2>2. CASE LauncherProcess
    BY <1>s, <2>2 DEF LauncherProcess, clientVars, OpenInv, Excused
  <2>3. CASE LauncherEvent
    BY <1>s, <2>3 DEF LauncherEvent, clientVars, OpenInv, Excused
  <2>4. CASE LauncherExited
    BY <1>s, <2>4 DEF LauncherExited, clientVars, OpenInv, Excused
  <2>5. CASE LauncherTerminated
    BY <1>s, <2>5 DEF LauncherTerminated, clientVars, OpenInv, Excused
  <2>6. CASE LauncherDisconnect
    BY <1>s, <2>6 DEF LauncherDisconnect, clientVars, OpenInv, Excused
  <2> QED
    BY <1>3, <2>1, <2>2, <2>3, <2>4, <2>5, <2>6 DEF LauncherThread
<1>4. CASE ServerThread
  <2>1. CASE ServerPick
    BY <1>s, <2>1 DEF ServerPick, clientVars, OpenInv, Excused
  <2>2. CASE ConnectionHandles
    BY <1>s, <2>2 DEF ConnectionHandles, clientVars, OpenInv, Excused
  <2>3. CASE ServerEvent
    BY <1>s, <2>3 DEF ServerEvent, clientVars, OpenInv, Excused
  <2>4. CASE ServerTerminated
    BY <1>s, <2>4 DEF ServerTerminated, clientVars, OpenInv, Excused
  <2>5. CASE ServerDisconnect
    BY <1>s, <2>5 DEF ServerDisconnect, clientVars, OpenInv, Excused
  <2> QED
    BY <1>4, <2>1, <2>2, <2>3, <2>4, <2>5 DEF ServerThread
<1>5. CASE FinalizeStep
  <2>1. CASE FinAsk
    BY <1>s, <2>1 DEF FinAsk, clientVars, OpenInv, Excused
  <2>2. CASE FinDetach
    BY <1>s, <2>2 DEF FinDetach, clientVars, OpenInv, Excused
  <2>3. CASE FinLauncher
    BY <1>s, <2>3 DEF FinLauncher, clientVars, OpenInv, Excused
  <2>4. CASE FinExitAwaited
    BY <1>s, <2>4 DEF FinExitAwaited, clientVars, OpenInv, Excused
  <2>5. CASE FinKill
    BY <1>s, <2>5 DEF FinKill, clientVars, OpenInv, Excused
  <2>6. CASE FinDrained
    BY <1>s, <2>6 DEF FinDrained, clientVars, OpenInv, Excused
  <2>7. CASE FinClient
    BY <1>s, <2>7 DEF FinClient, clientVars, OpenInv, Excused
  <2>8. CASE FinReturn
    BY <1>s, <2>8 DEF FinReturn, ReturnOrCrash, OpenInv, Excused
  <2>9. CASE NotInjected
    BY <1>s, <2>9 DEF NotInjected, SendOrCrash, OpenInv, Excused
  <2> QED
    BY <1>5, <2>1, <2>2, <2>3, <2>4, <2>5, <2>6, <2>7, <2>8, <2>9 DEF FinalizeStep
<1>6. CASE Environment
  <2>1. CASE ClientLost
    BY <1>s, <2>1 DEF ClientLost, OpenInv, Excused
  <2>2. CASE LauncherAccepted
    BY <1>s, <2>2 DEF LauncherAccepted, clientVars, OpenInv, Excused
  <2>3. CASE LauncherOutput
    BY <1>s, <2>3 DEF LauncherOutput, clientVars, OpenInv, Excused
  <2>4. CASE DebuggeeExits
    BY <1>s, <2>4 DEF DebuggeeExits, clientVars, OpenInv, Excused
  <2>5. CASE LauncherTerminates
    BY <1>s, <2>5 DEF LauncherTerminates, clientVars, OpenInv, Excused
  <2>6. CASE LauncherDies
    BY <1>s, <2>6 DEF LauncherDies, clientVars, OpenInv, Excused
  <2>7. CASE ServerOutput
    BY <1>s, <2>7 DEF ServerOutput, clientVars, OpenInv, Excused
  <2>8. CASE ServerExits
    BY <1>s, <2>8 DEF ServerExits, clientVars, OpenInv, Excused
  <2>9. CASE ServerDies
    BY <1>s, <2>9 DEF ServerDies, clientVars, OpenInv, Excused
  <2> QED
    BY <1>6, <2>1, <2>2, <2>3, <2>4, <2>5, <2>6, <2>7, <2>8, <2>9 DEF Environment
<1>7. CASE UNCHANGED vars
    BY <1>s, <1>7 DEF vars, clientVars, OpenInv, Excused
<1> QED
    BY <1>1, <1>2, <1>3, <1>4, <1>5, <1>6, <1>7 DEF Next

\* The part of AnsweredOnce that is about the responses themselves.
ResponseIsUnique ==
    \A i \in 1 .. Len(toClient) :
        toClient[i].kind \in Answers => ~SentBefore(i, Answers)

LEMMA StepAsk ==
    ASSUME TypeInv, Once(toClient, Answers), AskInv, [Next]_vars
    PROVE  Once(toClient, Answers)' /\ AskInv'
<1>t. toClient \in Seq(Any)
    BY TrafficFacts DEF TypeInv
<1>1. CASE AnswersStart
  <2>1. ~Answered /\ AskInv'
    BY <1>1, AnswerAsked
  <2>2. PICK b \in Seq(Any) : toClient' = toClient \o b /\ Once(b, Answers)
    BY WhatIsSaid DEF Adds
  <2> QED
    BY <1>t, <2>1, <2>2, OnceConcat DEF Answered
<1>2. CASE ~AnswersStart
  <2>1. PICK b \in Seq(Any) :
            /\ toClient' = toClient \o b
            /\ \A i \in 1 .. Len(b) : b[i].kind \in Other \cup {"terminated"}
            /\ Once(b, Answers)
    BY <1>2, WhatIsSaid DEF Adds
  <2>2. ~Has(b, Answers)
    BY <2>1 DEF Has, Answers, Other, Passed
  <2>3. Once(toClient', Answers) /\ (Answered' <=> Answered)
    BY <1>t, <2>1, <2>2, OnceConcat, HasConcat DEF Answered
  <2>4. AskInv'
    BY <1>2, <2>3, OthersAsk
  <2> QED
    BY <2>3, <2>4
<1> QED
    BY <1>1, <1>2

LEMMA OnceIsUnique == Once(toClient, Answers) /\ TrafficTypes => ResponseIsUnique
<1> SUFFICES ASSUME Once(toClient, Answers), TrafficTypes,
                    NEW i \in 1 .. Len(toClient), toClient[i].kind \in Answers,
                    NEW j \in 1 .. i - 1, toClient[j].kind \in Answers
             PROVE  FALSE
    BY DEF ResponseIsUnique, SentBefore
<1>1. j \in 1 .. Len(toClient) /\ j < i
    BY DEF TrafficTypes
<1> QED
    BY <1>1 DEF Once

LEMMA InitAsk == Init => Once(toClient, Answers) /\ AskInv
<1> SUFFICES ASSUME Init PROVE Once(toClient, Answers) /\ AskInv
    OBVIOUS
<1>1. toClient = <<>> /\ start = "none" /\ cpc = "idle" /\ startSet = FALSE
    BY DEF Init
<1>2. Once(toClient, Answers) /\ ~Answered
    BY <1>1 DEF Once, Answered, Has
<1> QED
    BY <1>1, <1>2 DEF AskInv, Asking

(***************************************************************************)
(* Whatever goes wrong, the start request gets at most one response:       *)
(* configurationDone_request answers it only if nothing else has.          *)
(***************************************************************************)
THEOREM OneResponse == Spec => []ResponseIsUnique
<1> DEFINE IInv == Once(toClient, Answers) /\ AskInv
<1>1. Init => IInv
    BY InitAsk
<1>2. Inductive /\ IInv /\ [Next]_vars => IInv'
    BY StepAsk DEF Inductive
<1>3. Inductive /\ IInv => ResponseIsUnique
    BY OnceIsUnique DEF Inductive, TypeInv
<1> HIDE DEF IInv
<1> QED
    BY <1>1, <1>2, <1>3, IsInductive, PTL DEF Spec

(***************************************************************************)
(* Whatever goes wrong, the start request is answered once its handler and *)
(* "configurationDone" are done with it; and no handler fails to answer,   *)
(* unless the client leaves while it runs, or it is "configurationDone"    *)
(* and the server refuses it or the client sends it out of order.          *)
(***************************************************************************)
THEOREM EveryoneIsAnswered == Spec => []AnsweredOnce
<1> DEFINE IInv == Once(toClient, Answers) /\ AskInv /\ AnswerInv /\ OpenInv
<1>1. Init => IInv
  <2> SUFFICES ASSUME Init PROVE AnswerInv /\ OpenInv
    BY InitAsk
  <2> QED
    BY DEF Init, AnswerInv, OpenInv
<1>2. Inductive /\ IInv /\ [Next]_vars => IInv'
    BY StepAsk, StepAnswer, StepOpen DEF Inductive, TypeInv, ControlTypes
<1>3. Inductive /\ IInv => AnsweredOnce
  <2> SUFFICES ASSUME Inductive, IInv PROVE AnsweredOnce
    OBVIOUS
  <2>1. ResponseIsUnique
    BY OnceIsUnique DEF Inductive, TypeInv
  <2>2. WasSent({"started", "failed"}) <=> Answered
    BY DEF WasSent, Answered, Has, Answers
  <2>3. ASSUME cpc = "idle", start # "none", clientOpen, ~crashed
        PROVE  Answered <=> (startSet => hasStarted)
    BY <2>3 DEF AskInv, AnswerInv, Asking
  <2>4. crashed => Excused
    BY DEF OpenInv
  <2> QED
    BY <2>1, <2>2, <2>3, <2>4 DEF AnsweredOnce, ResponseIsUnique, Answers, Excused
<1> HIDE DEF IInv
<1> QED
    BY <1>1, <1>2, <1>3, IsInductive, PTL DEF Spec
=============================================================================
