------------------------ MODULE AttachInjectionProofs ------------------------
(***************************************************************************)
(* Theorems about AttachInjection, and the DoAttach() of NativeAttach that *)
(* it drives, for any set of threads in the target, any finite set of      *)
(* processes that attach and any number of attempts.                       *)
(***************************************************************************)
EXTENDS AttachInjection, FiniteSetTheorems, TLAPS

Places == {"unborn", "python", "native", "heap", "adding", "callback", "gone"}
InfoType == [alive : BOOLEAN, event : BOOLEAN, set : BOOLEAN, completed : BOOLEAN,
             cs : {None, Main, Att}]
CallbackType == [at : {"none", "init", "enter", "set", "leave"}, of : Nat]
Searching == {"snapshot", "suspend", "current", "new", "init", "release", "resume"}
AttachPoints == {"idle", "check", "wait", "enter", "close", "free", "loop", "final", "run",
                 "done"} \cup Searching
Busy == {"write", "event", "inject", "load", "wait", "cleanup"}

\* The types of the target's variables.
NativeTypes ==
    /\ where \in [Threads -> Places] /\ inited \in BOOLEAN
    /\ current \in Threads \cup {None, Att} /\ heap \in Threads \cup {None}
    /\ suspended \subseteq Threads /\ threadMap \subseteq Threads /\ todo \subseteq Threads
    /\ queued \subseteq Nat /\ callback \in CallbackType
    /\ info \in [Calls -> InfoType]
    /\ pc \in AttachPoints /\ job \in Codes \cup {None} /\ call \in Nat
    /\ completed \in BOOLEAN /\ again \in BOOLEAN /\ attempts \in Nat
    /\ code \in [Codes -> {Unknown, 0, 8, Refused}]

\* The types of what the attaching processes and the target share.
SharedTypes ==
    /\ mutex \in Injectors \cup {None}
    /\ step \in [Injectors -> {"idle", "done"} \cup Busy]
    /\ result \in [Injectors -> {None, "finished", "timeout", "failed"}]
    /\ mapping \in [handles : SUBSET (Injectors \cup {Att}), content : Injectors \cup {None}]
    /\ event \in [handles : SUBSET Injectors, set : BOOLEAN]
    /\ path \subseteq Injectors /\ loading \subseteq Injectors
    /\ loaded \in Nat /\ runners \in Nat
    /\ gaveUp \subseteq Injectors /\ skipped \subseteq Injectors
    /\ owner \in Injectors \cup {None} /\ attachDll \in {"none", "loading", "loaded"}
    /\ runner \in {"none", "open", "attach", "notify", "free"}

Types == NativeTypes /\ SharedTypes

(***************************************************************************)
(* Who is where: a process has the mutex while it attaches, the library is *)
(* loaded while a thread of its runs, and that thread is in DoAttach()     *)
(* with a piece of code that some process wrote.                           *)
(***************************************************************************)
MutexOK == \A i \in Injectors : step[i] \in Busy <=> mutex = i
RunnerOK ==
    /\ OneRunner
    /\ runner # "none" => loaded > 0 /\ owner \in Injectors
    /\ runner = "attach" <=> pc # "idle"
    /\ pc # "idle" => job \in Codes /\ call > 0
    /\ mapping.handles # {} => mapping.content \in Injectors

USE AttachAssumption, InjectionAssumption DEF Injectors

\* Every process has the library loaded once at most, so that there are no more
\* calls of DoAttach(), nor references to the library, than processes.
Early == {"idle", "write", "event", "inject"}
Landed == {i \in Injectors : step[i] \notin Early /\ i \notin loading}
CountOK ==
    /\ \A i \in loading : step[i] \notin Early
    /\ call + (IF runner = "open" THEN 1 ELSE 0) <= Cardinality(Landed)
    /\ loaded <= Cardinality(Landed)

Basic == Types /\ MutexOK /\ RunnerOK /\ CountOK

-----------------------------------------------------------------------------
(***************************************************************************)
(* Types, and who is where.                                                *)
(***************************************************************************)

LEMMA CallsType == Cardinality(Codes) \in Nat /\ Calls \subseteq Nat
BY FS_CardinalityType DEF Calls

\* The attaching processes leave the target's variables alone, and the other way.
LEMMA Frames ==
    /\ RunPythonCode => UNCHANGED <<attachVars, loaded, thread>>
    /\ Target => UNCHANGED <<injection, mapping, event, loaded, thread>>
BY DEF RunPythonCode, AcquireMutex, MutexTimeout, WriteToSharedMemory, InjectAttachDll,
       InjectionFails, InjectRunCode, Loaded, LoadTimeout, EventSet, EventTimeout, Cleanup, Target

LEMMA InitBasic == Init => Basic
<1> SUFFICES ASSUME Init PROVE Basic
    OBVIOUS
<1>1. NativeTypes
    BY CallsType DEF Init, AttachInit, NativeTypes, Places, InfoType, NoInfo, CallbackType, NoCall,
           AttachPoints, Threads, Unknown, Refused
<1>2. SharedTypes
    BY DEF Init, SharedTypes, NoMapping, NoEvent
<1>3. MutexOK /\ RunnerOK
    BY DEF Init, AttachInit, MutexOK, Busy, RunnerOK, OneRunner, NoMapping
<1>4. CountOK
  <2>1. Landed = {}
    BY DEF Init, Landed, Early
  <2> QED
    BY <2>1, FS_EmptySet DEF Init, AttachInit, CountOK
<1> QED
    BY <1>1, <1>2, <1>3, <1>4 DEF Basic, Types

\* What CallbackComplete() and its like, and DoAttach(), do to a call's structure
\* keeps its type.
LEMMA InfoTyped ==
    ASSUME info \in [Calls -> InfoType], NEW c,
           \/ info' = [info EXCEPT ![c].cs = Main, ![c].completed = TRUE]
           \/ info' = [info EXCEPT ![c].set = TRUE]
           \/ info' = [info EXCEPT ![c].cs = None]
           \/ info' = [info EXCEPT ![c].cs = Att]
           \/ info' = [info EXCEPT ![c].event = FALSE, ![c].cs = None]
           \/ info' = [info EXCEPT ![c] = [NoInfo EXCEPT !.alive = TRUE, !.event = TRUE]]
           \/ info' = [info EXCEPT ![c] = NoInfo]
           \/ info' = info
    PROVE  info' \in [Calls -> InfoType]
<1>1. CASE info' = [info EXCEPT ![c].cs = Main, ![c].completed = TRUE]
    BY <1>1 DEF InfoType
<1>2. CASE info' = [info EXCEPT ![c].set = TRUE]
    BY <1>2 DEF InfoType
<1>4. CASE info' = [info EXCEPT ![c].cs = None] \/ info' = [info EXCEPT ![c].cs = Att]
    BY <1>4 DEF InfoType
<1>5. CASE info' = [info EXCEPT ![c].event = FALSE, ![c].cs = None]
    BY <1>5 DEF InfoType
<1>3. CASE \/ info' = [info EXCEPT ![c] = [NoInfo EXCEPT !.alive = TRUE, !.event = TRUE]]
           \/ info' = [info EXCEPT ![c] = NoInfo]
  <2>1. NoInfo \in InfoType /\ [NoInfo EXCEPT !.alive = TRUE, !.event = TRUE] \in InfoType
    BY DEF InfoType, NoInfo
  <2> QED
    BY <1>3, <2>1
<1> QED
    BY <1>1, <1>2, <1>3, <1>4, <1>5

\* The target keeps its types.
LEMMA TargetTypes ==
    ASSUME NativeTypes, pc # "idle" => job \in Codes /\ call \in Calls, Target
    PROVE  NativeTypes'
<1>t. /\ where \in [Threads -> Places] /\ Main \in Threads
      /\ info \in [Calls -> InfoType] /\ callback \in CallbackType /\ queued \subseteq Nat
    BY DEF NativeTypes, Threads
<1>1. CASE Execute
  <2>1. /\ where' \in [Threads -> Places] /\ inited' \in BOOLEAN
        /\ current' \in Threads \cup {None, Att} /\ heap' \in Threads \cup {None}
    BY <1>1 DEF Execute, NativeTypes, Places, EnterNative, LeaveNative, EnterHeap, LeaveHeap,
           EnterAddPendingCall, LeaveAddPendingCall, StartPython, StartNative, Exit
  <2> QED
    BY <1>1, <2>1 DEF Execute, NativeTypes, search
<1>2. CASE AttachCallback
  <2>1. info' \in [Calls -> InfoType]
    BY <1>t, <1>2, InfoTyped DEF AttachCallback, CallbackStart, CallbackInit, CallbackComplete,
                             CallbackSetEvent, CallbackLeave
  <2>2. callback' \in CallbackType
    BY <1>t, <1>2 DEF AttachCallback, CallbackStart, CallbackInit, CallbackComplete,
                      CallbackSetEvent, CallbackLeave, CallbackType, NoCall
  <2>3. where' \in [Threads -> Places] /\ queued' \subseteq Nat /\ inited' \in BOOLEAN
    BY <1>t, <1>2 DEF AttachCallback, CallbackStart, CallbackInit, CallbackComplete,
                      CallbackSetEvent, CallbackLeave, Places, process, NativeTypes
  <2> QED
    BY <1>2, <2>1, <2>2, <2>3 DEF AttachCallback, CallbackStart, CallbackInit, CallbackComplete,
                      CallbackSetEvent, CallbackLeave, NativeTypes, search, process
<1>3. CASE DoAttach
  <2> USE DEF AttachPoints, Searching
  <2>1. CASE CheckFails
    BY <2>1 DEF CheckFails, NativeTypes, search, process
  <2>2. CASE \E added \in BOOLEAN : AddPendingCall(added)
    <3>1. info' \in [Calls -> InfoType]
      BY <1>t, <2>2, InfoTyped DEF AddPendingCall
    <3> QED
      BY <2>2, <3>1 DEF AddPendingCall, NativeTypes, search, process
  <2>3. CASE \E timeout \in BOOLEAN : WaitForEvent(timeout)
    BY <2>3 DEF WaitForEvent, NativeTypes, search, process
  <2>4. CASE EnterCriticalSection
    <3>1. info' \in [Calls -> InfoType]
      BY <1>t, <2>4, InfoTyped DEF EnterCriticalSection
    <3> QED
      BY <2>4, <3>1 DEF EnterCriticalSection, NativeTypes, search, process
  <2>5. CASE CloseEvent
    <3>1. info' \in [Calls -> InfoType]
      BY <1>t, <2>5, InfoTyped DEF CloseEvent
    <3>2. completed' \in BOOLEAN
      BY <1>t, <2>5 DEF CloseEvent, InfoType
    <3> QED
      BY <2>5, <3>1, <3>2 DEF CloseEvent, NativeTypes, search, process
  <2>6. CASE FreeInfo
    <3>1. info' \in [Calls -> InfoType]
      BY <1>t, <2>6, InfoTyped DEF FreeInfo
    <3> QED
      BY <2>6, <3>1 DEF FreeInfo, NativeTypes, search, process
  <2>7. CASE Attempt \/ LeaveLoop \/ Snapshot \/ EndPass
    <3>1. CASE Attempt
      BY <3>1 DEF Attempt, NativeTypes, search, process
    <3>2. CASE LeaveLoop
      BY <3>2 DEF LeaveLoop, NativeTypes, process
    <3>3. CASE Snapshot
      BY <3>3 DEF Snapshot, NativeTypes, process
    <3>4. CASE EndPass
      BY <3>4 DEF EndPass, NativeTypes, search, process
    <3> QED
      BY <2>7, <3>1, <3>2, <3>3, <3>4
  <2>8. CASE \E t \in Threads : SkipThread(t) \/ SuspendThread(t)
    <3>1. suspended' \subseteq Threads /\ threadMap' \subseteq Threads /\ todo' \subseteq Threads
      BY <2>8 DEF SkipThread, SuspendThread, Rest, NativeTypes
    <3>2. again' \in BOOLEAN
      BY <2>8 DEF SkipThread, SuspendThread, NativeTypes
    <3> QED
      BY <2>8, <3>1, <3>2 DEF SkipThread, SuspendThread, NativeTypes, search, process
  <2>9. CASE CheckCurrent \/ GilEnsure \/ InitThreads \/ GilRelease \/ ResumeThreads
    <3>1. CASE CheckCurrent
      BY <3>1 DEF CheckCurrent, NativeTypes, search, process
    <3>2. CASE GilEnsure \/ InitThreads \/ GilRelease
      BY <3>2 DEF GilEnsure, InitThreads, GilRelease, NativeTypes, search
    <3>3. CASE ResumeThreads
      BY <3>3 DEF ResumeThreads, NativeTypes, process
    <3> QED
      BY <2>9, <3>1, <3>2, <3>3
  <2>10. CASE GiveUp \/ TakeGil \/ RunSimpleString
    <3>1. code' \in [Codes -> {Unknown, 0, 8, Refused}]
      BY <2>10 DEF GiveUp, TakeGil, RunSimpleString, NativeTypes
    <3> QED
      BY <2>10, <3>1 DEF GiveUp, TakeGil, RunSimpleString, NativeTypes, search, process
  <2> QED
    BY <1>3, <2>1, <2>2, <2>3, <2>4, <2>5, <2>6, <2>7, <2>8, <2>9, <2>10 DEF DoAttach
<1> QED
    BY <1>1, <1>2, <1>3 DEF Target

\* Landed only grows.
LEMMA LandedFinite ==
    /\ IsFiniteSet(Landed) /\ Cardinality(Landed) \in Nat
    /\ Cardinality(Landed) <= Cardinality(Codes)
<1>1. Landed \in SUBSET Codes
    BY DEF Landed
<1> QED
    BY <1>1, FS_Subset, FS_CardinalityType

LEMMA LandedGrows ==
    ASSUME Landed \subseteq Landed'
    PROVE  Cardinality(Landed) <= Cardinality(Landed') /\ Cardinality(Landed') \in Nat
<1>1. Landed' \in SUBSET Codes
    BY DEF Landed
<1>2. IsFiniteSet(Landed')
    BY <1>1, FS_Subset
<1> QED
    BY <1>2, FS_Subset, FS_CardinalityType

\* DoAttach() always has a structure of its own.
LEMMA CallInRange == Basic /\ pc # "idle" => call \in Calls
BY LandedFinite, CallsType DEF Basic, Types, NativeTypes, RunnerOK, CountOK, Calls

\* The attaching processes.
LEMMA ProcessBasic ==
    ASSUME Basic, RunPythonCode
    PROVE  Basic'
<1>1. NativeTypes' /\ UNCHANGED <<attachVars, loaded, thread>>
    BY Frames DEF NativeTypes, Basic, Types, attachVars, process, search
<1>2. PICK i \in Injectors :
        \/ AcquireMutex(i) \/ MutexTimeout(i)
        \/ WriteToSharedMemory(i) \/ InjectAttachDll(i) \/ InjectionFails(i)
        \/ InjectRunCode(i) \/ Loaded(i) \/ LoadTimeout(i)
        \/ EventSet(i) \/ EventTimeout(i) \/ Cleanup(i)
    BY DEF RunPythonCode
<1>t. SharedTypes
    BY DEF Basic, Types
<1>3. /\ mutex' \in Injectors \cup {None}
      /\ step' \in [Injectors -> {"idle", "done"} \cup Busy]
      /\ result' \in [Injectors -> {None, "finished", "timeout", "failed"}]
  <2>1. /\ mutex \in Injectors \cup {None}
        /\ step \in [Injectors -> {"idle", "done"} \cup Busy]
        /\ result \in [Injectors -> {None, "finished", "timeout", "failed"}]
    BY <1>t DEF SharedTypes
  <2>2. /\ mutex' \in {i, None, mutex}
        /\ \E s \in {"done"} \cup Busy : step' = [step EXCEPT ![i] = s]
        /\ \/ result' = result
           \/ \E r \in {"finished", "timeout", "failed"} : result' = [result EXCEPT ![i] = r]
    BY <1>2 DEF AcquireMutex, MutexTimeout, WriteToSharedMemory, InjectAttachDll, InjectionFails,
                InjectRunCode, Loaded, LoadTimeout, EventSet, EventTimeout, Cleanup, Go, Busy
  <2> QED
    BY <2>1, <2>2
<1>4. /\ mapping' \in [handles : SUBSET (Injectors \cup {Att}), content : Injectors \cup {None}]
      /\ mapping'.handles # {} => mapping'.content \in Injectors
  <2>1. /\ mapping \in [handles : SUBSET (Injectors \cup {Att}), content : Injectors \cup {None}]
        /\ mapping.handles # {} => mapping.content \in Injectors
    BY <1>t DEF SharedTypes, Basic, RunnerOK
  <2>2. \/ mapping' = mapping
        \/ mapping' = [handles |-> mapping.handles \cup {i}, content |-> i]
        \/ mapping' = NoMapping
        \/ mapping' = [mapping EXCEPT !.handles = @ \ {i}]
    BY <1>2 DEF AcquireMutex, MutexTimeout, WriteToSharedMemory, InjectAttachDll, InjectionFails,
                InjectRunCode, Loaded, LoadTimeout, EventSet, EventTimeout, Cleanup, Close
  <2> QED
    BY <2>1, <2>2 DEF NoMapping
<1>5. event' \in [handles : SUBSET Injectors, set : BOOLEAN]
  <2>1. event \in [handles : SUBSET Injectors, set : BOOLEAN]
    BY <1>t DEF SharedTypes
  <2>2. \/ event' = event
        \/ event' = [event EXCEPT !.handles = @ \cup {i}]
        \/ event' = [event EXCEPT !.set = FALSE]
        \/ event' = NoEvent
        \/ event' = [event EXCEPT !.handles = @ \ {i}]
    BY <1>2 DEF AcquireMutex, MutexTimeout, WriteToSharedMemory, InjectAttachDll, InjectionFails,
                InjectRunCode, Loaded, LoadTimeout, EventSet, EventTimeout, Cleanup, Close
  <2>3. CASE event' = [event EXCEPT !.handles = @ \cup {i}]
    BY <2>1, <2>3
  <2>4. CASE event' = [event EXCEPT !.set = FALSE]
    BY <2>1, <2>4
  <2>5. CASE event' = [event EXCEPT !.handles = @ \ {i}]
    BY <2>1, <2>5
  <2>6. CASE event' = NoEvent
    BY <2>6 DEF NoEvent
  <2> QED
    BY <2>1, <2>2, <2>3, <2>4, <2>5, <2>6
<1>6. /\ path' \subseteq Injectors /\ loading' \subseteq Injectors /\ gaveUp' \subseteq Injectors
      /\ attachDll' \in {"none", "loading", "loaded"}
    BY <1>2, <1>t DEF SharedTypes, AcquireMutex, MutexTimeout, WriteToSharedMemory,
          InjectAttachDll, InjectionFails, InjectRunCode, Loaded, LoadTimeout, EventSet,
          EventTimeout, Cleanup, VirtualFree
<1>7. MutexOK'
  <2>1. step \in [Injectors -> {"idle", "done"} \cup Busy] /\ MutexOK
    BY <1>t DEF SharedTypes, Basic
  <2>2. CASE AcquireMutex(i)
    BY <2>1, <2>2 DEF AcquireMutex, Go, MutexOK, Busy
  <2>3. CASE MutexTimeout(i)
    BY <2>1, <2>3 DEF MutexTimeout, Go, MutexOK, Busy
  <2>4. CASE Cleanup(i)
    BY <2>1, <2>4 DEF Cleanup, Go, MutexOK, Busy
  <2>5. CASE ~AcquireMutex(i) /\ ~MutexTimeout(i) /\ ~Cleanup(i)
    <3>1. /\ mutex' = mutex /\ step[i] \in Busy
          /\ \E s \in Busy : step' = [step EXCEPT ![i] = s]
      BY <1>2, <2>5 DEF WriteToSharedMemory, InjectAttachDll, InjectionFails,
                InjectRunCode, Loaded, LoadTimeout, EventSet, EventTimeout, Go, Busy
    <3> QED
      BY <2>1, <3>1 DEF MutexOK
  <2> QED
    BY <2>2, <2>3, <2>4, <2>5
<1>8. CountOK'
  <2>1. /\ step \in [Injectors -> {"idle", "done"} \cup Busy] /\ loading \subseteq Injectors
        /\ CountOK /\ loaded \in Nat /\ call \in Nat
    BY <1>t DEF SharedTypes, Basic, Types, NativeTypes
  <2>2. Landed \subseteq Landed' /\ \A j \in loading' : step'[j] \notin Early
    <3>1. CASE InjectRunCode(i)
      BY <2>1, <3>1 DEF InjectRunCode, Go, Landed, Early, CountOK
    <3>2. CASE ~InjectRunCode(i)
      <4>1. /\ loading' = loading
            /\ \E s \in {"done"} \cup Busy : /\ step' = [step EXCEPT ![i] = s]
                                             /\ step[i] \notin Early => s \notin Early
        BY <1>2, <3>2 DEF AcquireMutex, MutexTimeout, WriteToSharedMemory, InjectAttachDll,
              InjectionFails, Loaded, LoadTimeout, EventSet, EventTimeout, Cleanup, Go, Busy, Early
      <4> QED
        BY <2>1, <4>1 DEF Landed, CountOK
    <3> QED
      BY <3>1, <3>2
  <2>3. Cardinality(Landed) <= Cardinality(Landed') /\ Cardinality(Landed) \in Nat
        /\ Cardinality(Landed') \in Nat
    BY <2>2, LandedGrows, LandedFinite
  <2> QED
    BY <1>1, <2>1, <2>2, <2>3 DEF CountOK, attachVars, thread
<1> QED
    BY <1>1, <1>3, <1>4, <1>5, <1>6, <1>7, <1>8
       DEF Basic, Types, SharedTypes, RunnerOK, OneRunner, attachVars, thread

\* The library's thread.
LEMMA RunnerBasic ==
    ASSUME Basic, RunCodeInThread
    PROVE  Basic'
<1>t. /\ NativeTypes /\ SharedTypes /\ MutexOK /\ RunnerOK /\ CountOK
      /\ loaded \in Nat /\ runners \in Nat /\ call \in Nat
    BY DEF Basic, Types, SharedTypes, NativeTypes
<1>0. CASE AttachDllLoads \/ \E i \in Injectors : LoadLibraryFails(i)
  <2>1. /\ UNCHANGED <<attachVars, mutex, step, result, mapping, event, path, gaveUp, loaded, thread>>
        /\ loading' \subseteq loading /\ attachDll' \in {"none", "loading", "loaded"}
    BY <1>t, <1>0 DEF AttachDllLoads, LoadLibraryFails, SharedTypes
  <2>2. NativeTypes'
    BY <1>t, <2>1 DEF NativeTypes, attachVars, process, search
  <2>3. SharedTypes' /\ MutexOK' /\ RunnerOK'
    BY <1>t, <2>1 DEF SharedTypes, MutexOK, RunnerOK, OneRunner, thread, attachVars
  <2>4. Landed \subseteq Landed'
    BY <2>1 DEF Landed
  <2>5. CountOK'
    BY <1>t, <2>1, <2>4, LandedFinite, LandedGrows DEF CountOK, thread, attachVars
  <2> QED
    BY <2>2, <2>3, <2>5 DEF Basic, Types
<1>1. CASE \E i \in Injectors : LoadLibrary(i)
  <2>1. PICK i \in Injectors : LoadLibrary(i)
    BY <1>1
  <2>2. NativeTypes'
    BY <1>t, <2>1 DEF LoadLibrary, NativeTypes, attachVars, process, search
  <2>3. loaded = 0 => runner = "none" /\ runners = 0
    BY <1>t DEF RunnerOK, OneRunner
  <2>4. SharedTypes'
    BY <1>t, <2>1, <2>3 DEF LoadLibrary, SharedTypes, DllMain
  <2>5. RunnerOK'
    BY <1>t, <2>1, <2>3 DEF LoadLibrary, DllMain, RunnerOK, OneRunner, attachVars
  <2>6. CountOK'
    <3>1. i \notin Landed /\ Landed' = Landed \cup {i}
      BY <1>t, <2>1 DEF LoadLibrary, Landed, CountOK
    <3>2. /\ Cardinality(Landed') = Cardinality(Landed) + 1
          /\ Cardinality(Landed) \in Nat
      BY <3>1, LandedFinite, FS_AddElement
    <3>3. /\ \A j \in loading' : step'[j] \notin Early
          /\ loaded' = loaded + 1 /\ call' = call
          /\ runner' = IF loaded = 0 THEN "open" ELSE runner
      BY <1>t, <2>1 DEF LoadLibrary, CountOK, DllMain, attachVars
    <3> QED
      BY <1>t, <2>3, <3>2, <3>3 DEF CountOK
  <2>7. MutexOK'
    BY <1>t, <2>1 DEF LoadLibrary, MutexOK
  <2> QED
    BY <2>2, <2>4, <2>5, <2>6, <2>7 DEF Basic, Types
<1>2. CASE /\ ~\E i \in Injectors : LoadLibrary(i) \/ LoadLibraryFails(i)
           /\ ~AttachDllLoads
  <2>1. UNCHANGED injection
    BY <1>2 DEF RunCodeInThread, OpenSharedMemory, CannotRun, AttachReturns, Notify,
                FreeLibraryAndExitThread
  <2>2. Landed' = Landed /\ MutexOK'
    BY <1>t, <2>1 DEF Landed, MutexOK, injection
  <2>3. mapping \in [handles : SUBSET (Injectors \cup {Att}), content : Injectors \cup {None}]
    BY <1>t DEF SharedTypes
  <2>4. CASE OpenSharedMemory
    <3>1. /\ mapping' = [mapping EXCEPT !.handles = @ \cup {Att}] /\ runner = "open"
          /\ mapping.content \in Injectors /\ pc' = "check" /\ job' = mapping.content
          /\ call' = call + 1 /\ runner' = "attach"
          /\ UNCHANGED <<process, suspended, queued, callback, info, completed, search, code>>
          /\ UNCHANGED <<injection, event, loaded, runners, owner, skipped>>
      BY <1>t, <2>4 DEF OpenSharedMemory, RunnerOK, Begin
    <3>2. NativeTypes'
      BY <1>t, <3>1 DEF NativeTypes, AttachPoints, process, search
    <3>3. mapping' \in [handles : SUBSET (Injectors \cup {Att}), content : Injectors \cup {None}]
          /\ mapping'.content = mapping.content
      BY <2>3, <3>1
    <3>4. SharedTypes'
      BY <1>t, <3>1, <3>3 DEF SharedTypes, injection
    <3>5. RunnerOK'
      BY <1>t, <3>1, <3>3 DEF RunnerOK, OneRunner
    <3>6. CountOK'
      BY <1>t, <2>2, <3>1, LandedFinite DEF CountOK, injection
    <3> QED
      BY <2>2, <3>2, <3>4, <3>5, <3>6 DEF Basic, Types
  <2>5. CASE AttachReturns
    <3>1. /\ runner = "attach" /\ runner' = "notify" /\ pc' = "idle" /\ job' = None
          /\ mapping' = NoMapping \/ mapping' = [mapping EXCEPT !.handles = @ \ {Att}]
          /\ UNCHANGED <<process, suspended, queued, callback, info, call, completed, search, code,
                         injection, event, loaded, runners, owner, skipped>>
      BY <2>5 DEF AttachReturns, Close
    <3>2. NativeTypes'
      BY <1>t, <3>1 DEF NativeTypes, AttachPoints, process, search
    <3>3. /\ mapping' \in [handles : SUBSET (Injectors \cup {Att}), content : Injectors \cup {None}]
          /\ mapping'.handles # {} => mapping'.content \in Injectors
      BY <1>t, <2>3, <3>1 DEF NoMapping, RunnerOK
    <3>4. SharedTypes'
      BY <1>t, <3>1, <3>3 DEF SharedTypes, injection
    <3>5. RunnerOK'
      BY <1>t, <3>1, <3>3 DEF RunnerOK, OneRunner
    <3>6. CountOK'
      BY <1>t, <2>2, <3>1, LandedFinite DEF CountOK, injection
    <3> QED
      BY <2>2, <3>2, <3>4, <3>5, <3>6 DEF Basic, Types
  <2>6. CASE CannotRun \/ Notify \/ FreeLibraryAndExitThread
    <3>1. /\ UNCHANGED <<attachVars, injection, mapping>>
          /\ runner \in {"open", "notify", "free"} /\ runner' \in {"notify", "free", "none"}
          /\ IF runner' = "none" THEN loaded' = loaded - 1 /\ runners' = runners - 1
             ELSE UNCHANGED <<loaded, runners>>
          /\ IF runner' = "none" THEN owner' = None ELSE owner' = owner
          /\ skipped' \in {skipped, skipped \cup {owner}}
      BY <2>6 DEF CannotRun, Notify, FreeLibraryAndExitThread
    <3>2. NativeTypes'
      BY <1>t, <3>1 DEF NativeTypes, attachVars, process, search
    <3>3. event' \in [handles : SUBSET Injectors, set : BOOLEAN]
      <4>1. event \in [handles : SUBSET Injectors, set : BOOLEAN]
        BY <1>t DEF SharedTypes
      <4>2. event' = event \/ event' = NoEvent \/ event' = [event EXCEPT !.set = TRUE]
        BY <2>6 DEF CannotRun, Notify, FreeLibraryAndExitThread
      <4>3. CASE event' = [event EXCEPT !.set = TRUE]
        BY <4>1, <4>3
      <4>4. NoEvent \in [handles : SUBSET Injectors, set : BOOLEAN]
        BY DEF NoEvent
      <4> QED
        BY <4>1, <4>2, <4>3, <4>4
    <3>4. loaded > 0 /\ runners = 1 /\ owner \in Injectors
      BY <1>t, <3>1 DEF RunnerOK, OneRunner
    <3>5. SharedTypes'
      BY <1>t, <3>1, <3>3, <3>4 DEF SharedTypes, injection
    <3>6. RunnerOK'
      BY <1>t, <3>1, <3>4 DEF RunnerOK, OneRunner, attachVars
    <3>7. CountOK'
      BY <1>t, <2>2, <3>1, LandedFinite DEF CountOK, injection, attachVars
    <3> QED
      BY <2>2, <3>2, <3>5, <3>6, <3>7 DEF Basic, Types
  <2> QED
    BY <1>2, <2>4, <2>5, <2>6 DEF RunCodeInThread
<1> QED
    BY <1>0, <1>1, <1>2

\* A step of the target.
LEMMA TargetBasic ==
    ASSUME Basic, Target
    PROVE  Basic'
<1>1. UNCHANGED <<injection, mapping, event, loaded, thread>>
    BY Frames
<1>2. /\ job' = job /\ call' = call
      /\ pc # "idle" <=> pc' # "idle"
  <2>1. CASE Execute \/ AttachCallback
    BY <2>1 DEF Execute, AttachCallback, CallbackStart, CallbackInit, CallbackComplete,
                CallbackSetEvent, CallbackLeave
  <2>2. CASE DoAttach
    BY <2>2 DEF DoAttach, CheckFails, AddPendingCall, WaitForEvent, EnterCriticalSection,
           CloseEvent, FreeInfo, Attempt, LeaveLoop, Snapshot, EndPass, SkipThread, SuspendThread,
           CheckCurrent, GilEnsure, InitThreads, GilRelease, ResumeThreads, GiveUp, TakeGil,
           RunSimpleString
  <2> QED
    BY <2>1, <2>2 DEF Target
<1>3. NativeTypes'
    BY TargetTypes, CallInRange DEF Basic, Types, RunnerOK
<1>4. Landed' = Landed
    BY <1>1 DEF Landed, injection
<1> QED
    BY <1>1, <1>2, <1>3, <1>4
       DEF Basic, Types, SharedTypes, MutexOK, RunnerOK, OneRunner, CountOK, injection, thread

LEMMA StepBasic == Basic /\ [Next]_vars => Basic'
<1> SUFFICES ASSUME Basic, [Next]_vars PROVE Basic'
    OBVIOUS
<1>1. CASE UNCHANGED vars
    BY <1>1 DEF vars, attachVars, process, search, injection, thread, Basic, Types,
                NativeTypes, SharedTypes, MutexOK, RunnerOK, OneRunner, CountOK, Landed
<1> QED
    BY <1>1, ProcessBasic, RunnerBasic, TargetBasic DEF Next

LEMMA BasicInvariant == Spec => []Basic
BY InitBasic, StepBasic, PTL DEF Spec

-----------------------------------------------------------------------------
(***************************************************************************)
(* AttachCallback and the structure it is called with.  While a call of it *)
(* is pending the structure is there and not completed; the two sides      *)
(* exclude each other by the critical section, so that DoAttach() sees     *)
(* completed only after the callback has left, and closes the event only   *)
(* before the callback looks at it.                                        *)
(***************************************************************************)
CallbackInv ==
    /\ callback = NoCall <=> callback.at = "none"
    /\ where[Main] = "callback" <=> callback # NoCall
    /\ queued \subseteq 1 .. call
    /\ callback # NoCall => callback.of \in 1 .. call /\ callback.of \notin queued
    /\ pc = "check" => call \notin queued /\ callback.of # call
    /\ \A c \in queued : info[c].alive /\ ~info[c].completed
    /\ callback.at \in {"init", "enter"} =>
            info[callback.of].alive /\ ~info[callback.of].completed
    /\ callback.at \in {"set", "leave"} => info[callback.of].alive /\ info[callback.of].cs = Main
    /\ callback.at = "set" => info[callback.of].event
    /\ pc = "close" => info[call].cs = Att
    /\ pc = "free" /\ completed => callback.of # call /\ call \notin queued

LEMMA CallBound == Basic => call \in Nat /\ 1 .. call \subseteq Calls
BY LandedFinite, CallsType DEF Basic, Types, NativeTypes, CountOK, Calls

LEMMA Distinct == None # Att /\ Main \notin {None, Att} /\ Main \in Threads
BY DEF None, Att, Threads

LEMMA InitCallback == Init => CallbackInv
BY Distinct DEF Init, AttachInit, CallbackInv, NoCall

LEMMA CallbackInvStep ==
    ASSUME Basic, CallbackInv, [Next]_vars
    PROVE  CallbackInv'
<1>t. /\ info \in [Calls -> InfoType] /\ callback \in CallbackType
      /\ where \in [Threads -> Places] /\ completed \in BOOLEAN
      /\ call \in Nat /\ 1 .. call \subseteq Calls
      /\ pc # "idle" => call \in Calls
    BY CallBound, CallInRange DEF Basic, Types, NativeTypes
<1>1. CASE UNCHANGED attachVars
    BY <1>1 DEF attachVars, process, CallbackInv
<1>2. CASE Execute
  <2>1. where'[Main] = "callback" <=> where[Main] = "callback"
    BY <1>t, <1>2, Distinct DEF Execute, EnterNative, LeaveNative, EnterHeap, LeaveHeap,
           EnterAddPendingCall, LeaveAddPendingCall, StartPython, StartNative, Exit
  <2> QED
    BY <1>2, <2>1 DEF Execute, CallbackInv
<1>3. CASE AttachCallback
  <2>1. CASE CallbackStart
    <3>1. PICK c \in queued : queued' = queued \ {c} /\ callback' = [at |-> "init", of |-> c]
      BY <2>1 DEF CallbackStart
    <3>2. where[Main] = "python" /\ where'[Main] = "callback" /\ callback = NoCall
          /\ UNCHANGED <<info, pc, call, completed>>
      BY <1>t, <2>1, Distinct DEF CallbackStart, CallbackInv
    <3>3. c \in 1 .. call /\ callback' # NoCall
      BY <3>1 DEF CallbackInv, NoCall
    <3> QED
      BY <1>t, <3>1, <3>2, <3>3 DEF CallbackInv
  <2>2. CASE CallbackInit
    BY <1>t, <2>2 DEF CallbackInit, CallbackInv, CallbackType, NoCall
  <2>3. CASE CallbackComplete
    <3> DEFINE c == callback.of
    <3>1. /\ callback.at = "enter" /\ info[c].cs = None /\ callback # NoCall /\ c \in Calls
          /\ info' = [info EXCEPT ![c].cs = Main, ![c].completed = TRUE]
          /\ callback' = [callback EXCEPT !.at = IF info[c].event THEN "set" ELSE "leave"]
          /\ UNCHANGED <<where, queued, pc, call, completed>>
      BY <1>t, <2>3 DEF CallbackComplete, CallbackInv, process, NoCall
    <3>2. /\ callback'.of = c /\ callback'.at = IF info[c].event THEN "set" ELSE "leave"
          /\ callback' # NoCall
      BY <1>t, <3>1 DEF CallbackType, NoCall
    <3>3. /\ info'[c].alive = info[c].alive /\ info'[c].cs = Main
          /\ info'[c].event = info[c].event
          /\ \A d \in Calls \ {c} : info'[d] = info[d]
      BY <1>t, <3>1 DEF InfoType
    <3>4. pc = "close" => call # c
      BY <3>1, Distinct DEF CallbackInv
    <3> QED
      BY <1>t, <3>1, <3>2, <3>3, <3>4 DEF CallbackInv
  <2>4. CASE CallbackSetEvent
    <3> DEFINE c == callback.of
    <3>1. /\ callback.at = "set" /\ callback # NoCall /\ c \in Calls
          /\ info' = [info EXCEPT ![c].set = TRUE]
          /\ callback' = [callback EXCEPT !.at = "leave"]
          /\ UNCHANGED <<where, queued, pc, call, completed>>
      BY <1>t, <2>4 DEF CallbackSetEvent, CallbackInv, process, NoCall
    <3>2. callback'.of = c /\ callback'.at = "leave" /\ callback' # NoCall
      BY <1>t, <3>1 DEF CallbackType, NoCall
    <3>3. /\ info'[c].alive = info[c].alive /\ info'[c].cs = info[c].cs
          /\ info'[c].completed = info[c].completed
          /\ \A d \in Calls \ {c} : info'[d] = info[d]
      BY <1>t, <3>1 DEF InfoType
    <3> QED
      BY <1>t, <3>1, <3>2, <3>3 DEF CallbackInv
  <2>5. CASE CallbackLeave
    <3> DEFINE c == callback.of
    <3>1. /\ callback.at = "leave" /\ callback # NoCall /\ c \in Calls
          /\ info' = [info EXCEPT ![c].cs = None]
          /\ callback' = NoCall /\ where'[Main] = "python"
          /\ UNCHANGED <<queued, pc, call, completed>>
      BY <1>t, <2>5, Distinct DEF CallbackLeave, CallbackInv, NoCall
    <3>2. callback'.of = 0 /\ callback'.at = "none"
      BY <3>1 DEF NoCall
    <3>3. /\ info'[c].alive = info[c].alive
          /\ info'[c].completed = info[c].completed
          /\ \A d \in Calls \ {c} : info'[d] = info[d]
      BY <1>t, <3>1 DEF InfoType
    <3>4. pc = "close" => call # c
      BY <3>1, Distinct DEF CallbackInv
    <3>5. 0 \notin queued /\ (pc # "idle" => call # 0)
      BY <1>t DEF CallbackInv, Calls
    <3> QED
      BY <1>t, <3>1, <3>2, <3>3, <3>4, <3>5 DEF CallbackInv
  <2> QED
    BY <1>3, <2>1, <2>2, <2>3, <2>4, <2>5 DEF AttachCallback
<1>4. CASE DoAttach
  <2>1. CASE \E added \in BOOLEAN : AddPendingCall(added)
    <3>1. /\ pc = "check" /\ pc' = "wait" /\ call \in Calls
          /\ info' = [info EXCEPT ![call] = [NoInfo EXCEPT !.alive = TRUE, !.event = TRUE]]
          /\ queued' = queued \/ queued' = queued \cup {call}
          /\ UNCHANGED <<where, callback, call, completed>>
      BY <1>t, <2>1 DEF AddPendingCall, process
    <3>2. /\ info'[call].alive /\ ~info'[call].completed
          /\ \A d \in Calls \ {call} : info'[d] = info[d]
      BY <1>t, <3>1 DEF NoInfo
    <3>3. call \in 1 .. call
      BY <1>t, <3>1 DEF Calls
    <3> QED
      BY <1>t, <3>1, <3>2, <3>3 DEF CallbackInv, NoCall
  <2>2. CASE EnterCriticalSection
    <3>1. /\ pc = "enter" /\ pc' = "close" /\ call \in Calls /\ info[call].cs = None
          /\ info' = [info EXCEPT ![call].cs = Att]
          /\ UNCHANGED <<where, callback, queued, call, completed>>
      BY <1>t, <2>2 DEF EnterCriticalSection, process
    <3>2. /\ info'[call].alive = info[call].alive /\ info'[call].event = info[call].event
          /\ info'[call].completed = info[call].completed /\ info'[call].cs = Att
          /\ \A d \in Calls \ {call} : info'[d] = info[d]
      BY <1>t, <3>1 DEF InfoType
    <3>3. callback.at \in {"set", "leave"} => callback.of # call
      BY <3>1, Distinct DEF CallbackInv
    <3> QED
      BY <1>t, <3>1, <3>2, <3>3 DEF CallbackInv, NoCall
  <2>3. CASE CloseEvent
    <3>1. /\ pc = "close" /\ pc' = "free" /\ call \in Calls /\ info[call].cs = Att
          /\ info' = [info EXCEPT ![call].event = FALSE, ![call].cs = None]
          /\ completed' = info[call].completed
          /\ UNCHANGED <<where, callback, queued, call>>
      BY <1>t, <2>3 DEF CloseEvent, process, CallbackInv
    <3>2. /\ info'[call].alive = info[call].alive
          /\ info'[call].completed = info[call].completed
          /\ \A d \in Calls \ {call} : info'[d] = info[d]
      BY <1>t, <3>1 DEF InfoType
    <3>3. callback.at \in {"set", "leave"} => callback.of # call
      BY <3>1, Distinct DEF CallbackInv
    <3>4. callback # NoCall => callback.at \in {"init", "enter", "set", "leave"}
      BY <1>t DEF CallbackInv, CallbackType
    <3>5. completed' => callback.of # call /\ call \notin queued
      <4>0. completed' => call \notin queued
        BY <3>1 DEF CallbackInv
      <4>1. CASE callback = NoCall
        <5>1. callback.of = 0
          BY <4>1 DEF NoCall
        <5>2. call # 0
          BY <3>1, CallsType DEF Calls
        <5> QED
          BY <4>0, <5>1, <5>2
      <4>2. CASE callback # NoCall
        BY <3>1, <3>3, <3>4, <4>2 DEF CallbackInv
      <4> QED
        BY <4>1, <4>2
    <3> QED
      BY <1>t, <3>1, <3>2, <3>3, <3>5 DEF CallbackInv, NoCall
  <2>4. CASE FreeInfo
    <3>1. /\ pc = "free" /\ pc' = "loop" /\ call \in Calls
          /\ info' = IF completed THEN [info EXCEPT ![call] = NoInfo] ELSE info
          /\ UNCHANGED <<where, callback, queued, call, completed>>
      BY <1>t, <2>4 DEF FreeInfo, process
    <3>2. completed => \A d \in Calls \ {call} : info'[d] = info[d]
      BY <1>t, <3>1
    <3> QED
      BY <1>t, <3>1, <3>2 DEF CallbackInv, NoCall
  <2>5. CASE ~(\E added \in BOOLEAN : AddPendingCall(added)) /\ ~EnterCriticalSection
             /\ ~CloseEvent /\ ~FreeInfo
    <3>1. /\ UNCHANGED <<where, callback, queued, call, info>>
          /\ pc' \notin {"check", "close", "free"}
      BY <1>4, <2>5 DEF DoAttach, CheckFails, WaitForEvent,
           Attempt, LeaveLoop, Snapshot, EndPass, SkipThread, SuspendThread,
           CheckCurrent, GilEnsure, InitThreads, GilRelease, ResumeThreads, GiveUp, TakeGil,
           RunSimpleString, process
    <3> QED
      BY <3>1 DEF CallbackInv
  <2> QED
    BY <2>1, <2>2, <2>3, <2>4, <2>5
<1>5. CASE OpenSharedMemory
  <2>1. /\ UNCHANGED <<where, queued, callback, info, completed>>
        /\ pc' = "check" /\ call' = call + 1
    BY <1>5 DEF OpenSharedMemory, Begin, process
  <2>2. call' \notin queued /\ callback.of # call' /\ 1 .. call \subseteq 1 .. call'
    BY <1>t, <2>1 DEF CallbackInv, NoCall
  <2> QED
    BY <2>1, <2>2 DEF CallbackInv
<1>6. CASE AttachReturns
    BY <1>6 DEF AttachReturns, process, CallbackInv
<1>7. CASE Next /\ ~Target /\ ~OpenSharedMemory /\ ~AttachReturns
  <2>1. UNCHANGED attachVars
    BY <1>7, Frames DEF Next, RunCodeInThread, LoadLibrary, LoadLibraryFails,
                        AttachDllLoads, CannotRun, Notify, FreeLibraryAndExitThread
  <2> QED
    BY <1>1, <2>1
<1> QED
    BY <1>1, <1>2, <1>3, <1>4, <1>5, <1>6, <1>7 DEF Next, Target, vars

\* AttachCallback never touches a structure that DoAttach() has freed, nor sets an
\* event that it has closed, however late the main thread gets to call it.
THEOREM CallbackIsSafe == Spec => []CallbackSafe
<1>1. Spec => []CallbackInv
    BY InitCallback, CallbackInvStep, BasicInvariant, PTL DEF Spec
<1>2. Basic /\ CallbackInv => CallbackSafe
    BY DEF Basic, Types, NativeTypes, CallbackType, CallbackInv, CallbackSafe
<1> QED
    BY <1>1, <1>2, BasicInvariant, PTL

-----------------------------------------------------------------------------
(***************************************************************************)
(* Suspended threads, and who executes Python.  Before there is a GIL only *)
(* the main thread executes Python, and DoAttach() creates one only while  *)
(* the main thread is suspended outside of Python; afterwards whoever      *)
(* executes Python is current.                                             *)
(***************************************************************************)
InPython == {"python", "callback"}

SuspendInv ==
    /\ threadMap = suspended
    /\ pc \notin Searching => suspended = {}

GilInv ==
    /\ \A t \in Threads : where[t] \in InPython => current = t
    /\ ~inited => \A t \in Others : where[t] \notin InPython
    /\ where[Main] \notin {"unborn", "gone"}
    /\ pc = "suspend" /\ ~inited => Main \in todo \cup threadMap
    /\ pc = "current" /\ ~inited => Main \in suspended
    /\ pc \in {"new", "init"} => ~inited /\ Main \in suspended
    /\ pc = "new" => current = None
    /\ pc \in {"release", "run"} => inited
    /\ pc \in {"init", "release", "run"} => current = Att

LEMMA InitGil == Init => SuspendInv /\ GilInv
<1> SUFFICES ASSUME Init PROVE SuspendInv /\ GilInv
    OBVIOUS
<1>1. \A t \in Threads : where[t] = IF t = Main THEN "python" ELSE "unborn"
    BY DEF Init, AttachInit
<1> QED
    BY <1>1, Distinct DEF Init, AttachInit, SuspendInv, GilInv, InPython, Threads

LEMMA SuspendStep ==
    ASSUME Basic, SuspendInv, [Next]_vars
    PROVE  SuspendInv'
<1> USE DEF SuspendInv, Searching
<1>1. CASE UNCHANGED <<pc, suspended, threadMap>>
    BY <1>1
<1>2. CASE DoAttach
  <2>1. CASE \E t \in Threads : SkipThread(t) \/ SuspendThread(t)
    BY <2>1 DEF SkipThread, SuspendThread
  <2>2. CASE ResumeThreads
    BY <2>2 DEF ResumeThreads
  <2>3. CASE /\ ~ResumeThreads
             /\ ~\E t \in Threads : SkipThread(t) \/ SuspendThread(t)
    <3>1. UNCHANGED <<suspended, threadMap>> /\ (pc \in Searching => pc' \in Searching)
      BY <1>2, <2>3 DEF DoAttach, CheckFails, AddPendingCall, WaitForEvent, EnterCriticalSection,
           CloseEvent, FreeInfo, Attempt, LeaveLoop, Snapshot, EndPass,
           CheckCurrent, GilEnsure, InitThreads, GilRelease, GiveUp, TakeGil,
           RunSimpleString, search
    <3> QED
      BY <3>1
  <2> QED
    BY <2>1, <2>2, <2>3
<1>3. CASE OpenSharedMemory \/ AttachReturns
  <2>1. pc \in {"idle", "done"} /\ UNCHANGED <<suspended, threadMap>>
    BY <1>3 DEF OpenSharedMemory, AttachReturns, Begin, search, Basic, RunnerOK
  <2> QED
    BY <2>1
<1>4. CASE UNCHANGED vars
    BY <1>1, <1>4 DEF vars, attachVars, search
<1>5. CASE Next /\ ~DoAttach /\ ~OpenSharedMemory /\ ~AttachReturns
  <2>1. UNCHANGED <<pc, suspended, threadMap>>
    <3>1. CASE Execute \/ AttachCallback
      BY <3>1 DEF Execute, AttachCallback, CallbackStart, CallbackInit, CallbackComplete,
                  CallbackSetEvent, CallbackLeave, search
    <3>2. CASE ~Execute /\ ~AttachCallback
      <4>1. UNCHANGED attachVars
        BY <1>5, <3>2, Frames DEF Next, Target, RunCodeInThread, LoadLibrary,
              LoadLibraryFails, AttachDllLoads, CannotRun, Notify, FreeLibraryAndExitThread
      <4> QED
        BY <4>1 DEF attachVars, search
    <3> QED
      BY <3>1, <3>2
  <2> QED
    BY <1>1, <2>1
<1> QED
    BY <1>2, <1>3, <1>4, <1>5

\* Every thread that DoAttach() suspended has been resumed when it goes on to wait
\* for the GIL or returns, after any number of attempts.
THEOREM ThreadsAreResumed == Spec => []NobodyLeftSuspended
<1>1. Spec => []SuspendInv
  <2>1. Init => SuspendInv
    BY InitGil
  <2> QED
    BY <2>1, SuspendStep, BasicInvariant, PTL DEF Spec
<1>2. SuspendInv => NobodyLeftSuspended
    BY DEF SuspendInv, NobodyLeftSuspended, Searching
<1> QED
    BY <1>1, <1>2, PTL

\* The program's threads enter and leave Python.
LEMMA ExecuteGil ==
    ASSUME Basic, SuspendInv, GilInv, Execute
    PROVE  GilInv'
<1>t. where \in [Threads -> Places] /\ Threads = {Main} \cup Others
    BY DEF Basic, Types, NativeTypes, Threads
<1>u. UNCHANGED <<suspended, pc, todo, threadMap>>
    BY DEF Execute, search
<1>s. pc \in {"new", "init"} \/ (pc = "current" /\ ~inited) => ~Runs(Main)
    BY DEF GilInv, Runs
<1>1. PICK t \in Threads :
           \/ EnterNative(t) \/ LeaveNative(t)
           \/ EnterHeap(t) \/ LeaveHeap(t)
           \/ EnterAddPendingCall(t) \/ LeaveAddPendingCall(t)
           \/ \E u \in Threads : StartPython(t, u) \/ StartNative(t, u)
           \/ Exit(t)
    BY DEF Execute
<1>2. CASE EnterNative(t)
  <2>1. /\ current = t /\ current' = None /\ inited' = inited
        /\ where' = [where EXCEPT ![t] = "native"]
    BY <1>2 DEF EnterNative, GilInv, InPython
  <2> QED
    BY <1>t, <1>u, <2>1, Distinct DEF GilInv, InPython
<1>3. CASE LeaveNative(t)
  <2>1. /\ Runs(t) /\ where[t] = "native" /\ inited' = inited
        /\ IF inited THEN current = None ELSE t = Main
        /\ where' = [where EXCEPT ![t] = "python"] /\ current' = t
    BY <1>3 DEF LeaveNative
  <2>2. \A u \in Threads : where[u] \notin InPython
    BY <1>t, <2>1, Distinct DEF GilInv, InPython
  <2>3. pc \notin {"new", "init", "release", "run"}
    BY <1>s, <2>1, Distinct DEF GilInv
  <2> QED
    BY <1>t, <1>u, <2>1, <2>2, <2>3 DEF GilInv, InPython
<1>4. CASE \/ EnterHeap(t) \/ LeaveHeap(t) \/ EnterAddPendingCall(t) \/ LeaveAddPendingCall(t)
           \/ Exit(t)
  <2>1. /\ UNCHANGED <<inited, current>>
        /\ \E p \in {"native", "heap", "adding", "gone"} :
              where' = [where EXCEPT ![t] = p] /\ (p = "gone" => t # Main)
    BY <1>4 DEF EnterHeap, LeaveHeap, EnterAddPendingCall, LeaveAddPendingCall, Exit
  <2> QED
    BY <1>t, <1>u, <2>1 DEF GilInv, InPython
<1>5. CASE \E u \in Threads : StartPython(t, u) \/ StartNative(t, u)
  <2>1. PICK u \in Threads : StartPython(t, u) \/ StartNative(t, u)
    BY <1>5
  <2>2. where[u] = "unborn" /\ where' = [where EXCEPT ![u] = "native"] /\ current' = current
    BY <2>1 DEF StartPython, StartNative
  <2>3. CASE inited' = inited
    BY <1>t, <1>u, <2>2, <2>3 DEF GilInv, InPython
  <2>4. CASE inited' # inited
    <3>1. where[t] = "python" /\ current = t /\ inited'
      BY <2>1, <2>4 DEF StartPython, StartNative, GilInv, InPython
    <3>2. pc \notin {"new", "init"}
      BY <1>s, <3>1, Distinct, <1>t DEF GilInv
    <3> QED
      BY <1>t, <1>u, <2>2, <3>1, <3>2 DEF GilInv, InPython
  <2> QED
    BY <2>3, <2>4
<1> QED
    BY <1>1, <1>2, <1>3, <1>4, <1>5

\* The main thread calls AttachCallback.
LEMMA CallbackGil ==
    ASSUME Basic, CallbackInv, SuspendInv, GilInv, AttachCallback
    PROVE  GilInv'
<1>t. where \in [Threads -> Places] /\ Main \in Threads
    BY Distinct DEF Basic, Types, NativeTypes
<1>u. UNCHANGED <<suspended, pc, todo, threadMap, current>> /\ Runs(Main)
    BY DEF AttachCallback, CallbackStart, CallbackInit, CallbackComplete, CallbackSetEvent,
           CallbackLeave, search, process
<1>1. where[Main] \in InPython
    BY DEF AttachCallback, CallbackStart, CallbackInit, CallbackComplete, CallbackSetEvent,
           CallbackLeave, CallbackInv, InPython
<1>2. /\ where' = where \/ \E p \in InPython : where' = [where EXCEPT ![Main] = p]
      /\ inited' = inited \/ inited' = TRUE
    BY DEF AttachCallback, CallbackStart, CallbackInit, CallbackComplete, CallbackSetEvent,
           CallbackLeave, InPython, process
<1>3. pc \notin {"new", "init"}
    BY <1>u DEF GilInv, Runs
<1>4. /\ where'[Main] \in InPython
      /\ \A t \in Threads \ {Main} : where'[t] = where[t]
      /\ inited => inited'
    BY <1>t, <1>1, <1>2
<1> QED
    BY <1>t, <1>u, <1>1, <1>3, <1>4 DEF GilInv, InPython, Threads

\* DoAttach() looks for a moment when nobody executes Python.
LEMMA AttachGil ==
    ASSUME Basic, SuspendInv, GilInv, DoAttach
    PROVE  GilInv'
<1>t. /\ where \in [Threads -> Places] /\ Main \in Threads
      /\ inited \in BOOLEAN
    BY Distinct DEF Basic, Types, NativeTypes
<1>u. where' = where
    BY DEF DoAttach, CheckFails, AddPendingCall, WaitForEvent, EnterCriticalSection,
           CloseEvent, FreeInfo, Attempt, LeaveLoop, Snapshot, EndPass, SkipThread, SuspendThread,
           CheckCurrent, GilEnsure, InitThreads, GilRelease, ResumeThreads, GiveUp, TakeGil,
           RunSimpleString, process
<1>1. CASE Snapshot
  <2>1. pc' = "suspend" /\ Main \in todo' /\ UNCHANGED <<inited, current>>
    BY <1>t, <1>1 DEF Snapshot, Alive, GilInv, process
  <2> QED
    BY <1>u, <2>1 DEF GilInv
<1>2. CASE \E t \in Threads : SkipThread(t) \/ SuspendThread(t)
  <2>1. PICK t \in Threads : SkipThread(t) \/ SuspendThread(t)
    BY <1>2
  <2>2. UNCHANGED <<inited, current, pc>> /\ pc = "suspend"
    BY <2>1 DEF SkipThread, SuspendThread, process
  <2>3. ~inited => Main \in todo' \cup threadMap'
    <3>1. where[t] # "elsewhere" /\ Alive(Main)
      BY <1>t DEF Places, GilInv, Alive
    <3> QED
      BY <2>1, <2>2, <3>1 DEF SkipThread, SuspendThread, Rest, AddingPendingCall, FirstBytes,
                              GilInv
  <2> QED
    BY <1>u, <2>2, <2>3 DEF GilInv
<1>3. CASE EndPass
    BY <1>u, <1>3 DEF EndPass, GilInv, SuspendInv, process
<1>4. CASE CheckCurrent
    BY <1>u, <1>4 DEF CheckCurrent, GilInv, process
<1>5. CASE GilEnsure \/ TakeGil
    BY <1>t, <1>u, <1>5, Distinct DEF GilEnsure, TakeGil, GilInv, Threads
<1>6. CASE InitThreads
    BY <1>u, <1>6 DEF InitThreads, GilInv, search
<1>7. CASE GilRelease \/ RunSimpleString
    BY <1>t, <1>u, <1>7, Distinct DEF GilRelease, RunSimpleString, GilInv, Threads
<1>8. CASE ~Snapshot /\ ~EndPass /\ ~CheckCurrent /\ ~GilEnsure /\ ~TakeGil /\ ~InitThreads
           /\ ~GilRelease /\ ~RunSimpleString
           /\ ~\E t \in Threads : SkipThread(t) \/ SuspendThread(t)
  <2>1. /\ pc' \notin {"suspend", "current", "new", "init", "release", "run"}
        /\ UNCHANGED <<inited, current>>
    BY <1>8 DEF DoAttach, CheckFails, AddPendingCall, WaitForEvent, EnterCriticalSection,
           CloseEvent, FreeInfo, Attempt, LeaveLoop, ResumeThreads, GiveUp, process
  <2> QED
    BY <1>u, <2>1 DEF GilInv
<1> QED
    BY <1>1, <1>2, <1>3, <1>4, <1>5, <1>6, <1>7, <1>8

LEMMA GilStep ==
    ASSUME Basic, CallbackInv, SuspendInv, GilInv, [Next]_vars
    PROVE  GilInv'
<1>1. CASE UNCHANGED attachVars
    BY <1>1 DEF attachVars, process, search, GilInv
<1>2. CASE Target
    BY <1>2, ExecuteGil, CallbackGil, AttachGil DEF Target
<1>3. CASE OpenSharedMemory \/ AttachReturns
  <2>1. UNCHANGED <<where, inited, current>> /\ pc' \in {"check", "idle"}
    BY <1>3 DEF OpenSharedMemory, AttachReturns, Begin, process
  <2> QED
    BY <2>1 DEF GilInv
<1>4. CASE Next /\ ~Target /\ ~OpenSharedMemory /\ ~AttachReturns
    BY <1>1, <1>4, Frames DEF Next, RunCodeInThread, LoadLibrary, LoadLibraryFails,
                              AttachDllLoads, CannotRun, Notify, FreeLibraryAndExitThread
<1> QED
    BY <1>1, <1>2, <1>3, <1>4 DEF vars

NativeInv == Basic /\ CallbackInv /\ SuspendInv /\ GilInv

LEMMA NativeInvariant == Spec => []NativeInv
<1>1. Init => NativeInv
    BY InitBasic, InitCallback, InitGil DEF NativeInv
<1>2. NativeInv /\ [Next]_vars => NativeInv'
    BY StepBasic, CallbackInvStep, SuspendStep, GilStep DEF NativeInv
<1> QED
    BY <1>1, <1>2, PTL DEF Spec

\* A set whose members are all equal has at most one.
LEMMA AtMostOne ==
    ASSUME NEW S, \A x, y \in S : x = y
    PROVE  Cardinality(S) <= 1
<1>1. CASE S = {}
    BY <1>1, FS_EmptySet
<1>2. CASE S # {}
  <2>1. PICK x \in S : TRUE
    BY <1>2
  <2>2. S = {x}
    BY <2>1
  <2> QED
    BY <2>2, FS_Singleton
<1> QED
    BY <1>1, <1>2

\* At no time do two threads execute Python, whether there was a GIL all along, the
\* main thread created it in AttachCallback, or DoAttach() created it while the
\* others were suspended.
THEOREM PythonIsExclusive == Spec => []OneThreadInPython
<1>1. ASSUME NativeInv
      PROVE  OneThreadInPython
  <2> DEFINE S == {t \in Threads : where[t] \in {"python", "callback"}}
                    \cup (IF pc \in {"init", "release", "run"} THEN {Att} ELSE {})
  <2>1. \A x \in S : current = x
    BY <1>1 DEF NativeInv, GilInv, InPython
  <2>2. \A x, y \in S : x = y
    BY <2>1
  <2>3. Cardinality(S) <= 1
    BY <2>2, AtMostOne
  <2> QED
    BY <2>3 DEF OneThreadInPython
<1> QED
    BY <1>1, NativeInvariant, PTL

-----------------------------------------------------------------------------
(***************************************************************************)
(* The attaching process and the library's thread.  As long as no process  *)
(* stopped waiting too early, the thread works for the process that has    *)
(* the mutex and that started it, with the code that this process wrote,   *)
(* and the event is set only after that code was run or found out of reach.*)
(***************************************************************************)
DoneOK == pc = "done" => code[job] # Unknown

Awaits == mutex \in Injectors /\ step[mutex] \in {"load", "wait"} /\ mutex \notin loading

\* The code of i was run or refused, or its thread could not get at it.
Over(i) == code[i] # Unknown \/ i \in skipped

ProtocolOK ==
    /\ \A i \in loading : step[i] = "load"
    /\ \A i \in Injectors : step[i] \in {"event", "inject", "load", "wait"} =>
            i \in mapping.handles /\ mapping.content = i
    /\ runner \in {"open", "attach", "notify"} => Awaits /\ ~event.set /\ owner = mutex
    /\ runner = "attach" => job = mutex
    /\ runner = "notify" => Over(mutex)
    /\ event.set => Awaits /\ Over(mutex)
    /\ \A i \in Injectors : result[i] = "finished" => Over(i)

\* A process that gave up does not come back.
GaveUpOK == \A i \in gaveUp : step[i] \in {"cleanup", "done"} /\ result[i] # "finished"

ProtocolInv ==
    /\ DoneOK
    /\ GaveUpOK
    /\ gaveUp = {} => ProtocolOK

LEMMA InitProtocol == Init => ProtocolInv
BY DEF Init, AttachInit, ProtocolInv, DoneOK, GaveUpOK, ProtocolOK, Awaits, NoEvent, NoMapping, None

\* The target runs code, and never forgets that it did.
LEMMA CodeIsKept ==
    ASSUME Basic, DoneOK, Target
    PROVE  DoneOK' /\ \A c \in Codes : code[c] # Unknown => code'[c] # Unknown
<1>t. code \in [Codes -> {Unknown, 0, 8, Refused}] /\ (pc # "idle" => job \in Codes)
    BY DEF Basic, Types, NativeTypes, RunnerOK
<1>1. CASE Execute \/ AttachCallback
    BY <1>1 DEF Execute, AttachCallback, CallbackStart, CallbackInit, CallbackComplete,
                CallbackSetEvent, CallbackLeave, DoneOK
<1>2. CASE CheckFails \/ GiveUp \/ RunSimpleString
  <2>1. /\ pc # "idle" /\ job' = job
        /\ \E c \in {0, 8, Refused} : code' = [code EXCEPT ![job] = c]
    BY <1>2 DEF CheckFails, GiveUp, RunSimpleString
  <2> QED
    BY <1>t, <2>1 DEF DoneOK, Unknown, Refused
<1>3. CASE DoAttach /\ ~CheckFails /\ ~GiveUp /\ ~RunSimpleString
  <2>1. code' = code /\ pc' # "done"
    BY <1>3 DEF DoAttach, AddPendingCall, WaitForEvent, EnterCriticalSection,
           CloseEvent, FreeInfo, Attempt, LeaveLoop, Snapshot, EndPass, SkipThread, SuspendThread,
           CheckCurrent, GilEnsure, InitThreads, GilRelease, ResumeThreads, TakeGil
  <2> QED
    BY <2>1 DEF DoneOK
<1> QED
    BY <1>1, <1>2, <1>3 DEF Target

LEMMA TargetProtocol ==
    ASSUME Basic, ProtocolInv, Target
    PROVE  ProtocolInv'
<1>1. UNCHANGED <<injection, mapping, event, loaded, thread>>
    BY Frames
<1>2. DoneOK' /\ \A c \in Codes : code[c] # Unknown => code'[c] # Unknown
    BY CodeIsKept DEF ProtocolInv
<1>3. job' = job
    BY DEF Target, Execute, AttachCallback, CallbackStart, CallbackInit, CallbackComplete,
           CallbackSetEvent, CallbackLeave, DoAttach, CheckFails, AddPendingCall, WaitForEvent,
           EnterCriticalSection, CloseEvent, FreeInfo, Attempt, LeaveLoop, Snapshot, EndPass,
           SkipThread, SuspendThread, CheckCurrent, GilEnsure, InitThreads, GilRelease,
           ResumeThreads, GiveUp, TakeGil, RunSimpleString
<1>4. ASSUME ProtocolOK PROVE ProtocolOK'
  <2>1. \A i \in Injectors : Over(i) => Over(i)'
    BY <1>1, <1>2 DEF Over, thread
  <2>2. mutex \in Injectors => (Over(mutex) => Over(mutex)')
    BY <1>1, <2>1 DEF injection
  <2> QED
    BY <1>1, <1>3, <1>4, <2>1, <2>2 DEF ProtocolOK, Awaits, injection, thread
<1>5. GaveUpOK'
    BY <1>1 DEF ProtocolInv, GaveUpOK, injection
<1> QED
    BY <1>1, <1>2, <1>4, <1>5 DEF ProtocolInv, injection

\* Exactly the process that has the mutex is about to attach.
LEMMA HolderIsUnique ==
    ASSUME Basic, NEW i \in Injectors, step[i] \in Busy
    PROVE  mutex = i /\ \A j \in Injectors : step[j] \in Busy => j = i
BY DEF Basic, MutexOK

LEMMA ProcessProtocol ==
    ASSUME Basic, ProtocolInv, RunPythonCode
    PROVE  ProtocolInv'
<1>t. /\ step \in [Injectors -> {"idle", "done"} \cup Busy]
      /\ result \in [Injectors -> {None, "finished", "timeout", "failed"}]
      /\ mapping \in [handles : SUBSET (Injectors \cup {Att}), content : Injectors \cup {None}]
      /\ event \in [handles : SUBSET Injectors, set : BOOLEAN]
      /\ loading \subseteq Injectors /\ gaveUp \subseteq Injectors
      /\ None \notin Injectors
    BY DEF Basic, Types, SharedTypes
<1>u. /\ UNCHANGED <<pc, job, code, runner, owner, skipped>>
      /\ \A i \in Injectors : Over(i)' <=> Over(i)
      /\ mutex' = mutex => (Over(mutex)' <=> Over(mutex))
    BY Frames DEF attachVars, thread, Over
<1>d. DoneOK'
    BY <1>u DEF ProtocolInv, DoneOK
<1>1. PICK i \in Injectors :
        \/ AcquireMutex(i) \/ MutexTimeout(i)
        \/ WriteToSharedMemory(i) \/ InjectAttachDll(i) \/ InjectionFails(i)
        \/ InjectRunCode(i) \/ Loaded(i) \/ LoadTimeout(i)
        \/ EventSet(i) \/ EventTimeout(i) \/ Cleanup(i)
    BY DEF RunPythonCode
<1>g. GaveUpOK'
  <2>1. GaveUpOK
    BY DEF ProtocolInv
  <2>2. CASE LoadTimeout(i) \/ EventTimeout(i)
    <3>1. /\ gaveUp' = gaveUp \cup {i} /\ step' = [step EXCEPT ![i] = "cleanup"]
          /\ result' = [result EXCEPT ![i] = result'[i]] /\ result'[i] # "finished"
      BY <1>t, <2>2 DEF LoadTimeout, EventTimeout, Go
    <3> QED
      BY <1>t, <2>1, <3>1 DEF GaveUpOK
  <2>3. CASE ~LoadTimeout(i) /\ ~EventTimeout(i)
    <3>1. /\ gaveUp' = gaveUp
          /\ \E s \in {"done"} \cup Busy : step' = [step EXCEPT ![i] = s] /\ (step[i] = "cleanup" => s = "done")
          /\ step[i] # "done"
          /\ step[i] = "cleanup" => result' = result
          /\ \A j \in Injectors \ {i} : result'[j] = result[j]
      BY <1>1, <1>t, <2>3 DEF AcquireMutex, MutexTimeout, WriteToSharedMemory, InjectAttachDll,
          InjectionFails, InjectRunCode, Loaded, EventSet, Cleanup, Go, Busy
    <3> QED
      BY <1>t, <2>1, <3>1 DEF GaveUpOK
  <2> QED
    BY <2>2, <2>3
<1>2. SUFFICES ASSUME gaveUp' = {} PROVE ProtocolOK'
    BY <1>d, <1>g DEF ProtocolInv
<1>3. gaveUp = {} /\ ~LoadTimeout(i) /\ ~EventTimeout(i)
    BY <1>1, <1>2 DEF AcquireMutex, MutexTimeout, WriteToSharedMemory, InjectAttachDll,
          InjectionFails, InjectRunCode, Loaded, LoadTimeout, EventSet, EventTimeout, Cleanup
<1>4. ProtocolOK
    BY <1>3 DEF ProtocolInv
<1>5. CASE AcquireMutex(i)
  <2>1. /\ mutex = None /\ step' = [step EXCEPT ![i] = "write"] /\ mutex' = i /\ step[i] = "idle"
        /\ UNCHANGED <<result, loading, mapping, event>>
    BY <1>5 DEF AcquireMutex, Go
  <2>2. ~event.set /\ runner \notin {"open", "attach", "notify"} /\ i \notin loading
    BY <1>t, <1>4, <2>1 DEF ProtocolOK, Awaits
  <2> QED
    BY <1>t, <1>u, <1>4, <2>1, <2>2 DEF ProtocolOK
<1>6. CASE MutexTimeout(i)
  <2>1. /\ step' = [step EXCEPT ![i] = "done"] /\ result' = [result EXCEPT ![i] = "failed"]
        /\ step[i] = "idle"
        /\ UNCHANGED <<mutex, loading, mapping, event>>
    BY <1>6 DEF MutexTimeout, Go
  <2>2. i # mutex \/ ~(step[mutex] \in {"load", "wait"})
    BY <2>1
  <2>3. i \notin loading /\ (Awaits => Awaits')
    BY <1>t, <1>4, <2>1, <2>2 DEF ProtocolOK, Awaits
  <2> QED
    BY <1>t, <1>u, <1>4, <2>1, <2>3 DEF ProtocolOK
<1>7. CASE WriteToSharedMemory(i)
  <2>1. /\ step[i] = "write" /\ step' = [step EXCEPT ![i] = "event"]
        /\ mapping' = [handles |-> mapping.handles \cup {i}, content |-> i]
        /\ UNCHANGED <<mutex, result, loading, event>>
    BY <1>7 DEF WriteToSharedMemory, Go
  <2>2. mutex = i /\ \A j \in Injectors : step[j] \in Busy => j = i
    BY <2>1, HolderIsUnique DEF Busy
  <2>3. ~Awaits /\ i \notin loading
    BY <1>4, <2>1, <2>2 DEF Awaits, ProtocolOK
  <2>4. i \in mapping'.handles /\ mapping'.content = i
    BY <2>1
  <2> QED
    BY <1>t, <1>u, <1>4, <2>1, <2>2, <2>3, <2>4 DEF ProtocolOK, Busy
<1>8. CASE InjectAttachDll(i) \/ InjectRunCode(i) \/ InjectionFails(i)
  <2>1. /\ step[i] \in {"event", "inject"} /\ UNCHANGED <<mutex, mapping>>
        /\ \/ step' = [step EXCEPT ![i] = "inject"] /\ UNCHANGED <<loading, result>>
           \/ step' = [step EXCEPT ![i] = "load"] /\ UNCHANGED result
              /\ loading' = loading \cup {i}
           \/ step' = [step EXCEPT ![i] = "cleanup"] /\ UNCHANGED loading
              /\ result' = [result EXCEPT ![i] = "failed"]
    BY <1>8 DEF InjectAttachDll, InjectRunCode, InjectionFails, Go
  <2>2. mutex = i /\ \A j \in Injectors : step[j] \in Busy => j = i
    BY <2>1, HolderIsUnique DEF Busy
  <2>3. event'.set = event.set
    BY <1>t, <1>8 DEF InjectAttachDll, InjectRunCode, InjectionFails
  <2>4. ~Awaits /\ i \notin loading
    BY <1>4, <2>1, <2>2 DEF Awaits, ProtocolOK
  <2> QED
    BY <1>t, <1>u, <1>4, <2>1, <2>2, <2>3, <2>4 DEF ProtocolOK, Busy
<1>9. CASE Loaded(i)
  <2>1. /\ step[i] = "load" /\ i \notin loading /\ step' = [step EXCEPT ![i] = "wait"]
        /\ UNCHANGED <<mutex, mapping, result, loading, event>>
    BY <1>9 DEF Loaded, Go
  <2>2. Awaits => Awaits'
    BY <1>t, <2>1 DEF Awaits
  <2> QED
    BY <1>t, <1>u, <1>4, <2>1, <2>2 DEF ProtocolOK
<1>10. CASE EventSet(i)
  <2>1. /\ step[i] = "wait" /\ event.set /\ ~event'.set /\ step' = [step EXCEPT ![i] = "cleanup"]
        /\ result' = [result EXCEPT ![i] = "finished"]
        /\ UNCHANGED <<mutex, mapping, loading>>
    BY <1>t, <1>10 DEF EventSet, Go
  <2>2. mutex = i /\ Over(i)
    BY <1>4, <2>1, HolderIsUnique DEF Busy, ProtocolOK
  <2>3. runner \notin {"open", "attach", "notify"} /\ i \notin loading
    BY <1>4, <2>1, <2>2 DEF ProtocolOK, Awaits
  <2> QED
    BY <1>t, <1>u, <1>4, <2>1, <2>2, <2>3 DEF ProtocolOK
<1>11. CASE Cleanup(i)
  <2>1. /\ step[i] = "cleanup" /\ mutex' = None /\ step' = [step EXCEPT ![i] = "done"]
        /\ UNCHANGED <<result, loading>>
        /\ event' = NoEvent \/ event' = [event EXCEPT !.handles = @ \ {i}]
    BY <1>11 DEF Cleanup, Go, Close
  <2>2. mutex = i /\ \A j \in Injectors : step[j] \in Busy => j = i
    BY <2>1, HolderIsUnique DEF Busy
  <2>3. ~Awaits /\ i \notin loading
    BY <1>4, <2>1, <2>2 DEF Awaits, ProtocolOK
  <2>4. ~event.set /\ ~event'.set
    BY <1>t, <1>4, <2>1, <2>3 DEF NoEvent, ProtocolOK
  <2> QED
    BY <1>t, <1>u, <1>4, <2>1, <2>2, <2>3, <2>4 DEF ProtocolOK, Busy
<1> QED
    BY <1>1, <1>3, <1>5, <1>6, <1>7, <1>8, <1>9, <1>10, <1>11

LEMMA RunnerProtocol ==
    ASSUME Basic, ProtocolInv, RunCodeInThread
    PROVE  ProtocolInv'
<1>t. /\ step \in [Injectors -> {"idle", "done"} \cup Busy]
      /\ mapping \in [handles : SUBSET (Injectors \cup {Att}), content : Injectors \cup {None}]
      /\ event \in [handles : SUBSET Injectors, set : BOOLEAN]
      /\ loading \subseteq Injectors /\ Att \notin Injectors
    BY DEF Basic, Types, SharedTypes
<1>r. /\ runner = "attach" <=> pc # "idle"
      /\ runner # "none" => loaded > 0
    BY DEF Basic, RunnerOK
<1>1. DoneOK /\ GaveUpOK /\ (gaveUp = {} => ProtocolOK)
    BY DEF ProtocolInv
<1>g. GaveUpOK' /\ gaveUp' = gaveUp
    BY <1>1 DEF RunCodeInThread, LoadLibrary, LoadLibraryFails, AttachDllLoads, OpenSharedMemory,
        CannotRun, AttachReturns, Notify, FreeLibraryAndExitThread, injection, GaveUpOK
<1>a. CASE AttachDllLoads \/ \E i \in Injectors : LoadLibraryFails(i)
  <2>1. /\ loading' \subseteq loading
        /\ UNCHANGED <<pc, job, code, step, mutex, mapping, event, result, runner, owner, skipped>>
    BY <1>a DEF AttachDllLoads, LoadLibraryFails, attachVars, thread
  <2>2. (Awaits => Awaits') /\ DoneOK'
    BY <1>1, <2>1 DEF Awaits, DoneOK
  <2>3. \A i : Over(i)' = Over(i)
    BY <2>1 DEF Over
  <2> QED
    BY <1>1, <1>g, <2>1, <2>2, <2>3 DEF ProtocolInv, ProtocolOK
<1>2. CASE \E i \in Injectors : LoadLibrary(i)
  <2>0. PICK i \in Injectors : LoadLibrary(i)
    BY <1>2
  <2>1. /\ i \in loading /\ loading' = loading \ {i}
        /\ runner' = IF loaded = 0 THEN "open" ELSE runner
        /\ owner' = IF loaded = 0 THEN i ELSE owner
        /\ UNCHANGED <<pc, job, code, skipped, step, mutex, mapping, event, result>>
        /\ \A c : Over(c)' = Over(c)
    BY <2>0 DEF LoadLibrary, DllMain, attachVars, Over
  <2>2. DoneOK'
    BY <1>1, <2>1 DEF DoneOK
  <2>3. ASSUME ProtocolOK PROVE ProtocolOK'
    <3>1. step[i] = "load" /\ mutex = i
      BY <2>1, <2>3, HolderIsUnique DEF ProtocolOK, Busy
    <3>2. Awaits' /\ ~event.set
      BY <1>t, <2>1, <2>3, <3>1 DEF Awaits, ProtocolOK
    <3>3. \/ runner' = "open" /\ owner' = mutex
          \/ runner' = runner /\ owner' = owner
      BY <2>1, <3>1
    <3> QED
      BY <1>t, <2>1, <2>3, <3>2, <3>3 DEF ProtocolOK
  <2> QED
    BY <1>1, <1>g, <2>2, <2>3 DEF ProtocolInv
<1>3. CASE OpenSharedMemory
  <2>1. /\ runner = "open" /\ runner' = "attach" /\ pc' = "check" /\ job' = mapping.content
        /\ mapping' = [mapping EXCEPT !.handles = @ \cup {Att}]
        /\ UNCHANGED <<code, owner, skipped, step, mutex, loading, event, result>>
    BY <1>3 DEF OpenSharedMemory, Begin, injection
  <2>2. DoneOK'
    BY <2>1 DEF DoneOK
  <2>3. mapping'.content = mapping.content /\ mapping.handles \subseteq mapping'.handles
    BY <1>t, <2>1
  <2>4. ASSUME ProtocolOK PROVE ProtocolOK'
    <3>1. Awaits /\ ~event.set
      BY <2>1, <2>4 DEF ProtocolOK
    <3>2. mapping.content = mutex
      BY <2>4, <3>1 DEF ProtocolOK, Awaits
    <3>3. Awaits' /\ job' = mutex /\ \A i : Over(i)' = Over(i)
      BY <2>1, <3>1, <3>2 DEF Awaits, Over
    <3> QED
      BY <2>1, <2>3, <2>4, <3>1, <3>3 DEF ProtocolOK
  <2> QED
    BY <1>1, <1>g, <2>2, <2>4 DEF ProtocolInv
<1>4. CASE CannotRun
  <2>1. /\ runner = "open" /\ runner' = "notify" /\ skipped' = skipped \cup {owner}
        /\ UNCHANGED <<pc, job, code, owner, step, mutex, loading, event, result, mapping>>
    BY <1>4 DEF CannotRun, injection, attachVars
  <2>2. DoneOK'
    BY <1>1, <2>1 DEF DoneOK
  <2>3. ASSUME ProtocolOK PROVE ProtocolOK'
    <3>1. Awaits /\ ~event.set /\ owner = mutex
      BY <2>1, <2>3 DEF ProtocolOK
    <3>2. Awaits' /\ Over(mutex)' /\ \A i \in Injectors : Over(i) => Over(i)'
      BY <2>1, <3>1 DEF Awaits, Over
    <3> QED
      BY <2>1, <2>3, <3>1, <3>2 DEF ProtocolOK
  <2> QED
    BY <1>1, <1>g, <2>2, <2>3 DEF ProtocolInv
<1>5. CASE AttachReturns
  <2>1. /\ runner = "attach" /\ runner' = "notify" /\ pc = "done" /\ pc' = "idle"
        /\ mapping' = Close(mapping, NoMapping, Att)
        /\ UNCHANGED <<code, owner, skipped, step, mutex, loading, event, result>>
    BY <1>5 DEF AttachReturns, injection
  <2>2. DoneOK'
    BY <2>1 DEF DoneOK
  <2>3. ASSUME NEW i \in Injectors, i \in mapping.handles, mapping.content = i
        PROVE  i \in mapping'.handles /\ mapping'.content = i
    BY <1>t, <2>1, <2>3 DEF Close
  <2>4. ASSUME ProtocolOK PROVE ProtocolOK'
    <3>1. Awaits /\ ~event.set /\ Over(mutex)
      BY <1>1, <2>1, <2>4 DEF ProtocolOK, DoneOK, Over
    <3>2. Awaits' /\ \A i : Over(i)' = Over(i)
      BY <2>1, <3>1 DEF Awaits, Over
    <3> QED
      BY <2>1, <2>3, <2>4, <3>1, <3>2 DEF ProtocolOK
  <2> QED
    BY <1>1, <1>g, <2>2, <2>4 DEF ProtocolInv
<1>6. CASE Notify
  <2>1. /\ runner = "notify" /\ runner' = "free"
        /\ UNCHANGED <<pc, job, code, owner, skipped, step, mutex, loading, result, mapping>>
    BY <1>6 DEF Notify, injection, attachVars
  <2>2. DoneOK'
    BY <1>1, <2>1 DEF DoneOK
  <2>3. ASSUME ProtocolOK PROVE ProtocolOK'
    <3>1. Awaits' /\ Over(mutex) /\ \A i : Over(i)' = Over(i)
      BY <2>1, <2>3 DEF ProtocolOK, Awaits, Over
    <3> QED
      BY <2>1, <2>3, <3>1 DEF ProtocolOK
  <2> QED
    BY <1>1, <1>g, <2>2, <2>3 DEF ProtocolInv
<1>7. CASE FreeLibraryAndExitThread
  <2>1. /\ runner = "free" /\ runner' = "none"
        /\ UNCHANGED <<pc, job, code, skipped, step, mutex, loading, result, mapping, event>>
    BY <1>7 DEF FreeLibraryAndExitThread, injection, attachVars
  <2>2. (Awaits <=> Awaits') /\ DoneOK' /\ \A i : Over(i)' = Over(i)
    BY <1>1, <2>1 DEF Awaits, DoneOK, Over
  <2> QED
    BY <1>1, <1>g, <2>1, <2>2 DEF ProtocolInv, ProtocolOK
<1> QED
    BY <1>a, <1>2, <1>3, <1>4, <1>5, <1>6, <1>7 DEF RunCodeInThread

LEMMA ProtocolInvariant == Spec => []ProtocolInv
<1>1. Basic /\ ProtocolInv /\ [Next]_vars => ProtocolInv'
  <2>1. ASSUME ProtocolInv, UNCHANGED vars PROVE ProtocolInv'
    BY <2>1 DEF vars, attachVars, injection, thread, ProtocolInv, DoneOK, GaveUpOK, ProtocolOK,
                Awaits, Over
  <2> QED
    BY <2>1, ProcessProtocol, RunnerProtocol, TargetProtocol DEF Next
<1> QED
    BY <1>1, InitProtocol, BasicInvariant, PTL DEF Spec

\* A process that saw the event set had its own code run or refused, or its own thread
\* could not get at the code, or another process had given up waiting.
THEOREM EventIsOwn == Spec => []EventMeansOver
<1>1. ASSUME Basic, ProtocolInv PROVE EventMeansOver
  <2>1. gaveUp \subseteq Injectors /\ \A i \in gaveUp : result[i] # "finished"
    BY <1>1 DEF Basic, Types, SharedTypes, ProtocolInv, GaveUpOK
  <2>2. CASE gaveUp = {}
    BY <1>1, <2>2 DEF ProtocolInv, ProtocolOK, Over, EventMeansOver
  <2>3. CASE gaveUp # {}
    BY <2>1, <2>3 DEF EventMeansOver
  <2> QED
    BY <2>2, <2>3
<1> QED
    BY <1>1, BasicInvariant, ProtocolInvariant, PTL

-----------------------------------------------------------------------------
(***************************************************************************)
(* The memory with the path of the library.                                *)
(***************************************************************************)

\* The remote thread finds the path, even if inject_dll() stopped waiting for it:
\* releasing the memory fails.
THEOREM PathIsThere == Spec => []PathOutlivesLoad
<1>1. Init => PathOutlivesLoad
    BY DEF Init, PathOutlivesLoad
<1>2. ASSUME PathOutlivesLoad, [Next]_vars PROVE PathOutlivesLoad'
  <2>1. CASE UNCHANGED vars \/ Target
    BY <1>2, <2>1 DEF vars, injection, Target, PathOutlivesLoad
  <2>2. CASE RunCodeInThread
    BY <1>2, <2>2 DEF RunCodeInThread, LoadLibrary, LoadLibraryFails, AttachDllLoads, OpenSharedMemory, CannotRun, AttachReturns,
           Notify, FreeLibraryAndExitThread, injection, PathOutlivesLoad
  <2>3. CASE RunPythonCode
    BY <1>2, <2>3 DEF RunPythonCode, AcquireMutex, MutexTimeout, WriteToSharedMemory, InjectAttachDll,
          InjectionFails, InjectRunCode, Loaded, LoadTimeout, EventSet, EventTimeout, Cleanup,
          VirtualFree, PathOutlivesLoad
  <2> QED
    BY <1>2, <2>1, <2>2, <2>3 DEF Next
<1> QED
    BY <1>1, <1>2, PTL DEF Spec

-----------------------------------------------------------------------------
(***************************************************************************)
(* Type correctness.                                                       *)
(***************************************************************************)

\* The loop of DoAttach() ends after MaxAttempts attempts.
AttemptsInv ==
    /\ attempts <= MaxAttempts
    /\ pc \in Searching => attempts < MaxAttempts

LEMMA AttemptsStep ==
    ASSUME Basic, AttemptsInv, [Next]_vars
    PROVE  AttemptsInv'
<1>t. attempts \in Nat /\ MaxAttempts \in Nat \ {0}
    BY DEF Basic, Types, NativeTypes
<1>1. CASE UNCHANGED <<pc, attempts>>
    BY <1>1 DEF AttemptsInv
<1>2. CASE DoAttach /\ ~UNCHANGED <<pc, attempts>>
  <2>1. CASE ResumeThreads \/ LeaveLoop \/ Attempt
    BY <1>t, <2>1 DEF ResumeThreads, LeaveLoop, Attempt, AttemptsInv, Searching, search
  <2>2. CASE ~(ResumeThreads \/ LeaveLoop \/ Attempt)
    <3>1. attempts' = attempts /\ (pc' \in Searching => pc \in Searching)
      BY <1>2, <2>2 DEF DoAttach, CheckFails, AddPendingCall, WaitForEvent, EnterCriticalSection,
           CloseEvent, FreeInfo, Snapshot, EndPass, SkipThread, SuspendThread, CheckCurrent,
           GilEnsure, InitThreads, GilRelease, GiveUp, TakeGil, RunSimpleString, Searching, search
    <3> QED
      BY <3>1 DEF AttemptsInv
  <2> QED
    BY <2>1, <2>2
<1>3. CASE OpenSharedMemory \/ AttachReturns
  <2>1. attempts' = attempts /\ pc' \notin Searching
    BY <1>3 DEF OpenSharedMemory, AttachReturns, Begin, search, Searching
  <2> QED
    BY <2>1 DEF AttemptsInv
<1>4. CASE (Execute \/ AttachCallback) \/ UNCHANGED vars
    BY <1>1, <1>4 DEF Execute, AttachCallback, CallbackStart, CallbackInit, CallbackComplete,
                CallbackSetEvent, CallbackLeave, vars, attachVars, search
<1>5. CASE Next /\ ~Target /\ ~OpenSharedMemory /\ ~AttachReturns
    BY <1>1, <1>5, Frames DEF Next, RunCodeInThread, LoadLibrary, LoadLibraryFails, AttachDllLoads, CannotRun, Notify,
                              FreeLibraryAndExitThread, attachVars, search
<1> QED
    BY <1>1, <1>2, <1>3, <1>4, <1>5 DEF Next, Target

\* Type correctness of the target and of the processes that attach to it: the code that
\* is run and the references to the library are bounded by the processes, the attempts
\* by the loop, and the mutex is held exactly between acquiring and closing it.
THEOREM TypesAreKept == Spec => []TypeOK
<1>1. Init => AttemptsInv
    BY DEF Init, AttachInit, AttemptsInv, Searching
<1>2. Spec => []AttemptsInv
    BY <1>1, AttemptsStep, BasicInvariant, PTL DEF Spec
<1>3. ASSUME NativeInv, AttemptsInv PROVE AttachTypeOK
  <2>1. Basic /\ CallbackInv /\ GilInv
    BY <1>3 DEF NativeInv
  <2>2. queued \subseteq Calls
    BY <2>1, CallBound DEF CallbackInv
  <2>3. call \in 0 .. Cardinality(Codes)
    BY <2>1, CallBound, CallsType, LandedFinite DEF Basic, CountOK, Types, NativeTypes
  <2>4. \A c \in Calls : info[c].cs \in {None, Main, Att}
    BY <2>1 DEF Basic, Types, NativeTypes, InfoType
  <2>5. callback.at \in {"none", "init", "enter", "set", "leave"}
    BY <2>1 DEF Basic, Types, NativeTypes, CallbackType
  <2>6. \A t \in Threads : inited /\ where[t] \in {"python", "callback"} => current = t
    BY <2>1 DEF GilInv, InPython
  <2>7. where[Main] = "callback" <=> callback # NoCall
    BY <2>1 DEF CallbackInv
  <2>8. attempts \in 0 .. MaxAttempts
    BY <1>3, <2>1 DEF Basic, Types, NativeTypes, AttemptsInv
  <2>9. /\ where \in [Threads -> Places] /\ current \in Threads \cup {None, Att}
        /\ heap \in Threads \cup {None}
        /\ suspended \subseteq Threads /\ threadMap \subseteq Threads /\ todo \subseteq Threads
        /\ job \in Codes \cup {None} /\ code \in [Codes -> {Unknown, 0, 8, Refused}]
    BY <2>1 DEF Basic, Types, NativeTypes
  <2> QED
    BY <2>2, <2>3, <2>4, <2>5, <2>6, <2>7, <2>8, <2>9 DEF AttachTypeOK, Places
<1>4. ASSUME NativeInv, AttemptsInv PROVE TypeOK
  <2>1. Basic
    BY <1>4 DEF NativeInv
  <2>2. loaded \in Nat /\ loaded <= Cardinality(Injectors)
    BY <2>1, CallsType, LandedFinite DEF Basic, CountOK, Types, SharedTypes
  <2>3. runners \in 0 .. loaded /\ (runner = "attach" <=> pc # "idle")
    BY <2>1, <2>2 DEF Basic, RunnerOK, OneRunner
  <2>4. /\ mutex \in Injectors \cup {None}
        /\ result \in [Injectors -> {None, "finished", "timeout", "failed"}]
        /\ mapping.handles \subseteq Injectors \cup {Att} /\ event.handles \subseteq Injectors
    BY <2>1 DEF Basic, Types, SharedTypes
  <2>7. /\ attachDll \in {"none", "loading", "loaded"} /\ owner \in Injectors \cup {None}
        /\ skipped \subseteq Injectors /\ gaveUp \subseteq Injectors
    BY <2>1 DEF Basic, Types, SharedTypes
  <2>5. \A i \in Injectors : step[i] \in {"write", "event", "inject", "load", "wait", "cleanup"}
                                <=> mutex = i
    BY <2>1 DEF Basic, MutexOK, Busy
  <2>6. loaded \in 0 .. Cardinality(Injectors)
    BY <2>2, CallsType
  <2> QED
    BY <1>3, <1>4, <2>3, <2>4, <2>5, <2>6, <2>7 DEF TypeOK
<1> QED
    BY <1>2, <1>4, NativeInvariant, PTL

\* There is at most one thread in the target that runs code: the library's entry point is
\* called for the first reference only.
THEOREM RunnerIsUnique == Spec => []OneRunner
<1>1. Basic => OneRunner
    BY DEF Basic, RunnerOK
<1> QED
    BY <1>1, BasicInvariant, PTL
=============================================================================
