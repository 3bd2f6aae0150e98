----------------------------- MODULE Library_proofs -----------------------------
(***************************************************************************)
(* Theorems about Library, for any number of objects, cards, calls and     *)
(* faults: types for any client; the rule of one API, that nothing is left *)
(* behind, that no global is used that is gone, and the pairing slots, for *)
(* a tidy client with any number of threads.                               *)
(***************************************************************************)
EXTENDS Library, TLAPS

-----------------------------------------------------------------------------
\* Types.

\* What the constants are assumed to be, in the form the proofs use.
LEMMA Constants ==
    /\ MaxCalls \in Nat /\ MaxFaults \in Nat
    /\ None \notin Objects /\ None \notin Cards /\ None \notin Op
BY LibraryAssumption

\* The objects' records, as the actions change them.
LEMMA ObjectRecords ==
    /\ Free \in Object
    /\ \A x \in Object :
         /\ \A l \in {"idle", "running", "stopping"} : [x EXCEPT !.life = l] \in Object
         /\ \A c \in Cards : [x EXCEPT !.doing = c] \in Object
         /\ [x EXCEPT !.doing = None, !.writing = FALSE] \in Object
         /\ x.doing # None =>
              [x EXCEPT !.values = @ \cup {x.doing}, !.writing = TRUE] \in Object
    /\ \A kind \in {"flow", "session"}, S \in SUBSET Cards :
         [Free EXCEPT !.kind = kind, !.values = S] \in Object
<1>1. Free \in Object
  BY DEF Free, Object
<1>2. ASSUME NEW x \in Object, NEW l \in {"idle", "running", "stopping"}
      PROVE  [x EXCEPT !.life = l] \in Object
  BY DEF Object
<1>3. ASSUME NEW x \in Object
      PROVE  /\ \A c \in Cards : [x EXCEPT !.doing = c] \in Object
             /\ [x EXCEPT !.doing = None, !.writing = FALSE] \in Object
  BY DEF Object
<1>4. ASSUME NEW x \in Object, x.doing # None
      PROVE  [x EXCEPT !.values = @ \cup {x.doing}, !.writing = TRUE] \in Object
  <2>1. x.values \cup {x.doing} \in SUBSET Cards
    BY <1>4 DEF Object
  <2>2. QED
    BY <2>1 DEF Object
<1>5. ASSUME NEW kind \in {"flow", "session"}, NEW S \in SUBSET Cards
      PROVE  [Free EXCEPT !.kind = kind, !.values = S] \in Object
  BY DEF Free, Object
<1>6. QED
  BY <1>1, <1>2, <1>3, <1>4, <1>5

ObjectsTypeOK ==
    /\ {globalFlow, keycardContext} \subseteq Objects \cup {None}
    /\ globalFlow # None => obj[globalFlow].kind = "flow"
    /\ keycardContext # None => obj[keycardContext].kind = "session"
    /\ obj \in [Objects -> Object]

\* A step changes the objects one at a time, and the kind of one only when it
\* is made: as the new global, from an object that is none.
LEMMA ObjectsTyped ==
    ASSUME ObjectsTypeOK, file \in File, Next
    PROVE  ObjectsTypeOK'
<1> USE DEF ObjectsTypeOK
<1>0. /\ obj \in [Objects -> Object] /\ None \notin Objects
      /\ {globalFlow, keycardContext} \subseteq Objects \cup {None}
  BY Constants
<1>1. ASSUME NEW o \in Objects, NEW x \in Object, obj' = [obj EXCEPT ![o] = x],
             x.kind = obj[o].kind,
             UNCHANGED globalFlow, keycardContext' \in {keycardContext, None}
      PROVE  ObjectsTypeOK'
  BY <1>0, <1>1
<1>2. ASSUME obj' = obj, globalFlow' \in {globalFlow, None}, keycardContext' \in {keycardContext, None}
      PROVE  ObjectsTypeOK'
  BY <1>0, <1>2
<1>3. ASSUME NEW t \in Threads, CallBy(t) PROVE ObjectsTypeOK'
  <2>1. UNCHANGED <<obj, globalFlow, keycardContext>>
    BY <1>3 DEF CallBy, CallInit, CallFlow, CallRPC, Call, api
  <2>2. QED
    BY <1>2, <2>1
<1>4. ASSUME NEW t \in Threads, InitFlow(t) PROVE ObjectsTypeOK'
  <2>1. CASE Unreadable
    BY <1>2, <1>4, <2>1 DEF InitFlow
  <2>2. CASE ~Unreadable
    <3>1. PICK o \in Fresh : globalFlow' = o /\ obj' = [obj EXCEPT ![o] = Opened("flow")]
      BY <1>4, <2>2 DEF InitFlow
    <3>2. Opened("flow") \in Object /\ Opened("flow").kind = "flow"
      BY ObjectRecords DEF Opened, File, Free
    <3>3. keycardContext' = keycardContext /\ o # keycardContext /\ o \in Objects
      BY <1>4, <3>1 DEF InitFlow, Fresh
    <3>4. QED
      BY <1>0, <3>1, <3>2, <3>3
  <2>3. QED
    BY <2>1, <2>2
<1>5. ASSUME NEW t \in Threads, StartService(t) PROVE ObjectsTypeOK'
  <2>1. CASE NotStarted /\ ~Unreadable
    <3>1. PICK o \in Fresh : keycardContext' = o /\ obj' = [obj EXCEPT ![o] = Opened("session")]
      BY <1>5, <2>1 DEF StartService
    <3>2. Opened("session") \in Object /\ Opened("session").kind = "session"
      BY ObjectRecords DEF Opened, File, Free
    <3>3. globalFlow' = globalFlow /\ o # globalFlow /\ o \in Objects
      BY <1>5, <3>1 DEF StartService, Fresh
    <3>4. QED
      BY <1>0, <3>1, <3>2, <3>3
  <2>2. CASE ~(NotStarted /\ ~Unreadable)
    BY <1>2, <1>5, <2>2 DEF StartService
  <2>3. QED
    BY <2>1, <2>2
<1>6. ASSUME NEW t \in Threads, UseFlow(t) \/ StartContext(t) PROVE ObjectsTypeOK'
  <2>1. UNCHANGED <<globalFlow, keycardContext>>
    BY <1>6 DEF UseFlow, StartContext, api
  <2>2. \/ obj' = obj
        \/ \E o \in {globalFlow, keycardContext}, l \in {"running", "stopping"} :
              o # None /\ obj' = [obj EXCEPT ![o].life = l]
    BY <1>6 DEF UseFlow, StartContext
  <2>3. ASSUME NEW o \in {globalFlow, keycardContext}, NEW l \in {"running", "stopping"},
               o # None, obj' = [obj EXCEPT ![o].life = l]
        PROVE  ObjectsTypeOK'
    <3>1. o \in Objects /\ obj[o] \in Object
      BY <1>0, <2>3
    <3> DEFINE x == [obj[o] EXCEPT !.life = l]
    <3>2. x \in Object
      BY <3>1, ObjectRecords
    <3>3. x.kind = obj[o].kind
      BY <3>1 DEF Object
    <3>4. obj' = [obj EXCEPT ![o] = x]
      BY <2>3
    <3> HIDE DEF x
    <3>5. QED
      BY <1>1, <2>1, <3>1, <3>2, <3>3, <3>4
  <2>4. QED
    BY <1>2, <2>1, <2>2, <2>3
<1>7. ASSUME NEW t \in Threads, StopService(t) PROVE ObjectsTypeOK'
  <2>1. globalFlow' = globalFlow /\ keycardContext' = None
    BY <1>7 DEF StopService
  <2>2. CASE obj' = obj
    BY <1>2, <2>1, <2>2
  <2>3. CASE keycardContext # None /\ obj' = [obj EXCEPT ![keycardContext].life = "stopping"]
    <3>1. keycardContext \in Objects /\ obj[keycardContext] \in Object
      BY <1>0, <2>3
    <3> DEFINE x == [obj[keycardContext] EXCEPT !.life = "stopping"]
    <3>2. x \in Object
      BY <3>1, ObjectRecords
    <3>3. x.kind = obj[keycardContext].kind
      BY <3>1 DEF Object
    <3>4. obj' = [obj EXCEPT ![keycardContext] = x]
      BY <2>3
    <3> HIDE DEF x
    <3>5. QED
      BY <1>1, <2>1, <3>1, <3>2, <3>3, <3>4
  <2>4. QED
    BY <1>7, <2>2, <2>3 DEF StopService
<1>8. ASSUME NEW t \in Threads, InitRPC(t) \/ Serve(t) PROVE ObjectsTypeOK'
  <2>1. UNCHANGED <<obj, globalFlow, keycardContext>>
    BY <1>8 DEF InitRPC, Serve, api
  <2>2. QED
    BY <1>2, <2>1
<1>9. ASSUME NEW o \in Objects, Work(o) PROVE ObjectsTypeOK'
  <2>1. obj[o] \in Object
    BY <1>0
  <2>2. UNCHANGED <<globalFlow, keycardContext>>
    BY <1>9 DEF Work, PairCard, BeginStore, EndStore, End, api
  <2>3. \E x \in Object : obj' = [obj EXCEPT ![o] = x] /\ x.kind = obj[o].kind
    <3>1. CASE \E c \in Cards : PairCard(o, c)
      <4>1. PICK c \in Cards : obj' = [obj EXCEPT ![o].doing = c]
        BY <3>1 DEF PairCard
      <4> DEFINE x == [obj[o] EXCEPT !.doing = c]
      <4>2. x \in Object
        BY <2>1, ObjectRecords
      <4>3. x.kind = obj[o].kind
        BY <2>1 DEF Object
      <4>4. QED
        BY <4>1, <4>2, <4>3
    <3>2. CASE BeginStore(o)
      <4> DEFINE x == [obj[o] EXCEPT !.values = @ \cup {obj[o].doing}, !.writing = TRUE]
      <4>1. x \in Object
        BY <2>1, <3>2, ObjectRecords DEF BeginStore
      <4>2. x.kind = obj[o].kind
        BY <2>1 DEF Object
      <4>3. obj' = [obj EXCEPT ![o] = x]
        BY <1>0, <3>2 DEF BeginStore
      <4>4. QED
        BY <4>1, <4>2, <4>3
    <3>3. CASE EndStore(o)
      <4> DEFINE x == [obj[o] EXCEPT !.doing = None, !.writing = FALSE]
      <4>0. x \in Object
        BY <2>1, ObjectRecords
      <4>1. x \in Object /\ x.kind = obj[o].kind
        BY <2>1, <4>0 DEF Object
      <4>2. obj' = [obj EXCEPT ![o] = x]
        BY <1>0, <3>3 DEF EndStore
      <4>3. QED
        BY <4>1, <4>2
    <3>4. CASE End(o)
      <4> DEFINE x == [obj[o] EXCEPT !.life = "idle"]
      <4>0. x \in Object
        BY <2>1, ObjectRecords
      <4>1. x \in Object /\ x.kind = obj[o].kind
        BY <2>1, <4>0 DEF Object
      <4>2. obj' = [obj EXCEPT ![o] = x]
        BY <1>0, <3>4 DEF End
      <4>3. QED
        BY <4>1, <4>2
    <3>5. QED
      BY <1>9, <3>1, <3>2, <3>3, <3>4 DEF Work
  <2>4. QED
    BY <1>1, <2>2, <2>3
<1>10. ASSUME ResetAPI \/ RemoveFile PROVE ObjectsTypeOK'
  <2>1. obj' = obj /\ globalFlow' \in {globalFlow, None} /\ keycardContext' = keycardContext
    BY <1>10 DEF ResetAPI, RemoveFile, api
  <2>2. QED
    BY <1>2, <2>1
<1>11. ASSUME Crash PROVE ObjectsTypeOK'
  BY <1>11, ObjectRecords DEF Crash
<1>12. QED
  BY <1>3, <1>4, <1>5, <1>6, <1>7, <1>8, <1>9, <1>10, <1>11 DEF Next, Body

\* The file is only rewritten from the pairings of an object.
LEMMA FileTyped ==
    ASSUME obj \in [Objects -> Object], file \in File, file.values # {} => file.state = "whole",
           Next
    PROVE  file' \in File /\ (file'.values # {} => file'.state = "whole")
<1>1. ASSUME NEW o \in Objects, Work(o)
      PROVE  file' = file \/ file' = Emptied \/ file' = [state |-> "whole", values |-> Written(o)]
  BY <1>1 DEF Work, PairCard, BeginStore, EndStore, End
<1>2. ASSUME NEW o \in Objects PROVE Written(o) \subseteq Cards
  BY DEF Written, Object
<1>3. ASSUME NEW t \in Threads, CallBy(t) \/ Body(t) PROVE file' = file
  BY <1>3 DEF CallBy, CallInit, CallFlow, CallRPC, Call, Body, InitFlow, InitRPC, UseFlow, Serve,
     StartService, StartContext, StopService
<1>4. ASSUME ResetAPI \/ Crash \/ RemoveFile
      PROVE  file' = file \/ file' = [state |-> "absent", values |-> {}]
  BY <1>4 DEF ResetAPI, Crash, RemoveFile
<1>5. QED
  BY <1>1, <1>2, <1>3, <1>4 DEF Next, File, Emptied

CallRecord == [op : Op \cup {None}, pc : {"idle", "checked", "served", "made"}]

\* A step changes one call.
LEMMA CallTyped ==
    ASSUME call \in [Threads -> CallRecord], Next
    PROVE  call' \in [Threads -> CallRecord]
<1>1. Idle \in CallRecord /\ \A op \in Op : [op |-> op, pc |-> "checked"] \in CallRecord
  BY DEF CallRecord, Idle
<1>2. \A x \in CallRecord, l \in {"served", "made"} : [x EXCEPT !.pc = l] \in CallRecord
  BY DEF CallRecord
<1>3. ASSUME NEW t \in Threads, CallBy(t) PROVE \E x \in CallRecord : call' = [call EXCEPT ![t] = x]
  <2>1. PICK op \in Op : Call(t, op)
    BY <1>3 DEF CallBy, CallInit, CallFlow, CallRPC, Op
  <2>2. QED
    BY <1>1, <2>1 DEF Call
<1>4. ASSUME NEW t \in Threads, Body(t) PROVE \E x \in CallRecord : call' = [call EXCEPT ![t] = x]
  <2>1. \/ call' = [call EXCEPT ![t] = Idle]
        \/ \E l \in {"served", "made"} : call' = [call EXCEPT ![t].pc = l]
    BY <1>4 DEF Body, InitFlow, InitRPC, UseFlow, Serve, StartService, StartContext, StopService,
       Return, GoTo
  <2>2. QED
    BY <1>1, <1>2, <2>1
<1>5. ASSUME NEW o \in Objects, Work(o) PROVE call' = call
  BY <1>5 DEF Work, PairCard, BeginStore, EndStore, End
<1>6. ASSUME ResetAPI \/ Crash \/ RemoveFile
      PROVE  call' = call \/ call' = [t \in Threads |-> Idle]
  BY <1>6 DEF ResetAPI, Crash, RemoveFile
<1>7. QED
  BY <1>1, <1>3, <1>4, <1>5, <1>6 DEF Next

\* The flags and the counters.
LEMMA CountersTyped ==
    ASSUME TypeOK, Next
    PROVE  /\ globalRPCServer' \in BOOLEAN /\ panicked' \in BOOLEAN
           /\ {used', lost'} \subseteq [Cards -> Nat]
           /\ calls' \in 0..MaxCalls /\ faults' \in 0..MaxFaults
<1>1. globalRPCServer' \in BOOLEAN
  <2>1. globalRPCServer' \in {globalRPCServer, TRUE, FALSE}
    <3>1. ASSUME NEW t \in Threads, CallBy(t) \/ Body(t)
          PROVE  globalRPCServer' \in {globalRPCServer, TRUE}
      BY <3>1 DEF CallBy, CallInit, CallFlow, CallRPC, Call, Body, InitFlow, InitRPC, UseFlow,
         Serve, StartService, StartContext, StopService, api
    <3>2. ASSUME NEW o \in Objects, Work(o) PROVE globalRPCServer' = globalRPCServer
      BY <3>2 DEF Work, PairCard, BeginStore, EndStore, End, api
    <3>3. QED
      BY <3>1, <3>2 DEF Next, ResetAPI, Crash, RemoveFile, api
  <2>2. globalRPCServer \in BOOLEAN
    BY DEF TypeOK
  <2>3. QED
    BY <2>1, <2>2
<1>2. panicked' \in BOOLEAN
  <2>1. panicked' \in {panicked, TRUE}
    <3>1. ASSUME NEW t \in Threads, CallBy(t) \/ Body(t) PROVE panicked' \in {panicked, TRUE}
      BY <3>1 DEF CallBy, CallInit, CallFlow, CallRPC, Call, Body, InitFlow, InitRPC, UseFlow,
         Serve, StartService, StartContext, StopService
    <3>2. ASSUME NEW o \in Objects, Work(o) PROVE panicked' = panicked
      BY <3>2 DEF Work, PairCard, BeginStore, EndStore, End
    <3>3. QED
      BY <3>1, <3>2 DEF Next, ResetAPI, Crash, RemoveFile
  <2>2. panicked \in BOOLEAN
    BY DEF TypeOK
  <2>3. QED
    BY <2>1, <2>2
<1>3. {used', lost'} \subseteq [Cards -> Nat]
  <2>1. used \in [Cards -> Nat] /\ lost \in [Cards -> Nat]
    BY DEF TypeOK
  <2>2. ASSUME NEW t \in Threads, CallBy(t) \/ Body(t) PROVE UNCHANGED <<used, lost>>
    BY <2>2 DEF CallBy, CallInit, CallFlow, CallRPC, Call, Body, InitFlow, InitRPC, UseFlow,
       Serve, StartService, StartContext, StopService, slots
  <2>3. ASSUME NEW o \in Objects, Work(o)
        PROVE  lost' = lost /\ (used' = used \/ \E c \in Cards : used' = [used EXCEPT ![c] = @ + 1])
    BY <2>3 DEF Work, PairCard, BeginStore, EndStore, End, slots
  <2>4. ASSUME ResetAPI \/ RemoveFile PROVE used' = used /\ lost' \in {used, lost}
    BY <2>4 DEF ResetAPI, RemoveFile, slots
  <2>5. ASSUME Crash PROVE used' = used /\ lost' \in [Cards -> Nat]
    BY <2>1, <2>5 DEF Crash
  <2>6. QED
    BY <2>1, <2>2, <2>3, <2>4, <2>5 DEF Next
<1>4. calls' \in 0..MaxCalls /\ faults' \in 0..MaxFaults
  <2>1. calls \in 0..MaxCalls /\ faults \in 0..MaxFaults /\ MaxCalls \in Nat /\ MaxFaults \in Nat
    BY Constants DEF TypeOK
  <2> DEFINE Called  == calls < MaxCalls /\ calls' = calls + 1
             Faulted == faults < MaxFaults /\ faults' = faults + 1
  <2>2. calls' = calls \/ Called
    <3>1. ASSUME NEW t \in Threads, CallBy(t) PROVE Called
      BY <3>1 DEF CallBy, CallInit, CallFlow, CallRPC, Call
    <3>2. ASSUME NEW t \in Threads, Body(t) PROVE calls' = calls
      BY <3>2 DEF Body, InitFlow, InitRPC, UseFlow, Serve, StartService, StartContext,
         StopService, bounds
    <3>3. ASSUME NEW o \in Objects, Work(o) PROVE calls' = calls
      BY <3>3 DEF Work, PairCard, BeginStore, EndStore, End, bounds
    <3>4. QED
      BY <3>1, <3>2, <3>3 DEF Next, ResetAPI, Crash, RemoveFile, bounds
  <2>3. faults' = faults \/ Faulted
    <3>1. ASSUME NEW t \in Threads, CallBy(t) PROVE faults' = faults
      BY <3>1 DEF CallBy, CallInit, CallFlow, CallRPC, Call
    <3>2. ASSUME NEW t \in Threads, Body(t) PROVE faults' = faults \/ Faulted
      BY <3>2 DEF Body, InitFlow, InitRPC, UseFlow, Serve, StartService, StartContext,
         StopService, Fault, bounds
    <3>3. ASSUME NEW o \in Objects, Work(o) PROVE faults' = faults \/ Faulted
      BY <3>3 DEF Work, PairCard, BeginStore, EndStore, End, Fault, bounds
    <3>4. QED
      BY <3>1, <3>2, <3>3 DEF Next, ResetAPI, Crash, RemoveFile, Fault, bounds
  <2>4. QED
    BY <2>1, <2>2, <2>3
<1>5. QED
  BY <1>1, <1>2, <1>3, <1>4

\* Types, for every action.
LEMMA TypeOKKept == TypeOK /\ [Next]_vars => TypeOK'
<1> SUFFICES ASSUME TypeOK, [Next]_vars PROVE TypeOK'
  OBVIOUS
<1>1. CASE Next
  <2>1. ObjectsTypeOK'
    BY <1>1, ObjectsTyped DEF TypeOK, ObjectsTypeOK
  <2>2. file' \in File /\ (file'.values # {} => file'.state = "whole")
    BY <1>1, FileTyped DEF TypeOK
  <2>3. call' \in [Threads -> CallRecord]
    BY <1>1, CallTyped DEF TypeOK, CallRecord
  <2>4. QED
    BY <1>1, <2>1, <2>2, <2>3, CountersTyped DEF TypeOK, ObjectsTypeOK, CallRecord
<1>2. CASE UNCHANGED vars
  BY <1>2 DEF TypeOK, vars, api, slots, bounds
<1>3. QED
  BY <1>1, <1>2

\* Nothing is there at first.
LEMMA TypeOKInitially == Init => TypeOK
<1> SUFFICES ASSUME Init PROVE TypeOK
  OBVIOUS
<1>1. obj \in [Objects -> Object] /\ file \in File /\ file.values = {}
  BY ObjectRecords DEF Init, File
<1>2. call \in [Threads -> CallRecord]
  BY DEF Init, Idle, CallRecord
<1>3. calls \in 0..MaxCalls /\ faults \in 0..MaxFaults
  BY Constants DEF Init
<1>4. {used, lost} \subseteq [Cards -> Nat]
  BY DEF Init
<1>5. /\ globalFlow = None /\ keycardContext = None
      /\ globalRPCServer \in BOOLEAN /\ panicked \in BOOLEAN
  BY DEF Init
<1>6. QED
  BY <1>1, <1>2, <1>3, <1>4, <1>5 DEF TypeOK, CallRecord

\* Every variable keeps its type for any client, and what the process holds
\* fits: the flow API holds a flow and the service a context, and a file that
\* has pairings in it was written to its end (store.go:42-58).
THEOREM TypeCorrect == Spec => []TypeOK
BY TypeOKInitially, TypeOKKept, PTL DEF Spec

-----------------------------------------------------------------------------
\* A tidy client.

\* An object that is at work, or that a call can set to work.
Current(o) == Alive(o) \/ o \in {globalFlow, keycardContext}

\* The globals agree with each other and with what runs.
APIFits ==
    /\ globalFlow # None => ~globalRPCServer
    /\ keycardContext # None => globalRPCServer
    /\ \A o, p \in Objects : Current(o) /\ Current(p) => o = p
    /\ \A o \in Objects : Alive(o) =>
         \/ obj[o].kind = "flow" /\ o = globalFlow
         \/ obj[o].kind = "session" /\ globalRPCServer
            /\ (obj[o].life = "running" => o = keycardContext)

\* What the calls have checked is still so: they are made one at a time, and
\* wait for what was stopped.
CallFits(t) == call[t].pc # "idle" =>
    /\ Calm /\ call[t].op # None
    /\ call[t].op = "KeycardInitFlow" =>
         ~globalRPCServer /\ (globalFlow # None => ~Alive(globalFlow))
    /\ call[t].op = "KeycardInitializeRPC" => globalFlow = None
    /\ call[t].op \in FlowOp => globalFlow # None
    /\ call[t].op \in {"Start", "Stop"} => globalRPCServer
    /\ call[t].pc = "made" => keycardContext # None

CallsFit ==
    /\ \A t \in Threads : CallFits(t)
    /\ \A t \in Threads : call[t].pc = "idle" => call[t] = Idle
    /\ \A t, u \in Threads : call[t].pc # "idle" /\ call[u].pc # "idle" => t = u

\* The object that is at work pairs only with cards that have a slot to spare;
\* so does the next one, which reads the file.
Doing(c) == \E o \in Objects : obj[o].doing = c
StoreFits(o) ==
    /\ obj[o].doing # None => Alive(o)
    /\ obj[o].writing => /\ obj[o].doing \in obj[o].values
                         /\ file.state = "torn"
    /\ Current(o) => \A c \in Cards :
         c \notin obj[o].values /\ obj[o].doing # c => used[c] <= lost[c]

SlotsFit ==
    /\ \A o \in Objects : StoreFits(o)
    /\ \A c \in Cards : used[c] <= 1 + lost[c]
    /\ file.state # "torn" => \A c \in Cards :
         c \notin file.values /\ ~Doing(c) => used[c] <= lost[c]

TidyInv ==
    /\ TypeOK
    /\ APIFits
    /\ CallsFit
    /\ SlotsFit
    /\ ~panicked

\* Nothing is there at first.
LEMMA TidyInitially == Init => TidyInv
<1> SUFFICES ASSUME Init PROVE TidyInv
  OBVIOUS
<1>1. /\ globalFlow = None /\ keycardContext = None /\ ~panicked
      /\ \A o \in Objects : obj[o] = Free
      /\ \A t \in Threads : call[t] = Idle
      /\ \A c \in Cards : used[c] = 0 /\ lost[c] = 0
  BY DEF Init
<1>2. APIFits
  BY <1>1 DEF APIFits, Current, Alive, Free
<1>3. CallsFit
  BY <1>1 DEF CallsFit, CallFits, Idle
<1>4. SlotsFit
  BY <1>1 DEF SlotsFit, StoreFits, Free
<1>5. QED
  BY <1>1, <1>2, <1>3, <1>4, TypeOKInitially DEF TidyInv

\* Facts that the type of the state gives.
LEMMA Typed ==
    ASSUME TypeOK
    PROVE  /\ obj \in [Objects -> Object] /\ call \in [Threads -> CallRecord]
           /\ used \in [Cards -> Nat] /\ lost \in [Cards -> Nat]
           /\ globalFlow # None => globalFlow \in Objects /\ obj[globalFlow].kind = "flow"
           /\ keycardContext # None =>
                keycardContext \in Objects /\ obj[keycardContext].kind = "session"
BY DEF TypeOK, CallRecord

\* What is at work was opened by the thread that is in a call, or by none.
LEMMA NothingAtWork ==
    ASSUME TidyInv, NEW t \in Threads, call[t].pc # "idle",
           \/ call[t].op = "KeycardInitFlow"
           \/ call[t].op = "Start" /\ keycardContext = None
    PROVE  /\ globalFlow # None => call[t].op = "KeycardInitFlow"
           /\ keycardContext = None
           /\ \A o \in Objects : ~Alive(o) /\ obj[o].doing = None
<1>1. APIFits /\ CallFits(t) /\ \A o \in Objects : StoreFits(o)
  BY DEF TidyInv, CallsFit, SlotsFit
<1>2. /\ globalFlow # None => call[t].op = "KeycardInitFlow"
      /\ keycardContext = None
  BY <1>1 DEF APIFits, CallFits
<1>3. ASSUME NEW o \in Objects PROVE ~Alive(o)
  <2>1. obj[o].life # "stopping"
    BY <1>1 DEF CallFits, Calm
  <2>2. obj[o] \in Object
    BY Typed DEF TidyInv
  <2>3. Alive(o) => obj[o].life = "running"
    BY <2>1, <2>2 DEF Alive, Object
  <2>4. QED
    BY <1>1, <1>2, <2>3, Constants DEF APIFits, CallFits
<1>4. QED
  BY <1>1, <1>2, <1>3 DEF StoreFits

\* With one call at a time, no thread is in one when it returns.
LEMMA CallsReturned ==
    ASSUME CallsFit, call \in [Threads -> CallRecord],
           NEW t \in Threads, call[t].pc # "idle", Return(t)
    PROVE  CallsFit'
<1>1. ASSUME NEW u \in Threads PROVE call'[u] = Idle
  BY <1>1 DEF CallsFit, Return
<1>2. QED
  BY <1>1 DEF CallsFit, CallFits, Idle

\* A step that at most lets something become idle keeps all that the globals
\* and the calls rely on.
LEMMA APIByLife ==
    ASSUME APIFits, UNCHANGED <<globalFlow, globalRPCServer, keycardContext>>,
           \A o \in Objects : /\ obj'[o].kind = obj[o].kind
                              /\ obj'[o].life \in {obj[o].life, "idle"}
    PROVE  APIFits'
<1>1. \A o \in Objects : Alive(o)' => Alive(o) /\ obj'[o].life = obj[o].life
  BY DEF Alive
<1>2. \A o \in Objects : Current(o)' => Current(o)
  BY <1>1 DEF Current
<1>3. QED
  BY <1>1, <1>2 DEF APIFits

\* An object that goes idle leaves the calls fitting.
LEMMA CallsByLife ==
    ASSUME CallsFit, UNCHANGED <<globalFlow, globalRPCServer, keycardContext, call>>,
           globalFlow # None => globalFlow \in Objects,
           \A o \in Objects : obj'[o].life \in {obj[o].life, "idle"}
    PROVE  CallsFit'
<1>1. /\ Calm => Calm'
      /\ globalFlow # None /\ ~Alive(globalFlow) => ~Alive(globalFlow)'
  BY DEF Calm, Alive
<1>2. QED
  BY <1>1 DEF CallsFit, CallFits

\* A step that leaves the pairings alone, and makes nothing current.
LEMMA SlotsByLife ==
    ASSUME SlotsFit, UNCHANGED <<file, used, lost>>,
           \A o \in Objects :
             /\ obj'[o].doing = obj[o].doing
             /\ obj'[o].values = obj[o].values
             /\ obj'[o].writing = obj[o].writing
             /\ Alive(o) => Alive(o)' \/ obj[o].doing = None
             /\ Current(o)' => Current(o)
    PROVE  SlotsFit'
<1>1. \A o \in Objects : StoreFits(o)'
  BY DEF SlotsFit, StoreFits
<1>2. \A c \in Cards : Doing(c)' <=> Doing(c)
  BY DEF Doing
<1>3. QED
  BY <1>1, <1>2 DEF SlotsFit

\* A step in which the objects keep what they are.
LEMMA SameObjects ==
    ASSUME TidyInv, UNCHANGED <<obj, file, used, lost>>,
           \A o \in Objects : o \in {globalFlow', keycardContext'} => o \in {globalFlow, keycardContext}
    PROVE  SlotsFit'
<1>1. \A o \in Objects : (Alive(o)' <=> Alive(o)) /\ (Current(o)' => Current(o))
  BY DEF Alive, Current
<1>2. QED
  BY <1>1, SlotsByLife DEF TidyInv

\* A call that begins.
LEMMA CallKept ==
    ASSUME Tidy, TidyInv, NEW t \in Threads, CallBy(t)
    PROVE  APIFits' /\ CallsFit' /\ SlotsFit' /\ ~panicked'
<1>1. PICK op \in Op :
        /\ Call(t, op)
        /\ op \in {"KeycardInitFlow", "KeycardInitializeRPC"} => checkAPIMutualExclusion(op)
        /\ op = "KeycardInitFlow" /\ globalFlow # None => ~Alive(globalFlow)
        /\ op \in FlowOp => globalFlow # None
        /\ op \in {"Start", "Stop"} => globalRPCServer
  <2>1. CASE \E op \in {"KeycardInitFlow", "KeycardInitializeRPC"} : CallInit(t, op)
    BY <2>1 DEF CallInit, Op, FlowOp
  <2>2. CASE \E op \in FlowOp : CallFlow(t, op)
    BY <2>2 DEF CallFlow, Op, FlowOp
  <2>3. CASE \E op \in {"Start", "Stop"} : CallRPC(t, op)
    BY <2>3 DEF CallRPC, Op, FlowOp
  <2>4. QED
    BY <2>1, <2>2, <2>3 DEF CallBy
<1>2. /\ UNCHANGED <<globalFlow, globalRPCServer, keycardContext, obj, file, used, lost, panicked>>
      /\ Calm /\ \A u \in Threads : call[u] = Idle
  BY <1>1 DEF Call, api, slots
<1>3. APIFits' /\ SlotsFit' /\ ~panicked'
  BY <1>2, SameObjects, APIByLife DEF TidyInv
<1>4. /\ call'[t] = [op |-> op, pc |-> "checked"]
      /\ \A u \in Threads \ {t} : call'[u] = Idle
  BY <1>1, <1>2, Typed DEF Call, TidyInv
<1>5. Calm' /\ (globalFlow # None /\ ~Alive(globalFlow) => ~Alive(globalFlow)')
  BY <1>2 DEF Calm, Alive
<1>6. CallFits(t)'
  BY <1>1, <1>2, <1>4, <1>5, Constants DEF CallFits, checkAPIMutualExclusion
<1>7. \A u \in Threads \ {t} : CallFits(u)' /\ call'[u].pc = "idle"
  BY <1>4 DEF CallFits, Idle
<1>8. CallsFit'
  BY <1>4, <1>6, <1>7 DEF CallsFit, Idle
<1>9. QED
  BY <1>3, <1>8

\* KeycardInitFlow makes a flow, which knows the file.
LEMMA InitFlowKept ==
    ASSUME TidyInv, NEW t \in Threads, InitFlow(t)
    PROVE  APIFits' /\ CallsFit' /\ SlotsFit' /\ ~panicked'
<1>1. call[t].pc # "idle" /\ call[t].op = "KeycardInitFlow" /\ Return(t) /\ ~panicked'
  BY DEF InitFlow, AtPoint, TidyInv
<1>2. CallsFit'
  BY <1>1, CallsReturned, Typed DEF TidyInv
<1>3. /\ keycardContext = None /\ keycardContext' = None /\ ~globalRPCServer'
      /\ \A o \in Objects : ~Alive(o) /\ obj[o].doing = None
      /\ UNCHANGED <<file, used, lost>>
  BY <1>1, NothingAtWork DEF InitFlow, slots, TidyInv, CallsFit, CallFits
<1>4. CASE Unreadable
  <2>1. globalFlow' = None /\ obj' = obj
    BY <1>4 DEF InitFlow
  <2>2. APIFits'
    BY <1>3, <2>1, Constants DEF APIFits, Current, Alive
  <2>3. SlotsFit'
    BY <1>3, <2>1, SameObjects, Constants
  <2>4. QED
    BY <1>1, <1>2, <2>2, <2>3
<1>5. CASE ~Unreadable
  <2>1. PICK o \in Objects : globalFlow' = o /\ obj' = [obj EXCEPT ![o] = Opened("flow")]
    BY <1>5 DEF InitFlow, Fresh
  <2>2. /\ obj'[o] = Opened("flow") /\ \A p \in Objects \ {o} : obj'[p] = obj[p]
    BY <2>1, Typed DEF TidyInv
  <2>3. \A p \in Objects : ~Alive(p)' /\ obj'[p].doing = None /\ (Current(p)' => p = o)
    BY <1>3, <2>1, <2>2, Constants DEF Alive, Opened, Free, Current
  <2>4. APIFits'
    BY <1>3, <2>3 DEF APIFits
  <2>5. \A p \in Objects : StoreFits(p)'
    <3>1. ~obj'[o].writing /\ obj'[o].values = file.values
      BY <2>2 DEF Opened, Free
    <3>2. \A p \in Objects : ~obj'[p].writing
      BY <1>3, <2>2, <3>1, Constants, Typed DEF TidyInv, SlotsFit, StoreFits, Object
    <3>3. \A c \in Cards : c \notin file.values => used[c] <= lost[c]
      BY <1>3, <1>5, Constants DEF TidyInv, SlotsFit, Doing, Unreadable
    <3>4. QED
      BY <1>3, <2>3, <3>1, <3>2, <3>3 DEF StoreFits
  <2>6. SlotsFit'
    <3>1. \A c \in Cards : ~Doing(c)
      BY <1>3, Constants DEF Doing
    <3>2. QED
      BY <1>3, <2>5, <3>1 DEF TidyInv, SlotsFit
  <2>7. QED
    BY <1>1, <1>2, <2>4, <2>6
<1>6. QED
  BY <1>4, <1>5

\* Start makes a context, which knows the file.
LEMMA StartServiceKept ==
    ASSUME TidyInv, NEW t \in Threads, StartService(t)
    PROVE  APIFits' /\ CallsFit' /\ SlotsFit' /\ ~panicked'
<1>1. /\ call[t] = [op |-> "Start", pc |-> "served"]
      /\ UNCHANGED <<globalFlow, globalRPCServer, file, used, lost>>
      /\ ~panicked'
  BY DEF StartService, AtPoint, slots, TidyInv
<1>2. CASE ~(NotStarted /\ ~Unreadable)
  <2>1. Return(t) /\ UNCHANGED <<keycardContext, obj>>
    BY <1>2 DEF StartService
  <2>2. QED
    BY <1>1, <2>1, CallsReturned, SameObjects, APIByLife, Typed DEF TidyInv
<1>3. CASE NotStarted /\ ~Unreadable
  <2>1. PICK o \in Objects : keycardContext' = o /\ obj' = [obj EXCEPT ![o] = Opened("session")]
    BY <1>3 DEF StartService, Fresh
  <2>2. GoTo(t, "made")
    BY <1>3 DEF StartService
  <2>3. /\ globalFlow = None /\ globalRPCServer
        /\ \A p \in Objects : ~Alive(p) /\ obj[p].doing = None
    <3>1. keycardContext = None /\ globalRPCServer
      BY <1>1, <1>3 DEF NotStarted, TidyInv, CallsFit, CallFits
    <3>2. globalFlow = None /\ \A p \in Objects : ~Alive(p) /\ obj[p].doing = None
      BY <1>1, <3>1, NothingAtWork
    <3>3. QED
      BY <3>1, <3>2
  <2>4. obj'[o] = Opened("session") /\ \A p \in Objects \ {o} : obj'[p] = obj[p]
    BY <2>1, Typed DEF TidyInv
  <2>5. \A p \in Objects : ~Alive(p)' /\ obj'[p].doing = None /\ (Current(p)' => p = o)
    BY <1>1, <2>1, <2>3, <2>4, Constants DEF Alive, Opened, Free, Current
  <2>6. APIFits'
    BY <1>1, <2>3, <2>5 DEF APIFits
  <2>7. CallsFit'
    <3>1. /\ call'[t] = [op |-> "Start", pc |-> "made"]
          /\ \A u \in Threads \ {t} : call'[u] = call[u] /\ call[u] = Idle
      BY <1>1, <2>2, Typed DEF GoTo, TidyInv, CallsFit
    <3>2. Calm' /\ o # None
      BY <2>5, Constants DEF Calm, Alive
    <3>3. CallFits(t)'
      BY <1>1, <2>1, <2>3, <3>1, <3>2, Constants DEF CallFits, Op, FlowOp
    <3>4. \A u \in Threads \ {t} : CallFits(u)' /\ call'[u].pc = "idle"
      BY <3>1 DEF CallFits, Idle
    <3>5. QED
      BY <3>1, <3>3, <3>4 DEF CallsFit
  <2>8. \A p \in Objects : StoreFits(p)'
    <3>1. ~obj'[o].writing /\ obj'[o].values = file.values
      BY <2>4 DEF Opened, Free
    <3>2. \A p \in Objects : ~obj'[p].writing
      BY <2>3, <2>4, <3>1, Constants, Typed DEF TidyInv, SlotsFit, StoreFits, Object
    <3>3. \A c \in Cards : c \notin file.values => used[c] <= lost[c]
      BY <1>3, <2>3, Constants DEF TidyInv, SlotsFit, Doing, Unreadable
    <3>4. QED
      BY <1>1, <2>5, <3>1, <3>2, <3>3 DEF StoreFits
  <2>9. SlotsFit'
    <3>1. \A c \in Cards : ~Doing(c)
      BY <2>3, Constants DEF Doing
    <3>2. QED
      BY <1>1, <2>8, <3>1 DEF TidyInv, SlotsFit
  <2>10. QED
    BY <1>1, <2>6, <2>7, <2>9
<1>4. QED
  BY <1>2, <1>3

\* KeycardInitializeRPC makes the service.
LEMMA InitRPCKept ==
    ASSUME TidyInv, NEW t \in Threads, InitRPC(t)
    PROVE  APIFits' /\ CallsFit' /\ SlotsFit' /\ ~panicked'
<1>1. /\ call[t].pc # "idle" /\ call[t].op = "KeycardInitializeRPC" /\ Return(t)
      /\ UNCHANGED <<globalFlow, keycardContext, obj, file, used, lost>>
      /\ globalRPCServer' /\ ~panicked'
  BY DEF InitRPC, AtPoint, slots, TidyInv
<1>2. globalFlow = None
  BY <1>1 DEF TidyInv, CallsFit, CallFits
<1>3. CallsFit' /\ SlotsFit'
  BY <1>1, CallsReturned, SameObjects, Typed DEF TidyInv
<1>4. APIFits'
  BY <1>1, <1>2 DEF APIFits, Current, Alive, TidyInv
<1>5. QED
  BY <1>1, <1>3, <1>4

\* A global that is set to work or stopped stays the one that is current.
LEMMA GlobalSet ==
    ASSUME TidyInv, NEW o \in {globalFlow, keycardContext}, o # None,
           NEW l \in {"running", "stopping"}, obj' = [obj EXCEPT ![o].life = l],
           globalFlow' = globalFlow, globalRPCServer' = globalRPCServer,
           keycardContext' \in {keycardContext, None}, UNCHANGED <<file, used, lost>>,
           keycardContext' # keycardContext => o = keycardContext /\ l = "stopping"
    PROVE  APIFits' /\ SlotsFit'
<1>1. o \in Objects /\ obj[o] \in Object /\ obj \in [Objects -> Object]
  BY Typed DEF TidyInv
<1>2. /\ obj'[o] = [obj[o] EXCEPT !.life = l]
      /\ \A p \in Objects \ {o} : obj'[p] = obj[p]
  BY <1>1
<1>3. /\ obj'[o].kind = obj[o].kind /\ obj'[o].life = l /\ obj'[o].doing = obj[o].doing
      /\ obj'[o].values = obj[o].values /\ obj'[o].writing = obj[o].writing
  BY <1>1, <1>2 DEF Object
<1>4. /\ Current(o) /\ Alive(o)' /\ obj'[o].life = l
      /\ \A p \in Objects \ {o} : ~Alive(p)
  BY <1>1, <1>3 DEF Current, Alive, TidyInv, APIFits
<1>5. \A p \in Objects : Current(p)' => Current(p)
  BY <1>2, <1>4, Constants DEF Current, Alive
<1>6. APIFits'
  <2>1. o = globalFlow \/ o = keycardContext
    OBVIOUS
  <2>2. \A p \in Objects : Alive(p)' => p = o
    BY <1>2, <1>4 DEF Alive
  <2>3. CASE o = globalFlow
    BY <1>3, <1>5, <2>2, <2>3, Typed, Constants DEF TidyInv, APIFits
  <2>4. CASE o = keycardContext
    <3>1. obj'[o].kind = "session" /\ globalRPCServer'
      BY <1>3, <2>4, Typed DEF TidyInv, APIFits
    <3>2. obj'[o].life = "running" => o = keycardContext'
      BY <1>3, <2>4
    <3>3. keycardContext' # None => globalRPCServer'
      BY <3>1
    <3>4. QED
      BY <1>5, <2>2, <3>1, <3>2, <3>3 DEF TidyInv, APIFits
  <2>5. QED
    BY <2>1, <2>3, <2>4
<1>7. SlotsFit'
  <2>1. \A p \in Objects : Alive(p) => Alive(p)'
    BY <1>4
  <2>2. \A p \in Objects : /\ obj'[p].doing = obj[p].doing /\ obj'[p].values = obj[p].values
                           /\ obj'[p].writing = obj[p].writing
    BY <1>2, <1>3
  <2>3. QED
    BY <1>5, <2>1, <2>2, SlotsByLife DEF TidyInv
<1>8. QED
  BY <1>6, <1>7

\* The calls that use the flow.
LEMMA UseFlowKept ==
    ASSUME TidyInv, NEW t \in Threads, UseFlow(t)
    PROVE  APIFits' /\ CallsFit' /\ SlotsFit' /\ ~panicked'
<1>1. /\ Return(t) /\ call[t].op \in FlowOp
      /\ UNCHANGED <<globalFlow, globalRPCServer, keycardContext, file, used, lost>>
  BY DEF UseFlow, api, slots
<1>2. call[t].pc # "idle"
  BY <1>1, Constants DEF TidyInv, CallsFit, Idle, Op
<1>3. globalFlow # None
  BY <1>1, <1>2 DEF TidyInv, CallsFit, CallFits
<1>4. CallsFit'
  BY <1>1, <1>2, CallsReturned, Typed DEF TidyInv
<1>5. ~panicked'
  BY <1>3 DEF UseFlow, TidyInv
<1>6. \/ obj' = obj
      \/ \E l \in {"running", "stopping"} : obj' = [obj EXCEPT ![globalFlow].life = l]
  BY <1>3 DEF UseFlow
<1>7. CASE obj' = obj
  BY <1>1, <1>4, <1>5, <1>7, SameObjects, APIByLife DEF TidyInv
<1>8. CASE \E l \in {"running", "stopping"} : obj' = [obj EXCEPT ![globalFlow].life = l]
  BY <1>1, <1>3, <1>4, <1>5, <1>8, GlobalSet
<1>9. QED
  BY <1>6, <1>7, <1>8

\* Start and Stop find the service.
LEMMA ServeKept ==
    ASSUME TidyInv, NEW t \in Threads, Serve(t)
    PROVE  APIFits' /\ CallsFit' /\ SlotsFit' /\ ~panicked'
<1>1. /\ call[t].op \in {"Start", "Stop"} /\ call[t].pc = "checked"
      /\ UNCHANGED <<globalFlow, globalRPCServer, keycardContext, obj, file, used, lost>>
  BY DEF Serve, api, slots
<1>2. globalRPCServer
  BY <1>1 DEF TidyInv, CallsFit, CallFits
<1>3. GoTo(t, "served") /\ ~panicked'
  BY <1>2 DEF Serve, TidyInv
<1>4. /\ call'[t].op = call[t].op /\ call'[t].pc = "served"
      /\ \A u \in Threads \ {t} : call'[u] = call[u]
  BY <1>3, Typed DEF GoTo, TidyInv, CallRecord
<1>5. \A u \in Threads \ {t} : call[u].pc = "idle" /\ call'[u].pc = "idle"
  BY <1>1, <1>4 DEF TidyInv, CallsFit
<1>6. CallFits(t)'
  BY <1>1, <1>4 DEF TidyInv, CallsFit, CallFits, Calm, Alive
<1>7. CallsFit'
  BY <1>4, <1>5, <1>6 DEF TidyInv, CallsFit, CallFits
<1>8. APIFits' /\ SlotsFit'
  BY <1>1, SameObjects, APIByLife DEF TidyInv
<1>9. QED
  BY <1>3, <1>7, <1>8

\* A context that is set to work.
LEMMA StartContextKept ==
    ASSUME TidyInv, NEW t \in Threads, StartContext(t)
    PROVE  APIFits' /\ CallsFit' /\ SlotsFit' /\ ~panicked'
<1>1. /\ Return(t) /\ call[t].pc = "made"
      /\ UNCHANGED <<globalFlow, globalRPCServer, keycardContext, file, used, lost>>
  BY DEF StartContext, AtPoint, api, slots
<1>2. keycardContext # None
  BY <1>1 DEF TidyInv, CallsFit, CallFits
<1>3. CallsFit'
  BY <1>1, CallsReturned, Typed DEF TidyInv
<1>4. ~panicked' /\ (obj' = obj \/ obj' = [obj EXCEPT ![keycardContext].life = "running"])
  BY <1>2 DEF StartContext, TidyInv
<1>5. CASE obj' = obj
  BY <1>1, <1>3, <1>4, <1>5, SameObjects, APIByLife DEF TidyInv
<1>6. CASE obj' = [obj EXCEPT ![keycardContext].life = "running"]
  BY <1>1, <1>2, <1>3, <1>4, <1>6, GlobalSet
<1>7. QED
  BY <1>4, <1>5, <1>6

\* Stop, which the client waits for.
LEMMA StopServiceKept ==
    ASSUME TidyInv, NEW t \in Threads, StopService(t)
    PROVE  APIFits' /\ CallsFit' /\ SlotsFit' /\ ~panicked'
<1>1. /\ Return(t) /\ call[t].pc # "idle"
      /\ UNCHANGED <<globalFlow, globalRPCServer, file, used, lost>>
      /\ keycardContext' = None /\ ~panicked'
  BY DEF StopService, AtPoint, slots, TidyInv
<1>2. CallsFit'
  BY <1>1, CallsReturned, Typed DEF TidyInv
<1>3. CASE keycardContext # None /\ Alive(keycardContext)
  BY <1>1, <1>2, <1>3, GlobalSet DEF StopService
<1>4. CASE ~(keycardContext # None /\ Alive(keycardContext))
  <2>1. obj' = obj
    BY <1>4 DEF StopService
  <2>2. SlotsFit'
    BY <1>1, <2>1, SameObjects, Constants
  <2>3. \A o \in Objects : /\ Alive(o)' <=> Alive(o)
                           /\ Current(o)' => Current(o)
                           /\ Alive(o) => o # keycardContext
    BY <1>1, <1>4, <2>1, Constants DEF Alive, Current
  <2>4. APIFits'
    BY <1>1, <2>1, <2>3 DEF TidyInv, APIFits
  <2>5. QED
    BY <1>1, <1>2, <2>2, <2>4
<1>5. QED
  BY <1>3, <1>4

\* What an object at work does to itself, and the rest stays.
LEMMA WorkAlone ==
    ASSUME TidyInv, NEW o \in Objects, Work(o)
    PROVE  /\ Alive(o) /\ \A p \in Objects \ {o} : ~Current(p) /\ obj[p].doing = None /\ ~obj[p].writing
           /\ \A p \in Objects \ {o} : obj'[p] = obj[p]
           /\ UNCHANGED <<globalFlow, globalRPCServer, keycardContext, call, lost, panicked>>
           /\ obj[o].doing \in Cards \cup {None} /\ obj[o].values \in SUBSET Cards
<1>1. /\ obj \in [Objects -> Object] /\ \A p \in Objects : StoreFits(p)
      /\ \A p, q \in Objects : Current(p) /\ Current(q) => p = q
  BY Typed DEF TidyInv, SlotsFit, APIFits
<1>2. \A p \in Objects : obj[p].writing => obj[p].doing # None
  BY <1>1, Constants DEF StoreFits, Object
<1>3. Alive(o)
  BY <1>1, <1>2 DEF Work, PairCard, BeginStore, EndStore, End, Alive, StoreFits
<1>4. \A p \in Objects \ {o} : ~Current(p) /\ obj[p].doing = None /\ ~obj[p].writing
  BY <1>1, <1>2, <1>3 DEF Current, StoreFits
<1>5. \A p \in Objects \ {o} : obj'[p] = obj[p]
  BY <1>1 DEF Work, PairCard, BeginStore, EndStore, End
<1>6. UNCHANGED <<globalFlow, globalRPCServer, keycardContext, call, lost, panicked>>
  BY DEF Work, PairCard, BeginStore, EndStore, End, api, slots
<1>7. QED
  BY <1>1, <1>3, <1>4, <1>5, <1>6 DEF Object

\* A pairing takes a slot, and is stored, lost or counted.
LEMMA WorkKeepsSlots ==
    ASSUME TidyInv, NEW o \in Objects, Work(o)
    PROVE  SlotsFit'
<1>1. /\ Alive(o) /\ Current(o)
      /\ \A p \in Objects \ {o} : ~Current(p) /\ obj[p].doing = None /\ ~obj[p].writing
      /\ \A p \in Objects \ {o} : obj'[p] = obj[p]
      /\ UNCHANGED <<globalFlow, globalRPCServer, keycardContext, call, lost, panicked>>
      /\ obj[o].doing \in Cards \cup {None} /\ obj[o].values \in SUBSET Cards
  BY WorkAlone DEF Current
<1>2. /\ StoreFits(o) /\ obj \in [Objects -> Object] /\ obj[o] \in Object
      /\ used \in [Cards -> Nat] /\ lost \in [Cards -> Nat]
      /\ \A c \in Cards : used[c] <= 1 + lost[c]
  BY Typed DEF TidyInv, SlotsFit
<1>3. ASSUME NEW p \in Objects \ {o} PROVE StoreFits(p)'
  BY <1>1, <1>3 DEF StoreFits, Current, Alive
<1>4. \A c \in Cards : /\ Doing(c) <=> obj[o].doing = c
                       /\ Doing(c)' <=> obj'[o].doing = c
  BY <1>1, Constants DEF Doing
<1>5. SUFFICES /\ StoreFits(o)'
               /\ \A c \in Cards : used'[c] <= 1 + lost[c]
               /\ file'.state # "torn" => \A c \in Cards :
                    c \notin file'.values /\ obj'[o].doing # c => used'[c] <= lost[c]
  BY <1>1, <1>3, <1>4 DEF SlotsFit
<1>6. CASE \E c \in Cards : PairCard(o, c)
  <2>1. PICK c \in Cards : PairCard(o, c)
    BY <1>6
  <2>2. /\ obj'[o] = [obj[o] EXCEPT !.doing = c] /\ used'[c] = used[c] + 1
        /\ \A d \in Cards \ {c} : used'[d] = used[d]
        /\ file' = file
        /\ obj[o].doing = None /\ c \notin obj[o].values
    BY <1>2, <2>1 DEF PairCard
  <2>3. /\ obj'[o].life = obj[o].life /\ obj'[o].doing = c /\ obj'[o].values = obj[o].values
        /\ obj'[o].writing = obj[o].writing
    BY <1>2, <2>2 DEF Object
  <2>4. ~obj[o].writing
    BY <1>1, <1>2, <2>2, Constants DEF StoreFits
  <2>5. used[c] <= lost[c]
    BY <1>1, <1>2, <2>2, Constants DEF StoreFits
  <2>6. used'[c] <= 1 + lost[c]
    BY <1>2, <2>2, <2>5
  <2>7. StoreFits(o)'
    BY <1>1, <1>2, <2>2, <2>3, <2>4, Constants DEF StoreFits, Alive
  <2>8. file.state # "torn" => \A d \in Cards :
          d \notin file.values /\ obj[o].doing # d => used[d] <= lost[d]
    BY <1>4 DEF TidyInv, SlotsFit
  <2>9. QED
    BY <1>2, <2>2, <2>3, <2>6, <2>7, <2>8, Constants
<1>7. CASE BeginStore(o)
  <2> DEFINE x == [obj[o] EXCEPT !.values = @ \cup {obj[o].doing}, !.writing = TRUE]
  <2>1. obj'[o] = x /\ file' = Emptied /\ used' = used /\ obj[o].doing # None
    BY <1>2, <1>7 DEF BeginStore, slots
  <2>2. /\ x.life = obj[o].life /\ x.doing = obj[o].doing
        /\ x.values = obj[o].values \cup {obj[o].doing} /\ x.writing
    BY <1>2 DEF Object
  <2> HIDE DEF x
  <2>3. StoreFits(o)'
    BY <1>1, <1>2, <2>1, <2>2 DEF StoreFits, Alive, Emptied
  <2>4. QED
    BY <1>2, <2>1, <2>3 DEF Emptied
<1>8. CASE EndStore(o)
  <2> DEFINE x == [obj[o] EXCEPT !.doing = None, !.writing = FALSE]
  <2>1. obj'[o] = x /\ used' = used /\ obj[o].writing
    BY <1>2, <1>8 DEF EndStore, slots
  <2>2. file' = file \/ file' = [state |-> "whole", values |-> obj[o].values]
    BY <1>8 DEF EndStore, Written
  <2>3. /\ x.life = obj[o].life /\ x.doing = None /\ x.values = obj[o].values /\ ~x.writing
    BY <1>2 DEF Object
  <2> HIDE DEF x
  <2>4. file.state = "torn" /\ obj[o].doing \in obj[o].values
    BY <1>2, <2>1 DEF StoreFits
  <2>5. \A c \in Cards : c \notin obj[o].values => used[c] <= lost[c]
    BY <1>1, <1>2, <2>4 DEF StoreFits
  <2>6. StoreFits(o)'
    BY <1>1, <2>1, <2>3, <2>5 DEF StoreFits
  <2>7. QED
    BY <1>2, <2>1, <2>2, <2>4, <2>5, <2>6
<1>9. CASE End(o)
  <2> DEFINE x == [obj[o] EXCEPT !.life = "idle"]
  <2>1. obj'[o] = x /\ used' = used /\ file' = file /\ obj[o].doing = None
    BY <1>2, <1>9 DEF End, slots
  <2>2. x.doing = obj[o].doing /\ x.values = obj[o].values /\ x.writing = obj[o].writing
    BY <1>2 DEF Object
  <2> HIDE DEF x
  <2>3. StoreFits(o)'
    BY <1>1, <1>2, <2>1, <2>2 DEF StoreFits
  <2>4. QED
    BY <1>2, <1>4, <2>1, <2>2, <2>3 DEF TidyInv, SlotsFit
<1>10. QED
  BY <1>6, <1>7, <1>8, <1>9 DEF Work

\* A step of an object.
LEMMA WorkKept ==
    ASSUME TidyInv, NEW o \in Objects, Work(o)
    PROVE  APIFits' /\ CallsFit' /\ SlotsFit' /\ ~panicked'
<1>1. /\ \A p \in Objects \ {o} : obj'[p] = obj[p]
      /\ UNCHANGED <<globalFlow, globalRPCServer, keycardContext, call, panicked>>
  BY WorkAlone
<1>2. obj'[o].kind = obj[o].kind /\ obj'[o].life \in {obj[o].life, "idle"}
  <2>1. obj \in [Objects -> Object]
    BY Typed DEF TidyInv
  <2>2. \/ \E c \in Cards : obj'[o] = [obj[o] EXCEPT !.doing = c]
        \/ obj'[o] = [obj[o] EXCEPT !.values = @ \cup {obj[o].doing}, !.writing = TRUE]
        \/ obj'[o] = [obj[o] EXCEPT !.doing = None, !.writing = FALSE]
        \/ obj'[o] = [obj[o] EXCEPT !.life = "idle"]
    BY <2>1 DEF Work, PairCard, BeginStore, EndStore, End
  <2>3. QED
    BY <2>1, <2>2 DEF Object
<1>3. APIFits' /\ CallsFit'
  BY <1>1, <1>2, APIByLife, CallsByLife, Typed DEF TidyInv
<1>4. QED
  BY <1>1, <1>3, WorkKeepsSlots DEF TidyInv

\* ResetAPI, when nothing is alive.
LEMMA ResetKept ==
    ASSUME Tidy, TidyInv, ResetAPI
    PROVE  APIFits' /\ CallsFit' /\ SlotsFit' /\ ~panicked'
<1>1. /\ \A o \in Objects : ~Alive(o)
      /\ keycardContext = None /\ \A t \in Threads : call[t] = Idle
      /\ globalFlow' = None /\ ~globalRPCServer'
      /\ UNCHANGED <<keycardContext, obj, file, call, used, lost, panicked>>
  BY DEF ResetAPI, slots
<1>2. APIFits'
  BY <1>1, Constants DEF APIFits, Current, Alive
<1>3. CallsFit'
  BY <1>1 DEF CallsFit, CallFits, Idle
<1>4. SlotsFit'
  BY <1>1, SameObjects, Constants
<1>5. QED
  BY <1>1, <1>2, <1>3, <1>4 DEF TidyInv

\* A crash leaves the file, and counts the pairing that was not yet in it.
LEMMA CrashKept ==
    ASSUME TidyInv, Crash
    PROVE  APIFits' /\ CallsFit' /\ SlotsFit' /\ ~panicked'
<1>1. /\ globalFlow' = None /\ ~globalRPCServer' /\ keycardContext' = None
      /\ \A o \in Objects : obj'[o] = Free
      /\ \A t \in Threads : call'[t] = Idle
      /\ \A c \in Cards : lost'[c] = IF Doing(c) THEN lost[c] + 1 ELSE lost[c]
      /\ UNCHANGED <<file, used, panicked>>
  BY DEF Crash, Doing
<1>2. APIFits'
  BY <1>1, Constants DEF APIFits, Current, Alive, Free
<1>3. CallsFit'
  BY <1>1 DEF CallsFit, CallFits, Idle
<1>4. \A o \in Objects : StoreFits(o)'
  BY <1>1, Constants DEF StoreFits, Current, Alive, Free
<1>5. \A c \in Cards : used[c] \in Nat /\ lost[c] \in Nat /\ used[c] <= 1 + lost[c]
  BY Typed DEF TidyInv, SlotsFit
<1>6. \A c \in Cards : used'[c] <= 1 + lost'[c]
  BY <1>1, <1>5
<1>7. file'.state # "torn" => \A c \in Cards :
        c \notin file'.values /\ ~Doing(c)' => used'[c] <= lost'[c]
  BY <1>1, <1>5 DEF TidyInv, SlotsFit
<1>8. QED
  BY <1>1, <1>2, <1>3, <1>4, <1>6, <1>7 DEF TidyInv, SlotsFit

\* A file that is removed counts every pairing as lost.
LEMMA RemoveKept ==
    ASSUME TidyInv, RemoveFile
    PROVE  APIFits' /\ CallsFit' /\ SlotsFit' /\ ~panicked'
<1>1. /\ UNCHANGED <<globalFlow, globalRPCServer, keycardContext, obj, call, used, panicked>>
      /\ lost' = used
      /\ \A o \in Objects : ~Alive(o)
  BY DEF RemoveFile, api
<1>2. APIFits' /\ CallsFit'
  BY <1>1, APIByLife, CallsByLife, Typed DEF TidyInv
<1>3. \A o \in Objects : ~obj[o].writing /\ obj[o].doing = None
  BY <1>1, Typed, Constants DEF TidyInv, SlotsFit, StoreFits, Object
<1>4. \A c \in Cards : used'[c] \in Nat /\ lost'[c] = used'[c]
  BY <1>1, Typed DEF TidyInv
<1>5. \A o \in Objects : StoreFits(o)'
  BY <1>1, <1>3, <1>4 DEF StoreFits
<1>6. SlotsFit'
  BY <1>4, <1>5 DEF SlotsFit
<1>7. QED
  BY <1>1, <1>2, <1>6 DEF TidyInv

\* The parts above, for every action.
LEMMA TidyKept == ASSUME Tidy PROVE TidyInv /\ [Next]_vars => TidyInv'
<1> SUFFICES ASSUME TidyInv, [Next]_vars PROVE TidyInv'
  OBVIOUS
<1>1. TypeOK'
  BY TypeOKKept DEF TidyInv
<1>2. CASE Next
  BY <1>1, <1>2, CallKept, InitFlowKept, InitRPCKept, UseFlowKept, ServeKept, StartServiceKept,
     StartContextKept, StopServiceKept, WorkKept, ResetKept, CrashKept, RemoveKept
  DEF Next, Body, TidyInv
<1>3. CASE UNCHANGED vars
  <2>1. UNCHANGED <<globalFlow, globalRPCServer, keycardContext, obj, file, call, used, lost, panicked>>
    BY <1>3 DEF vars, api, slots
  <2>2. APIFits' /\ CallsFit' /\ SlotsFit'
    BY <2>1, SameObjects, APIByLife, CallsByLife, Typed DEF TidyInv
  <2>3. QED
    BY <1>1, <2>1, <2>2 DEF TidyInv
<1>4. QED
  BY <1>2, <1>3

\* The invariant says what the theorems below say.
LEMMA TidyImplies == TidyInv => OneAPI /\ NoOrphans /\ SlotsAccounted
<1> SUFFICES ASSUME TidyInv PROVE OneAPI /\ NoOrphans /\ SlotsAccounted
  OBVIOUS
<1>1. OneAPI
  BY DEF TidyInv, APIFits, Current, OneAPI
<1>2. NoOrphans
  BY DEF TidyInv, APIFits, Alive, NoOrphans
<1>3. QED
  BY <1>1, <1>2 DEF TidyInv, SlotsFit, SlotsAccounted

\* The invariant of a tidy client.
LEMMA TidyAlways == ASSUME Tidy PROVE Spec => []TidyInv
<1>1. TidyInv /\ [Next]_vars => TidyInv'
  BY TidyKept
<1>2. QED
  BY <1>1, TidyInitially, PTL DEF Spec

\* A flow and a session never use the reader at once, when the client resets
\* the API or makes a new flow only after what it had has ended: what
\* checkAPIMutualExclusion asks of the globals then holds of what runs
\* (api_session.go:30-45, api_flow.go).
THEOREM OneAPIAtATime == ASSUME Tidy PROVE Spec => []OneAPI
BY TidyAlways, TidyImplies, PTL

\* What runs and was not stopped is in a global, where the client can stop it:
\* no start, stop, failure or reset leaves it behind (service.go:31, main.go:47).
THEOREM NothingLeftBehind == ASSUME Tidy PROVE Spec => []NoOrphans
BY TidyAlways, TidyImplies, PTL

\* Each card is paired with at most once more than pairings of it were lost by
\* a crash or with the file: over any number of flows, sessions and restarts
\* each object knows what the one before has stored (store.go:25-62).
THEOREM CardsPairOnce == ASSUME Tidy PROVE Spec => []SlotsAccounted
BY TidyAlways, TidyImplies, PTL

=============================================================================
