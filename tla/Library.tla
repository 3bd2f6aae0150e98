------------------------------- MODULE Library -------------------------------
(***************************************************************************)
(* The exported library (shared/): the flow API and the session API of one *)
(* process, the rule that only one of them is used, the start and stop of  *)
(* the session service, and the pairings file that everything the process  *)
(* has started works on (pkg/pairing).                                     *)
(*                                                                         *)
(* A flow object or a session context is an object here.  What a running   *)
(* one does with cards is the subject of the other modules; of interest    *)
(* here is that it pairs with them, and then rewrites the file from the    *)
(* pairings it has in memory, in two steps.  It does so on its own         *)
(* goroutines, and goes on for a while after it was stopped.               *)
(*                                                                         *)
(* An exported function is called by a thread; it checks the globals in    *)
(* one step and uses them in a later one.  A tidy client resets the API,   *)
(* or makes a new flow, only when what it started has ended; it works on   *)
(* one thread and waits for what it has stopped.                           *)
(*                                                                         *)
(* Bounds: MaxCalls calls, MaxFaults faults.                               *)
(***************************************************************************)
EXTENDS Naturals

CONSTANTS
    Threads,     \* of the client
    Objects,     \* KeycardFlow and KeycardContextV2 objects that can be made
    Cards, None,
    Tidy,
    Mishaps,     \* the faults that occur
    MaxCalls, MaxFaults

\* The exported functions.
FlowOp == {"KeycardStartFlow", "KeycardResumeFlow", "KeycardCancelFlow"}
Op == FlowOp \cup {"KeycardInitFlow", "KeycardInitializeRPC", "Start", "Stop"}

ASSUME LibraryAssumption ==
    /\ None \notin Objects \cup Cards \cup Op
    /\ Tidy \in BOOLEAN
    /\ Mishaps \subseteq {"no-pcsc", "save", "crash"}
    /\ {MaxCalls, MaxFaults} \subseteq Nat

VARIABLES
    globalFlow,       \* the flow object of the flow API, or None
    globalRPCServer,  \* there is one
    keycardContext,   \* of the process-wide KeycardService, or None
    obj,              \* the objects
    file,             \* the pairings file
    call,             \* what each thread is at
    used, lost,       \* per card: slots taken, and taken for pairings that are lost
    panicked,
    calls, faults

\* life: idle is a flow that does not run, and a context without goroutines.
\* doing: a card that was paired and is not stored yet; writing: in WriteFile.
Object == [kind : {"free", "flow", "session"}, life : {"idle", "running", "stopping"},
           values : SUBSET Cards, doing : Cards \cup {None}, writing : BOOLEAN]
Free   == [kind |-> "free", life |-> "idle", values |-> {}, doing |-> None, writing |-> FALSE]

File   == [state : {"absent", "torn", "whole"}, values : SUBSET Cards]
Idle   == [op |-> None, pc |-> "idle"]

api    == <<globalFlow, globalRPCServer, keycardContext>>
slots  == <<used, lost>>
bounds == <<calls, faults>>
vars   == <<api, obj, file, call, slots, panicked, bounds>>

TypeOK ==
    /\ {globalFlow, keycardContext} \subseteq Objects \cup {None}
    /\ globalFlow # None => obj[globalFlow].kind = "flow"
    /\ keycardContext # None => obj[keycardContext].kind = "session"
    /\ globalRPCServer \in BOOLEAN
    /\ obj \in [Objects -> Object]
    /\ file \in File /\ (file.values # {} => file.state = "whole")
    /\ call \in [Threads -> [op : Op \cup {None}, pc : {"idle", "checked", "served", "made"}]]
    /\ {used, lost} \subseteq [Cards -> Nat]
    /\ panicked \in BOOLEAN
    /\ calls \in 0..MaxCalls /\ faults \in 0..MaxFaults

Init ==
    /\ globalFlow = None /\ globalRPCServer = FALSE /\ keycardContext = None
    /\ obj = [o \in Objects |-> Free]
    /\ file = [state |-> "absent", values |-> {}]
    /\ call = [t \in Threads |-> Idle]
    /\ used = [c \in Cards |-> 0] /\ lost = used
    /\ panicked = FALSE /\ calls = 0 /\ faults = 0

Alive(o)   == obj[o].life # "idle"
Fault(k)   == k \in Mishaps /\ faults < MaxFaults /\ faults' = faults + 1

-----------------------------------------------------------------------------
\* The pairing store.

\* An object that nothing refers to and nothing runs is collected.
Fresh == {o \in Objects : ~Alive(o) /\ o \notin {globalFlow, keycardContext}}

Opened(kind) == [Free EXCEPT !.kind = kind, !.values = file.values]

\* Mutant: a file that cannot be read counts as none.
NeverUnreadable == FALSE
Unreadable      == file.state = "torn"

\* A card without a stored pairing is paired with.
PairCard(o, c) ==
    /\ obj[o].life = "running" /\ obj[o].doing = None /\ c \notin obj[o].values
    /\ obj' = [obj EXCEPT ![o].doing = c]
    /\ used' = [used EXCEPT ![c] = @ + 1]
    /\ UNCHANGED <<api, file, call, lost, panicked, bounds>>

\* Mutant: the old pairings stay in the file that is written over.
NotTruncated == [file EXCEPT !.state = "torn"]
Emptied      == [state |-> "torn", values |-> {}]

\* Store: the pairing is put into the map, and WriteFile empties the file.
BeginStore(o) ==
    /\ obj[o].doing # None /\ ~obj[o].writing
    /\ obj' = [obj EXCEPT ![o].values = @ \cup {obj[o].doing}, ![o].writing = TRUE]
    /\ file' = Emptied
    /\ UNCHANGED <<api, call, slots, panicked, bounds>>

\* Mutant: only the new pairing is written.
WriteOne(o) == {obj[o].doing}
Written(o)  == obj[o].values

EndStore(o) ==
    /\ obj[o].writing
    /\ obj' = [obj EXCEPT ![o].doing = None, ![o].writing = FALSE]
    /\ \/ file' = [state |-> "whole", values |-> Written(o)] /\ UNCHANGED faults
       \/ Fault("save") /\ UNCHANGED file
    /\ UNCHANGED <<api, call, slots, panicked, calls>>

\* A flow ends with its result, and what was stopped ends when it is done.
End(o) ==
    /\ Alive(o) /\ obj[o].doing = None
    /\ obj[o].kind = "flow" \/ obj[o].life = "stopping"
    /\ obj' = [obj EXCEPT ![o].life = "idle"]
    /\ UNCHANGED <<api, file, call, slots, panicked, bounds>>

-----------------------------------------------------------------------------
\* The exported functions.  One that is refused returns.

Calm == \A o \in Objects : obj[o].life # "stopping"

Call(t, op) ==
    /\ call[t].pc = "idle" /\ calls < MaxCalls
    /\ Tidy => Calm /\ (\A u \in Threads : call[u] = Idle)
    /\ calls' = calls + 1
    /\ call' = [call EXCEPT ![t] = [op |-> op, pc |-> "checked"]]
    /\ UNCHANGED <<api, obj, file, slots, panicked, faults>>

AtPoint(t, op, pc) == call[t] = [op |-> op, pc |-> pc]
Return(t)          == call' = [call EXCEPT ![t] = Idle]
GoTo(t, pc)        == call' = [call EXCEPT ![t].pc = pc]

\* Mutant: the checks are mixed up.
NoSameAPI(op)  == IF op = "KeycardInitFlow" THEN globalFlow = None ELSE ~globalRPCServer
checkAPIMutualExclusion(op) ==
    IF op = "KeycardInitFlow" THEN ~globalRPCServer ELSE globalFlow = None

CallInit(t, op) ==
    /\ checkAPIMutualExclusion(op)
    /\ Tidy /\ op = "KeycardInitFlow" /\ globalFlow # None => ~Alive(globalFlow)
    /\ Call(t, op)

\* When NewFlow fails there is no flow left.
InitFlow(t) ==
    /\ AtPoint(t, "KeycardInitFlow", "checked") /\ Return(t)
    /\ IF Unreadable THEN globalFlow' = None /\ UNCHANGED obj
       ELSE \E o \in Fresh : globalFlow' = o /\ obj' = [obj EXCEPT ![o] = Opened("flow")]
    /\ UNCHANGED <<globalRPCServer, keycardContext, file, slots, panicked, bounds>>

InitRPC(t) ==
    /\ AtPoint(t, "KeycardInitializeRPC", "checked") /\ Return(t)
    /\ globalRPCServer' = TRUE
    /\ UNCHANGED <<globalFlow, keycardContext, obj, file, slots, panicked, bounds>>

CallFlow(t, op) == globalFlow # None /\ Call(t, op)

\* The global is read again, and may be nil by now.
Begins(t) == call[t].op = "KeycardStartFlow" /\ ~Alive(globalFlow)
Halts(t)  == call[t].op = "KeycardCancelFlow" /\ Alive(globalFlow)
UseFlow(t) ==
    /\ call[t].op \in FlowOp /\ Return(t)
    /\ IF globalFlow = None THEN panicked' = TRUE /\ UNCHANGED obj
       ELSE /\ \/ Begins(t) /\ obj' = [obj EXCEPT ![globalFlow].life = "running"]
               \/ Halts(t) /\ obj' = [obj EXCEPT ![globalFlow].life = "stopping"]
               \/ ~Begins(t) /\ ~Halts(t) /\ UNCHANGED obj
            /\ UNCHANGED panicked
    /\ UNCHANGED <<api, file, slots, bounds>>

CallRPC(t, op) == globalRPCServer /\ Call(t, op)

Serve(t) ==
    /\ call[t].op \in {"Start", "Stop"} /\ call[t].pc = "checked"
    /\ IF globalRPCServer THEN GoTo(t, "served") /\ UNCHANGED panicked
                          ELSE panicked' = TRUE /\ Return(t)
    /\ UNCHANGED <<api, obj, file, slots, bounds>>

\* KeycardService.Start: refused when there is a context, whatever it does.
\* Mutant: it is not refused.
StartsAnyhow == TRUE
NotStarted   == keycardContext = None

StartService(t) ==
    /\ AtPoint(t, "Start", "served")
    /\ IF NotStarted /\ ~Unreadable
       THEN /\ \E o \in Fresh : /\ keycardContext' = o
                                /\ obj' = [obj EXCEPT ![o] = Opened("session")]
            /\ GoTo(t, "made")
       ELSE Return(t) /\ UNCHANGED <<keycardContext, obj>>
    /\ UNCHANGED <<globalFlow, globalRPCServer, file, slots, panicked, bounds>>

\* Without PC/SC the context stays, and runs nothing.
StartContext(t) ==
    /\ AtPoint(t, "Start", "made") /\ Return(t)
    /\ IF keycardContext = None THEN panicked' = TRUE /\ UNCHANGED <<obj, faults>>
       ELSE /\ \/ obj' = [obj EXCEPT ![keycardContext].life = "running"] /\ UNCHANGED faults
               \/ Fault("no-pcsc") /\ UNCHANGED obj
            /\ UNCHANGED panicked
    /\ UNCHANGED <<api, file, slots, calls>>

StopService(t) ==
    /\ AtPoint(t, "Stop", "served") /\ Return(t)
    /\ keycardContext' = None
    /\ obj' = IF keycardContext # None /\ Alive(keycardContext)
              THEN [obj EXCEPT ![keycardContext].life = "stopping"] ELSE obj
    /\ UNCHANGED <<globalFlow, globalRPCServer, file, slots, panicked, bounds>>

\* Only the globals of this package are forgotten, not those of the service.
ResetAPI ==
    /\ calls < MaxCalls /\ calls' = calls + 1
    /\ Tidy => /\ \A o \in Objects : ~Alive(o)
               /\ keycardContext = None
               /\ \A t \in Threads : call[t] = Idle
    /\ globalFlow' = None /\ globalRPCServer' = FALSE
    /\ UNCHANGED <<keycardContext, obj, file, call, slots, panicked, faults>>

-----------------------------------------------------------------------------
\* The process dies and starts again; a write it was in leaves a torn file.
Crash ==
    /\ Fault("crash")
    /\ globalFlow' = None /\ globalRPCServer' = FALSE /\ keycardContext' = None
    /\ obj' = [o \in Objects |-> Free] /\ call' = [t \in Threads |-> Idle]
    /\ lost' = [c \in Cards |-> IF \E o \in Objects : c = obj[o].doing THEN lost[c] + 1 ELSE lost[c]]
    /\ UNCHANGED <<file, used, panicked, calls>>

\* The user deletes a torn file that nothing can read, and all pairings with it.
RemoveFile ==
    /\ Unreadable /\ \A o \in Objects : ~Alive(o) /\ o \in Fresh
    /\ file' = [state |-> "absent", values |-> {}]
    /\ lost' = used
    /\ UNCHANGED <<api, obj, call, used, panicked, bounds>>

CallBy(t) ==
    \/ \E op \in {"KeycardInitFlow", "KeycardInitializeRPC"} : CallInit(t, op)
    \/ \E op \in FlowOp : CallFlow(t, op)
    \/ \E op \in {"Start", "Stop"} : CallRPC(t, op)

Body(t) ==
    \/ InitFlow(t) \/ InitRPC(t) \/ UseFlow(t) \/ Serve(t)
    \/ StartService(t) \/ StartContext(t) \/ StopService(t)

Work(o) == (\E c \in Cards : PairCard(o, c)) \/ BeginStore(o) \/ EndStore(o) \/ End(o)

Next ==
    /\ ~panicked
    /\ \/ \E t \in Threads : CallBy(t) \/ Body(t)
       \/ \E o \in Objects : Work(o)
       \/ ResetAPI \/ Crash \/ RemoveFile

Spec == Init /\ [][Next]_vars

-----------------------------------------------------------------------------
\* Properties.

\* The rule of checkAPIMutualExclusion, for what runs and not for the globals
\* alone: a flow and a session never use the reader at once (main.go:28).
OneAPI ==
    \A o, p \in Objects : Alive(o) /\ Alive(p) => obj[o].kind = obj[p].kind

\* Whatever runs can still be stopped by the client: nothing it started is left
\* behind by another start, a reset or a failure (service.go:31, main.go:47).
NoOrphans ==
    \A o \in Objects : obj[o].life = "running" => o \in {globalFlow, keycardContext}

\* Over flows, sessions, restarts and files that could not be written, a card
\* is paired once, and once more for each pairing a crash or the removal of the
\* file has lost: what one object stores the next one knows (store.go:42).
SlotsAccounted == \A c \in Cards : used[c] <= 1 + lost[c]

\* Start answers "keycard service already started" (service.go:33) only when it
\* is.
AlreadyStarted ==
    [][\A t \in Threads :
          StartService(t) /\ keycardContext # None => Alive(keycardContext)]_vars

\* Two threads never make the library use a global that is gone: the functions
\* check for it (api_flow.go:108, api_session.go:220).
NoPanic == ~panicked
=============================================================================
