----------------------------- MODULE FlowControl -----------------------------
(***************************************************************************)
(* The flow API, seen as a protocol between three kinds of goroutines: the *)
(* threads of the client that call Start, Resume and Cancel, the goroutine *)
(* of runFlow, and the goroutine of the internal.KeycardContext that waits *)
(* for a card and exchanges APDUs with it.  KeycardFlow.state is shared    *)
(* without a lock, so every read and every write of it is a step.          *)
(*                                                                         *)
(* What a flow does with the card is left to FlowCommands: here the body   *)
(* of connectedFlow may ask the client something, lose the card or end.    *)
(*                                                                         *)
(* Bounds: callers make MaxCalls calls each; the card or the reader is     *)
(* moved, or a flow restarted with its card in place, MaxMoves times; and  *)
(* goroutines that are alive together are drawn from Runs and Contexts,    *)
(* and reused once they are over.                                          *)
(***************************************************************************)
EXTENDS Naturals, FiniteSets

CONSTANTS
    Callers,             \* the threads of the client
    Calls,               \* the calls they make
    Runs,                \* goroutines of runFlow
    Contexts,            \* goroutines of KeycardContext.run
    None,                \* Go's nil
    Patient,             \* the client calls only while the flow can listen
    MaxCalls, MaxMoves

ASSUME FlowAssumption ==
    /\ Calls \subseteq {"Start", "Resume", "Cancel"}
    /\ None \notin Runs \cup Contexts
    /\ Patient \in BOOLEAN
    /\ {MaxCalls, MaxMoves} \subseteq Nat

RunState == {"Idle", "Running", "Paused", "Resuming", "Cancelling"}

VARIABLES
    state,     \* KeycardFlow.state
    params,    \* KeycardFlow.params is a map, not nil
    run,       \* the goroutines of runFlow
    ctx,       \* the goroutines of KeycardContext.run
    call,      \* the callers
    reader, card, moves,  \* the hardware, and how often it has changed
    asked,     \* the client was asked for something and has not answered
    lastSignal,
    abandoned, \* contexts that nobody will ever stop
    panicked   \* why the process died

vars == <<state, params, run, ctx, call, reader, card, moves, asked,
          lastSignal, abandoned, panicked>>

\* Where runFlow, connectedFlow, connect and pauseAndWaitWithStatus can be
\* when another goroutine makes a step.
RunPC == {"off", "open", "hello", "select", "woken", "present", "greet", "tick",
          "body", "check", "ask", "park", "parked", "resumed", "resume", "close",
          "report", "deliver", "clear", "exit"}
CtxPC == {"start", "hello", "wait", "link", "ready", "loop", "closing", "end"}

Run  == [pc        : RunPC,
         kc        : Contexts \cup {None},
         armed     : BOOLEAN,              \* the 150 ms timer is running
         then      : {"retry", "restart"}, \* what follows the pause
         outcome   : {"restart", "end"},   \* how connectedFlow returned
         cancelled : BOOLEAN,              \* Cancel was accepted
         sent      : BOOLEAN]              \* the result was sent
Ctx  == [pc : CtxPC, link : BOOLEAN]
Call == [pc   : {"idle", "check", "merge", "write", "send"},
         op   : Calls \cup {None},
         saw  : RunState,                  \* the state it read
         made : 0..MaxCalls]

NoRun == [pc |-> "off", kc |-> None, armed |-> FALSE, then |-> "retry",
          outcome |-> "end", cancelled |-> FALSE, sent |-> FALSE]

GoroutinesTypeOK ==
    /\ run \in [Runs -> Run]
    /\ ctx \in [Contexts -> Ctx]
    /\ call \in [Callers -> Call]

ObjectTypeOK ==
    /\ state \in RunState
    /\ moves \in 0..MaxMoves
    /\ lastSignal \in {"none", "insert-card", "card-inserted", "action", "flow-result"}
    /\ abandoned \subseteq Contexts
    /\ panicked \in {"no", "resumed while connecting", "write to a nil map"}

FlagsTypeOK ==
    /\ {params, reader, card, asked} \subseteq BOOLEAN
    /\ card => reader

TypeOK == GoroutinesTypeOK /\ ObjectTypeOK /\ FlagsTypeOK

Live == {r \in Runs : run[r].pc # "off"}

\* A context that has ended can be collected once no run refers to it.
Free(k) == ctx[k].pc = "end" /\ \A r \in Runs : run[r].kc # k

Init ==
    /\ state = "Idle" /\ params = FALSE
    /\ run = [r \in Runs |-> NoRun]
    /\ ctx = [k \in Contexts |-> [pc |-> "end", link |-> FALSE]]
    /\ call = [c \in Callers |->
                 [pc |-> "idle", op |-> None, saw |-> "Idle", made |-> 0]]
    /\ reader \in BOOLEAN /\ card \in BOOLEAN /\ (card => reader)
    /\ moves = 0 /\ asked = FALSE /\ lastSignal = "none"
    /\ abandoned = {} /\ panicked = "no"

-----------------------------------------------------------------------------
\* The callers.

hardware == <<reader, card, moves>>
history  == <<asked, lastSignal, abandoned, panicked>>

Goto(r, label)     == run' = [run EXCEPT ![r].pc = label]
CallGoto(c, label) == call' = [call EXCEPT ![c].pc = label]

\* A patient client answers once the flow is waiting for it, never answers a
\* request for a card, and starts a flow once the last one is over.
Appropriate(op) ==
    IF op = "Start" THEN state = "Idle" /\ Live = {}
    ELSE \E r \in Runs : run[r].pc = "parked"

Invoke(c, op) ==
    /\ call[c].pc = "idle" /\ call[c].made < MaxCalls
    /\ Patient => Appropriate(op)
    /\ call' = [call EXCEPT ![c].pc = "check", ![c].op = op, ![c].made = @ + 1]
    /\ UNCHANGED <<state, params, run, ctx, hardware, history>>

\* Mutant: a cancelled flow counts as over.
CancelledIsIdle(op) == CASE op = "Start"  -> state \in {"Idle", "Cancelling"}
                         [] op = "Resume" -> state = "Paused"
                         [] op = "Cancel" -> state # "Idle"

Accepted(op) == CASE op = "Start"  -> state = "Idle"
                  [] op = "Resume" -> state = "Paused"
                  [] op = "Cancel" -> state # "Idle"

Refuse(c) ==
    /\ call[c].pc = "check" /\ ~Accepted(call[c].op)
    /\ call' = [call EXCEPT ![c].pc = "idle", ![c].op = None, ![c].saw = "Idle"]
    /\ UNCHANGED <<state, params, run, ctx, hardware, history>>

Accept(c) ==
    /\ call[c].pc = "check" /\ Accepted(call[c].op)
    /\ call' = [call EXCEPT ![c].saw = state,
                            ![c].pc = IF call[c].op = "Resume" THEN "merge" ELSE "write"]
    /\ UNCHANGED <<state, params, run, ctx, hardware, history>>

Return(c) == call' = [call EXCEPT ![c].pc = "idle", ![c].op = None, ![c].saw = "Idle"]

\* flowType, params and state are set, and the goroutine is started.
StartWrite(c) ==
    /\ call[c].pc = "write" /\ call[c].op = "Start"
    /\ state' = "Running" /\ params' = TRUE
    /\ \E r \in Runs \ Live : run' = [run EXCEPT ![r] = [NoRun EXCEPT !.pc = "open"]]
    /\ Return(c)
    /\ UNCHANGED <<ctx, hardware, history>>

\* The client's parameters are copied into f.params; a resume without any
\* parameter writes nothing.
ResumeMerge(c) ==
    /\ call[c].pc = "merge"
    /\ \/ CallGoto(c, "write") /\ UNCHANGED panicked
       \/ ~params /\ panicked' = "write to a nil map" /\ UNCHANGED call
    /\ UNCHANGED <<state, params, run, ctx, hardware, asked, lastSignal, abandoned>>

ResumeWrite(c) ==
    /\ call[c].pc = "write" /\ call[c].op = "Resume"
    /\ state' = "Resuming" /\ asked' = FALSE
    /\ CallGoto(c, "send")
    /\ UNCHANGED <<params, run, ctx, hardware, lastSignal, abandoned, panicked>>

CancelWrite(c) ==
    /\ call[c].pc = "write" /\ call[c].op = "Cancel"
    /\ state' = "Cancelling" /\ asked' = FALSE
    /\ IF call[c].saw = "Paused" THEN CallGoto(c, "send") ELSE Return(c)
    /\ run' = [r \in Runs |-> [run[r] EXCEPT !.cancelled = r \in Live]]
    /\ UNCHANGED <<params, ctx, hardware, lastSignal, abandoned, panicked>>

-----------------------------------------------------------------------------
\* connect: start a keycard context, wait for it, for the timer, or for the
\* client.

Open(r) ==
    /\ run[r].pc = "open"
    /\ \E k \in Contexts :
          /\ Free(k)
          /\ ctx' = [ctx EXCEPT ![k] = [pc |-> "start", link |-> FALSE]]
          /\ run' = [run EXCEPT ![r].pc = "hello", ![r].kc = k]
          /\ abandoned' = abandoned \ {k}
    /\ UNCHANGED <<state, params, call, hardware, asked, lastSignal, panicked>>

\* Mutants: an error of start ends the flow quietly; no timer is made.
QuietError(r) ==
    /\ run[r].pc = "hello"
    /\ LET k == run[r].kc IN
         \/ /\ ctx[k].pc = "hello"
            /\ ctx' = [ctx EXCEPT ![k].pc = "wait"]
            /\ run' = [run EXCEPT ![r].pc = "select", ![r].armed = TRUE]
         \/ /\ ctx[k].pc = "end"
            /\ run' = [run EXCEPT ![r].pc = "clear", ![r].kc = None, ![r].outcome = "end"]
            /\ UNCHANGED ctx
    /\ UNCHANGED <<state, params, call, hardware, history>>

NoTimer(r) ==
    /\ run[r].pc = "hello"
    /\ LET k == run[r].kc IN
         \/ /\ ctx[k].pc = "hello"
            /\ ctx' = [ctx EXCEPT ![k].pc = "wait"]
            /\ Goto(r, "select")
         \/ /\ ctx[k].pc = "end"
            /\ run' = [run EXCEPT ![r].pc = "report", ![r].kc = None, ![r].outcome = "end"]
            /\ UNCHANGED ctx
    /\ UNCHANGED <<state, params, call, hardware, history>>

\* StartKeycardContext receives from connected: the first value, or the close
\* that follows an error of start.
Hello(r) ==
    /\ run[r].pc = "hello"
    /\ LET k == run[r].kc IN
         \/ /\ ctx[k].pc = "hello"
            /\ ctx' = [ctx EXCEPT ![k].pc = "wait"]
            /\ run' = [run EXCEPT ![r].pc = "select", ![r].armed = TRUE]
         \/ /\ ctx[k].pc = "end"
            /\ run' = [run EXCEPT ![r].pc = "report", ![r].kc = None, ![r].outcome = "end"]
            /\ UNCHANGED ctx
    /\ UNCHANGED <<state, params, call, hardware, history>>

\* The select of connect has three cases.
SelectWake(r, c) ==
    /\ run[r].pc = "select" /\ call[c].pc = "send"
    /\ Goto(r, "woken") /\ Return(c)
    /\ UNCHANGED <<state, params, ctx, hardware, history>>

SelectConnected(r) ==
    /\ run[r].pc = "select"
    /\ LET k == run[r].kc IN
         \/ /\ ctx[k].pc = "ready"
            /\ ctx' = [ctx EXCEPT ![k].pc = "loop"]
            /\ run' = [run EXCEPT ![r].pc = "present", ![r].armed = FALSE]
         \/ /\ ctx[k].pc = "end"      \* RunErr is not nil
            /\ run' = [run EXCEPT ![r].pc = "open", ![r].kc = None,
                                  ![r].armed = FALSE, ![r].outcome = "restart"]
            /\ UNCHANGED ctx
    /\ UNCHANGED <<state, params, call, hardware, history>>

\* pause(InsertCard) sends its signal before it writes the state.
SelectTimer(r) ==
    /\ run[r].pc = "select" /\ run[r].armed
    /\ run' = [run EXCEPT ![r].pc = "tick", ![r].armed = FALSE]
    /\ lastSignal' = "insert-card" /\ asked' = TRUE
    /\ UNCHANGED <<state, params, ctx, call, hardware, abandoned, panicked>>

Tick(r) ==
    /\ run[r].pc = "tick"
    /\ state' = "Paused" /\ Goto(r, "select")
    /\ UNCHANGED <<params, ctx, call, hardware, history>>

\* connect returns a nil context, so nobody will stop the one it started.
Woken(r) ==
    /\ run[r].pc = "woken"
    /\ IF state = "Cancelling"
       THEN /\ run' = [run EXCEPT ![r].pc = "report", ![r].kc = None, ![r].outcome = "end"]
            /\ abandoned' = abandoned \cup {run[r].kc}
            /\ UNCHANGED panicked
       ELSE panicked' = "resumed while connecting" /\ UNCHANGED <<run, abandoned>>
    /\ UNCHANGED <<state, params, ctx, call, hardware, asked, lastSignal>>

Present(r) ==
    /\ run[r].pc = "present"
    /\ Goto(r, IF state = "Paused" THEN "greet" ELSE "body")
    /\ UNCHANGED <<state, params, ctx, call, hardware, history>>

Greet(r) ==
    /\ run[r].pc = "greet"
    /\ state' = "Running" /\ lastSignal' = "card-inserted" /\ asked' = FALSE
    /\ Goto(r, "body")
    /\ UNCHANGED <<params, ctx, call, hardware, abandoned, panicked>>

-----------------------------------------------------------------------------
\* The rest of connectedFlow, and runFlow.

\* A flow has a result, or an error other than restartError.
Finish(r) ==
    /\ run[r].pc = "body"
    /\ run' = [run EXCEPT ![r].pc = "close", ![r].outcome = "end"]
    /\ UNCHANGED <<state, params, ctx, call, hardware, history>>

\* An error of the PC/SC layer restarts the flow; so do, with the card still
\* in place, a factory reset and an initialisation.
Lost(r) ==
    /\ run[r].pc = "body"
    /\ IF ctx[run[r].kc].link THEN moves < MaxMoves /\ moves' = moves + 1
                               ELSE UNCHANGED moves
    /\ run' = [run EXCEPT ![r].pc = "close", ![r].outcome = "restart"]
    /\ UNCHANGED <<state, params, ctx, call, reader, card, history>>

\* pauseAndWait, which goes on where it was, or pauseAndRestart.
Need(r, then) ==
    /\ run[r].pc = "body"
    /\ run' = [run EXCEPT ![r].pc = "check", ![r].then = then]
    /\ UNCHANGED <<state, params, ctx, call, hardware, history>>

\* Mutant: a return value that runFlow does not know.
GiveUpKind(r) == run' = [run EXCEPT ![r].pc = "close", ![r].outcome = "giveup"]
GiveUp(r) == run' = [run EXCEPT ![r].pc = "close", ![r].outcome = "end"]

Check(r) ==
    /\ run[r].pc = "check"
    /\ IF state = "Cancelling" THEN GiveUp(r) ELSE Goto(r, "ask")
    /\ UNCHANGED <<state, params, ctx, call, hardware, history>>

Ask(r) ==
    /\ run[r].pc = "ask"
    /\ lastSignal' = "action" /\ asked' = TRUE /\ Goto(r, "park")
    /\ UNCHANGED <<state, params, ctx, call, hardware, abandoned, panicked>>

\* Mutant: the state is left as it was.
ParkRunning(r) ==
    /\ run[r].pc = "park"
    /\ Goto(r, "parked")
    /\ UNCHANGED <<state, params, ctx, call, hardware, history>>

Park(r) ==
    /\ run[r].pc = "park"
    /\ state' = "Paused" /\ Goto(r, "parked")
    /\ UNCHANGED <<params, ctx, call, hardware, history>>

Wake(r, c) ==
    /\ run[r].pc = "parked" /\ call[c].pc = "send"
    /\ Goto(r, "resumed") /\ Return(c)
    /\ UNCHANGED <<state, params, ctx, hardware, history>>

\* Mutant: every wake-up resumes the flow.
AlwaysResumed(r) ==
    /\ run[r].pc = "resumed"
    /\ Goto(r, "resume")
    /\ UNCHANGED <<state, params, ctx, call, hardware, history>>

Resumed(r) ==
    /\ run[r].pc = "resumed"
    /\ IF state = "Resuming" THEN Goto(r, "resume") ELSE GiveUp(r)
    /\ UNCHANGED <<state, params, ctx, call, hardware, history>>

Resume(r) ==
    /\ run[r].pc = "resume"
    /\ state' = "Running"
    /\ run' = [run EXCEPT ![r].pc = IF run[r].then = "retry" THEN "body" ELSE "close",
                          ![r].outcome = IF run[r].then = "retry" THEN @ ELSE "restart"]
    /\ UNCHANGED <<params, ctx, call, hardware, history>>

\* Mutant: a restart forgets to stop the context.
CloseAtEnd(r) ==
    /\ run[r].pc = "close"
    /\ ctx' = IF run[r].outcome = "end"
              THEN [ctx EXCEPT ![run[r].kc].pc = "closing"] ELSE ctx
    /\ run' = [run EXCEPT ![r].kc = None,
                          ![r].pc = IF run[r].outcome = "restart" THEN "open" ELSE "report"]
    /\ UNCHANGED <<state, params, call, hardware, history>>

\* The deferred closeKeycard; runFlow then tries again or reports.
Close(r) ==
    /\ run[r].pc = "close"
    /\ ctx' = [ctx EXCEPT ![run[r].kc].pc = "closing"]
    /\ run' = [run EXCEPT ![r].kc = None,
                          ![r].pc = IF run[r].outcome = "restart" THEN "open" ELSE "report"]
    /\ UNCHANGED <<state, params, call, hardware, history>>

Report(r) ==
    /\ run[r].pc = "report"
    /\ Goto(r, IF state = "Cancelling" THEN "clear" ELSE "deliver")
    /\ UNCHANGED <<state, params, ctx, call, hardware, history>>

Deliver(r) ==
    /\ run[r].pc = "deliver"
    /\ run' = [run EXCEPT ![r].pc = "clear", ![r].sent = TRUE]
    /\ lastSignal' = "flow-result" /\ asked' = FALSE
    /\ UNCHANGED <<state, params, ctx, call, hardware, abandoned, panicked>>

Clear(r) ==
    /\ run[r].pc = "clear"
    /\ params' = FALSE /\ Goto(r, "exit")
    /\ UNCHANGED <<state, ctx, call, hardware, history>>

\* Mutant: the state is not reset.
ExitBusy(r) ==
    /\ run[r].pc = "exit"
    /\ run' = [run EXCEPT ![r] = NoRun]
    /\ UNCHANGED <<state, params, ctx, call, hardware, history>>

Exit(r) ==
    /\ run[r].pc = "exit"
    /\ state' = "Idle"
    /\ run' = [run EXCEPT ![r] = NoRun]
    /\ UNCHANGED <<params, ctx, call, hardware, history>>

RunStep(r) ==
    \/ Open(r) \/ Hello(r) \/ SelectConnected(r) \/ SelectTimer(r) \/ Tick(r)
    \/ Woken(r) \/ Present(r) \/ Greet(r) \/ Check(r) \/ Ask(r) \/ Park(r)
    \/ Resumed(r) \/ Resume(r) \/ Close(r) \/ Report(r) \/ Deliver(r)
    \/ Clear(r) \/ Exit(r)

Body(r) == Finish(r) \/ Lost(r) \/ Need(r, "retry") \/ Need(r, "restart")

-----------------------------------------------------------------------------
\* KeycardContext.run.  Its deferred function sets runErr and closes connected.

\* start fails when there is no reader, or no PC/SC service to ask.
CtxStart(k) ==
    /\ ctx[k].pc = "start"
    /\ \/ reader /\ ctx' = [ctx EXCEPT ![k].pc = "hello"]
       \/ ~reader /\ ctx' = [ctx EXCEPT ![k].pc = "end"]
    /\ UNCHANGED <<state, params, run, call, hardware, history>>

\* waitForCard; its status change call fails when the reader is gone.
CtxWait(k) ==
    /\ ctx[k].pc = "wait"
    /\ \/ card /\ ctx' = [ctx EXCEPT ![k].pc = "link"]
       \/ ~reader /\ ctx' = [ctx EXCEPT ![k].pc = "end"]
    /\ UNCHANGED <<state, params, run, call, hardware, history>>

CtxLink(k) ==
    /\ ctx[k].pc = "link"
    /\ IF card THEN ctx' = [ctx EXCEPT ![k] = [pc |-> "ready", link |-> TRUE]]
               ELSE ctx' = [ctx EXCEPT ![k].pc = "end"]
    /\ UNCHANGED <<state, params, run, call, hardware, history>>

\* The command loop ends when Stop closes its channel.
CtxEnd(k) ==
    /\ ctx[k].pc = "closing"
    /\ ctx' = [ctx EXCEPT ![k] = [pc |-> "end", link |-> FALSE]]
    /\ UNCHANGED <<state, params, run, call, hardware, history>>

CtxStep(k) == CtxStart(k) \/ CtxWait(k) \/ CtxLink(k) \/ CtxEnd(k)

\* A handle does not survive the card it was made for.
MoveCard ==
    /\ reader /\ moves < MaxMoves
    /\ card' = ~card /\ moves' = moves + 1
    /\ ctx' = [k \in Contexts |-> [ctx[k] EXCEPT !.link = FALSE]]
    /\ UNCHANGED <<state, params, run, call, reader, history>>

MoveReader ==
    /\ moves < MaxMoves
    /\ reader' = ~reader /\ card' = FALSE /\ moves' = moves + 1
    /\ ctx' = [k \in Contexts |-> [ctx[k] EXCEPT !.link = FALSE]]
    /\ UNCHANGED <<state, params, run, call, history>>

-----------------------------------------------------------------------------

CallStep(c) ==
    \/ Refuse(c) \/ Accept(c) \/ StartWrite(c) \/ ResumeMerge(c)
    \/ ResumeWrite(c) \/ CancelWrite(c)

Rendezvous(r, c) == SelectWake(r, c) \/ Wake(r, c)

Next ==
    /\ panicked = "no"
    /\ \/ \E c \in Callers, op \in Calls : Invoke(c, op)
       \/ \E c \in Callers : CallStep(c)
       \/ \E r \in Runs : RunStep(r) \/ Body(r)
       \/ \E r \in Runs, c \in Callers : Rendezvous(r, c)
       \/ \E k \in Contexts : CtxStep(k)
       \/ MoveCard \/ MoveReader

Spec == Init /\ [][Next]_vars

\* Goroutines that can run are run, the commands of a flow are finitely many
\* (FlowCommands), and a thread inside a call goes on.  Clients and users owe
\* nothing.
Fairness ==
    /\ \A r \in Runs : WF_vars(panicked = "no" /\ (RunStep(r) \/ Body(r)))
    /\ \A r \in Runs, c \in Callers : WF_vars(panicked = "no" /\ Rendezvous(r, c))
    /\ \A c \in Callers : WF_vars(panicked = "no" /\ CallStep(c))
    /\ \A k \in Contexts : WF_vars(panicked = "no" /\ CtxStep(k))

FairSpec == Spec /\ Fairness

-----------------------------------------------------------------------------
\* Properties.

\* At most one goroutine of runFlow is alive: Start refuses a second flow as
\* "already running" (flow.go:61).
OneFlow == Cardinality(Live) <= 1

\* A flow that ends has sent its result, unless the client cancelled it: no
\* path through connect, the restarts and the pauses of flow.go ends a flow
\* without telling the client (flow.go:103).
NoSilentEnd ==
    \A r \in Runs : run[r].pc \in {"clear", "exit"} => run[r].sent \/ run[r].cancelled

\* Every keycard context that is alive belongs to a flow that will stop it,
\* except those connect gave up on when the client cancelled the wait for a
\* card (flow.go:216-220 against the deferred stop of flow.go:240).
LeaksOnlyByCancel ==
    \A k \in Contexts : ctx[k].pc \notin {"closing", "end"} =>
        k \in abandoned \/ \E r \in Runs : run[r].kc = k

\* A flow only waits for a card, or for the client, after it has said so and
\* while its state says so: otherwise Resume and Cancel would not reach it.
Parked(r) == run[r].pc = "parked" \/ (run[r].pc = "select" /\ ~run[r].armed)
WaitsAreAnnounced ==
    \A r \in Runs : Parked(r) /\ (\A c \in Callers : call[c].pc # "send")
                      => state = "Paused"

\* A flow never stays alive without a card to talk to or a question put to
\* the client: sooner or later it ends, or waits for an answer it asked for.
WorksOrAsks ==
    \A r \in Runs : run[r].pc # "off" ~> run[r].pc = "off" \/ (Parked(r) /\ asked)

\* Every call of Start, Resume and Cancel returns to the client.
CallReturns == \A c \in Callers : call[c].pc # "idle" ~> call[c].pc = "idle"

\* A flow that the client cancelled ends.
CancelEnds == \A r \in Runs : run[r].cancelled ~> run[r].pc = "off"

\* Resuming a flow that asked for something never kills the process: README.md
\* says that the client continues a paused flow "when the required action was
\* performed", inserting a card included.
ResumeNeverPanics == panicked = "no"

\* A client that answers the request of a flow is not refused.
AnswerAccepted ==
    [][\A c \in Callers : Refuse(c) /\ call[c].op = "Resume" => ~asked]_vars

\* A client that has received the result of a flow can start another one.
StartAfterResult ==
    [][\A c \in Callers :
          Refuse(c) /\ call[c].op = "Start" => lastSignal # "flow-result"]_vars

\* A flow that was cancelled asks the client for nothing more.
CancelIsFinal ==
    [][\A r \in Runs : SelectTimer(r) \/ Ask(r) => ~run[r].cancelled]_vars

\* The state is Idle again when no flow is running, so that one can start.
IdleWhenDone ==
    Live = {} /\ (\A c \in Callers : call[c].pc = "idle") => state = "Idle"

-----------------------------------------------------------------------------
\* The abstract flow: a run that has sent its result is over for the client,
\* though it has yet to put the state back.

Over == \A r \in Live : run[r].sent

PhaseBar == IF Over THEN "idle"
            ELSE IF \E r \in Live : run[r].cancelled THEN "cancelled"
            ELSE IF asked THEN "asking" ELSE "working"
HeardBar == IF PhaseBar = "asking"
            THEN IF lastSignal = "insert-card" THEN "card" ELSE "question"
            ELSE IF Over /\ lastSignal = "flow-result" THEN "result" ELSE "nothing"

Protocol == INSTANCE FlowProtocol
              WITH phase <- PhaseBar, heard <- HeardBar

\* For a client that calls only when the flow listens, runFlow, connect and the
\* pauses of flow.go, with every card that comes and goes and every restart,
\* implement FlowProtocol, its progress included.
ImplementsProtocol == Protocol!Spec
=============================================================================
