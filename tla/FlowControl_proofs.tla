-------------------------- MODULE FlowControl_proofs --------------------------
(***************************************************************************)
(* Theorems about FlowControl, for any number of runs and contexts and any *)
(* bounds: what holds whatever the client does, what holds when it calls   *)
(* from one thread, and what holds when it also waits until the flow       *)
(* listens, the implementation of FlowProtocol included.                   *)
(***************************************************************************)
EXTENDS FlowControl, FiniteSetTheorems, TLAPS

-----------------------------------------------------------------------------
\* Types, and which goroutines refer to a keycard context.

\* A run has a context between the start of connect and closeKeycard.
Bare == {"off", "open", "report", "deliver", "clear", "exit"}
ContextOwned == \A r \in Runs : run[r].kc = None <=> run[r].pc \in Bare

TypeInv == TypeOK /\ ContextOwned

\* The records of a run, a context and a call, changed as the actions change them.
LEMMA RunRecords ==
    /\ NoRun \in Run /\ [NoRun EXCEPT !.pc = "open"] \in Run
    /\ \A x \in Run, l \in RunPC :
         /\ [x EXCEPT !.pc = l] \in Run
         /\ [x EXCEPT !.pc = l, !.sent = TRUE] \in Run
         /\ \A k \in Contexts : [x EXCEPT !.pc = l, !.kc = k] \in Run
         /\ \A o \in {"restart", "end"} :
              /\ [x EXCEPT !.pc = l, !.outcome = o] \in Run
              /\ [x EXCEPT !.pc = l, !.kc = None, !.outcome = o] \in Run
              /\ [x EXCEPT !.pc = l, !.kc = None, !.armed = FALSE, !.outcome = o] \in Run
         /\ \A b \in BOOLEAN : [x EXCEPT !.pc = l, !.armed = b] \in Run
         /\ \A th \in {"retry", "restart"} : [x EXCEPT !.pc = l, !.then = th] \in Run
         /\ [x EXCEPT !.kc = None, !.pc = l] \in Run
    /\ \A x \in Run, b \in BOOLEAN : [x EXCEPT !.cancelled = b] \in Run
<1>1. NoRun \in Run /\ [NoRun EXCEPT !.pc = "open"] \in Run
  BY DEF Run, NoRun, RunPC
<1>2. ASSUME NEW x \in Run, NEW l \in RunPC
      PROVE  /\ [x EXCEPT !.pc = l] \in Run
             /\ [x EXCEPT !.kc = None, !.pc = l] \in Run
             /\ \A k \in Contexts : [x EXCEPT !.pc = l, !.kc = k] \in Run
             /\ \A th \in {"retry", "restart"} : [x EXCEPT !.pc = l, !.then = th] \in Run
  BY DEF Run
<1>3. ASSUME NEW x \in Run, NEW l \in RunPC, NEW o \in {"restart", "end"}
      PROVE  /\ [x EXCEPT !.pc = l, !.outcome = o] \in Run
             /\ [x EXCEPT !.pc = l, !.kc = None, !.outcome = o] \in Run
  BY DEF Run
<1>4. ASSUME NEW x \in Run, NEW l \in RunPC, NEW o \in {"restart", "end"}
      PROVE  [x EXCEPT !.pc = l, !.kc = None, !.armed = FALSE, !.outcome = o] \in Run
  BY DEF Run
<1>5. ASSUME NEW x \in Run, NEW l \in RunPC, NEW b \in BOOLEAN
      PROVE  [x EXCEPT !.pc = l, !.armed = b] \in Run
  BY DEF Run
<1>6. ASSUME NEW x \in Run, NEW l \in RunPC
      PROVE  [x EXCEPT !.pc = l, !.sent = TRUE] \in Run
  BY DEF Run
<1>7. ASSUME NEW x \in Run, NEW b \in BOOLEAN
      PROVE  [x EXCEPT !.cancelled = b] \in Run
  BY DEF Run
<1>8. QED
  BY <1>1, <1>2, <1>3, <1>4, <1>5, <1>6, <1>7

\* The same of a call.
LEMMA CallRecords ==
    \A x \in Call :
        /\ [x EXCEPT !.pc = "idle", !.op = None, !.saw = "Idle"] \in Call
        /\ [x EXCEPT !.pc = "write"] \in Call
        /\ [x EXCEPT !.pc = "send"] \in Call
        /\ \A s \in RunState, l \in {"merge", "write"} : [x EXCEPT !.saw = s, !.pc = l] \in Call
        /\ \A op \in Calls : x.made < MaxCalls =>
             [x EXCEPT !.pc = "check", !.op = op, !.made = @ + 1] \in Call
<1> TAKE x \in Call
<1>1. [x EXCEPT !.pc = "idle", !.op = None, !.saw = "Idle"] \in Call
  BY DEF Call, RunState
<1>2. [x EXCEPT !.pc = "write"] \in Call /\ [x EXCEPT !.pc = "send"] \in Call
  BY DEF Call
<1>3. \A s \in RunState, l \in {"merge", "write"} : [x EXCEPT !.saw = s, !.pc = l] \in Call
  BY DEF Call
<1>4. ASSUME NEW op \in Calls, x.made < MaxCalls
      PROVE  [x EXCEPT !.pc = "check", !.op = op, !.made = @ + 1] \in Call
  <2>1. x.made + 1 \in 0..MaxCalls
    BY <1>4, FlowAssumption DEF Call
  <2>2. QED
    BY <2>1 DEF Call
<1>5. QED
  BY <1>1, <1>2, <1>3, <1>4

\* The same of a context.
LEMMA ContextRecords ==
    /\ \A x \in Ctx, l \in CtxPC : [x EXCEPT !.pc = l] \in Ctx
    /\ \A x \in Ctx : [x EXCEPT !.link = FALSE] \in Ctx
    /\ \A l \in CtxPC, b \in BOOLEAN : [pc |-> l, link |-> b] \in Ctx
BY DEF Ctx

\* A step changes one run, and keeps its record.
LEMMA RunTyped ==
    ASSUME run \in [Runs -> Run], Next
    PROVE  run' \in [Runs -> Run]
<1>1. ASSUME NEW r \in Runs, RunStep(r) PROVE \E x \in Run : run' = [run EXCEPT ![r] = x]
  <2>0. run[r] \in Run /\ RunPC = RunPC
    OBVIOUS
  <2>1. CASE Open(r)
    BY <2>0, <2>1, RunRecords DEF Open, RunPC
  <2>2. CASE Hello(r)
    BY <2>0, <2>2, RunRecords DEF Hello, RunPC
  <2>3. CASE SelectConnected(r)
    BY <2>0, <2>3, RunRecords DEF SelectConnected, RunPC
  <2>4. CASE SelectTimer(r) 
    BY <2>0, <2>4, RunRecords DEF SelectTimer, RunPC
  <2>5. CASE Tick(r) \/ Present(r) \/ Greet(r) \/ Ask(r) \/ Park(r) \/ Report(r) \/ Clear(r)
    BY <2>0, <2>5, RunRecords DEF Tick, Present, Greet, Ask, Park, Report, Clear, Goto, RunPC
  <2>6. CASE Woken(r)
    BY <2>0, <2>6, RunRecords DEF Woken, RunPC
  <2>7. CASE Check(r) \/ Resumed(r)
    BY <2>0, <2>7, RunRecords DEF Check, Resumed, GiveUp, Goto, RunPC
  <2>8. CASE Resume(r)
    <3>1. run[r].outcome \in {"restart", "end"}
      BY <2>0 DEF Run
    <3>2. QED
      BY <2>0, <2>8, <3>1, RunRecords DEF Resume, RunPC
  <2>9. CASE Close(r)
    BY <2>0, <2>9, RunRecords DEF Close, RunPC
  <2>10. CASE Deliver(r)
    BY <2>0, <2>10, RunRecords DEF Deliver, RunPC
  <2>11. CASE Exit(r)
    BY <2>0, <2>11, RunRecords DEF Exit
  <2>12. QED
    BY <1>1, <2>1, <2>2, <2>3, <2>4, <2>5, <2>6, <2>7, <2>8, <2>9, <2>10, <2>11 DEF RunStep
<1>2. ASSUME NEW r \in Runs, Body(r) PROVE \E x \in Run : run' = [run EXCEPT ![r] = x]
  BY <1>2, RunRecords DEF Body, Finish, Lost, Need, RunPC
<1>3. ASSUME NEW c \in Callers, CallStep(c) PROVE run' \in [Runs -> Run]
  <2>1. CASE StartWrite(c)
    BY <2>1, RunRecords DEF StartWrite
  <2>2. CASE CancelWrite(c)
    <3>1. \A s \in Runs : [run[s] EXCEPT !.cancelled = s \in Live] \in Run
      <4>1. \A s \in Runs : (s \in Live) \in BOOLEAN
        OBVIOUS
      <4>2. QED
        BY <4>1, RunRecords
    <3>2. QED
      BY <2>2, <3>1 DEF CancelWrite
  <2>3. CASE Refuse(c) \/ Accept(c) \/ ResumeMerge(c) \/ ResumeWrite(c)
    BY <2>3 DEF Refuse, Accept, ResumeMerge, ResumeWrite
  <2>4. QED
    BY <1>3, <2>1, <2>2, <2>3 DEF CallStep
<1>4. ASSUME NEW r \in Runs, NEW c \in Callers, Rendezvous(r, c)
      PROVE  \E x \in Run : run' = [run EXCEPT ![r] = x]
  BY <1>4, RunRecords DEF Rendezvous, SelectWake, Wake, Goto, RunPC
<1>5. ASSUME NEW k \in Contexts, CtxStep(k) PROVE run' = run
  BY <1>5 DEF CtxStep, CtxStart, CtxWait, CtxLink, CtxEnd
<1>6. ASSUME NEW c \in Callers, NEW op \in Calls, Invoke(c, op) PROVE run' = run
  BY <1>6 DEF Invoke
<1>7. ASSUME MoveCard \/ MoveReader PROVE run' = run
  BY <1>7 DEF MoveCard, MoveReader
<1>8. QED
  BY <1>1, <1>2, <1>3, <1>4, <1>5, <1>6, <1>7 DEF Next

\* A step changes contexts one at a time, or their links.
LEMMA ContextTyped ==
    ASSUME ctx \in [Contexts -> Ctx], Next
    PROVE  ctx' \in [Contexts -> Ctx]
<1>1. ASSUME NEW r \in Runs, RunStep(r)
      PROVE  ctx' = ctx \/ \E k, x : x \in Ctx /\ ctx' = [ctx EXCEPT ![k] = x]
  <2>1. CASE Open(r)
    BY <2>1, ContextRecords DEF Open, CtxPC
  <2>2. CASE Hello(r) \/ SelectConnected(r) \/ Close(r)
    <3>1. ctx' = ctx \/ \E k, l : l \in CtxPC /\ ctx' = [ctx EXCEPT ![k].pc = l]
      BY <2>2 DEF Hello, SelectConnected, Close, CtxPC
    <3>2. QED
      BY <3>1, ContextRecords
  <2>3. CASE ~(Open(r) \/ Hello(r) \/ SelectConnected(r) \/ Close(r))
    BY <1>1, <2>3 DEF RunStep, SelectTimer, Tick, Woken, Present, Greet, Check, Ask, Park, Resumed,
       Resume, Report, Deliver, Clear, Exit
  <2>4. QED
    BY <2>1, <2>2, <2>3
<1>2. ASSUME NEW r \in Runs, Body(r) PROVE ctx' = ctx
  BY <1>2 DEF Body, Finish, Lost, Need
<1>3. ASSUME NEW c \in Callers, CallStep(c) PROVE ctx' = ctx
  BY <1>3 DEF CallStep, Refuse, Accept, StartWrite, ResumeMerge, ResumeWrite, CancelWrite
<1>4. ASSUME NEW r \in Runs, NEW c \in Callers, Rendezvous(r, c) PROVE ctx' = ctx
  BY <1>4 DEF Rendezvous, SelectWake, Wake
<1>5. ASSUME NEW k \in Contexts, CtxStep(k)
      PROVE  \E x \in Ctx : ctx' = [ctx EXCEPT ![k] = x]
  BY <1>5, ContextRecords DEF CtxStep, CtxStart, CtxWait, CtxLink, CtxEnd, CtxPC
<1>6. ASSUME NEW c \in Callers, NEW op \in Calls, Invoke(c, op) PROVE ctx' = ctx
  BY <1>6 DEF Invoke
<1>7. ASSUME MoveCard \/ MoveReader PROVE ctx' \in [Contexts -> Ctx]
  BY <1>7, ContextRecords DEF MoveCard, MoveReader
<1>8. QED
  BY <1>1, <1>2, <1>3, <1>4, <1>5, <1>6, <1>7 DEF Next

\* A step changes one call.
LEMMA CallTyped ==
    ASSUME call \in [Callers -> Call], state \in RunState, Next
    PROVE  call' \in [Callers -> Call]
<1>1. ASSUME NEW r \in Runs, RunStep(r) PROVE call' = call
  BY <1>1 DEF RunStep, Open, Hello, SelectConnected, SelectTimer, Tick, Woken, Present, Greet,
     Check, Ask, Park, Resumed, Resume, Close, Report, Deliver, Clear, Exit
<1>2. ASSUME NEW r \in Runs, Body(r) PROVE call' = call
  BY <1>2 DEF Body, Finish, Lost, Need
<1>3. ASSUME NEW c \in Callers, CallStep(c)
      PROVE  call' = call \/ \E x \in Call : call' = [call EXCEPT ![c] = x]
  <2>1. CASE Refuse(c) \/ StartWrite(c)
    BY <2>1, CallRecords DEF Refuse, StartWrite, Return
  <2>2. CASE Accept(c)
    BY <2>2, CallRecords DEF Accept
  <2>3. CASE ResumeMerge(c) \/ ResumeWrite(c) \/ CancelWrite(c)
    BY <2>3, CallRecords DEF ResumeMerge, ResumeWrite, CancelWrite, CallGoto, Return
  <2>4. QED
    BY <1>3, <2>1, <2>2, <2>3 DEF CallStep
<1>4. ASSUME NEW r \in Runs, NEW c \in Callers, Rendezvous(r, c)
      PROVE  \E x \in Call : call' = [call EXCEPT ![c] = x]
  BY <1>4, CallRecords DEF Rendezvous, SelectWake, Wake, Return
<1>5. ASSUME NEW k \in Contexts, CtxStep(k) PROVE call' = call
  BY <1>5 DEF CtxStep, CtxStart, CtxWait, CtxLink, CtxEnd
<1>6. ASSUME NEW c \in Callers, NEW op \in Calls, Invoke(c, op)
      PROVE  \E x \in Call : call' = [call EXCEPT ![c] = x]
  <2>1. call[c] \in Call /\ call[c].made < MaxCalls
    BY <1>6 DEF Invoke
  <2>2. QED
    BY <1>6, <2>1, CallRecords DEF Invoke
<1>7. ASSUME MoveCard \/ MoveReader PROVE call' = call
  BY <1>7 DEF MoveCard, MoveReader
<1>8. QED
  BY <1>1, <1>2, <1>3, <1>4, <1>5, <1>6, <1>7 DEF Next

\* The state, the last signal, the contexts left behind and the panic keep their types.
LEMMA ObjectTyped ==
    ASSUME TypeInv, Next
    PROVE  ObjectTypeOK'
<1>1. ASSUME NEW r \in Runs, RunStep(r) PROVE ObjectTypeOK'
  <2>1. state' \in RunState /\ lastSignal' \in
          {"none", "insert-card", "card-inserted", "action", "flow-result"}
    BY <1>1 DEF TypeInv, TypeOK, ObjectTypeOK, RunState, RunStep, Open, Hello, SelectConnected,
       SelectTimer, Tick, Woken, Present, Greet, Check, Ask, Park, Resumed, Resume, Close, Report,
       Deliver, Clear, Exit, hardware, history
  <2>2. moves' = moves
    BY <1>1 DEF RunStep, Open, Hello, SelectConnected, SelectTimer, Tick, Woken, Present, Greet,
       Check, Ask, Park, Resumed, Resume, Close, Report, Deliver, Clear, Exit, hardware
  <2>3. panicked' \in {panicked, "resumed while connecting"}
    BY <1>1 DEF RunStep, Open, Hello, SelectConnected, SelectTimer, Tick, Woken, Present, Greet,
       Check, Ask, Park, Resumed, Resume, Close, Report, Deliver, Clear, Exit, history
  <2>4. abandoned' \subseteq Contexts
    <3>1. CASE Woken(r)
      <4>1. run[r].kc \in Contexts
        BY <3>1 DEF TypeInv, TypeOK, GoroutinesTypeOK, ContextOwned, Bare, Run, Woken
      <4>2. QED
        BY <3>1, <4>1 DEF TypeInv, TypeOK, ObjectTypeOK, Woken
    <3>2. CASE ~Woken(r)
      BY <1>1, <3>2 DEF TypeInv, TypeOK, ObjectTypeOK, RunStep, Open, Hello, SelectConnected,
         SelectTimer, Tick, Present, Greet, Check, Ask, Park, Resumed, Resume, Close, Report,
         Deliver, Clear, Exit, history
    <3>3. QED
      BY <3>1, <3>2
  <2>5. QED
    BY <2>1, <2>2, <2>3, <2>4 DEF TypeInv, TypeOK, ObjectTypeOK
<1>2. ASSUME NEW r \in Runs, Body(r) PROVE ObjectTypeOK'
  <2>1. moves' \in 0..MaxMoves
    <3>1. moves \in 0..MaxMoves /\ MaxMoves \in Nat
      BY FlowAssumption DEF TypeInv, TypeOK, ObjectTypeOK
    <3>2. moves' = moves \/ (moves < MaxMoves /\ moves' = moves + 1)
      BY <1>2 DEF Body, Finish, Lost, Need, hardware
    <3>3. QED
      BY <3>1, <3>2
  <2>2. UNCHANGED <<state, history>>
    BY <1>2 DEF Body, Finish, Lost, Need
  <2>3. QED
    BY <2>1, <2>2 DEF TypeInv, TypeOK, ObjectTypeOK, history
<1>3. ASSUME NEW c \in Callers, CallStep(c) PROVE ObjectTypeOK'
  BY <1>3 DEF TypeInv, TypeOK, ObjectTypeOK, RunState, CallStep, Refuse, Accept, StartWrite,
     ResumeMerge, ResumeWrite, CancelWrite, hardware, history
<1>4. ASSUME NEW r \in Runs, NEW c \in Callers, Rendezvous(r, c) PROVE ObjectTypeOK'
  BY <1>4 DEF TypeInv, TypeOK, ObjectTypeOK, Rendezvous, SelectWake, Wake, hardware, history
<1>5. ASSUME NEW k \in Contexts, CtxStep(k) PROVE ObjectTypeOK'
  BY <1>5 DEF TypeInv, TypeOK, ObjectTypeOK, CtxStep, CtxStart, CtxWait, CtxLink, CtxEnd,
     hardware, history
<1>6. ASSUME NEW c \in Callers, NEW op \in Calls, Invoke(c, op) PROVE ObjectTypeOK'
  BY <1>6 DEF TypeInv, TypeOK, ObjectTypeOK, Invoke, hardware, history
<1>7. ASSUME MoveCard \/ MoveReader PROVE ObjectTypeOK'
  <2>1. moves \in 0..MaxMoves /\ MaxMoves \in Nat
    BY FlowAssumption DEF TypeInv, TypeOK, ObjectTypeOK
  <2>2. moves < MaxMoves /\ moves' = moves + 1 /\ UNCHANGED <<state, history>>
    BY <1>7 DEF MoveCard, MoveReader
  <2>3. moves' \in 0..MaxMoves
    BY <2>1, <2>2
  <2>4. QED
    BY <2>2, <2>3 DEF TypeInv, TypeOK, ObjectTypeOK, history
<1>8. QED
  BY <1>1, <1>2, <1>3, <1>4, <1>5, <1>6, <1>7 DEF Next

\* So do the parameters, the reader, the card and what was asked.
LEMMA FlagsTyped ==
    ASSUME FlagsTypeOK, Next
    PROVE  FlagsTypeOK'
<1>1. ASSUME NEW r \in Runs, RunStep(r) PROVE FlagsTypeOK'
  <2>1. UNCHANGED <<reader, card>>
    BY <1>1 DEF RunStep, Open, Hello, SelectConnected, SelectTimer, Tick, Woken, Present, Greet,
       Check, Ask, Park, Resumed, Resume, Close, Report, Deliver, Clear, Exit, hardware
  <2>2. params' = params \/ params' = FALSE
    BY <1>1 DEF RunStep, Open, Hello, SelectConnected, SelectTimer, Tick, Woken, Present, Greet,
       Check, Ask, Park, Resumed, Resume, Close, Report, Deliver, Clear, Exit
  <2>3. asked' = asked \/ asked' = FALSE \/ asked' = TRUE
    BY <1>1 DEF RunStep, Open, Hello, SelectConnected, SelectTimer, Tick, Woken, Present, Greet,
       Check, Ask, Park, Resumed, Resume, Close, Report, Deliver, Clear, Exit, history
  <2>4. QED
    BY <2>1, <2>2, <2>3 DEF FlagsTypeOK
<1>2. ASSUME NEW r \in Runs, Body(r) PROVE FlagsTypeOK'
  BY <1>2 DEF FlagsTypeOK, Body, Finish, Lost, Need, hardware, history
<1>3. ASSUME NEW c \in Callers, CallStep(c) PROVE FlagsTypeOK'
  <2>1. UNCHANGED <<reader, card>>
    BY <1>3 DEF CallStep, Refuse, Accept, StartWrite, ResumeMerge, ResumeWrite, CancelWrite,
       hardware
  <2>2. params' = params \/ params' = TRUE
    BY <1>3 DEF CallStep, Refuse, Accept, StartWrite, ResumeMerge, ResumeWrite, CancelWrite
  <2>3. asked' = asked \/ asked' = FALSE
    BY <1>3 DEF CallStep, Refuse, Accept, StartWrite, ResumeMerge, ResumeWrite, CancelWrite,
       history
  <2>4. QED
    BY <2>1, <2>2, <2>3 DEF FlagsTypeOK
<1>4. ASSUME NEW c \in Callers, NEW op \in Calls, Invoke(c, op) PROVE FlagsTypeOK'
  BY <1>4 DEF FlagsTypeOK, Invoke, hardware, history
<1>5. ASSUME NEW r \in Runs, NEW c \in Callers, Rendezvous(r, c) PROVE FlagsTypeOK'
  BY <1>5 DEF FlagsTypeOK, Rendezvous, SelectWake, Wake, hardware, history
<1>6. ASSUME NEW k \in Contexts, CtxStep(k) PROVE FlagsTypeOK'
  BY <1>6 DEF FlagsTypeOK, CtxStep, CtxStart, CtxWait, CtxLink, CtxEnd, hardware, history
<1>7. ASSUME MoveCard \/ MoveReader PROVE FlagsTypeOK'
  BY <1>7 DEF FlagsTypeOK, MoveCard, MoveReader, history
<1>8. QED
  BY <1>1, <1>2, <1>3, <1>4, <1>5, <1>6, <1>7 DEF Next

\* A step leaves every run but one as it was, and says where that one is.
LEMMA ContextsOwned ==
    ASSUME TypeInv, Next
    PROVE  ContextOwned'
<1> DEFINE Kept(r, x) == run' = [run EXCEPT ![r] = x] /\ (x.kc = None <=> x.pc \in Bare)
<1>1. ASSUME NEW r \in Runs, NEW x, Kept(r, x) PROVE ContextOwned'
  BY <1>1 DEF TypeInv, TypeOK, GoroutinesTypeOK, ContextOwned
<1>2. ASSUME run' = run PROVE ContextOwned'
  BY <1>2 DEF TypeInv, ContextOwned
<1>3. run \in [Runs -> Run] /\ None \notin Contexts
  BY FlowAssumption DEF TypeInv, TypeOK, GoroutinesTypeOK
<1>4. ASSUME NEW r \in Runs, RunStep(r) PROVE ContextOwned'
  <2>0. run[r] \in Run /\ (run[r].kc = None <=> run[r].pc \in Bare)
    BY <1>3 DEF TypeInv, ContextOwned
  <2>1. CASE Open(r) \/ Hello(r) \/ SelectConnected(r) \/ SelectTimer(r) \/ Tick(r)
    <3>1. \E x : Kept(r, x)
      BY <1>3, <2>0, <2>1 DEF Open, Hello, SelectConnected, SelectTimer, Tick, Goto, Bare, Run
    <3>2. QED
      BY <1>1, <3>1
  <2>2. CASE Woken(r)
    <3> DEFINE x == [run[r] EXCEPT !.pc = "report", !.kc = None, !.outcome = "end"]
    <3>1. x.kc = None /\ x.pc \in Bare
      BY <2>0 DEF Bare, Run
    <3>2. run' = run \/ run' = [run EXCEPT ![r] = x]
      BY <2>2 DEF Woken
    <3>3. QED
      BY <1>1, <1>2, <3>1, <3>2
  <2>3. CASE Present(r) \/ Greet(r) \/ Check(r) \/ Ask(r) \/ Park(r) \/ Resumed(r)
    <3>1. \E x : Kept(r, x)
      BY <1>3, <2>0, <2>3 DEF Present, Greet, Check, Ask, Park, Resumed, Goto, GiveUp, Bare, Run
    <3>2. QED
      BY <1>1, <3>1
  <2>4. CASE Resume(r) \/ Close(r) \/ Report(r) \/ Deliver(r) \/ Clear(r)
    <3>1. \E x : Kept(r, x)
      BY <1>3, <2>0, <2>4 DEF Resume, Close, Report, Deliver, Clear, Goto, Bare, Run
    <3>2. QED
      BY <1>1, <3>1
  <2>5. CASE Exit(r)
    <3>1. Kept(r, NoRun)
      BY <2>5 DEF Exit, NoRun, Bare
    <3>2. QED
      BY <1>1, <3>1
  <2>6. QED
    BY <1>4, <2>1, <2>2, <2>3, <2>4, <2>5 DEF RunStep
<1>5. ASSUME NEW r \in Runs, Body(r) PROVE ContextOwned'
  <2>0. run[r] \in Run /\ (run[r].kc = None <=> run[r].pc \in Bare)
    BY <1>3 DEF TypeInv, ContextOwned
  <2>1. \E x : Kept(r, x)
    BY <1>5, <2>0 DEF Body, Finish, Lost, Need, Bare, Run
  <2>2. QED
    BY <1>1, <2>1
<1>6. ASSUME NEW c \in Callers, CallStep(c) PROVE ContextOwned'
  <2>1. CASE StartWrite(c)
    <3>1. PICK r \in Runs : run' = [run EXCEPT ![r] = [NoRun EXCEPT !.pc = "open"]]
      BY <2>1 DEF StartWrite
    <3>2. Kept(r, [NoRun EXCEPT !.pc = "open"])
      BY <3>1 DEF NoRun, Bare
    <3>3. QED
      BY <1>1, <3>2
  <2>2. CASE CancelWrite(c)
    <3>1. \A r \in Runs : run'[r] = [run[r] EXCEPT !.cancelled = r \in Live]
      BY <2>2 DEF CancelWrite
    <3>2. ASSUME NEW r \in Runs PROVE run'[r].kc = run[r].kc /\ run'[r].pc = run[r].pc
      <4>1. run[r] \in Run
        BY <1>3
      <4>2. /\ [run[r] EXCEPT !.cancelled = r \in Live].kc = run[r].kc
            /\ [run[r] EXCEPT !.cancelled = r \in Live].pc = run[r].pc
        BY <4>1 DEF Run
      <4>3. QED
        BY <3>1, <4>2
    <3>3. QED
      BY <3>2 DEF TypeInv, ContextOwned
  <2>3. CASE Refuse(c) \/ Accept(c) \/ ResumeMerge(c) \/ ResumeWrite(c)
    BY <1>2, <2>3 DEF Refuse, Accept, ResumeMerge, ResumeWrite
  <2>4. QED
    BY <1>6, <2>1, <2>2, <2>3 DEF CallStep
<1>7. ASSUME NEW r \in Runs, NEW c \in Callers, Rendezvous(r, c) PROVE ContextOwned'
  <2>0. run[r] \in Run /\ (run[r].kc = None <=> run[r].pc \in Bare)
    BY <1>3 DEF TypeInv, ContextOwned
  <2>1. \E x : Kept(r, x)
    BY <1>7, <2>0 DEF Rendezvous, SelectWake, Wake, Goto, Bare, Run
  <2>2. QED
    BY <1>1, <2>1
<1>8. ASSUME NEW k \in Contexts, CtxStep(k) PROVE run' = run
  BY <1>8 DEF CtxStep, CtxStart, CtxWait, CtxLink, CtxEnd
<1>9. ASSUME NEW c \in Callers, NEW op \in Calls, Invoke(c, op) PROVE run' = run
  BY <1>9 DEF Invoke
<1>10. ASSUME MoveCard \/ MoveReader PROVE run' = run
  BY <1>10 DEF MoveCard, MoveReader
<1>11. QED
  BY <1>2, <1>4, <1>5, <1>6, <1>7, <1>8, <1>9, <1>10 DEF Next

\* Nothing runs at first.
LEMMA TypeInvInitially == Init => TypeInv
<1> SUFFICES ASSUME Init PROVE TypeInv
  OBVIOUS
<1>1. run \in [Runs -> Run] /\ ContextOwned
  BY RunRecords DEF Init, ContextOwned, NoRun, Bare
<1>2. ctx \in [Contexts -> Ctx]
  BY DEF Init, Ctx, CtxPC
<1>3. call \in [Callers -> Call]
  <2>1. 0 \in 0..MaxCalls
    BY FlowAssumption
  <2>2. QED
    BY <2>1 DEF Init, Call, RunState
<1>4. ObjectTypeOK
  <2>1. 0 \in 0..MaxMoves
    BY FlowAssumption
  <2>2. QED
    BY <2>1 DEF Init, ObjectTypeOK, RunState
<1>5. FlagsTypeOK
  BY DEF Init, FlagsTypeOK
<1>6. QED
  BY <1>1, <1>2, <1>3, <1>4, <1>5 DEF TypeInv, TypeOK, GoroutinesTypeOK

\* The parts above, and the context of a run.
LEMMA TypeInvKept == TypeInv /\ [Next]_vars => TypeInv'
<1> SUFFICES ASSUME TypeInv, [Next]_vars PROVE TypeInv'
  OBVIOUS
<1>1. CASE Next
  <2>1. GoroutinesTypeOK'
    BY <1>1, RunTyped, ContextTyped, CallTyped DEF TypeInv, TypeOK, GoroutinesTypeOK, ObjectTypeOK
  <2>2. FlagsTypeOK'
    BY <1>1, FlagsTyped DEF TypeInv, TypeOK
  <2>3. QED
    BY <1>1, <2>1, <2>2, ObjectTyped, ContextsOwned DEF TypeInv, TypeOK
<1>2. CASE UNCHANGED vars
  <2>1. GoroutinesTypeOK' /\ ObjectTypeOK' /\ ContextOwned'
    BY <1>2 DEF TypeInv, TypeOK, GoroutinesTypeOK, ObjectTypeOK, ContextOwned, vars
  <2>2. FlagsTypeOK'
    BY <1>2 DEF TypeInv, TypeOK, FlagsTypeOK, vars
  <2>3. QED
    BY <2>1, <2>2 DEF TypeInv, TypeOK
<1>3. QED
  BY <1>1, <1>2

\* Every variable keeps its type; in particular the outcome of connectedFlow
\* is one that runFlow knows (flow.go:84-121), and a run has a context exactly
\* between the start of connect and closeKeycard (flow.go:180-245).
THEOREM TypeCorrect == Spec => []TypeOK
<1>1. TypeInv => TypeOK
  BY DEF TypeInv
<1>2. QED
  BY <1>1, TypeInvInitially, TypeInvKept, PTL DEF Spec

-----------------------------------------------------------------------------
\* Whatever the client does: contexts are stopped, and ends are announced.

ContextInv == TypeInv /\ LeaksOnlyByCancel

\* A context is referred to by its run until closeKeycard, or was left by a wait.
LEMMA ContextInvKept == ContextInv /\ [Next]_vars => ContextInv'
<1> SUFFICES ASSUME ContextInv, [Next]_vars PROVE LeaksOnlyByCancel'
  BY TypeInvKept DEF ContextInv
<1>0. /\ run \in [Runs -> Run] /\ ctx \in [Contexts -> Ctx] /\ None \notin Contexts
      /\ ContextOwned /\ LeaksOnlyByCancel
  BY FlowAssumption DEF ContextInv, TypeInv, TypeOK, GoroutinesTypeOK
<1>1. ASSUME NEW r \in Runs, RunStep(r) PROVE LeaksOnlyByCancel'
  <2>1. CASE Open(r)
    <3>1. run[r].kc = None
      BY <1>0, <2>1 DEF ContextOwned, Bare, Open
    <3>2. QED
      BY <1>0, <2>1, <3>1 DEF Open, LeaksOnlyByCancel, Run, Ctx
  <2>2. CASE Hello(r)
    BY <1>0, <2>2 DEF Hello, LeaksOnlyByCancel, Run, Ctx, history
  <2>3. CASE SelectConnected(r)
    BY <1>0, <2>3 DEF SelectConnected, LeaksOnlyByCancel, Run, Ctx, history
  <2>4. CASE Woken(r)
    <3>1. ctx' = ctx /\ abandoned \subseteq abandoned'
      BY <2>4 DEF Woken
    <3>2. \A s \in Runs : run'[s].kc = run[s].kc \/ run[s].kc \in abandoned'
      BY <1>0, <2>4 DEF Woken, Run
    <3>3. QED
      BY <1>0, <3>1, <3>2 DEF LeaksOnlyByCancel
  <2>5. CASE Close(r)
    BY <1>0, <2>5 DEF Close, LeaksOnlyByCancel, Run, Ctx, history
  <2>6. CASE Exit(r)
    <3>1. run[r].kc = None
      BY <1>0, <2>6 DEF ContextOwned, Bare, Exit
    <3>2. QED
      BY <1>0, <2>6, <3>1 DEF Exit, LeaksOnlyByCancel, Run, NoRun, history
  <2>7. CASE ~(Open(r) \/ Hello(r) \/ SelectConnected(r) \/ Woken(r) \/ Close(r) \/ Exit(r))
    <3>1. ctx' = ctx /\ abandoned' = abandoned
      BY <1>1, <2>7 DEF RunStep, SelectTimer, Tick, Present, Greet, Check, Ask, Park, Resumed,
         Resume, Report, Deliver, Clear, history
    <3>2. \A s \in Runs : run'[s].kc = run[s].kc
      BY <1>0, <1>1, <2>7 DEF RunStep, SelectTimer, Tick, Present, Greet, Check, Ask, Park,
         Resumed, Resume, Report, Deliver, Clear, Goto, GiveUp, Run
    <3>3. QED
      BY <1>0, <3>1, <3>2 DEF LeaksOnlyByCancel
  <2>8. QED
    BY <2>1, <2>2, <2>3, <2>4, <2>5, <2>6, <2>7
<1>2. ASSUME NEW r \in Runs, Body(r) PROVE LeaksOnlyByCancel'
  BY <1>0, <1>2 DEF Body, Finish, Lost, Need, LeaksOnlyByCancel, Run, history
<1>3. ASSUME NEW c \in Callers, CallStep(c) PROVE LeaksOnlyByCancel'
  <2>1. ctx' = ctx /\ abandoned' = abandoned
    BY <1>3 DEF CallStep, Refuse, Accept, StartWrite, ResumeMerge, ResumeWrite, CancelWrite,
       history
  <2>2. \A s \in Runs : run[s].kc # None => run'[s].kc = run[s].kc
    <3>1. CASE StartWrite(c)
      <4>1. \A s \in Runs \ Live : run[s].kc = None
        BY <1>0 DEF ContextOwned, Bare, Live
      <4>2. QED
        BY <1>0, <3>1, <4>1 DEF StartWrite
    <3>2. CASE CancelWrite(c)
      <4>1. ASSUME NEW s \in Runs PROVE [run[s] EXCEPT !.cancelled = s \in Live].kc = run[s].kc
        BY <1>0 DEF Run
      <4>2. QED
        BY <3>2, <4>1 DEF CancelWrite
    <3>3. CASE ~(StartWrite(c) \/ CancelWrite(c))
      BY <1>3, <3>3 DEF CallStep, Refuse, Accept, ResumeMerge, ResumeWrite
    <3>4. QED
      BY <3>1, <3>2, <3>3
  <2>3. QED
    BY <1>0, <2>1, <2>2 DEF LeaksOnlyByCancel
<1>4. ASSUME NEW r \in Runs, NEW c \in Callers, Rendezvous(r, c) PROVE LeaksOnlyByCancel'
  BY <1>0, <1>4 DEF Rendezvous, SelectWake, Wake, Goto, LeaksOnlyByCancel, Run, history
<1>5. ASSUME NEW k \in Contexts, CtxStep(k) PROVE LeaksOnlyByCancel'
  BY <1>0, <1>5 DEF CtxStep, CtxStart, CtxWait, CtxLink, CtxEnd, LeaksOnlyByCancel, Ctx, history
<1>6. ASSUME NEW c \in Callers, NEW op \in Calls, Invoke(c, op) PROVE LeaksOnlyByCancel'
  BY <1>0, <1>6 DEF Invoke, LeaksOnlyByCancel, history
<1>7. ASSUME MoveCard \/ MoveReader PROVE LeaksOnlyByCancel'
  <2>1. \A k \in Contexts : ctx'[k].pc = ctx[k].pc
    BY <1>0, <1>7 DEF MoveCard, MoveReader, Ctx
  <2>2. QED
    BY <1>0, <1>7, <2>1 DEF MoveCard, MoveReader, LeaksOnlyByCancel, history
<1>8. CASE UNCHANGED vars
  BY <1>0, <1>8 DEF LeaksOnlyByCancel, vars
<1>9. QED
  BY <1>1, <1>2, <1>3, <1>4, <1>5, <1>6, <1>7, <1>8 DEF Next

\* However calls, cards and restarts interleave, a keycard context is left
\* running only by a cancelled wait for a card (flow.go:216-220): each other
\* one is still referred to by the flow whose deferred closeKeycard stops it.
THEOREM ContextsAreStopped == Spec => []LeaksOnlyByCancel
<1>1. Init => ContextInv
  BY TypeInvInitially DEF Init, ContextInv, LeaksOnlyByCancel
<1>2. ContextInv => LeaksOnlyByCancel
  BY DEF ContextInv
<1>3. QED
  BY <1>1, <1>2, ContextInvKept, PTL DEF Spec

\* Once the state says Cancelling, every flow that is alive has been told:
\* connect, the pauses and runFlow give up silently only by that state.
CancelReaches == state = "Cancelling" => \A r \in Live : run[r].cancelled

\* The only step of a run that may leave it where it is, by a panic.
LEMMA WokenRun ==
    ASSUME run \in [Runs -> Run], NEW r \in Runs, Woken(r)
    PROVE  \/ run' = run
           \/ /\ run'[r].pc = "report" /\ run'[r].outcome = "end" /\ run'[r].kc = None
              /\ run'[r].cancelled = run[r].cancelled /\ run'[r].sent = run[r].sent
              /\ \A s \in Runs \ {r} : run'[s] = run[s]
<1> DEFINE x == [run[r] EXCEPT !.pc = "report", !.kc = None, !.outcome = "end"]
<1>1. run' = run \/ run' = [run EXCEPT ![r] = x]
  BY DEF Woken
<1>2. /\ x.pc = "report" /\ x.outcome = "end" /\ x.kc = None
      /\ x.cancelled = run[r].cancelled /\ x.sent = run[r].sent
  BY DEF Run
<1>3. QED
  BY <1>1, <1>2

\* Only the end of a run forgets that it was cancelled.
LEMMA CancelledKept ==
    ASSUME run \in [Runs -> Run], NEW r \in Runs, RunStep(r), ~Exit(r)
    PROVE  \A s \in Runs : run'[s].cancelled = run[s].cancelled
<1>1. CASE Open(r) \/ Hello(r) \/ SelectConnected(r) \/ SelectTimer(r) \/ Tick(r)
  BY <1>1 DEF Open, Hello, SelectConnected, SelectTimer, Tick, Goto, Run
<1>2. CASE Woken(r)
  BY <1>2, WokenRun
<1>3. CASE Present(r) \/ Greet(r) \/ Check(r) \/ Ask(r) \/ Park(r) \/ Resumed(r)
  BY <1>3 DEF Present, Greet, Check, Ask, Park, Resumed, Goto, GiveUp, Run
<1>4. CASE Resume(r) \/ Close(r) \/ Report(r) \/ Deliver(r) \/ Clear(r)
  BY <1>4 DEF Resume, Close, Report, Deliver, Clear, Goto, Run
<1>5. QED
  BY <1>1, <1>2, <1>3, <1>4 DEF RunStep

EndInv == TypeInv /\ CancelReaches /\ NoSilentEnd

\* Exit reads a state that a Cancel wrote for every run alive.
LEMMA EndInvKept == EndInv /\ [Next]_vars => EndInv'
<1> SUFFICES ASSUME EndInv, [Next]_vars PROVE CancelReaches' /\ NoSilentEnd'
  BY TypeInvKept DEF EndInv
<1>0. /\ run \in [Runs -> Run] /\ CancelReaches /\ NoSilentEnd
  BY DEF EndInv, TypeInv, TypeOK, GoroutinesTypeOK
<1>1. ASSUME NEW r \in Runs, RunStep(r) PROVE CancelReaches' /\ NoSilentEnd'
  <2>1. CancelReaches'
    <3>1. state' = "Cancelling" => state = "Cancelling"
      BY <1>1 DEF RunStep, Open, Hello, SelectConnected, SelectTimer, Tick, Woken, Present, Greet,
         Check, Ask, Park, Resumed, Resume, Close, Report, Deliver, Clear, Exit
    <3>2. CASE Exit(r)
      BY <3>2 DEF Exit, CancelReaches
    <3>3. CASE ~Exit(r)
      <4>1. \A s \in Runs : run'[s].cancelled = run[s].cancelled
        BY <1>0, <1>1, <3>3, CancelledKept
      <4>2. run[r].pc # "off" /\ \A s \in Runs \ {r} : run'[s].pc = run[s].pc
        BY <1>0, <1>1, <3>3 DEF RunStep, Open, Hello, SelectConnected, SelectTimer, Tick, Woken,
           Present, Greet, Check, Ask, Park, Resumed, Resume, Close, Report, Deliver, Clear, Goto,
           GiveUp
      <4>3. QED
        BY <1>0, <3>1, <4>1, <4>2 DEF CancelReaches, Live
    <3>4. QED
      BY <3>2, <3>3
  <2>2. NoSilentEnd'
    <3>1. CASE Report(r)
      <4>1. state = "Cancelling" => run[r].cancelled
        BY <1>0, <3>1 DEF CancelReaches, Live, Report
      <4>2. /\ \A s \in Runs \ {r} : run'[s] = run[s]
            /\ run'[r].pc = "clear" => run[r].cancelled
            /\ run'[r].pc \in {"clear", "deliver"} /\ run'[r].cancelled = run[r].cancelled
        BY <1>0, <3>1, <4>1 DEF Report, Goto, Run
      <4>3. QED
        BY <1>0, <4>2 DEF NoSilentEnd
    <3>2. CASE Deliver(r)
      BY <1>0, <3>2 DEF Deliver, NoSilentEnd, Run
    <3>3. CASE Clear(r)
      BY <1>0, <3>3 DEF Clear, Goto, NoSilentEnd, Run
    <3>4. CASE Exit(r)
      BY <1>0, <3>4 DEF Exit, NoSilentEnd, NoRun
    <3>5. CASE ~(Report(r) \/ Deliver(r) \/ Clear(r) \/ Exit(r))
      <4>1. CASE \/ Open(r) \/ Hello(r) \/ SelectConnected(r) \/ SelectTimer(r) \/ Tick(r)
                 \/ Resume(r) \/ Close(r)
        <5>1. run'[r].pc \notin {"clear", "exit"} /\ \A s \in Runs \ {r} : run'[s] = run[s]
          BY <1>0, <4>1 DEF Open, Hello, SelectConnected, SelectTimer, Tick, Resume, Close, Goto, Run
        <5>2. QED
          BY <1>0, <5>1 DEF NoSilentEnd
      <4>2. CASE \/ Woken(r) \/ Present(r) \/ Greet(r) \/ Check(r) \/ Ask(r) \/ Park(r)
                 \/ Resumed(r)
        <5>1. run' = run \/ (/\ run'[r].pc \notin {"clear", "exit"}
                             /\ \A s \in Runs \ {r} : run'[s] = run[s])
          BY <1>0, <4>2, WokenRun DEF Present, Greet, Check, Ask, Park, Resumed, Goto, GiveUp, Run
        <5>2. QED
          BY <1>0, <5>1 DEF NoSilentEnd
      <4>3. QED
        BY <1>1, <3>5, <4>1, <4>2 DEF RunStep
    <3>6. QED
      BY <3>1, <3>2, <3>3, <3>4, <3>5
  <2>3. QED
    BY <2>1, <2>2
<1>2. ASSUME NEW r \in Runs, Body(r) PROVE CancelReaches' /\ NoSilentEnd'
  <2>1. /\ state' = state /\ run[r].pc = "body" /\ run'[r].pc \in {"close", "check"}
        /\ run'[r].cancelled = run[r].cancelled
        /\ \A s \in Runs \ {r} : run'[s] = run[s]
    BY <1>0, <1>2 DEF Body, Finish, Lost, Need, Run
  <2>2. QED
    BY <1>0, <2>1 DEF CancelReaches, NoSilentEnd, Live
<1>3. ASSUME NEW c \in Callers, CallStep(c) PROVE CancelReaches' /\ NoSilentEnd'
  <2>1. CASE StartWrite(c)
    BY <1>0, <2>1 DEF StartWrite, CancelReaches, NoSilentEnd, NoRun
  <2>2. CASE CancelWrite(c)
    <3>1. ASSUME NEW s \in Runs
          PROVE  /\ run'[s].pc = run[s].pc /\ run'[s].sent = run[s].sent
                 /\ run'[s].cancelled = (s \in Live)
      <4>1. /\ [run[s] EXCEPT !.cancelled = s \in Live].pc = run[s].pc
            /\ [run[s] EXCEPT !.cancelled = s \in Live].sent = run[s].sent
            /\ [run[s] EXCEPT !.cancelled = s \in Live].cancelled = (s \in Live)
        BY <1>0 DEF Run
      <4>2. QED
        BY <2>2, <4>1 DEF CancelWrite
    <3>2. QED
      BY <3>1 DEF CancelReaches, NoSilentEnd, Live
  <2>3. CASE Refuse(c) \/ Accept(c) \/ ResumeMerge(c) \/ ResumeWrite(c)
    <3>1. run' = run /\ (state' = state \/ state' = "Resuming")
      BY <2>3 DEF Refuse, Accept, ResumeMerge, ResumeWrite
    <3>2. QED
      BY <1>0, <3>1 DEF CancelReaches, NoSilentEnd, Live
  <2>4. QED
    BY <1>3, <2>1, <2>2, <2>3 DEF CallStep
<1>4. ASSUME NEW r \in Runs, NEW c \in Callers, Rendezvous(r, c)
      PROVE  CancelReaches' /\ NoSilentEnd'
  <2>1. /\ state' = state /\ run[r].pc \in {"select", "parked"}
        /\ run'[r].pc \in {"woken", "resumed"} /\ run'[r].cancelled = run[r].cancelled
        /\ \A s \in Runs \ {r} : run'[s] = run[s]
    BY <1>0, <1>4 DEF Rendezvous, SelectWake, Wake, Goto, Run
  <2>2. QED
    BY <1>0, <2>1 DEF CancelReaches, NoSilentEnd, Live
<1>5. ASSUME \/ \E k \in Contexts : CtxStep(k)
             \/ \E c \in Callers, op \in Calls : Invoke(c, op)
             \/ MoveCard \/ MoveReader \/ UNCHANGED vars
      PROVE  CancelReaches' /\ NoSilentEnd'
  <2>1. state' = state /\ run' = run
    BY <1>5 DEF CtxStep, CtxStart, CtxWait, CtxLink, CtxEnd, Invoke, MoveCard, MoveReader, vars
  <2>2. QED
    BY <1>0, <2>1 DEF CancelReaches, NoSilentEnd, Live
<1>6. QED
  BY <1>1, <1>2, <1>3, <1>4, <1>5 DEF Next

\* A flow that ends has sent its result, or was cancelled: the silent end of
\* runFlow (flow.go:103) is only reached by a state that a Cancel wrote while
\* this very flow was alive, whatever other calls wrote before or after.
THEOREM EndsAreAnnounced == Spec => []NoSilentEnd
<1>1. Init => EndInv
  BY TypeInvInitially DEF Init, EndInv, CancelReaches, NoSilentEnd, NoRun
<1>2. EndInv => NoSilentEnd
  BY DEF EndInv
<1>3. QED
  BY <1>1, <1>2, EndInvKept, PTL DEF Spec

-----------------------------------------------------------------------------
\* A client that calls from one thread: Start never overlaps a flow.

OneCaller == \A c, d \in Callers : c = d

StartsAlone ==
    \A c \in Callers : call[c].op = "Start" =>
        call[c].pc # "merge" /\ (call[c].pc = "write" => state = "Idle")

AloneInv ==
    /\ TypeInv
    /\ \A r, s \in Live : r = s
    /\ state = "Idle" => Live = {}
    /\ StartsAlone

\* A step of a run belongs to a live run, which stays alive unless it exits.
LEMMA RunLives ==
    ASSUME run \in [Runs -> Run], NEW r \in Runs, RunStep(r) \/ Body(r)
    PROVE  /\ r \in Live /\ call' = call
           /\ \A s \in Runs \ {r} : run'[s] = run[s]
           /\ ~Exit(r) => run'[r].pc # "off" /\ (state' = "Idle" => state = "Idle")
<1>1. CASE Body(r)
  BY <1>1 DEF Body, Finish, Lost, Need, Live, Run
<1>2. CASE \/ Open(r) \/ Hello(r) \/ SelectConnected(r) \/ SelectTimer(r) \/ Tick(r)
  BY <1>2 DEF Open, Hello, SelectConnected, SelectTimer, Tick, Goto, Live, Run
<1>3. CASE Woken(r)
  <2>1. run[r].pc = "woken" /\ state' = state /\ call' = call
    BY <1>3 DEF Woken
  <2>2. QED
    BY <1>3, <2>1, WokenRun DEF Live
<1>4. CASE \/ Present(r) \/ Greet(r) \/ Check(r) \/ Ask(r) \/ Park(r) \/ Resumed(r)
  BY <1>4 DEF Present, Greet, Check, Ask, Park, Resumed, Goto, GiveUp, Live, Run
<1>5. CASE Resume(r) \/ Close(r) \/ Report(r) \/ Deliver(r) \/ Clear(r)
  BY <1>5 DEF Resume, Close, Report, Deliver, Clear, Goto, Live, Run
<1>6. CASE Exit(r)
  BY <1>6 DEF Exit, Live, Run
<1>7. QED
  BY <1>1, <1>2, <1>3, <1>4, <1>5, <1>6 DEF RunStep

\* Start is at work only when no run is alive.
LEMMA AloneInvKept ==
    ASSUME OneCaller
    PROVE  AloneInv /\ [Next]_vars => AloneInv'
<1> SUFFICES ASSUME AloneInv, [Next]_vars
             PROVE  /\ (\A r, s \in Live : r = s)'
                    /\ (state = "Idle" => Live = {})'
                    /\ StartsAlone'
  BY TypeInvKept DEF AloneInv
<1> DEFINE Goal == /\ (\A r, s \in Live : r = s)'
                   /\ (state = "Idle" => Live = {})'
                   /\ StartsAlone'
<1>0. /\ run \in [Runs -> Run] /\ call \in [Callers -> Call]
      /\ \A r, s \in Live : r = s
      /\ state = "Idle" => Live = {}
      /\ StartsAlone
  BY DEF AloneInv, TypeInv, TypeOK, GoroutinesTypeOK
<1>1. ASSUME NEW r \in Runs, RunStep(r) \/ Body(r) PROVE Goal
  <2>1. /\ r \in Live /\ call' = call
        /\ \A s \in Runs \ {r} : run'[s] = run[s]
        /\ ~Exit(r) => run'[r].pc # "off" /\ (state' = "Idle" => state = "Idle")
    BY <1>0, <1>1, RunLives
  <2>2. Live' \subseteq {r} /\ Live = {r} /\ state # "Idle"
    BY <1>0, <2>1 DEF Live
  <2>3. CASE Exit(r)
    <3>1. Live' = {} /\ state' = "Idle"
      BY <1>0, <2>2, <2>3 DEF Exit, Live, NoRun
    <3>2. QED
      BY <1>0, <2>1, <3>1 DEF StartsAlone
  <2>4. CASE ~Exit(r)
    BY <1>0, <2>1, <2>2, <2>4 DEF StartsAlone
  <2>5. QED
    BY <2>3, <2>4
<1>2. ASSUME NEW c \in Callers, CallStep(c) PROVE Goal
  <2>1. \A d \in Callers : d = c
    BY DEF OneCaller
  <2>2. CASE StartWrite(c)
    <3>1. Live = {} /\ state' = "Running"
      BY <1>0, <2>2 DEF StartWrite, StartsAlone
    <3>2. PICK r \in Runs : run' = [run EXCEPT ![r] = [NoRun EXCEPT !.pc = "open"]]
      BY <2>2 DEF StartWrite
    <3>3. Live' \subseteq {r}
      BY <1>0, <3>1, <3>2 DEF Live
    <3>4. call'[c].pc = "idle"
      BY <1>0, <2>2 DEF StartWrite, Return, Call
    <3>5. QED
      BY <2>1, <3>1, <3>3, <3>4 DEF StartsAlone
  <2>3. CASE CancelWrite(c)
    <3>1. ASSUME NEW s \in Runs PROVE run'[s].pc = run[s].pc
      <4>1. [run[s] EXCEPT !.cancelled = s \in Live].pc = run[s].pc
        BY <1>0 DEF Run
      <4>2. QED
        BY <2>3, <4>1 DEF CancelWrite
    <3>2. Live' = Live /\ state' = "Cancelling"
      BY <2>3, <3>1 DEF Live, CancelWrite
    <3>3. call'[c].pc \in {"idle", "send"}
      BY <1>0, <2>3 DEF CancelWrite, CallGoto, Return, Call
    <3>4. QED
      BY <1>0, <2>1, <3>2, <3>3 DEF StartsAlone
  <2>4. CASE Refuse(c) \/ Accept(c) \/ ResumeMerge(c) \/ ResumeWrite(c)
    <3>1. Live' = Live /\ (state' = "Idle" => state = "Idle")
      BY <2>4 DEF Refuse, Accept, ResumeMerge, ResumeWrite, Live
    <3>2. CASE Accept(c)
      <4>1. /\ call'[c].op = call[c].op /\ Accepted(call[c].op) /\ state' = state
            /\ call'[c].pc = IF call[c].op = "Resume" THEN "merge" ELSE "write"
        BY <1>0, <3>2 DEF Accept, Call
      <4>2. QED
        BY <1>0, <2>1, <3>1, <4>1 DEF StartsAlone, Accepted
    <3>3. CASE Refuse(c) \/ ResumeWrite(c)
      <4>1. call'[c].pc \in {"idle", "send"}
        BY <1>0, <3>3 DEF Refuse, ResumeWrite, CallGoto, Call
      <4>2. QED
        BY <1>0, <2>1, <3>1, <4>1 DEF StartsAlone
    <3>4. CASE ResumeMerge(c)
      <4>1. call[c].pc = "merge" /\ (call' = call \/ CallGoto(c, "write"))
        BY <3>4 DEF ResumeMerge
      <4>2. call'[c].op = call[c].op
        BY <1>0, <4>1 DEF CallGoto, Call
      <4>3. QED
        BY <1>0, <2>1, <3>1, <4>1, <4>2 DEF StartsAlone
    <3>5. QED
      BY <2>4, <3>2, <3>3, <3>4
  <2>5. QED
    BY <1>2, <2>2, <2>3, <2>4 DEF CallStep
<1>3. ASSUME NEW r \in Runs, NEW c \in Callers, Rendezvous(r, c) PROVE Goal
  <2>1. \A d \in Callers : d = c
    BY DEF OneCaller
  <2>2. /\ state' = state /\ call'[c].pc = "idle" /\ run[r].pc # "off" /\ run'[r].pc # "off"
        /\ \A s \in Runs \ {r} : run'[s] = run[s]
    BY <1>0, <1>3 DEF Rendezvous, SelectWake, Wake, Goto, Return, Run, Call
  <2>3. Live' = Live
    BY <2>2 DEF Live
  <2>4. QED
    BY <1>0, <2>1, <2>2, <2>3 DEF StartsAlone
<1>4. ASSUME NEW c \in Callers, NEW op \in Calls, Invoke(c, op) PROVE Goal
  <2>1. Live' = Live /\ state' = state /\ call'[c].pc = "check"
    BY <1>0, <1>4 DEF Invoke, Live, Call
  <2>2. QED
    BY <1>0, <2>1 DEF StartsAlone, OneCaller
<1>5. ASSUME (\E k \in Contexts : CtxStep(k)) \/ MoveCard \/ MoveReader \/ UNCHANGED vars
      PROVE  Goal
  <2>1. UNCHANGED <<state, run, call>>
    BY <1>5 DEF CtxStep, CtxStart, CtxWait, CtxLink, CtxEnd, MoveCard, MoveReader, vars
  <2>2. QED
    BY <1>0, <2>1 DEF StartsAlone, Live
<1>6. QED
  BY <1>1, <1>2, <1>3, <1>4, <1>5 DEF Next

\* No run is alive at first.
LEMMA AloneInvInitially == Init => AloneInv
BY TypeInvInitially DEF Init, AloneInv, StartsAlone, Live, NoRun

\* A client that calls from one thread never has two flows at once, though
\* Start looks at the state and sets it in two steps (flow.go:58-77) and the
\* flow puts it back when it ends (flow.go:124).
THEOREM OneFlowAtATime ==
    ASSUME OneCaller
    PROVE  Spec => []OneFlow
<1>1. AloneInv => OneFlow
  <2> SUFFICES ASSUME AloneInv PROVE Cardinality(Live) <= 1
    BY DEF OneFlow
  <2>1. CASE Live = {}
    BY <2>1, FS_EmptySet
  <2>2. ASSUME NEW r \in Live PROVE Cardinality(Live) <= 1
    <3>1. Live = {r}
      BY <2>2 DEF AloneInv
    <3>2. QED
      BY <3>1, FS_Singleton
  <2>3. QED
    BY <2>1, <2>2
<1>2. AloneInv /\ [Next]_vars => AloneInv'
  BY AloneInvKept
<1>3. QED
  BY <1>1, <1>2, AloneInvInitially, PTL DEF Spec

-----------------------------------------------------------------------------
\* A patient client that calls from one thread: the state, the request and the
\* flow agree at every step.

\* What the client has been told while the flow connects: nothing, or to
\* insert a card, which the flow repeats when it connects again.
Connecting(r) == \/ state = "Running" /\ ~asked
                 \/ state = "Paused" /\ asked /\ lastSignal = "insert-card"

\* What a call that is waiting to be received has made of the state.
Answered == state \in {"Resuming", "Cancelling"} /\ ~asked

RunFits(r) ==
    /\ run[r].pc \in {"open", "hello", "present", "deliver"} => Connecting(r)
    /\ run[r].pc = "select" => Connecting(r) /\ (run[r].armed \/ state = "Paused")
    /\ run[r].pc = "tick" => /\ state \in {"Running", "Paused"}
                             /\ asked /\ lastSignal = "insert-card"
    /\ run[r].pc # "woken"
    /\ run[r].pc = "greet" => Connecting(r) /\ state = "Paused"
    /\ run[r].pc \in {"body", "check", "ask"} => state = "Running" /\ ~asked
    /\ run[r].pc = "park" => state = "Running" /\ asked /\ lastSignal = "action"
    /\ run[r].pc = "parked" => \/ state = "Paused" /\ asked /\ lastSignal = "action"
                               \/ Answered
    /\ run[r].pc = "resumed" => Answered
    /\ run[r].pc = "resume" => state = "Resuming" /\ ~asked
    /\ run[r].pc = "close" => ~asked /\ \/ state = "Running"
                                        \/ state = "Cancelling" /\ run[r].outcome = "end"
    /\ run[r].pc = "report" => Connecting(r) \/ (state = "Cancelling" /\ ~asked)
    /\ run[r].pc \in {"clear", "exit"} => /\ ~asked
                                          /\ IF run[r].sent THEN lastSignal = "flow-result"
                                             ELSE state = "Cancelling"
    /\ run[r].sent => run[r].pc \in {"clear", "exit"} /\ state \in {"Running", "Paused"}
    /\ run[r].cancelled <=> state = "Cancelling"
    /\ run[r].cancelled => lastSignal = "action"
    /\ run[r].pc # "exit" => params

\* A call other than Start is made, and waits, while the flow is parked.
CallFits(c) ==
    call[c].pc # "idle" =>
        \/ call[c].op = "Start" /\ call[c].pc \in {"check", "write"} /\ Live = {}
        \/ /\ call[c].op \in {"Resume", "Cancel"}
           /\ \E r \in Runs : run[r].pc = "parked"
           /\ IF call[c].pc = "send" THEN Answered ELSE state = "Paused"
           /\ call[c].pc \in {"merge", "write"} => call[c].saw = "Paused"

\* Nobody parked has been answered without a call that is about to wake it.
AnswersArrive ==
    \A r \in Live : run[r].pc = "parked" /\ state # "Paused" =>
        \E c \in Callers : call[c].pc = "send"

PatientInv ==
    /\ AloneInv
    /\ \A r \in Live : RunFits(r)
    /\ \A c \in Callers : CallFits(c)
    /\ AnswersArrive
    /\ Live = {} => state = "Idle" /\ ~asked
    /\ panicked = "no"

\* A step of the flow itself.
LEMMA RunFitsKept ==
    ASSUME run \in [Runs -> Run], NEW r \in Runs, RunFits(r), RunStep(r) \/ Body(r), ~Exit(r)
    PROVE  RunFits(r)'
<1>1. CASE Open(r) \/ Hello(r) \/ SelectConnected(r)
  BY <1>1 DEF Open, Hello, SelectConnected, RunFits, Connecting, Answered, Run, hardware, history
<1>2. CASE SelectTimer(r) \/ Tick(r) \/ Present(r) \/ Greet(r)
  BY <1>2 DEF SelectTimer, Tick, Present, Greet, RunFits, Connecting, Answered, Goto, Run,
     hardware, history
<1>3. CASE Woken(r)
  BY <1>3 DEF Woken, RunFits
<1>4. CASE Check(r) \/ Ask(r) \/ Park(r)
  BY <1>4 DEF Check, Ask, Park, RunFits, Connecting, Answered, Goto, GiveUp, Run, hardware, history
<1>5. CASE Resumed(r) \/ Resume(r)
  BY <1>5 DEF Resumed, Resume, RunFits, Connecting, Answered, Goto, GiveUp, Run, hardware, history
<1>6. CASE Close(r)
  BY <1>6 DEF Close, RunFits, Connecting, Answered, Run, hardware, history
<1>7. CASE Report(r)
  BY <1>7 DEF Report, RunFits, Connecting, Answered, Goto, Run, hardware, history
<1>8. CASE Deliver(r)
  BY <1>8 DEF Deliver, RunFits, Connecting, Answered, Run, hardware, history
<1>9. CASE Clear(r)
  BY <1>9 DEF Clear, RunFits, Connecting, Answered, Goto, Run, hardware, history
<1>10. CASE Finish(r) \/ Lost(r)
  BY <1>10 DEF Finish, Lost, RunFits, Connecting, Answered, Run, hardware, history
<1>11. CASE Need(r, "retry") \/ Need(r, "restart")
  BY <1>11 DEF Need, RunFits, Connecting, Answered, Run, hardware, history
<1>12. QED
  BY <1>1, <1>2, <1>3, <1>4, <1>5, <1>6, <1>7, <1>8, <1>9, <1>10, <1>11 DEF RunStep, Body

\* One step for each action of the run, the context and the call.
LEMMA PatientInvKept ==
    ASSUME OneCaller, Patient
    PROVE  PatientInv /\ [Next]_vars => PatientInv'
<1> SUFFICES ASSUME PatientInv, [Next]_vars PROVE PatientInv'
  OBVIOUS
<1> DEFINE Fits  == \A s \in Live : RunFits(s)
           Calls_ == \A d \in Callers : CallFits(d)
           Quiet == Live = {} => state = "Idle" /\ ~asked
<1>0. /\ run \in [Runs -> Run] /\ call \in [Callers -> Call]
      /\ \A s, t \in Live : s = t
      /\ StartsAlone /\ Fits /\ Calls_ /\ AnswersArrive /\ Quiet /\ panicked = "no"
  BY DEF PatientInv, AloneInv, TypeInv, TypeOK, GoroutinesTypeOK
<1>1. AloneInv'
  BY AloneInvKept DEF PatientInv
<1>2. ASSUME NEW r \in Runs, RunStep(r) \/ Body(r)
      PROVE  Fits' /\ Calls_' /\ AnswersArrive' /\ Quiet' /\ panicked' = "no"
  <2>1. /\ r \in Live /\ call' = call
        /\ \A s \in Runs \ {r} : run'[s] = run[s]
        /\ ~Exit(r) => run'[r].pc # "off"
    BY <1>0, <1>2, RunLives
  <2>2. Live = {r} /\ Live' \subseteq {r} /\ RunFits(r)
    BY <1>0, <2>1 DEF Live
  <2>3. run[r].pc # "parked"
    BY <1>2 DEF RunStep, Open, Hello, SelectConnected, SelectTimer, Tick, Woken, Present, Greet,
       Check, Ask, Park, Resumed, Resume, Close, Report, Deliver, Clear, Exit, Body, Finish, Lost,
       Need
  <2>4. \A d \in Callers : call[d].pc = "idle"
    BY <1>0, <2>2, <2>3 DEF CallFits, Live
  <2>5. Calls_'
    BY <2>1, <2>4 DEF CallFits
  <2>6. panicked' = "no"
    <3>1. ~Woken(r)
      BY <2>2 DEF Woken, RunFits
    <3>2. QED
      BY <1>0, <1>2, <3>1 DEF RunStep, Open, Hello, SelectConnected, SelectTimer, Tick, Present,
         Greet, Check, Ask, Park, Resumed, Resume, Close, Report, Deliver, Clear, Exit, Body,
         Finish, Lost, Need, history
  <2>7. CASE Exit(r)
    <3>1. Live' = {} /\ state' = "Idle" /\ asked' = asked
      BY <1>0, <2>2, <2>7 DEF Exit, Live, NoRun, history
    <3>2. ~asked
      BY <2>2, <2>7 DEF Exit, RunFits
    <3>3. QED
      BY <2>5, <2>6, <3>1, <3>2 DEF AnswersArrive
  <2>8. CASE ~Exit(r)
    <3>1. RunFits(r)'
      BY <1>0, <1>2, <2>2, <2>8, RunFitsKept
    <3>2. Fits' /\ Quiet'
      BY <2>1, <2>2, <2>8, <3>1 DEF Live
    <3>3. run'[r].pc = "parked" => state' = "Paused"
      <4>1. CASE Park(r)
        BY <4>1 DEF Park
      <4>2. CASE \/ Open(r) \/ Hello(r) \/ SelectConnected(r) \/ SelectTimer(r) \/ Tick(r)
                 \/ Present(r) \/ Greet(r) \/ Check(r) \/ Ask(r)
        BY <1>0, <4>2 DEF Open, Hello, SelectConnected, SelectTimer, Tick, Present, Greet, Check,
           Ask, Goto, GiveUp, Run
      <4>3. CASE \/ Resumed(r) \/ Resume(r) \/ Close(r) \/ Report(r) \/ Deliver(r) \/ Clear(r)
                 \/ Body(r)
        BY <1>0, <4>3 DEF Resumed, Resume, Close, Report, Deliver, Clear, Body, Finish, Lost, Need,
           Goto, GiveUp, Run
      <4>4. ~Woken(r)
        BY <2>2 DEF Woken, RunFits
      <4>5. QED
        BY <1>2, <2>8, <4>1, <4>2, <4>3, <4>4 DEF RunStep
    <3>4. AnswersArrive'
      BY <2>2, <3>3 DEF AnswersArrive
    <3>5. QED
      BY <2>5, <2>6, <3>2, <3>4
  <2>9. QED
    BY <2>7, <2>8
<1>3. ASSUME NEW c \in Callers, CallStep(c)
      PROVE  Fits' /\ Calls_' /\ AnswersArrive' /\ Quiet' /\ panicked' = "no"
  <2>0. /\ \A d \in Callers : d = c
        /\ CallFits(c)
    BY <1>0 DEF OneCaller
  <2>1. CASE StartWrite(c)
    <3>1. Live = {} /\ ~asked
      BY <1>0, <2>0, <2>1 DEF StartWrite, CallFits
    <3>2. PICK r \in Runs : run' = [run EXCEPT ![r] = [NoRun EXCEPT !.pc = "open"]]
      BY <2>1 DEF StartWrite
    <3>3. /\ Live' = {r} /\ run'[r] = [NoRun EXCEPT !.pc = "open"]
          /\ state' = "Running" /\ params' = TRUE /\ UNCHANGED history
      BY <1>0, <2>1, <3>1, <3>2 DEF Live, NoRun, StartWrite
    <3>4. RunFits(r)'
      BY <3>1, <3>3 DEF RunFits, Connecting, NoRun, history
    <3>5. call'[c].pc = "idle"
      BY <1>0, <2>1 DEF StartWrite, Return, Call
    <3>6. run'[r].pc = "open" /\ panicked' = "no"
      BY <1>0, <3>3 DEF NoRun, history
    <3>7. Calls_'
      BY <2>0, <3>5 DEF CallFits
    <3>8. AnswersArrive'
      BY <3>3, <3>6 DEF AnswersArrive
    <3>9. QED
      BY <3>3, <3>4, <3>6, <3>7, <3>8
  <2>2. CASE ResumeWrite(c)
    <3>1. PICK r \in Runs : run[r].pc = "parked"
      BY <2>0, <2>2 DEF ResumeWrite, CallFits
    <3>2. Live = {r} /\ Live' = {r} /\ run' = run /\ RunFits(r)
      BY <1>0, <2>2, <3>1 DEF Live, ResumeWrite
    <3>3. /\ state = "Paused" /\ state' = "Resuming" /\ asked' = FALSE
          /\ UNCHANGED <<params, lastSignal, panicked>>
      BY <2>0, <2>2 DEF ResumeWrite, CallFits
    <3>4. RunFits(r)'
      BY <3>1, <3>2, <3>3 DEF RunFits, Answered
    <3>5. call'[c].pc = "send" /\ call'[c].op = "Resume"
      BY <1>0, <2>2 DEF ResumeWrite, CallGoto, Call
    <3>6. Calls_'
      BY <2>0, <3>1, <3>2, <3>3, <3>5 DEF CallFits, Answered
    <3>7. QED
      BY <1>0, <3>2, <3>3, <3>4, <3>5, <3>6 DEF AnswersArrive
  <2>3. CASE CancelWrite(c)
    <3>1. PICK r \in Runs : run[r].pc = "parked"
      BY <2>0, <2>3 DEF CancelWrite, CallFits
    <3>2. Live = {r} /\ RunFits(r) /\ call[c].saw = "Paused"
      BY <1>0, <2>0, <2>3, <3>1 DEF Live, CancelWrite, CallFits
    <3>3. ASSUME NEW s \in Runs
          PROVE  /\ run'[s].pc = run[s].pc /\ run'[s].sent = run[s].sent
                 /\ run'[s].cancelled = (s \in Live)
      <4>1. /\ [run[s] EXCEPT !.cancelled = s \in Live].pc = run[s].pc
            /\ [run[s] EXCEPT !.cancelled = s \in Live].sent = run[s].sent
            /\ [run[s] EXCEPT !.cancelled = s \in Live].cancelled = (s \in Live)
        BY <1>0 DEF Run
      <4>2. QED
        BY <2>3, <4>1 DEF CancelWrite
    <3>4. /\ state = "Paused" /\ state' = "Cancelling" /\ asked' = FALSE
          /\ UNCHANGED <<params, lastSignal, panicked>>
      BY <2>0, <2>3 DEF CancelWrite, CallFits
    <3>5. Live' = {r} /\ run'[r].pc = "parked" /\ run'[r].cancelled /\ run'[r].sent = run[r].sent
      BY <3>1, <3>2, <3>3 DEF Live
    <3>6. RunFits(r)'
      BY <3>1, <3>2, <3>4, <3>5 DEF RunFits, Answered
    <3>7. call'[c].pc = "send" /\ call'[c].op = "Cancel"
      BY <1>0, <2>3, <3>2 DEF CancelWrite, CallGoto, Call
    <3>8. Calls_'
      BY <2>0, <3>1, <3>4, <3>5, <3>7 DEF CallFits, Answered
    <3>9. QED
      BY <1>0, <3>4, <3>5, <3>6, <3>7, <3>8 DEF AnswersArrive
  <2>4. CASE Refuse(c) \/ Accept(c) \/ ResumeMerge(c)
    <3>1. UNCHANGED <<state, run, params, asked, lastSignal>> /\ call[c].pc \in {"check", "merge"}
      BY <2>4 DEF Refuse, Accept, ResumeMerge, hardware, history
    <3>2. Live' = Live /\ Fits' /\ Quiet'
      BY <1>0, <3>1 DEF Live, RunFits, Connecting, Answered
    <3>3. AnswersArrive'
      <4>1. \A d \in Callers : call[d].pc # "send"
        BY <2>0, <3>1
      <4>2. QED
        BY <1>0, <3>1, <3>2, <4>1 DEF AnswersArrive
    <3>4. CASE Refuse(c)
      <4>1. call'[c].pc = "idle" /\ panicked' = "no"
        BY <1>0, <3>4 DEF Refuse, Call, history
      <4>2. QED
        BY <2>0, <3>2, <3>3, <4>1 DEF CallFits
    <3>5. CASE Accept(c)
      <4>1. /\ call'[c].op = call[c].op /\ call'[c].saw = state
            /\ call'[c].pc = IF call[c].op = "Resume" THEN "merge" ELSE "write"
            /\ call[c].pc = "check" /\ panicked' = "no"
        BY <1>0, <3>5 DEF Accept, Call, history
      <4>2. CallFits(c)'
        BY <2>0, <3>1, <3>2, <4>1 DEF CallFits
      <4>3. QED
        BY <2>0, <3>2, <3>3, <4>1, <4>2
    <3>6. CASE ResumeMerge(c)
      <4>1. call[c].pc = "merge"
        BY <3>6 DEF ResumeMerge
      <4>2. PICK r \in Runs : run[r].pc = "parked" /\ state = "Paused" /\ call[c].op # "Start"
        BY <2>0, <4>1 DEF CallFits
      <4>3. params
        BY <1>0, <4>2 DEF Live, RunFits
      <4>4. CallGoto(c, "write") /\ panicked' = panicked
        BY <3>6, <4>3 DEF ResumeMerge
      <4>5. call'[c].op = call[c].op /\ call'[c].pc = "write" /\ call'[c].saw = call[c].saw
        BY <1>0, <4>4 DEF CallGoto, Call
      <4>6. QED
        BY <1>0, <2>0, <3>1, <3>2, <3>3, <4>1, <4>4, <4>5 DEF CallFits
    <3>7. QED
      BY <2>4, <3>4, <3>5, <3>6
  <2>5. QED
    BY <1>3, <2>1, <2>2, <2>3, <2>4 DEF CallStep
<1>4. ASSUME NEW r \in Runs, NEW c \in Callers, Rendezvous(r, c)
      PROVE  Fits' /\ Calls_' /\ AnswersArrive' /\ Quiet' /\ panicked' = "no"
  <2>1. call[c].pc = "send" /\ r \in Live /\ CallFits(c) /\ \A d \in Callers : d = c
    BY <1>0, <1>4 DEF Rendezvous, SelectWake, Wake, Live, OneCaller
  <2>2. /\ Live = {r} /\ run[r].pc = "parked" /\ Answered /\ RunFits(r)
    BY <1>0, <2>1 DEF CallFits, Live
  <2>3. Wake(r, c)
    BY <1>4, <2>2 DEF Rendezvous, SelectWake
  <2>4. /\ run'[r].pc = "resumed" /\ run'[r].sent = run[r].sent
        /\ run'[r].cancelled = run[r].cancelled
        /\ Live' = {r}
    BY <1>0, <2>2, <2>3 DEF Wake, Goto, Run, Live
  <2>5. UNCHANGED <<state, params, asked, lastSignal, panicked>> /\ call'[c].pc = "idle"
    BY <1>0, <2>3 DEF Wake, Return, Call, history
  <2>6. RunFits(r)'
    BY <2>2, <2>4, <2>5 DEF RunFits, Answered
  <2>7. Calls_' /\ AnswersArrive'
    BY <2>1, <2>4, <2>5 DEF CallFits, AnswersArrive
  <2>8. QED
    BY <1>0, <2>4, <2>5, <2>6, <2>7
<1>5. ASSUME NEW c \in Callers, NEW op \in Calls, Invoke(c, op)
      PROVE  Fits' /\ Calls_' /\ AnswersArrive' /\ Quiet' /\ panicked' = "no"
  <2>1. /\ UNCHANGED <<state, run, params, asked, lastSignal, panicked>> /\ Live' = Live
        /\ call[c].pc = "idle" /\ Appropriate(op) /\ \A d \in Callers : d = c
    BY <1>5 DEF Invoke, history, Live, OneCaller
  <2>2. Fits' /\ Quiet' /\ panicked' = "no"
    BY <1>0, <2>1 DEF RunFits, Connecting, Answered
  <2>3. \A s \in Live : run[s].pc = "parked" => state = "Paused"
    BY <1>0, <2>1 DEF AnswersArrive
  <2>4. call'[c].pc = "check" /\ call'[c].op = op
    BY <1>0, <1>5 DEF Invoke, Call
  <2>5. op \in {"Start", "Resume", "Cancel"}
    BY FlowAssumption
  <2>6. Calls_'
    BY <2>1, <2>3, <2>4, <2>5 DEF CallFits, Appropriate, Live
  <2>7. AnswersArrive'
    BY <2>1, <2>3 DEF AnswersArrive
  <2>8. QED
    BY <2>2, <2>6, <2>7
<1>6. ASSUME (\E k \in Contexts : CtxStep(k)) \/ MoveCard \/ MoveReader \/ UNCHANGED vars
      PROVE  Fits' /\ Calls_' /\ AnswersArrive' /\ Quiet' /\ panicked' = "no"
  <2>1. UNCHANGED <<state, run, call, params, asked, lastSignal, panicked>>
    BY <1>6 DEF CtxStep, CtxStart, CtxWait, CtxLink, CtxEnd, MoveCard, MoveReader, history, vars
  <2>2. Live' = Live /\ Fits' /\ Quiet'
    BY <1>0, <2>1 DEF Live, RunFits, Connecting, Answered
  <2>3. QED
    BY <1>0, <2>1, <2>2 DEF CallFits, AnswersArrive, Answered
<1>7. QED
  BY <1>1, <1>2, <1>3, <1>4, <1>5, <1>6 DEF Next, PatientInv

\* Nothing runs and nothing is asked at first.
LEMMA PatientInvInitially == Init => PatientInv
BY AloneInvInitially
   DEF Init, PatientInv, RunFits, CallFits, AnswersArrive, Live, NoRun

\* The invariant of a patient client.
LEMMA PatientInvHolds ==
    ASSUME OneCaller, Patient
    PROVE  Spec => []PatientInv
BY PatientInvInitially, PatientInvKept, PTL DEF Spec

\* A patient client is never kept waiting by a flow it cannot reach: the flow
\* that waits has written Paused, in connect (flow.go:209-214) and in
\* pauseAndWaitWithStatus (flow.go:145-170) alike, restarts included.
THEOREM WaitsAnnounced ==
    ASSUME OneCaller, Patient
    PROVE  Spec => []WaitsAreAnnounced
<1>1. PatientInv => WaitsAreAnnounced
  <2> SUFFICES ASSUME PatientInv, NEW r \in Runs, Parked(r),
                      \A c \in Callers : call[c].pc # "send"
               PROVE  state = "Paused"
    BY DEF WaitsAreAnnounced
  <2>1. r \in Live
    BY DEF Live, Parked
  <2>2. RunFits(r) /\ AnswersArrive
    BY <2>1 DEF PatientInv
  <2>3. QED
    BY <2>1, <2>2 DEF AnswersArrive, RunFits, Parked
<1>2. QED
  BY <1>1, PatientInvHolds, PTL

\* A patient client finds the flow Idle again when it is over (flow.go:124).
THEOREM IdleAgain ==
    ASSUME OneCaller, Patient
    PROVE  Spec => []IdleWhenDone
<1>1. PatientInv => IdleWhenDone
  BY DEF PatientInv, IdleWhenDone
<1>2. QED
  BY <1>1, PatientInvHolds, PTL

\* The panics of connect and of a nil map need a client that answers a request
\* for a card, or calls before the flow listens: with a patient one neither
\* flow.go:218 nor the parameters of Resume end the process.
THEOREM PatienceNeverPanics ==
    ASSUME OneCaller, Patient
    PROVE  Spec => []ResumeNeverPanics
<1>1. PatientInv => ResumeNeverPanics
  BY DEF PatientInv, ResumeNeverPanics
<1>2. QED
  BY <1>1, PatientInvHolds, PTL

-----------------------------------------------------------------------------
\* For a patient client the flow implements FlowProtocol.

\* What the client is told of the one flow that is alive.
PhaseOf(r) == IF run[r].sent THEN "idle"
              ELSE IF run[r].cancelled THEN "cancelled"
              ELSE IF asked THEN "asking" ELSE "working"
HeardOf(r) == IF PhaseOf(r) = "asking"
              THEN IF lastSignal = "insert-card" THEN "card" ELSE "question"
              ELSE IF run[r].sent /\ lastSignal = "flow-result" THEN "result" ELSE "nothing"

\* With at most one run, the abstract flow shows that run.
LEMMA OneView ==
    /\ \A r : Live = {r} => PhaseBar = PhaseOf(r) /\ HeardBar = HeardOf(r)
    /\ \A r : Live' = {r} => PhaseBar' = PhaseOf(r)' /\ HeardBar' = HeardOf(r)'
    /\ Live = {} => /\ PhaseBar = "idle"
                    /\ HeardBar = IF lastSignal = "flow-result" THEN "result" ELSE "nothing"
    /\ Live' = {} => /\ PhaseBar' = "idle"
                     /\ HeardBar' = IF lastSignal' = "flow-result" THEN "result" ELSE "nothing"
BY DEF PhaseBar, HeardBar, PhaseOf, HeardOf, Over

\* A step that the client does not see.
LEMMA Unseen ==
    ASSUME NEW r, Live = {r}, Live' = {r},
           UNCHANGED <<asked, lastSignal>>,
           run'[r].sent = run[r].sent, run'[r].cancelled = run[r].cancelled
    PROVE  UNCHANGED <<PhaseBar, HeardBar>>
BY OneView DEF PhaseOf, HeardOf

\* Each step is one of the abstract flow, or none.
LEMMA ProtocolStep ==
    PatientInv /\ PatientInv' /\ [Next]_vars => [Protocol!Next]_(Protocol!vars)
<1> SUFFICES ASSUME PatientInv, PatientInv', [Next]_vars
             PROVE  Protocol!Next \/ UNCHANGED <<PhaseBar, HeardBar>>
  BY DEF Protocol!vars
<1> DEFINE Goal == Protocol!Next \/ UNCHANGED <<PhaseBar, HeardBar>>
<1>0. /\ run \in [Runs -> Run] /\ call \in [Callers -> Call]
      /\ \A s, t \in Live : s = t
      /\ \A s \in Live : RunFits(s)
      /\ \A d \in Callers : CallFits(d)
      /\ Live = {} => ~asked
  BY DEF PatientInv, AloneInv, TypeInv, TypeOK, GoroutinesTypeOK
<1>1. ASSUME NEW r \in Runs, RunStep(r) \/ Body(r) PROVE Goal
  <2>1. /\ r \in Live /\ \A s \in Runs \ {r} : run'[s] = run[s]
        /\ ~Exit(r) => run'[r].pc # "off"
    BY <1>0, <1>1, RunLives
  <2>2. Live = {r} /\ RunFits(r) /\ run[r] \in Run
    BY <1>0, <2>1 DEF Live
  <2>3. ~Exit(r) => Live' = {r}
    BY <2>1, <2>2 DEF Live
  <2>4. CASE SelectTimer(r)
    <3>1. /\ Connecting(r) /\ ~run[r].sent /\ ~run[r].cancelled
      BY <2>2, <2>4 DEF SelectTimer, RunFits, Connecting
    <3>2. /\ asked' = TRUE /\ lastSignal' = "insert-card" /\ Live' = {r}
          /\ run'[r].sent = run[r].sent /\ run'[r].cancelled = run[r].cancelled
      BY <1>0, <2>2, <2>3, <2>4 DEF SelectTimer, Exit, Run
    <3>3. PhaseBar' = "asking" /\ HeardBar' = "card"
      BY <3>1, <3>2, OneView DEF PhaseOf, HeardOf
    <3>4. \/ PhaseBar = "working" /\ HeardBar = "nothing"
          \/ PhaseBar = "asking" /\ HeardBar = "card"
      BY <2>2, <3>1, OneView DEF PhaseOf, HeardOf, Connecting
    <3>5. QED
      BY <3>3, <3>4 DEF Protocol!Next, Protocol!AskCard, Protocol!Becomes
  <2>5. CASE Greet(r)
    <3>1. /\ asked /\ lastSignal = "insert-card" /\ ~run[r].sent /\ ~run[r].cancelled
      BY <2>2, <2>5 DEF Greet, RunFits, Connecting
    <3>2. /\ asked' = FALSE /\ lastSignal' = "card-inserted" /\ Live' = {r}
          /\ run'[r].sent = run[r].sent /\ run'[r].cancelled = run[r].cancelled
      BY <1>0, <2>2, <2>3, <2>5 DEF Greet, Goto, Exit, Run
    <3>3. PhaseBar' = "working" /\ HeardBar' = "nothing"
      BY <3>1, <3>2, OneView DEF PhaseOf, HeardOf
    <3>4. PhaseBar = "asking" /\ HeardBar = "card"
      BY <2>2, <3>1, OneView DEF PhaseOf, HeardOf
    <3>5. QED
      BY <3>3, <3>4 DEF Protocol!Next, Protocol!Inserted, Protocol!Becomes
  <2>6. CASE Ask(r)
    <3>1. /\ ~asked /\ ~run[r].sent /\ ~run[r].cancelled
      BY <2>2, <2>6 DEF Ask, RunFits
    <3>2. /\ asked' = TRUE /\ lastSignal' = "action" /\ Live' = {r}
          /\ run'[r].sent = run[r].sent /\ run'[r].cancelled = run[r].cancelled
      BY <1>0, <2>2, <2>3, <2>6 DEF Ask, Goto, Exit, Run
    <3>3. PhaseBar' = "asking" /\ HeardBar' = "question"
      BY <3>1, <3>2, OneView DEF PhaseOf, HeardOf
    <3>4. PhaseBar = "working"
      BY <2>2, <3>1, OneView DEF PhaseOf
    <3>5. QED
      BY <3>3, <3>4 DEF Protocol!Next, Protocol!Ask, Protocol!Becomes
  <2>7. CASE Deliver(r)
    <3>1. /\ ~run[r].sent /\ ~run[r].cancelled /\ (asked => lastSignal = "insert-card")
      BY <2>2, <2>7 DEF Deliver, RunFits, Connecting
    <3>2. /\ asked' = FALSE /\ lastSignal' = "flow-result" /\ Live' = {r} /\ run'[r].sent
      BY <1>0, <2>2, <2>3, <2>7 DEF Deliver, Exit, Run
    <3>3. PhaseBar' = "idle" /\ HeardBar' = "result"
      BY <3>2, OneView DEF PhaseOf, HeardOf
    <3>4. \/ PhaseBar = "working"
          \/ PhaseBar = "asking" /\ HeardBar = "card"
      BY <2>2, <3>1, OneView DEF PhaseOf, HeardOf
    <3>5. QED
      BY <3>3, <3>4 DEF Protocol!Next, Protocol!End, Protocol!Becomes
  <2>8. CASE Exit(r)
    <3>1. Live' = {} /\ lastSignal' = lastSignal
      BY <1>0, <2>2, <2>8 DEF Exit, Live, NoRun, history
    <3>2. CASE run[r].sent
      <4>1. UNCHANGED <<PhaseBar, HeardBar>>
        BY <2>2, <3>1, <3>2, OneView DEF PhaseOf, HeardOf
      <4>2. QED
        BY <4>1
    <3>3. CASE ~run[r].sent
      <4>1. run[r].cancelled /\ lastSignal = "action"
        BY <2>2, <2>8, <3>3 DEF Exit, RunFits
      <4>2. PhaseBar = "cancelled" /\ PhaseBar' = "idle" /\ HeardBar' = "nothing"
        BY <2>2, <3>1, <3>3, <4>1, OneView DEF PhaseOf
      <4>3. QED
        BY <4>2 DEF Protocol!Next, Protocol!Gone, Protocol!Becomes
    <3>4. QED
      BY <3>2, <3>3
  <2>9. CASE ~(SelectTimer(r) \/ Greet(r) \/ Ask(r) \/ Deliver(r) \/ Exit(r))
    <3>1. UNCHANGED <<asked, lastSignal>>
      BY <1>1, <2>9 DEF RunStep, Open, Hello, SelectConnected, Tick, Woken, Present, Check, Park,
         Resumed, Resume, Close, Report, Clear, Body, Finish, Lost, Need, history
    <3>2. run'[r].sent = run[r].sent /\ run'[r].cancelled = run[r].cancelled
      <4>1. CASE Open(r) \/ Hello(r) \/ SelectConnected(r) \/ Tick(r)
        BY <1>0, <4>1 DEF Open, Hello, SelectConnected, Tick, Goto, Run
      <4>2. CASE Woken(r)
        BY <2>2, <4>2 DEF Woken, RunFits
      <4>3. CASE Present(r) \/ Check(r) \/ Park(r) \/ Resumed(r) \/ Resume(r)
        BY <1>0, <4>3 DEF Present, Check, Park, Resumed, Resume, Goto, GiveUp, Run
      <4>4. CASE Close(r) \/ Report(r) \/ Clear(r) \/ Body(r)
        BY <1>0, <4>4 DEF Close, Report, Clear, Body, Finish, Lost, Need, Goto, Run
      <4>5. QED
        BY <1>1, <2>9, <4>1, <4>2, <4>3, <4>4 DEF RunStep
    <3>3. QED
      BY <2>2, <2>3, <2>9, <3>1, <3>2, Unseen
  <2>10. QED
    BY <2>4, <2>5, <2>6, <2>7, <2>8, <2>9
<1>2. ASSUME NEW c \in Callers, CallStep(c) PROVE Goal
  <2>0. CallFits(c)
    BY <1>0
  <2>1. CASE StartWrite(c)
    <3>1. Live = {} /\ ~asked /\ asked' = asked
      BY <1>0, <2>0, <2>1 DEF StartWrite, CallFits, history
    <3>2. PICK r \in Runs : run' = [run EXCEPT ![r] = [NoRun EXCEPT !.pc = "open"]]
      BY <2>1 DEF StartWrite
    <3>3. Live' = {r} /\ run'[r] = [NoRun EXCEPT !.pc = "open"]
      BY <1>0, <3>1, <3>2 DEF Live, NoRun
    <3>4. ~run'[r].sent /\ ~run'[r].cancelled
      BY <3>3 DEF NoRun
    <3>5. PhaseBar = "idle" /\ PhaseBar' = "working" /\ HeardBar' = "nothing"
      BY <3>1, <3>3, <3>4, OneView DEF PhaseOf, HeardOf
    <3>6. QED
      BY <3>5 DEF Protocol!Next, Protocol!Start, Protocol!Becomes
  <2>2. CASE ResumeWrite(c)
    <3>1. PICK r \in Runs : run[r].pc = "parked"
      BY <2>0, <2>2 DEF ResumeWrite, CallFits
    <3>2. Live = {r} /\ Live' = {r} /\ run' = run /\ RunFits(r)
      BY <1>0, <2>2, <3>1 DEF Live, ResumeWrite
    <3>3. state = "Paused" /\ asked' = FALSE
      BY <2>0, <2>2 DEF ResumeWrite, CallFits
    <3>4. /\ asked /\ lastSignal = "action" /\ ~run[r].sent /\ ~run[r].cancelled
      BY <3>1, <3>2, <3>3 DEF RunFits, Answered
    <3>5. PhaseBar = "asking" /\ HeardBar = "question"
      BY <3>2, <3>4, OneView DEF PhaseOf, HeardOf
    <3>6. PhaseBar' = "working" /\ HeardBar' = "nothing"
      BY <3>2, <3>3, <3>4, OneView DEF PhaseOf, HeardOf
    <3>7. QED
      BY <3>5, <3>6 DEF Protocol!Next, Protocol!Resume, Protocol!Becomes
  <2>3. CASE CancelWrite(c)
    <3>1. PICK r \in Runs : run[r].pc = "parked"
      BY <2>0, <2>3 DEF CancelWrite, CallFits
    <3>2. Live = {r} /\ RunFits(r)
      BY <1>0, <3>1 DEF Live
    <3>3. ASSUME NEW s \in Runs
          PROVE  /\ run'[s].pc = run[s].pc /\ run'[s].sent = run[s].sent
                 /\ run'[s].cancelled = (s \in Live)
      <4>1. /\ [run[s] EXCEPT !.cancelled = s \in Live].pc = run[s].pc
            /\ [run[s] EXCEPT !.cancelled = s \in Live].sent = run[s].sent
            /\ [run[s] EXCEPT !.cancelled = s \in Live].cancelled = (s \in Live)
        BY <1>0 DEF Run
      <4>2. QED
        BY <2>3, <4>1 DEF CancelWrite
    <3>4. state = "Paused"
      BY <2>0, <2>3 DEF CancelWrite, CallFits
    <3>5. /\ asked /\ lastSignal = "action" /\ ~run[r].sent /\ ~run[r].cancelled
      BY <3>1, <3>2, <3>4 DEF RunFits, Answered
    <3>6. Live' = {r} /\ run'[r].cancelled /\ run'[r].sent = run[r].sent
      BY <3>1, <3>2, <3>3 DEF Live
    <3>7. PhaseBar = "asking"
      BY <3>2, <3>5, OneView DEF PhaseOf
    <3>8. PhaseBar' = "cancelled" /\ HeardBar' = "nothing"
      BY <3>5, <3>6, OneView DEF PhaseOf, HeardOf
    <3>9. QED
      BY <3>7, <3>8 DEF Protocol!Next, Protocol!Cancel, Protocol!Becomes
  <2>4. CASE Refuse(c) \/ Accept(c) \/ ResumeMerge(c)
    <3>1. UNCHANGED <<run, asked, lastSignal>>
      BY <2>4 DEF Refuse, Accept, ResumeMerge, history
    <3>2. QED
      BY <3>1 DEF PhaseBar, HeardBar, Over, Live
  <2>5. QED
    BY <1>2, <2>1, <2>2, <2>3, <2>4 DEF CallStep
<1>3. ASSUME NEW r \in Runs, NEW c \in Callers, Rendezvous(r, c) PROVE Goal
  <2>1. run[r].pc \in {"select", "parked"} /\ r \in Live
    BY <1>3 DEF Rendezvous, SelectWake, Wake, Live
  <2>2. /\ Live = {r}
        /\ run'[r].pc # "off" /\ \A s \in Runs \ {r} : run'[s] = run[s]
        /\ run'[r].sent = run[r].sent /\ run'[r].cancelled = run[r].cancelled
    BY <1>0, <1>3, <2>1 DEF Rendezvous, SelectWake, Wake, Goto, Run, Live
  <2>3. Live' = {r}
    BY <2>2 DEF Live
  <2>4. UNCHANGED <<asked, lastSignal>>
    BY <1>3 DEF Rendezvous, SelectWake, Wake, history
  <2>5. QED
    BY <2>2, <2>3, <2>4, Unseen
<1>4. ASSUME \/ \E k \in Contexts : CtxStep(k)
             \/ \E c \in Callers, op \in Calls : Invoke(c, op)
             \/ MoveCard \/ MoveReader \/ UNCHANGED vars
      PROVE  Goal
  <2>1. UNCHANGED <<run, asked, lastSignal>>
    BY <1>4 DEF CtxStep, CtxStart, CtxWait, CtxLink, CtxEnd, Invoke, MoveCard, MoveReader,
       history, vars
  <2>2. QED
    BY <2>1 DEF PhaseBar, HeardBar, Over, Live
<1>5. QED
  BY <1>1, <1>2, <1>3, <1>4 DEF Next

\* runFlow, connect and the pauses of flow.go, with every card that comes and
\* goes and every restart, keep what FlowProtocol promises a patient client:
\* answers go on, requests for a card are answered by a card, and each flow
\* that is not cancelled ends with exactly one result (flow.go:58-245).
THEOREM KeepsProtocol ==
    ASSUME OneCaller, Patient
    PROVE  Spec => Protocol!Safety
<1>1. Init => Protocol!Init
  <2> SUFFICES ASSUME Init PROVE PhaseBar = "idle" /\ HeardBar = "nothing"
    BY DEF Protocol!Init
  <2>1. Live = {} /\ lastSignal = "none"
    BY DEF Init, Live, NoRun
  <2>2. QED
    BY <2>1, OneView
<1>2. QED
  BY <1>1, ProtocolStep, PatientInvHolds, PTL DEF Spec, Protocol!Safety

=============================================================================
