------------------------ MODULE KeycardContextV2_proofs ------------------------
(***************************************************************************)
(* What is proved of the session API, for any number of clients, monitor   *)
(* goroutines, readers and cards, any workload and any moves of the user.  *)
(***************************************************************************)
EXTENDS KeycardContextV2, TLAPS

-----------------------------------------------------------------------------
(* Lemmas on the card and on sequences of requests. *)

\* A card stays a card whatever it is asked, and always answers something.
LEMMA CardAnswers ==
    ASSUME NEW k \in CardState, NEW command \in Command
    PROVE  /\ After(k, command) \in CardState
           /\ Answer(k, command) \in Outcome
           /\ EndSession(k) \in CardState
<1>1. EndSession(k) \in CardState
  BY DEF EndSession, CardState
<1>2. EmptyCard \in CardState
  BY KeycardAssumption DEF EmptyCard, CardState
<1>3. ASSUME Accepts(k, command) PROVE Effect(k, command) \in CardState
  <2>1. command = "pair" => k.slots > 0
    BY <1>3 DEF Accepts, SelectCommands, InitCommands, ChannelCommands, PINCommands
  <2>2. /\ [k EXCEPT !.init = TRUE, !.default = (command = "initDefault")] \in CardState
        /\ [k EXCEPT !.channel = TRUE, !.verified = FALSE] \in CardState
        /\ [k EXCEPT !.keys = TRUE] \in CardState
        /\ [k EXCEPT !.data = TRUE] \in CardState
    BY DEF CardState
  <2>3. command = "pair" => [k EXCEPT !.slots = @ - 1, !.paired = TRUE] \in CardState
    <3>1. command = "pair" => k.slots - 1 \in 0..MaxSlots
      BY <2>1, KeycardAssumption DEF CardState
    <3>2. QED
      BY <3>1 DEF CardState
  <2>4. /\ [k EXCEPT !.pin = MaxPIN, !.verified = TRUE] \in CardState
        /\ [k EXCEPT !.pin = MaxPIN, !.puk = MaxPUK, !.verified = TRUE] \in CardState
    <3>1. MaxPIN \in 0..MaxPIN /\ MaxPUK \in 0..MaxPUK
      BY KeycardAssumption
    <3>2. QED
      BY <3>1 DEF CardState
  <2>5. /\ [k EXCEPT !.pin = Decrement(@), !.verified = FALSE] \in CardState
        /\ [k EXCEPT !.puk = Decrement(@)] \in CardState
    <3>1. Decrement(k.pin) \in 0..MaxPIN /\ Decrement(k.puk) \in 0..MaxPUK
      BY KeycardAssumption DEF CardState, Decrement
    <3>2. QED
      BY <3>1 DEF CardState
  <2>6. QED
    BY <1>1, <1>2, <2>2, <2>3, <2>4, <2>5 DEF Effect
<1>4. Verdict(k, command) \in Outcome
  BY DEF Verdict, Outcome
<1>5. QED
  BY <1>1, <1>3, <1>4 DEF After, Answer, Outcome

\* Changing requests in place gives a queue of requests of the same length.
LEMMA MapRequests ==
    ASSUME NEW q \in Seq(Requests), NEW f, f = [i \in DOMAIN q |-> f[i]],
           \A i \in DOMAIN q : f[i] \in Requests
    PROVE  f \in Seq(Requests) /\ Len(f) = Len(q) /\ DOMAIN f = DOMAIN q
  OBVIOUS

\* Requests that have lost their connection are from whom they were.
LEMMA StaleRequests ==
    ASSUME NEW q \in Seq(Requests)
    PROVE  /\ Stale(q) \in Seq(Requests)
           /\ DOMAIN Stale(q) = DOMAIN q
           /\ \A i \in DOMAIN q : /\ Stale(q)[i].proc = q[i].proc
                                  /\ Stale(q)[i].cmd = q[i].cmd
<1>1. \A i \in DOMAIN q : q[i] \in Requests
  OBVIOUS
<1>2. \A i \in DOMAIN q : Stale(q)[i] = [q[i] EXCEPT !.fresh = FALSE]
  BY DEF Stale
<1>3. \A i \in DOMAIN q : Stale(q)[i] \in Requests
  BY <1>1, <1>2 DEF Requests
<1>4. Stale(q) = [i \in DOMAIN q |-> Stale(q)[i]]
  BY DEF Stale
<1>5. Stale(q) \in Seq(Requests) /\ DOMAIN Stale(q) = DOMAIN q
  BY <1>3, <1>4, MapRequests
<1>6. QED
  BY <1>1, <1>2, <1>5 DEF Requests

\* The statuses that the code builds are statuses.
LEMMA StatusTypes ==
    /\ \A x \in State : Reset(x) \in Status
    /\ \A s \in Status, x \in State : [s EXCEPT !.state = x] \in Status
    /\ \A s \in Status, r \in Reply, x \in State :
           [s EXCEPT !.app = InfoOf(r), !.state = x] \in Status
    /\ \A s \in Status, r \in Reply : [s EXCEPT !.app = InfoOf(r)] \in Status
    /\ \A s \in Status, r \in Reply, x \in State :
           [s EXCEPT !.appst = AppStatusOf(r), !.state = x] \in Status
    /\ \A s \in Status, x \in State : [s EXCEPT !.appst = None, !.state = x] \in Status
    /\ \A s \in Status : s.appst # None => [s EXCEPT !.appst = [@ EXCEPT !.keys = TRUE]] \in Status
    /\ \A s \in Status, c \in Cards \cup {None} : [s EXCEPT !.meta = c] \in Status
<1>1. \A r \in Reply : InfoOf(r) \in AppInfo /\ AppStatusOf(r) \in AppStatus
  BY DEF InfoOf, AppStatusOf, AppInfo, AppStatus, Reply, CardState
<1>2. \A a \in AppStatus : [a EXCEPT !.keys = TRUE] \in AppStatus
  BY DEF AppStatus
<1>3. \A x \in State : Reset(x) \in Status
  BY DEF Reset, Status
<1>4. QED
  BY <1>1, <1>2, <1>3 DEF Status

-----------------------------------------------------------------------------
(* Type correctness. *)

\* The program counters the code names.
LEMMA PCNames ==
    /\ "idle" \in PCs /\ "lock" \in PCs /\ "wait" \in PCs /\ "got" \in PCs
    /\ "force" \in PCs /\ "sending" \in PCs /\ "orphan" \in PCs /\ "forced" \in PCs
    /\ "refresh" \in PCs /\ "metadata" \in PCs /\ "authorize" \in PCs /\ "load" \in PCs
    /\ "cancel" \in PCs /\ "shutdown" \in PCs /\ "detect" \in PCs /\ "connect" \in PCs
    /\ "keycard" \in PCs /\ "readers" \in PCs /\ "blocked" \in PCs
    /\ "poll" \in PCs /\ "tick" \in PCs
  BY DEF PCs

\* The commands the code names itself.
LEMMA CommandNames ==
    /\ "select" \in LockedCommand /\ "reselect" \in LockedCommand
    /\ "status" \in LockedCommand /\ "getData" \in LockedCommand
    /\ "export" \in LockedCommand /\ "pair" \in Command /\ "open" \in Command
    /\ LockedCommand \subseteq Command
    /\ \A op \in Op : CardCommands(op) \subseteq LockedCommand
  BY DEF LockedCommand, Command, CardCommands, SelectCommands, InitCommands, ChannelCommands,
         PINCommands

\* The states that the code names.
LEMMA StateNames ==
    /\ "unknown" \in State /\ "no-pcsc" \in State /\ "internal-error" \in State /\ "waiting-for-reader" \in State
    /\ "waiting-for-card" \in State /\ "connecting-card" \in State
    /\ "connection-error" \in State /\ "not-keycard" \in State
    /\ "empty-keycard" \in State /\ "no-available-pairing-slots" \in State
    /\ "pairing-error" \in State /\ "authorized" \in State
    /\ "factory-resetting" \in State
    /\ \A r : StateOfCard(r) \in State
  BY DEF State, StateOfCard

\* The records of clients and monitors keep their form.
LEMMA RecordTypes ==
    /\ NotScanning \in ScanRecord
    /\ \A s \in ScanRecord : [active |-> s.active, known |-> {}] \in ScanRecord
    /\ \A r \in Readers \cup {None} : [active |-> r, known |-> Listed] \in ScanRecord
    /\ \A k \in CallRecord :
         /\ [k EXCEPT !.op = None, !.good = FALSE, !.left = 0] \in CallRecord
         /\ [k EXCEPT !.op = None, !.left = 0] \in CallRecord
         /\ \A b \in BOOLEAN : [k EXCEPT !.good = b] \in CallRecord
         /\ k.left - 1 \in 0..6 => [k EXCEPT !.left = @ - 1] \in CallRecord
         /\ k.made < MaxCalls =>
              /\ [k EXCEPT !.op = "Stop", !.made = @ + 1] \in CallRecord
              /\ \A op \in Op : [op |-> op, good |-> FALSE, left |-> Exports(op),
                               made |-> k.made + 1] \in CallRecord
<1>1. /\ NotScanning \in ScanRecord
      /\ \A s \in ScanRecord : [active |-> s.active, known |-> {}] \in ScanRecord
      /\ \A r \in Readers \cup {None} : [active |-> r, known |-> Listed] \in ScanRecord
  BY DEF NotScanning, ScanRecord, Listed
<1>2. SUFFICES ASSUME NEW k \in CallRecord
               PROVE  /\ [k EXCEPT !.op = None, !.good = FALSE, !.left = 0] \in CallRecord
                      /\ [k EXCEPT !.op = None, !.left = 0] \in CallRecord
                      /\ \A b \in BOOLEAN : [k EXCEPT !.good = b] \in CallRecord
                      /\ k.left - 1 \in 0..6 => [k EXCEPT !.left = @ - 1] \in CallRecord
                      /\ k.made < MaxCalls =>
                           /\ [k EXCEPT !.op = "Stop", !.made = @ + 1] \in CallRecord
                           /\ \A op \in Op : [op |-> op, good |-> FALSE, left |-> Exports(op),
                                            made |-> k.made + 1] \in CallRecord
  BY <1>1
<1>3. /\ k.made < MaxCalls => k.made + 1 \in 0..MaxCalls
      /\ \A op \in Op : Exports(op) \in 0..6
      /\ "Stop" \in Op
      /\ 0 \in 0..6
  BY SessionAssumption DEF CallRecord, Exports, Op
<1>4. QED
  BY <1>3 DEF CallRecord

\* A request is one when its command is.
LEMMA RequestTypes ==
    \A p \in Procs, command \in Command : Request(p, command) \in Requests
  BY DEF Request, Requests

\* A command is known when its goroutine asks for the lock, and the queue and
\* the replies are only as good as that.
LockedWhenLocking == \A p \in Procs : pc[p] = "lock" => cmd[p] \in LockedCommand

TypeInv == TypeOK /\ LockedWhenLocking

\* A change of state alone.
LEMMA WithStateTypes ==
    ASSUME status \in Status, NEW x \in State
    PROVE  WithState(x) \in Status
  BY StatusTypes DEF WithState

\* Moving one goroutine.
LEMMA GotoTypes ==
    ASSUME pc \in [Procs -> PCs], NEW p \in Procs, NEW where \in PCs, Goto(p, where)
    PROVE  /\ pc' \in [Procs -> PCs]
           /\ pc'[p] = where
           /\ \A q \in Procs : q # p => pc'[q] = pc[q]
  BY DEF Goto

\* The successor of a monitor starts where its predecessor says; nobody else moves.
LEMMA HandOverTypes ==
    ASSUME pc \in [Procs -> PCs], scan \in [Monitors -> ScanRecord],
           NEW g \in Monitors, NEW where \in {"poll", "detect"}, NEW next \in ScanRecord,
           HandOver(g, where, next)
    PROVE  /\ pc' \in [Procs -> PCs]
           /\ scan' \in [Monitors -> ScanRecord]
           /\ pc'[g] = "idle"
           /\ \A q \in Procs : pc'[q] = "lock" => pc[q] = "lock" /\ q # g
<1>1. PICK h \in Monitors :
        /\ h # g
        /\ pc' = [pc EXCEPT ![g] = "idle", ![h] = where]
        /\ scan' = [scan EXCEPT ![g] = NotScanning, ![h] = next]
  BY DEF HandOver, NotScanning
<1>2. g \in Procs /\ h \in Procs
  BY DEF Procs
<1>3. QED
  BY <1>1, <1>2, PCNames, RecordTypes

\* A monitor that hands over to a watcher.
LEMMA WatchTypes ==
    ASSUME pc \in [Procs -> PCs], scan \in [Monitors -> ScanRecord],
           NEW g \in Monitors, Watch(g)
    PROVE  /\ pc' \in [Procs -> PCs]
           /\ scan' \in [Monitors -> ScanRecord]
           /\ pc'[g] = "idle"
           /\ \A q \in Procs : pc'[q] = "lock" => pc[q] = "lock" /\ q # g
<1>1. [active |-> scan[g].active, known |-> {}] \in ScanRecord
  BY RecordTypes
<1>2. QED
  BY <1>1, HandOverTypes DEF Watch

\* A monitor that hands over to a detection.
LEMMA StartDetectionTypes ==
    ASSUME pc \in [Procs -> PCs], scan \in [Monitors -> ScanRecord],
           NEW g \in Monitors, StartDetection(g)
    PROVE  /\ pc' \in [Procs -> PCs]
           /\ scan' \in [Monitors -> ScanRecord]
           /\ \A q \in Procs : pc'[q] = "lock" => pc[q] = "lock"
  BY HandOverTypes, RecordTypes DEF StartDetection

\* A monitor that gives up.
LEMMA GiveUpTypes ==
    ASSUME ObjectTypeOK, LocalsTypeOK, LockedWhenLocking,
           NEW g \in Monitors, NEW x \in State, GiveUp(g, x)
    PROVE  /\ status' \in Status /\ published' \in Status
           /\ pc' \in [Procs -> PCs] /\ scan' \in [Monitors -> ScanRecord]
           /\ cmd' \in [Procs -> Command \cup {None}]
           /\ LockedWhenLocking'
<1>1. status' \in Status /\ published' \in Status
  BY StatusTypes DEF GiveUp, Publish, WithState, ObjectTypeOK
<1>2. Watch(g) /\ cmd' = [cmd EXCEPT ![g] = None]
  BY DEF GiveUp
<1>3. QED
  BY <1>1, <1>2, WatchTypes DEF LocalsTypeOK, LockedWhenLocking

\* The end of a refresh of the metadata.
LEMMA MetadataDoneTypes ==
    ASSUME published \in Status, LocalsTypeOK,
           NEW p \in Procs, NEW s \in Status, NEW fine \in BOOLEAN, MetadataDone(p, s, fine)
    PROVE  /\ status' \in Status /\ published' \in Status
           /\ pc' \in [Procs -> PCs] /\ scan' \in [Monitors -> ScanRecord]
           /\ call' \in [Clients -> CallRecord]
           /\ \A q \in Procs : pc'[q] = "lock" => pc[q] = "lock" /\ q # p
<1>1. CASE p \in Monitors
  <2>1. status' = s /\ published' = s /\ Watch(p) /\ UNCHANGED call
    BY <1>1 DEF MetadataDone
  <2>2. QED
    BY <1>1, <2>1, WatchTypes DEF LocalsTypeOK
<1>2. CASE p \notin Monitors
  <2>1. /\ status' = s /\ published' \in {s, published} /\ Goto(p, "idle")
        /\ call' = [call EXCEPT ![p] = [@ EXCEPT !.op = None, !.good = FALSE, !.left = 0]]
        /\ UNCHANGED scan
    BY <1>2 DEF MetadataDone
  <2>2. QED
    BY <1>2, <2>1, GotoTypes, PCNames, RecordTypes DEF LocalsTypeOK, Procs
<1>3. QED
  BY <1>1, <1>2

\* Init establishes the type invariant, and every action keeps it.
THEOREM Typing == Spec => []TypeInv
<1>1. Init => TypeInv
  <2> SUFFICES ASSUME Init PROVE TypeInv
    OBVIOUS
  <2>1. WorldTypeOK
    <3>1. slot \in [Readers -> Cards \cup {None, Unplugged}]
      BY SessionAssumption DEF Init
    <3>2. card \in [Cards -> CardState]
      BY SessionAssumption DEF Init
    <3>3. moves \in 0..MaxMoves
      BY SessionAssumption DEF Init
    <3>4. QED
      BY <3>1, <3>2, <3>3 DEF Init, WorldTypeOK
  <2>2. ObjectTypeOK
    <3>1. Reset("unknown") \in Status
      BY StatusTypes, StateNames
    <3>2. <<>> \in Seq(Requests)
      OBVIOUS
    <3>3. QED
      BY <3>1, <3>2 DEF Init, ObjectTypeOK
  <2>3. LifeTypeOK
    BY DEF Init, LifeTypeOK
  <2>4. LocalsTypeOK /\ LockedWhenLocking
    BY SessionAssumption DEF Init, LocalsTypeOK, LockedWhenLocking, PCs, CallRecord, ScanRecord
  <2>5. QED
    BY <2>1, <2>2, <2>3, <2>4 DEF TypeInv, TypeOK
<1>2. TypeInv /\ [Next]_vars => TypeInv'
  <2> SUFFICES ASSUME TypeInv, [Next]_vars PROVE TypeInv'
    OBVIOUS
  <2> USE DEF TypeInv, TypeOK
  <2>1. CASE User
    <3>1. WorldTypeOK'
      <4>1. PICK r \in Readers, content \in Cards \cup {None, Unplugged} : UserMay /\ Move(r, content)
        BY <2>1 DEF User, InsertCard, RemoveCard, UnplugReader, PlugReader
      <4>2. slot' \in [Readers -> Cards \cup {None, Unplugged}] /\ dirty' \in BOOLEAN
        BY <4>1 DEF Move, WorldTypeOK
      <4>3. \A k \in CardState : EndSession(k) \in CardState
        BY DEF EndSession, CardState
      <4>4. card' \in [Cards -> CardState]
        BY <4>1, <4>3 DEF Move, WorldTypeOK
      <4>5. moves' \in 0..MaxMoves
        BY <4>1, SessionAssumption DEF Move, UserMay, WorldTypeOK
      <4>6. torn' = torn
        BY <4>1 DEF Move
      <4>7. QED
        BY <4>2, <4>4, <4>5, <4>6 DEF WorldTypeOK
    <3>2. ObjectTypeOK'
      <4>1. PICK r \in Readers, content \in Cards \cup {None, Unplugged} : Move(r, content)
        BY <2>1 DEF User, InsertCard, RemoveCard, UnplugReader, PlugReader
      <4>2. link' \in BOOLEAN /\ UNCHANGED <<conn, status, published, forceScanC, mutex, txq, stored>>
        BY <4>1 DEF Move, ObjectTypeOK
      <4>3. QED
        BY <4>2 DEF ObjectTypeOK
    <3>3. UNCHANGED <<life, locals>>
      BY <2>1 DEF User, InsertCard, RemoveCard, UnplugReader, PlugReader, Move
    <3>4. LifeTypeOK' /\ LocalsTypeOK' /\ LockedWhenLocking'
      BY <3>3 DEF LifeTypeOK, LocalsTypeOK, LockedWhenLocking, life, locals
    <3>5. QED
      BY <3>1, <3>2, <3>3, <3>4
  <2>2. CASE Start
    <3>1. WorldTypeOK'
      BY <2>2 DEF WorldTypeOK, Start, Goto, Publish, WithState, Procs, world, object, life, locals
    <3>2. ObjectTypeOK'
      <4>1. status' \in Status /\ published' \in Status
        BY <2>2, WithStateTypes, StateNames DEF ObjectTypeOK, Start, Publish
      <4>2. QED
        BY <2>2, <4>1 DEF ObjectTypeOK, Start
    <3>3. LifeTypeOK'
      BY <2>2 DEF LifeTypeOK, Start, Goto, Publish, WithState, Procs, world, object, life, locals
    <3>4. LocalsTypeOK' /\ LockedWhenLocking'
      BY <2>2, PCNames, CommandNames, RecordTypes DEF LocalsTypeOK, LockedWhenLocking, Start, Goto, Publish, WithState, Procs, world, object, life, locals
    <3>5. QED
      BY <3>1, <3>2, <3>3, <3>4
  <2>3. CASE StopFailed
    <3>1. WorldTypeOK'
      BY <2>3 DEF WorldTypeOK, StopFailed, Procs, world, object, life, locals
    <3>2. ObjectTypeOK'
      BY <2>3 DEF ObjectTypeOK, StopFailed, Procs, world, object, life, locals
    <3>3. LifeTypeOK'
      BY <2>3 DEF LifeTypeOK, StopFailed, Procs, world, object, life, locals
    <3>4. LocalsTypeOK' /\ LockedWhenLocking'
      BY <2>3, PCNames, CommandNames, RecordTypes DEF LocalsTypeOK, LockedWhenLocking, StopFailed, Procs, world, object, life, locals
    <3>5. QED
      BY <3>1, <3>2, <3>3, <3>4
  <2>4. ASSUME NEW e \in Faults \cup {None}, SimulateError(e) PROVE TypeInv'
    <3>1. WorldTypeOK'
      BY <2>4 DEF WorldTypeOK, SimulateError, Procs, world, object, life, locals
    <3>2. ObjectTypeOK'
      BY <2>4 DEF ObjectTypeOK, SimulateError, Procs, world, object, life, locals
    <3>3. LifeTypeOK'
      BY <2>4 DEF LifeTypeOK, SimulateError, Procs, world, object, life, locals
    <3>4. LocalsTypeOK' /\ LockedWhenLocking'
      BY <2>4, PCNames, CommandNames, RecordTypes DEF LocalsTypeOK, LockedWhenLocking, SimulateError, Procs, world, object, life, locals
    <3>5. QED
      BY <3>1, <3>2, <3>3, <3>4
  <2>5. CASE Exchange
    <3>1. CASE conn = None
      BY <2>5, <3>1 DEF Exchange, Panic, WorldTypeOK, ObjectTypeOK, LifeTypeOK, LocalsTypeOK,
         LockedWhenLocking, world, object, life, locals
    <3>2. CASE conn # None
      <4> DEFINE q == Head(txq)
      <4>1. conn \in Cards /\ q \in Requests /\ Tail(txq) \in Seq(Requests)
        BY <2>5, <3>2 DEF Exchange, ObjectTypeOK
      <4>2. q.proc \in Procs \cup {None} /\ q.cmd \in Command
        BY <4>1 DEF Requests
      <4>3. \A a \in Replies(q) : a.card \in CardState /\ a.out \in Outcome
        <5>1. card[conn] \in CardState
          BY <4>1 DEF WorldTypeOK
        <5>2. After(card[conn], q.cmd) \in CardState /\ Answer(card[conn], q.cmd) \in Outcome
          BY <4>2, <5>1, CardAnswers
        <5>3. "scard" \in Outcome /\ "err" \in Outcome
          BY DEF Outcome
        <5> HIDE DEF q
        <5>4. QED
          BY <5>1, <5>2, <5>3 DEF Replies
      <4>4. PICK a \in Replies(q) :
              /\ card' = [card EXCEPT ![conn] = a.card]
              /\ torn' = TornBy(q, a)
              /\ \/ stored' = stored
                 \/ stored' = stored \ {conn}
              /\ txq' = Tail(txq)
              /\ \/ UNCHANGED <<pc, res>>
                 \/ /\ q.proc \in Procs
                    /\ pc' = [pc EXCEPT ![q.proc] = "got"]
                    /\ res' = [res EXCEPT ![q.proc] = [out |-> a.out, from |-> conn, k |-> a.card]]
              /\ UNCHANGED <<slot, dirty, moves, conn, link, status, published,
                             forceScanC, mutex, life, cmd, call, scan>>
        BY <2>5, <3>2, <4>2, Zenon DEF Exchange, Goto
      <4>5. [out |-> a.out, from |-> conn, k |-> a.card] \in Reply
        BY <4>1, <4>3, <4>4 DEF Reply
      <4> HIDE DEF q
      <4>6. WorldTypeOK'
        <5>1. TornBy(q, a) \in [Cards -> Nat]
          BY <4>1 DEF TornBy, WorldTypeOK
        <5>2. QED
          BY <4>1, <4>3, <4>4, <5>1 DEF WorldTypeOK
      <4>7. ObjectTypeOK'
        BY <4>1, <4>4 DEF ObjectTypeOK
      <4>8. LifeTypeOK'
        BY <4>4 DEF LifeTypeOK, life
      <4>9. LocalsTypeOK' /\ LockedWhenLocking'
        BY <4>4, <4>5, PCNames DEF LocalsTypeOK, LockedWhenLocking
      <4>10. QED
        BY <4>6, <4>7, <4>8, <4>9
    <3>3. QED
      BY <3>1, <3>2
  <2>6. CASE ReleaseContext
    <3>1. WorldTypeOK'
      BY <2>6 DEF WorldTypeOK, ReleaseContext, Procs, world, object, life, locals
    <3>2. ObjectTypeOK'
      BY <2>6 DEF ObjectTypeOK, ReleaseContext, Procs, world, object, life, locals
    <3>3. LifeTypeOK'
      BY <2>6 DEF LifeTypeOK, ReleaseContext, Procs, world, object, life, locals
    <3>4. LocalsTypeOK' /\ LockedWhenLocking'
      BY <2>6, PCNames, CommandNames, RecordTypes DEF LocalsTypeOK, LockedWhenLocking, ReleaseContext, Procs, world, object, life, locals
    <3>5. QED
      BY <3>1, <3>2, <3>3, <3>4
  <2>7. ASSUME NEW g \in Monitors, Detect(g) PROVE TypeInv'
    <3>1. WorldTypeOK'
      BY <2>7 DEF WorldTypeOK, Detect, Goto, Publish, WithCard, Procs, world, object, life, locals
    <3>2. ObjectTypeOK'
      <4>1. status' \in Status /\ published' \in Status
        BY <2>7, StatusTypes, StateNames DEF ObjectTypeOK, Detect, Publish
      <4>2. txq' \in Seq(Requests)
        BY <2>7, StaleRequests DEF ObjectTypeOK, Detect
      <4>3. QED
        BY <2>7, <4>1, <4>2 DEF ObjectTypeOK, Detect
    <3>3. LifeTypeOK'
      BY <2>7 DEF LifeTypeOK, Detect, Goto, Publish, WithCard, Procs, world, object, life, locals
    <3>4. LocalsTypeOK' /\ LockedWhenLocking'
      <4>1. pc' \in [Procs -> PCs] /\ \A q \in Procs : pc'[q] = "lock" => pc[q] = "lock"
        BY <2>7, PCNames DEF Detect, Goto, LocalsTypeOK, Procs
      <4>2. scan' \in [Monitors -> ScanRecord]
        <5>1. \E k \in ScanRecord : scan' = [scan EXCEPT ![g] = k]
          <6>1. NotScanning \in ScanRecord /\ [active |-> None, known |-> Listed] \in ScanRecord
            BY RecordTypes
          <6>2. \A r \in WithCard : [active |-> r, known |-> Listed] \in ScanRecord
            BY RecordTypes DEF WithCard, Listed
          <6>3. QED
            BY <2>7, <6>1, <6>2 DEF Detect
        <5>2. QED
          BY <5>1 DEF LocalsTypeOK
      <4>3. QED
        BY <2>7, <4>1, <4>2 DEF Detect, LocalsTypeOK, LockedWhenLocking
    <3>5. QED
      BY <3>1, <3>2, <3>3, <3>4
  <2>8. ASSUME NEW g \in Monitors, ConnectCard(g) PROVE TypeInv'
    <3>1. WorldTypeOK'
      BY <2>8 DEF WorldTypeOK, ConnectCard, Goto, Publish, WithState, Procs, world, object, life, locals
    <3>2. ObjectTypeOK'
      <4>1. status' \in Status /\ published' \in Status
        BY <2>8, WithStateTypes, StateNames DEF ObjectTypeOK, ConnectCard, Publish
      <4>2. QED
        BY <2>8, <4>1 DEF ObjectTypeOK, ConnectCard
    <3>3. LifeTypeOK'
      BY <2>8 DEF LifeTypeOK, ConnectCard, Goto, Publish, WithState, Procs, world, object, life, locals
    <3>4. LocalsTypeOK' /\ LockedWhenLocking'
      <4>1. /\ UNCHANGED <<res, call, scan>>
            /\ \/ Goto(g, "readers") /\ cmd' = cmd
               \/ Goto(g, "lock") /\ cmd' = [cmd EXCEPT ![g] = "select"]
        BY <2>8 DEF ConnectCard
      <4>2. QED
        BY <4>1, GotoTypes, PCNames, CommandNames DEF LocalsTypeOK, LockedWhenLocking, Procs
    <3>5. QED
      BY <3>1, <3>2, <3>3, <3>4
  <2>9. ASSUME NEW g \in Monitors, CardSelected(g) PROVE TypeInv'
    <3>1. WorldTypeOK'
      BY <2>9 DEF WorldTypeOK, CardSelected, Goto, Publish, WithState, Failure, Unlock, Procs, world, object, life, locals
    <3>2. ObjectTypeOK'
      <4>1. status' \in Status /\ published' \in Status
        <5>1. CASE Failure(res[g]) \/ sim = "select-applet"
          BY <2>9, <5>1, WithStateTypes, StateNames DEF ObjectTypeOK, CardSelected, Publish
        <5>2. CASE ~(Failure(res[g]) \/ sim = "select-applet")
          <6>1. res[g] \in Reply
            BY <5>2 DEF Failure, LocalsTypeOK, Procs
          <6>2. PICK x \in {"connecting-card", "not-keycard"} :
                  Publish([status EXCEPT !.app = InfoOf(res[g]), !.state = x])
            BY <2>9, <5>2 DEF CardSelected
          <6>3. status \in Status /\ x \in State
            BY <6>2, StateNames DEF ObjectTypeOK
          <6>4. [status EXCEPT !.app = InfoOf(res[g]), !.state = x] \in Status
            BY <6>1, <6>3, StatusTypes
          <6>5. QED
            BY <6>2, <6>4 DEF Publish
        <5>3. QED
          BY <5>1, <5>2
      <4>2. /\ conn' \in Cards \cup {None} /\ link' \in BOOLEAN
            /\ txq' \in Seq(Requests) /\ mutex' \in Procs \cup {None}
        BY <2>9, StaleRequests DEF ObjectTypeOK, CardSelected, Unlock
      <4>3. QED
        BY <2>9, <4>1, <4>2 DEF ObjectTypeOK, CardSelected
    <3>3. LifeTypeOK'
      BY <2>9 DEF LifeTypeOK, CardSelected, Goto, Publish, WithState, Failure, Unlock, Procs, world, object, life, locals
    <3>4. LocalsTypeOK' /\ LockedWhenLocking'
      BY <2>9, PCNames, CommandNames, RecordTypes DEF LocalsTypeOK, LockedWhenLocking, CardSelected, Goto, Publish, WithState, Failure, Unlock, Procs, world, object, life, locals
    <3>5. QED
      BY <3>1, <3>2, <3>3, <3>4
  <2>10. ASSUME NEW g \in Monitors, AwaitReaders(g) PROVE TypeInv'
    <3>1. WorldTypeOK'
      BY <2>10 DEF WorldTypeOK, AwaitReaders, Goto, Procs, world, object, life, locals
    <3>2. ObjectTypeOK'
      BY <2>10 DEF ObjectTypeOK, AwaitReaders, Goto, Procs, world, object, life, locals
    <3>3. LifeTypeOK'
      BY <2>10 DEF LifeTypeOK, AwaitReaders, Goto, Procs, world, object, life, locals
    <3>4. LocalsTypeOK' /\ LockedWhenLocking'
      <4>1. \E where \in {"idle", "detect", "blocked"} : Goto(g, where)
        BY <2>10 DEF AwaitReaders
      <4>2. scan' = [scan EXCEPT ![g] = NotScanning] \/ scan' = scan
        BY <2>10 DEF AwaitReaders
      <4>3. scan' \in [Monitors -> ScanRecord]
        BY <4>2, RecordTypes DEF LocalsTypeOK
      <4>4. pc' \in [Procs -> PCs] /\ \A q \in Procs : pc'[q] = "lock" => pc[q] = "lock"
        BY <4>1, GotoTypes, PCNames DEF LocalsTypeOK, Procs
      <4>5. UNCHANGED <<cmd, res, call>>
        BY <2>10 DEF AwaitReaders
      <4>6. QED
        BY <4>3, <4>4, <4>5 DEF LocalsTypeOK, LockedWhenLocking
    <3>5. QED
      BY <3>1, <3>2, <3>3, <3>4
  <2>11. ASSUME NEW g \in Monitors, ReadersChanged(g) PROVE TypeInv'
    <3>1. WorldTypeOK'
      BY <2>11 DEF WorldTypeOK, ReadersChanged, Goto, Procs, world, object, life, locals
    <3>2. ObjectTypeOK'
      BY <2>11 DEF ObjectTypeOK, ReadersChanged, Goto, Procs, world, object, life, locals
    <3>3. LifeTypeOK'
      BY <2>11 DEF LifeTypeOK, ReadersChanged, Goto, Procs, world, object, life, locals
    <3>4. LocalsTypeOK' /\ LockedWhenLocking'
      BY <2>11, PCNames, CommandNames, RecordTypes DEF LocalsTypeOK, LockedWhenLocking, ReadersChanged, Goto, Procs, world, object, life, locals
    <3>5. QED
      BY <3>1, <3>2, <3>3, <3>4
  <2>12. ASSUME NEW g \in Monitors, ConnectKeycard(g) PROVE TypeInv'
    <3>1. CASE status.app = None
      BY <2>12, <3>1 DEF ConnectKeycard, Panic, WorldTypeOK, ObjectTypeOK, LifeTypeOK, LocalsTypeOK,
         LockedWhenLocking, world, object, life, locals
    <3>2. CASE status.app # None /\ ~status.app.init
      <4>1. /\ Publish(WithState("empty-keycard")) /\ Watch(g)
            /\ UNCHANGED <<world, conn, link, forceScanC, mutex, stored, life, res, call, txq, cmd>>
        BY <2>12, <3>2 DEF ConnectKeycard
      <4>2. ObjectTypeOK'
        BY <4>1, StatusTypes, StateNames DEF ObjectTypeOK, Publish, WithState
      <4>3. LocalsTypeOK' /\ LockedWhenLocking'
        BY <4>1, WatchTypes DEF LocalsTypeOK, LockedWhenLocking
      <4>4. QED
        BY <4>1, <4>2, <4>3 DEF WorldTypeOK, LifeTypeOK, world, life
    <3>3. CASE status.app # None /\ status.app.init
      <4>1. PICK command \in {"open", "pair"} :
              /\ cmd' = [cmd EXCEPT ![g] = command]
              /\ txq' = Append(txq, Request(g, command))
              /\ Goto(g, "wait")
              /\ UNCHANGED <<world, conn, link, status, published, forceScanC, mutex, stored,
                             life, res, call, scan>>
        BY <2>12, <3>3 DEF ConnectKeycard
      <4>2. Request(g, command) \in Requests /\ command \in Command
        BY <4>1, CommandNames, RequestTypes DEF Procs
      <4>3. ObjectTypeOK'
        BY <4>1, <4>2 DEF ObjectTypeOK
      <4>4. LocalsTypeOK' /\ LockedWhenLocking'
        BY <4>1, <4>2, GotoTypes, PCNames DEF LocalsTypeOK, LockedWhenLocking, Procs
      <4>5. QED
        BY <4>1, <4>3, <4>4 DEF WorldTypeOK, LifeTypeOK, world, life
    <3>4. QED
      BY <3>1, <3>2, <3>3
  <2>13. ASSUME NEW g \in Monitors, Paired(g) PROVE TypeInv'
    <3>1. CASE Failure(res[g])
      <4>1. PICK x \in {"no-available-pairing-slots", "pairing-error"} : GiveUp(g, x)
        BY <2>13, <3>1 DEF Paired
      <4>2. /\ res' = [res EXCEPT ![g] = None]
            /\ UNCHANGED <<world, conn, link, forceScanC, mutex, txq, stored, life, call>>
        BY <2>13, <3>1 DEF Paired
      <4>3. ObjectTypeOK'
        BY <4>1, <4>2, GiveUpTypes, StateNames DEF ObjectTypeOK
      <4>4. LocalsTypeOK' /\ LockedWhenLocking'
        BY <4>1, <4>2, GiveUpTypes, StateNames DEF LocalsTypeOK
      <4>5. QED
        BY <4>2, <4>3, <4>4 DEF WorldTypeOK, LifeTypeOK, world, life
    <3>2. CASE ~Failure(res[g])
      <4>1. /\ stored' = stored \cup {res[g].from}
            /\ cmd' = [cmd EXCEPT ![g] = "reselect"]
            /\ Goto(g, "lock")
            /\ res' = [res EXCEPT ![g] = None]
            /\ UNCHANGED <<world, conn, link, status, published, forceScanC, mutex, txq, life,
                           call, scan>>
        BY <2>13, <3>2 DEF Paired, StorePairing
      <4>2. res[g].from \in Cards
        BY <3>2 DEF Failure, LocalsTypeOK, Reply, Procs
      <4>3. ObjectTypeOK'
        BY <4>1, <4>2 DEF ObjectTypeOK
      <4>4. LocalsTypeOK' /\ LockedWhenLocking'
        BY <4>1, GotoTypes, PCNames, CommandNames DEF LocalsTypeOK, LockedWhenLocking, Procs
      <4>5. QED
        BY <4>1, <4>3, <4>4 DEF WorldTypeOK, LifeTypeOK, world, life
    <3>3. QED
      BY <3>1, <3>2
  <2>14. ASSUME NEW g \in Monitors, Reselected(g) PROVE TypeInv'
    <3>1. CASE Failure(res[g])
      <4>1. /\ GiveUp(g, "connection-error") /\ Unlock(g)
            /\ UNCHANGED <<world, conn, link, forceScanC, txq, stored, life, call>>
        BY <2>14, <3>1 DEF Reselected
      <4>2. ObjectTypeOK'
        BY <4>1, GiveUpTypes, StateNames DEF ObjectTypeOK, Unlock
      <4>3. LocalsTypeOK' /\ LockedWhenLocking'
        BY <4>1, GiveUpTypes, StateNames DEF LocalsTypeOK, Unlock
      <4>4. QED
        BY <4>1, <4>2, <4>3 DEF WorldTypeOK, LifeTypeOK, world, life
    <3>2. CASE ~Failure(res[g])
      <4>1. /\ status' = [status EXCEPT !.app = InfoOf(res[g])]
            /\ cmd' = [cmd EXCEPT ![g] = "open"]
            /\ txq' = Append(txq, Request(g, "open"))
            /\ Goto(g, "wait") /\ Unlock(g)
            /\ UNCHANGED <<world, conn, link, published, forceScanC, stored, life, call, scan>>
        BY <2>14, <3>2 DEF Reselected
      <4>2. res[g] \in Reply
        BY <3>2 DEF Failure, LocalsTypeOK, Procs
      <4>3. Request(g, "open") \in Requests
        BY CommandNames, RequestTypes DEF Procs
      <4>4. status' \in Status
        BY <4>1, <4>2, StatusTypes DEF ObjectTypeOK
      <4>5. ObjectTypeOK'
        BY <4>1, <4>3, <4>4 DEF ObjectTypeOK, Unlock
      <4>6. LocalsTypeOK' /\ LockedWhenLocking'
        BY <4>1, GotoTypes, PCNames, CommandNames DEF LocalsTypeOK, LockedWhenLocking, Unlock, Procs
      <4>7. QED
        BY <4>1, <4>5, <4>6 DEF WorldTypeOK, LifeTypeOK, world, life
    <3>3. QED
      BY <3>1, <3>2
  <2>15. ASSUME NEW g \in Monitors, ChannelOpened(g) PROVE TypeInv'
    <3>1. /\ res' = [res EXCEPT ![g] = None]
          /\ UNCHANGED <<world, conn, link, forceScanC, mutex, txq, stored, life, call>>
      BY <2>15 DEF ChannelOpened
    <3>2. CASE GiveUp(g, "connection-error")
      <4>1. ObjectTypeOK'
        BY <3>1, <3>2, GiveUpTypes, StateNames DEF ObjectTypeOK
      <4>2. LocalsTypeOK' /\ LockedWhenLocking'
        BY <3>1, <3>2, GiveUpTypes, StateNames DEF LocalsTypeOK
      <4>3. QED
        BY <3>1, <4>1, <4>2 DEF WorldTypeOK, LifeTypeOK, world, life
    <3>3. CASE /\ cmd' = [cmd EXCEPT ![g] = None]
               /\ Goto(g, "refresh")
               /\ UNCHANGED <<status, published, scan>>
      <4>1. LocalsTypeOK' /\ LockedWhenLocking'
        BY <3>1, <3>3, GotoTypes, PCNames DEF LocalsTypeOK, LockedWhenLocking, Procs
      <4>2. QED
        BY <3>1, <3>3, <4>1 DEF WorldTypeOK, LifeTypeOK, ObjectTypeOK, world, life
    <3>4. QED
      BY <2>15, <3>2, <3>3 DEF ChannelOpened
  <2>16. ASSUME NEW g \in Monitors, Poll(g) PROVE TypeInv'
    <3>1. WorldTypeOK'
      BY <2>16 DEF WorldTypeOK, Poll, Goto, StartDetection, HandOver, Procs, world, object, life, locals
    <3>2. ObjectTypeOK'
      BY <2>16 DEF ObjectTypeOK, Poll, Goto, StartDetection, HandOver, Procs, world, object, life, locals
    <3>3. LifeTypeOK'
      BY <2>16 DEF LifeTypeOK, Poll, Goto, StartDetection, HandOver, Procs, world, object, life, locals
    <3>4. LocalsTypeOK' /\ LockedWhenLocking'
      <4>1. UNCHANGED <<cmd, res, call>>
        BY <2>16 DEF Poll
      <4>2. CASE StartDetection(g)
        BY <4>1, <4>2, StartDetectionTypes DEF LocalsTypeOK, LockedWhenLocking
      <4>3. CASE Goto(g, "idle") /\ scan' = [scan EXCEPT ![g] = NotScanning]
        BY <4>1, <4>3, GotoTypes, PCNames, RecordTypes DEF LocalsTypeOK, LockedWhenLocking, Procs
      <4>4. CASE Goto(g, "tick") /\ UNCHANGED scan
        BY <4>1, <4>4, GotoTypes, PCNames DEF LocalsTypeOK, LockedWhenLocking, Procs
      <4>5. QED
        BY <2>16, <4>2, <4>3, <4>4 DEF Poll
    <3>5. QED
      BY <3>1, <3>2, <3>3, <3>4
  <2>17. ASSUME NEW g \in Monitors, Tick(g) PROVE TypeInv'
    <3>1. WorldTypeOK'
      BY <2>17 DEF WorldTypeOK, Tick, Goto, Procs, world, object, life, locals
    <3>2. ObjectTypeOK'
      BY <2>17 DEF ObjectTypeOK, Tick, Goto, Procs, world, object, life, locals
    <3>3. LifeTypeOK'
      BY <2>17 DEF LifeTypeOK, Tick, Goto, Procs, world, object, life, locals
    <3>4. LocalsTypeOK' /\ LockedWhenLocking'
      BY <2>17, PCNames, CommandNames, RecordTypes DEF LocalsTypeOK, LockedWhenLocking, Tick, Goto, Procs, world, object, life, locals
    <3>5. QED
      BY <3>1, <3>2, <3>3, <3>4
  <2>18. ASSUME NEW g \in Monitors, TickClosed(g) PROVE TypeInv'
    <3>1. WorldTypeOK'
      BY <2>18 DEF WorldTypeOK, TickClosed, Goto, Procs, world, object, life, locals
    <3>2. ObjectTypeOK'
      BY <2>18 DEF ObjectTypeOK, TickClosed, Goto, Procs, world, object, life, locals
    <3>3. LifeTypeOK'
      BY <2>18 DEF LifeTypeOK, TickClosed, Goto, Procs, world, object, life, locals
    <3>4. LocalsTypeOK' /\ LockedWhenLocking'
      BY <2>18, PCNames, CommandNames, RecordTypes DEF LocalsTypeOK, LockedWhenLocking, TickClosed, Goto, Procs, world, object, life, locals
    <3>5. QED
      BY <3>1, <3>2, <3>3, <3>4
  <2>19. ASSUME NEW g \in Monitors, NEW p \in Procs, Rendezvous(g, p) PROVE TypeInv'
    <3>1. WorldTypeOK'
      BY <2>19 DEF WorldTypeOK, Rendezvous, ScanForced, Procs, world, object, life, locals
    <3>2. ObjectTypeOK'
      BY <2>19 DEF ObjectTypeOK, Rendezvous, ScanForced, Procs, world, object, life, locals
    <3>3. LifeTypeOK'
      BY <2>19 DEF LifeTypeOK, Rendezvous, ScanForced, Procs, world, object, life, locals
    <3>4. LocalsTypeOK' /\ LockedWhenLocking'
      <4>1. PICK h \in Monitors :
              /\ pc' = [pc EXCEPT ![g] = "idle", ![h] = "detect", ![p] = "forced"]
              /\ scan' = [scan EXCEPT ![g] = NotScanning, ![h] = NotScanning]
        BY <2>19 DEF Rendezvous
      <4>2. pc' \in [Procs -> PCs] /\ \A q \in Procs : pc'[q] = "lock" => pc[q] = "lock"
        BY <4>1, PCNames DEF LocalsTypeOK, Procs
      <4>3. scan' \in [Monitors -> ScanRecord]
        BY <4>1, RecordTypes DEF LocalsTypeOK
      <4>4. QED
        BY <2>19, <4>2, <4>3 DEF Rendezvous, LocalsTypeOK, LockedWhenLocking
    <3>5. QED
      BY <3>1, <3>2, <3>3, <3>4
  <2>20. ASSUME NEW c \in Clients, Stop(c) PROVE TypeInv'
    <3>1. WorldTypeOK'
      BY <2>20 DEF WorldTypeOK, Stop, MayCall, Panic, Goto, Procs, world, object, life, locals
    <3>2. ObjectTypeOK'
      BY <2>20 DEF ObjectTypeOK, Stop, MayCall, Panic, Goto, Procs, world, object, life, locals
    <3>3. LifeTypeOK'
      BY <2>20 DEF LifeTypeOK, Stop, MayCall, Panic, Goto, Procs, world, object, life, locals
    <3>4. LocalsTypeOK' /\ LockedWhenLocking'
      <4>1. CASE Panic
        BY <4>1 DEF Panic, LocalsTypeOK, LockedWhenLocking, locals
      <4>2. CASE /\ Goto(c, "cancel")
                 /\ call' = [call EXCEPT ![c].op = "Stop", ![c].made = @ + 1]
                 /\ UNCHANGED <<cmd, res, scan>>
        <5>1. [call[c] EXCEPT !.op = "Stop", !.made = @ + 1] \in CallRecord
          BY <2>20, RecordTypes DEF Stop, MayCall, LocalsTypeOK, Op
        <5>2. \E k \in CallRecord : call' = [call EXCEPT ![c] = k]
          BY <4>2, <5>1
        <5>3. QED
          BY <4>2, <5>2, GotoTypes, PCNames DEF LocalsTypeOK, LockedWhenLocking, Procs
      <4>3. QED
        BY <2>20, <4>1, <4>2 DEF Stop
    <3>5. QED
      BY <3>1, <3>2, <3>3, <3>4
  <2>21. ASSUME NEW c \in Clients, NEW op \in Op, Call(c, op) PROVE TypeInv'
    <3>1. WorldTypeOK'
      BY <2>21 DEF WorldTypeOK, Call, MayCall, Panic, Goto, Publish, CardCommands, Exports, Procs, world, object, life, locals
    <3>2. ObjectTypeOK'
      BY <2>21, StatusTypes, RequestTypes, StateNames, CommandNames DEF ObjectTypeOK, Call, MayCall, Panic, Goto, Publish, CardCommands, Exports, Procs, world, object, life, locals
    <3>3. LifeTypeOK'
      BY <2>21 DEF LifeTypeOK, Call, MayCall, Panic, Goto, Publish, CardCommands, Exports, Procs, world, object, life, locals
    <3>4. LocalsTypeOK' /\ LockedWhenLocking'
      <4>1. CASE Panic
        BY <4>1 DEF Panic, LocalsTypeOK, LockedWhenLocking, locals
      <4>2. CASE /\ \E command \in CardCommands(op) : cmd' = [cmd EXCEPT ![c] = command]
                 /\ call' = [call EXCEPT ![c] = [op |-> op, good |-> FALSE, left |-> Exports(op),
                                                made |-> @.made + 1]]
                 /\ Goto(c, "lock")
                 /\ UNCHANGED <<res, scan>>
        <5>1. [op |-> op, good |-> FALSE, left |-> Exports(op), made |-> call[c].made + 1]
                \in CallRecord
          BY <2>21, RecordTypes DEF Call, MayCall, LocalsTypeOK
        <5>2. cmd' \in [Procs -> Command \cup {None}] /\ cmd'[c] \in LockedCommand
          BY <4>2, CommandNames DEF LocalsTypeOK, Procs
        <5>3. \A q \in Procs : q # c => cmd'[q] = cmd[q]
          BY <4>2 DEF LocalsTypeOK
        <5>4. QED
          BY <4>2, <5>1, <5>2, <5>3, GotoTypes, PCNames DEF LocalsTypeOK, LockedWhenLocking, Procs
      <4>3. QED
        BY <2>21, <4>1, <4>2 DEF Call
    <3>5. QED
      BY <3>1, <3>2, <3>3, <3>4
  <2>22. ASSUME NEW c \in Clients, CommandDone(c) PROVE TypeInv'
    <3>1. WorldTypeOK'
      BY <2>22 DEF WorldTypeOK, CommandDone, Returning, Unlock, Goto, Epilogue, NextExport, Succeeded, Procs, world, object, life, locals
    <3>2. ObjectTypeOK'
      BY <2>22 DEF ObjectTypeOK, CommandDone, Returning, Unlock, Goto, Epilogue, NextExport, Succeeded, Procs, world, object, life, locals
    <3>3. LifeTypeOK'
      BY <2>22 DEF LifeTypeOK, CommandDone, Returning, Unlock, Goto, Epilogue, NextExport, Succeeded, Procs, world, object, life, locals
    <3>4. LocalsTypeOK' /\ LockedWhenLocking'
      <4>1. Epilogue(c) \in {"refresh", "load", "metadata", "lock", "idle"}
        BY DEF Epilogue
      <4>2. Epilogue(c) = "lock" => NextExport(c)
        BY DEF Epilogue
      <4>3. NextExport(c) => cmd[c] \in LockedCommand /\ call[c].left - 1 \in 0..6
        <5>1. call[c].left \in 0..6
          BY DEF LocalsTypeOK, CallRecord
        <5>2. QED
          BY <5>1, CommandNames DEF NextExport
      <4>4. call' \in [Clients -> CallRecord]
        <5>1. call[c] \in CallRecord /\ Succeeded(c) \in BOOLEAN
          BY DEF LocalsTypeOK, Succeeded
        <5>2. \E k \in CallRecord : call' = [call EXCEPT ![c] = k]
          <6>1. CASE Epilogue(c) = "idle"
            <7>1. call' = [call EXCEPT ![c].op = None, ![c].left = 0]
              BY <2>22, <6>1 DEF CommandDone
            <7>2. QED
              BY <5>1, <7>1, RecordTypes
          <6>2. CASE Epilogue(c) = "lock"
            <7>1. call' = [call EXCEPT ![c].left = @ - 1]
              BY <2>22, <6>2 DEF CommandDone
            <7>2. QED
              BY <4>2, <4>3, <5>1, <6>2, <7>1, RecordTypes
          <6>3. CASE Epilogue(c) \notin {"idle", "lock"}
            <7>1. call' = [call EXCEPT ![c].good = Succeeded(c)]
              BY <2>22, <6>3 DEF CommandDone
            <7>2. QED
              BY <5>1, <7>1, RecordTypes
          <6>4. QED
            BY <6>1, <6>2, <6>3
        <5>3. QED
          BY <5>2 DEF LocalsTypeOK
      <4>5. QED
        BY <2>22, <4>1, <4>2, <4>3, <4>4, GotoTypes, PCNames DEF CommandDone, Unlock, LocalsTypeOK,
           LockedWhenLocking, Procs
    <3>5. QED
      BY <3>1, <3>2, <3>3, <3>4
  <2>23. ASSUME NEW c \in Clients, OnAuthorizeInteractions(c) PROVE TypeInv'
    <3>1. WorldTypeOK'
      BY <2>23 DEF WorldTypeOK, OnAuthorizeInteractions, Publish, WithState, Goto, CallOver, Procs, world, object, life, locals
    <3>2. ObjectTypeOK'
      BY <2>23, StatusTypes, RequestTypes, StateNames, CommandNames DEF ObjectTypeOK, OnAuthorizeInteractions, Publish, WithState, Goto, CallOver, Procs, world, object, life, locals
    <3>3. LifeTypeOK'
      BY <2>23 DEF LifeTypeOK, OnAuthorizeInteractions, Publish, WithState, Goto, CallOver, Procs, world, object, life, locals
    <3>4. LocalsTypeOK' /\ LockedWhenLocking'
      BY <2>23, PCNames, CommandNames, RecordTypes DEF LocalsTypeOK, LockedWhenLocking, OnAuthorizeInteractions, Publish, WithState, Goto, CallOver, Procs, world, object, life, locals
    <3>5. QED
      BY <3>1, <3>2, <3>3, <3>4
  <2>24. ASSUME NEW c \in Clients, MnemonicLoaded(c) PROVE TypeInv'
    <3>1. WorldTypeOK'
      BY <2>24 DEF WorldTypeOK, MnemonicLoaded, Panic, Publish, Goto, CallOver, Procs, world, object, life, locals
    <3>2. ObjectTypeOK'
      BY <2>24, StatusTypes, RequestTypes, StateNames, CommandNames DEF ObjectTypeOK, MnemonicLoaded, Panic, Publish, Goto, CallOver, Procs, world, object, life, locals
    <3>3. LifeTypeOK'
      BY <2>24 DEF LifeTypeOK, MnemonicLoaded, Panic, Publish, Goto, CallOver, Procs, world, object, life, locals
    <3>4. LocalsTypeOK' /\ LockedWhenLocking'
      <4>1. CASE Panic
        BY <4>1 DEF Panic, LocalsTypeOK, LockedWhenLocking, locals
      <4>2. CASE Goto(c, "idle") /\ call' = CallOver(c) /\ UNCHANGED <<cmd, res, scan>>
        BY <4>2, GotoTypes, PCNames, RecordTypes DEF CallOver, LocalsTypeOK, LockedWhenLocking, Procs
      <4>3. QED
        BY <2>24, <4>1, <4>2 DEF MnemonicLoaded
    <3>5. QED
      BY <3>1, <3>2, <3>3, <3>4
  <2>25. ASSUME NEW c \in Clients, CancelContext(c) PROVE TypeInv'
    <3>1. WorldTypeOK'
      BY <2>25 DEF WorldTypeOK, CancelContext, Procs, world, object, life, locals
    <3>2. ObjectTypeOK'
      BY <2>25 DEF ObjectTypeOK, CancelContext, Procs, world, object, life, locals
    <3>3. LifeTypeOK'
      BY <2>25 DEF LifeTypeOK, CancelContext, Procs, world, object, life, locals
    <3>4. LocalsTypeOK' /\ LockedWhenLocking'
      BY <2>25, PCNames, CommandNames, RecordTypes DEF LocalsTypeOK, LockedWhenLocking, CancelContext, Procs, world, object, life, locals
    <3>5. QED
      BY <3>1, <3>2, <3>3, <3>4
  <2>26. ASSUME NEW c \in Clients, Shutdown(c) PROVE TypeInv'
    <3>1. WorldTypeOK'
      BY <2>26 DEF WorldTypeOK, Shutdown, Goto, CallOver, Procs, world, object, life, locals
    <3>2. ObjectTypeOK'
      BY <2>26 DEF ObjectTypeOK, Shutdown, Goto, CallOver, Procs, world, object, life, locals
    <3>3. LifeTypeOK'
      BY <2>26 DEF LifeTypeOK, Shutdown, Goto, CallOver, Procs, world, object, life, locals
    <3>4. LocalsTypeOK' /\ LockedWhenLocking'
      BY <2>26, PCNames, CommandNames, RecordTypes DEF LocalsTypeOK, LockedWhenLocking, Shutdown, Goto, CallOver, Procs, world, object, life, locals
    <3>5. QED
      BY <3>1, <3>2, <3>3, <3>4
  <2>27. ASSUME NEW p \in Procs, Lock(p) PROVE TypeInv'
    <3>1. WorldTypeOK'
      BY <2>27 DEF WorldTypeOK, Lock, Panic, Goto, Procs, world, object, life, locals
    <3>2. ObjectTypeOK'
      <4>1. CASE Panic
        BY <4>1 DEF Panic, ObjectTypeOK, object
      <4>2. CASE /\ mutex' = p
                 /\ txq' = Append(txq, Request(p, cmd[p]))
                 /\ UNCHANGED <<conn, link, status, published, forceScanC, stored>>
        <5>1. Request(p, cmd[p]) \in Requests
          BY <2>27, RequestTypes, CommandNames DEF Lock, LockedWhenLocking
        <5>2. QED
          BY <4>2, <5>1 DEF ObjectTypeOK
      <4>3. QED
        BY <2>27, <4>1, <4>2 DEF Lock
    <3>3. LifeTypeOK'
      BY <2>27 DEF LifeTypeOK, Lock, Panic, Goto, Procs, world, object, life, locals
    <3>4. LocalsTypeOK' /\ LockedWhenLocking'
      BY <2>27, PCNames, CommandNames, RecordTypes DEF LocalsTypeOK, LockedWhenLocking, Lock, Panic, Goto, Procs, world, object, life, locals
    <3>5. QED
      BY <3>1, <3>2, <3>3, <3>4
  <2>28. ASSUME NEW p \in Procs, TransmitDone(p) PROVE TypeInv'
    <3>1. WorldTypeOK'
      BY <2>28 DEF WorldTypeOK, TransmitDone, Goto, Procs, world, object, life, locals
    <3>2. ObjectTypeOK'
      <4>1. txq' \in Seq(Requests)
        <5>1. \A i \in DOMAIN txq : txq'[i] \in Requests
          <6>1. TAKE i \in DOMAIN txq
          <6>2. txq[i] \in Requests
            BY DEF ObjectTypeOK
          <6>3. txq'[i] = txq[i] \/ txq'[i] = [txq[i] EXCEPT !.proc = None]
            BY <2>28 DEF TransmitDone
          <6>4. QED
            BY <6>2, <6>3 DEF Requests
        <5>2. txq' = [i \in DOMAIN txq |-> txq'[i]]
          BY <2>28 DEF TransmitDone
        <5>3. QED
          BY <5>1, <5>2, MapRequests DEF ObjectTypeOK
      <4>2. QED
        BY <2>28, <4>1 DEF TransmitDone, ObjectTypeOK
    <3>3. LifeTypeOK'
      BY <2>28 DEF LifeTypeOK, TransmitDone, Goto, Procs, world, object, life, locals
    <3>4. LocalsTypeOK' /\ LockedWhenLocking'
      BY <2>28, PCNames, CommandNames, RecordTypes DEF LocalsTypeOK, LockedWhenLocking, TransmitDone, Goto, Procs, world, object, life, locals
    <3>5. QED
      BY <3>1, <3>2, <3>3, <3>4
  <2>29. ASSUME NEW p \in Procs, RefreshStatus(p) PROVE TypeInv'
    <3>1. WorldTypeOK'
      BY <2>29 DEF WorldTypeOK, RefreshStatus, Goto, Watch, HandOver, Procs, world, object, life, locals
    <3>2. ObjectTypeOK'
      BY <2>29 DEF ObjectTypeOK, RefreshStatus, Goto, Watch, HandOver, Procs, world, object, life, locals
    <3>3. LifeTypeOK'
      BY <2>29 DEF LifeTypeOK, RefreshStatus, Goto, Watch, HandOver, Procs, world, object, life, locals
    <3>4. LocalsTypeOK' /\ LockedWhenLocking'
      <4>1. UNCHANGED <<res, call>>
        BY <2>29 DEF RefreshStatus
      <4>2. CASE /\ Goto(p, "lock")
                 /\ cmd' = [cmd EXCEPT ![p] = "status"]
                 /\ UNCHANGED scan
        BY <4>1, <4>2, GotoTypes, PCNames, CommandNames DEF LocalsTypeOK, LockedWhenLocking
      <4>3. CASE Goto(p, "authorize") /\ UNCHANGED <<cmd, scan>>
        BY <4>1, <4>3, GotoTypes, PCNames DEF LocalsTypeOK, LockedWhenLocking
      <4>4. CASE p \in Monitors /\ Watch(p) /\ UNCHANGED cmd
        BY <4>1, <4>4, WatchTypes DEF LocalsTypeOK, LockedWhenLocking
      <4>5. QED
        BY <2>29, <4>2, <4>3, <4>4 DEF RefreshStatus
    <3>5. QED
      BY <3>1, <3>2, <3>3, <3>4
  <2>30. ASSUME NEW p \in Procs, StatusRefreshed(p) PROVE TypeInv'
    <3>1. WorldTypeOK'
      BY <2>30 DEF WorldTypeOK, StatusRefreshed, Unlock, Goto, Watch, HandOver, Failure, Procs, world, object, life, locals
    <3>2. ObjectTypeOK'
      <4>1. status' \in Status
        <5>1. CASE Failure(res[p])
          BY <2>30, <5>1, StatusTypes, StateNames DEF StatusRefreshed, ObjectTypeOK
        <5>2. CASE ~Failure(res[p])
          BY <2>30, <5>2, StatusTypes, StateNames DEF StatusRefreshed, ObjectTypeOK, Failure, LocalsTypeOK
        <5>3. QED
          BY <5>1, <5>2
      <4>2. published' \in Status
        BY <2>30, <4>1 DEF StatusRefreshed, ObjectTypeOK
      <4>3. QED
        BY <2>30, <4>1, <4>2 DEF StatusRefreshed, Unlock, ObjectTypeOK
    <3>3. LifeTypeOK'
      BY <2>30 DEF LifeTypeOK, StatusRefreshed, Unlock, Goto, Watch, HandOver, Failure, Procs, world, object, life, locals
    <3>4. LocalsTypeOK' /\ LockedWhenLocking'
      <4>1. /\ cmd' = [cmd EXCEPT ![p] = None] /\ res' = [res EXCEPT ![p] = None]
            /\ UNCHANGED call
        BY <2>30 DEF StatusRefreshed, Unlock
      <4>2. CASE \E where \in {"authorize", "metadata"} : Goto(p, where) /\ UNCHANGED scan
        BY <4>1, <4>2, GotoTypes, PCNames DEF LocalsTypeOK, LockedWhenLocking
      <4>3. CASE p \in Monitors /\ Watch(p)
        BY <4>1, <4>3, WatchTypes DEF LocalsTypeOK, LockedWhenLocking
      <4>4. QED
        BY <2>30, <4>2, <4>3 DEF StatusRefreshed
    <3>5. QED
      BY <3>1, <3>2, <3>3, <3>4
  <2>31. ASSUME NEW p \in Procs, RefreshMetadata(p) PROVE TypeInv'
    <3>1. UNCHANGED <<world, conn, link, forceScanC, mutex, txq, stored, life, res>>
      BY <2>31 DEF RefreshMetadata
    <3>2. CASE /\ Goto(p, "lock")
               /\ cmd' = [cmd EXCEPT ![p] = "getData"]
               /\ UNCHANGED <<status, published, call, scan>>
      <4>1. LocalsTypeOK' /\ LockedWhenLocking'
        BY <3>1, <3>2, GotoTypes, PCNames, CommandNames DEF LocalsTypeOK, LockedWhenLocking
      <4>2. QED
        BY <3>1, <3>2, <4>1 DEF WorldTypeOK, LifeTypeOK, ObjectTypeOK, world, life
    <3>3. CASE MetadataDone(p, WithState("connection-error"), FALSE) /\ UNCHANGED cmd
      <4>1. WithState("connection-error") \in Status
        BY StatusTypes, StateNames DEF WithState, ObjectTypeOK
      <4>2. /\ status' \in Status /\ published' \in Status
            /\ pc' \in [Procs -> PCs] /\ scan' \in [Monitors -> ScanRecord]
            /\ call' \in [Clients -> CallRecord]
            /\ \A q \in Procs : pc'[q] = "lock" => pc[q] = "lock"
        BY <3>3, <4>1, MetadataDoneTypes DEF ObjectTypeOK, LocalsTypeOK
      <4>3. LocalsTypeOK' /\ LockedWhenLocking'
        BY <3>1, <3>3, <4>2 DEF LocalsTypeOK, LockedWhenLocking
      <4>4. ObjectTypeOK'
        BY <3>1, <4>2 DEF ObjectTypeOK
      <4>5. QED
        BY <3>1, <4>3, <4>4 DEF WorldTypeOK, LifeTypeOK, world, life
    <3>4. QED
      BY <2>31, <3>2, <3>3 DEF RefreshMetadata
  <2>32. ASSUME NEW p \in Procs, MetadataRead(p) PROVE TypeInv'
    <3>1. /\ Unlock(p)
          /\ cmd' = [cmd EXCEPT ![p] = None]
          /\ UNCHANGED <<world, conn, link, forceScanC, txq, stored, life>>
      BY <2>32 DEF MetadataRead
    <3>2. PICK s \in Status, fine \in BOOLEAN : MetadataDone(p, s, fine)
      <4>1. CASE Failure(res[p])
        <5>1. WithState("connection-error") \in Status
          BY StatusTypes, StateNames DEF WithState, ObjectTypeOK
        <5>2. QED
          BY <2>32, <4>1, <5>1 DEF MetadataRead
      <4>2. CASE ~Failure(res[p])
        <5>1. res[p].from \in Cards
          BY <4>2 DEF Failure, LocalsTypeOK, Reply
        <5>2. [status EXCEPT !.meta = IF res[p].k.data THEN res[p].from ELSE None] \in Status
          BY <5>1, StatusTypes DEF ObjectTypeOK
        <5>3. QED
          BY <2>32, <4>2, <5>2 DEF MetadataRead
      <4>3. QED
        BY <4>1, <4>2
    <3>3. /\ status' \in Status /\ published' \in Status
          /\ pc' \in [Procs -> PCs] /\ scan' \in [Monitors -> ScanRecord]
          /\ call' \in [Clients -> CallRecord]
          /\ \A q \in Procs : pc'[q] = "lock" => pc[q] = "lock" /\ q # p
      BY <3>2, MetadataDoneTypes DEF ObjectTypeOK, LocalsTypeOK
    <3>4. LocalsTypeOK' /\ LockedWhenLocking'
      BY <3>1, <3>3 DEF LocalsTypeOK, LockedWhenLocking, Unlock
    <3>5. ObjectTypeOK'
      BY <3>1, <3>3 DEF ObjectTypeOK, Unlock
    <3>6. QED
      BY <3>1, <3>4, <3>5 DEF WorldTypeOK, LifeTypeOK, world, life
  <2>33. ASSUME NEW p \in Procs, DropConnection(p) PROVE TypeInv'
    <3>1. WorldTypeOK'
      BY <2>33 DEF WorldTypeOK, DropConnection, Goto, Procs, world, object, life, locals
    <3>2. ObjectTypeOK'
      BY <2>33, StaleRequests, StateNames, CommandNames DEF ObjectTypeOK, DropConnection, Goto, Procs, world, object, life, locals
    <3>3. LifeTypeOK'
      BY <2>33 DEF LifeTypeOK, DropConnection, Goto, Procs, world, object, life, locals
    <3>4. LocalsTypeOK' /\ LockedWhenLocking'
      BY <2>33, PCNames, CommandNames, RecordTypes DEF LocalsTypeOK, LockedWhenLocking, DropConnection, Goto, Procs, world, object, life, locals
    <3>5. QED
      BY <3>1, <3>2, <3>3, <3>4
  <2>34. ASSUME NEW p \in Procs, ForceScan(p) PROVE TypeInv'
    <3>1. WorldTypeOK'
      BY <2>34 DEF WorldTypeOK, ForceScan, Panic, Goto, Procs, world, object, life, locals
    <3>2. ObjectTypeOK'
      BY <2>34 DEF ObjectTypeOK, ForceScan, Panic, Goto, Procs, world, object, life, locals
    <3>3. LifeTypeOK'
      BY <2>34 DEF LifeTypeOK, ForceScan, Panic, Goto, Procs, world, object, life, locals
    <3>4. LocalsTypeOK' /\ LockedWhenLocking'
      BY <2>34, PCNames, CommandNames, RecordTypes DEF LocalsTypeOK, LockedWhenLocking, ForceScan, Panic, Goto, Procs, world, object, life, locals
    <3>5. QED
      BY <3>1, <3>2, <3>3, <3>4
  <2>35. ASSUME NEW p \in Procs, SendOnClosed(p) PROVE TypeInv'
    <3>1. WorldTypeOK'
      BY <2>35 DEF WorldTypeOK, SendOnClosed, Panic, Procs, world, object, life, locals
    <3>2. ObjectTypeOK'
      BY <2>35 DEF ObjectTypeOK, SendOnClosed, Panic, Procs, world, object, life, locals
    <3>3. LifeTypeOK'
      BY <2>35 DEF LifeTypeOK, SendOnClosed, Panic, Procs, world, object, life, locals
    <3>4. LocalsTypeOK' /\ LockedWhenLocking'
      BY <2>35, PCNames, CommandNames, RecordTypes DEF LocalsTypeOK, LockedWhenLocking, SendOnClosed, Panic, Procs, world, object, life, locals
    <3>5. QED
      BY <3>1, <3>2, <3>3, <3>4
  <2>36. CASE UNCHANGED vars
    BY <2>36 DEF vars, world, object, life, locals, WorldTypeOK, ObjectTypeOK, LifeTypeOK, LocalsTypeOK,
       LockedWhenLocking
  <2>37. QED
    BY <2>1, <2>2, <2>3, <2>4, <2>5, <2>6, <2>7, <2>8, <2>9, <2>10, <2>11, <2>12, <2>13, <2>14, <2>15, <2>16, <2>17, <2>18, <2>19, <2>20, <2>21, <2>22, <2>23, <2>24, <2>25, <2>26, <2>27, <2>28, <2>29, <2>30, <2>31, <2>32, <2>33, <2>34, <2>35, <2>36
    DEF Next, Monitor, Caller, Either, Client
<1>3. QED
  BY <1>1, <1>2, PTL DEF Spec

\* Every variable keeps its type: in particular the card counters stay within
\* their bounds and every request names a command the card knows.
THEOREM TypeCorrect == Spec => []TypeOK
<1>1. TypeInv => TypeOK
  BY DEF TypeInv
<1>2. QED
  BY <1>1, Typing, PTL
=============================================================================
