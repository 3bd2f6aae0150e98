-------------------- MODULE KeycardContextV2_safety_proofs --------------------
(***************************************************************************)
(* What the session API promises of pairings, of its announcements and of  *)
(* the cards it announces, and when it cannot panic, proved on top of the  *)
(* control invariant.                                                      *)
(***************************************************************************)
EXTENDS KeycardContextV2_control_proofs

\* What every step starts from.
Base == TypeInv /\ ControlInv

\* The base holds of every behaviour.
LEMMA BaseHolds == Spec => []Base
<1>1. TypeInv /\ ControlInv => Base
  BY DEF Base
<1>2. QED
  BY <1>1, Typing, Control, PTL

\* Types, in the form the proofs below use them.
LEMMA BaseTypes ==
    ASSUME Base
    PROVE  /\ pc \in [Procs -> PCs] /\ cmd \in [Procs -> Command \cup {None}]
           /\ res \in [Procs -> Reply \cup {None}] /\ call \in [Clients -> CallRecord]
           /\ card \in [Cards -> CardState] /\ torn \in [Cards -> Nat] /\ txq \in Seq(Requests)
           /\ conn \in Cards \cup {None} /\ status \in Status /\ stored \subseteq Cards
           /\ None \notin Cards \cup Op \cup Command \cup Reply \cup AppInfo \cup AppStatus
           /\ MaxSlots \in Nat
           /\ LockedWhenLocking /\ ClientCommands
           /\ \A g, h \in Monitors : pc[g] # "idle" /\ pc[h] # "idle" => g = h
BY SessionAssumption, KeycardAssumption
   DEF Base, TypeInv, TypeOK, WorldTypeOK, ObjectTypeOK, LocalsTypeOK, ControlInv,
      AtMostOneMonitor, Active

-----------------------------------------------------------------------------
\* Pairings.

\* A pairing that is not in the store yet.
Pairing(c) ==
    \E g \in Monitors :
        pc[g] = "got" /\ cmd[g] = "pair" /\ Succeeded(g) /\ res[g].from = c

\* A goroutine on its way from the selection of a card to a pairing with it.
Heeds(g) == \/ pc[g] = "got" /\ cmd[g] = "select"
            \/ pc[g] = "keycard"
            \/ pc[g] = "wait" /\ cmd[g] = "pair"

\* It asks for a pairing only of a card that is not in the store.
HeedFits(g) ==
    /\ pc[g] = "got" /\ cmd[g] = "select" /\ res[g] # None => conn \in {None, res[g].from}
    /\ pc[g] = "keycard" /\ status.app # None => conn \in {None, status.app.card}
    /\ pc[g] = "wait" /\ cmd[g] = "pair" => conn \notin stored

SlotsFit ==
    \A c \in Cards :
        /\ MaxSlots - card[c].slots <= 1 + torn[c]
        /\ c \in stored \/ Pairing(c) \/ MaxSlots - card[c].slots <= torn[c]

PairInv == SlotsFit /\ \A g \in Monitors : HeedFits(g)

\* A step that pairs with nothing and selects nothing.
CalmStep ==
    /\ \A c \in Cards : card'[c].slots = card[c].slots
    /\ UNCHANGED <<stored, torn>>
    /\ \A g \in Monitors : pc[g] = "got" /\ cmd[g] = "pair" =>
         pc'[g] = "got" /\ cmd'[g] = "pair" /\ res'[g] = res[g]
    /\ \/ \A g \in Monitors : ~Heeds(g)'
       \/ /\ conn' \in {conn, None}
          /\ status'.app \in {status.app, None}
          /\ \A g \in Monitors : Heeds(g)' =>
               pc'[g] = pc[g] /\ cmd'[g] = cmd[g] /\ res'[g] = res[g]

\* Such a step keeps the invariant.
LEMMA CalmKeeps ==
    ASSUME Base, PairInv, CalmStep
    PROVE  PairInv'
<1>0. SlotsFit /\ \A g \in Monitors : HeedFits(g)
  BY DEF PairInv, CalmStep
<1>1. \A c \in Cards : Pairing(c) => Pairing(c)'
  BY DEF Pairing, CalmStep, Succeeded
<1>2. SlotsFit'
  BY <1>0, <1>1 DEF SlotsFit, CalmStep
<1>3. ASSUME NEW g \in Monitors PROVE HeedFits(g)'
  <2>1. None \notin stored
    BY BaseTypes
  <2>2. CASE ~Heeds(g)'
    BY <2>2 DEF Heeds, HeedFits
  <2>3. CASE Heeds(g)'
    BY <1>0, <2>1, <2>3 DEF Heeds, HeedFits, CalmStep
  <2>4. QED
    BY <2>2, <2>3
<1>4. QED
  BY <1>2, <1>3 DEF PairInv

\* Only a pairing takes a slot of a card, and only a reset gives slots back.
LEMMA OthersKeepSlots ==
    ASSUME NEW k \in CardState, NEW command \in Command \ {"pair"}
    PROVE  After(k, command).slots = k.slots \/ (command = "reset" /\ After(k, command).slots = MaxSlots)
BY DEF After, Effect, CardState, EndSession, EmptyCard

\* A reset that a card carries out has made it an empty card.
LEMMA ResetFills ==
    ASSUME NEW k \in CardState
    PROVE  Accepts(k, "reset") => After(k, "reset").slots = MaxSlots
BY DEF After, Effect, EmptyCard, SelectCommands, InitCommands

\* A pairing that a card carries out takes a slot, and the card says so.
LEMMA PairTakesOne ==
    ASSUME NEW k \in CardState
    PROVE  IF Accepts(k, "pair")
           THEN After(k, "pair").slots = k.slots - 1 /\ Answer(k, "pair") = "ok"
           ELSE After(k, "pair") = k
BY DEF After, Answer, Effect, Verdict, CardState, SelectCommands, InitCommands

\* Steps of the user, of the service's life and of the detection.
LEMMA WorldKeepsPairs ==
    ASSUME Base, PairInv,
           \/ User \/ Start \/ StopFailed \/ ReleaseContext
           \/ \E e \in Faults \cup {None} : SimulateError(e)
    PROVE  PairInv'
<1>0. /\ pc \in [Procs -> PCs] /\ card \in [Cards -> CardState]
      /\ \A c \in Cards : EndSession(card[c]).slots = card[c].slots
      /\ status \in Status
  BY BaseTypes DEF EndSession, CardState
<1>1. CASE User
  <2>1. /\ \A c \in Cards : card'[c].slots = card[c].slots
        /\ UNCHANGED <<torn, stored, pc, cmd, res, conn, status>>
    BY <1>0, <1>1 DEF User, InsertCard, RemoveCard, UnplugReader, PlugReader, Move, life, locals
  <2>2. QED
    BY <2>1, CalmKeeps DEF CalmStep, Heeds
<1>2. CASE Start
  <2>1. /\ UNCHANGED <<card, torn, stored, cmd, res, conn>>
        /\ status'.app = status.app
        /\ pc' = pc \/ \E g \in Monitors : pc' = [pc EXCEPT ![g] = "detect"]
    BY <1>0, <1>2 DEF Start, Goto, world, Publish, WithState, Status
  <2>2. \A g \in Monitors : pc[g] = "idle" /\ pc'[g] \in {"idle", "detect"}
    BY <1>0, <1>2, <2>1, ProcFacts DEF Base, ControlInv, OffIsIdle, Start
  <2>3. QED
    BY <2>1, <2>2, CalmKeeps DEF CalmStep, Heeds
<1>3. CASE StopFailed \/ ReleaseContext \/ \E e \in Faults \cup {None} : SimulateError(e)
  <2>1. UNCHANGED <<card, torn, stored, pc, cmd, res, conn, status>>
    BY <1>3 DEF StopFailed, ReleaseContext, SimulateError, world, object, locals
  <2>2. QED
    BY <2>1, CalmKeeps DEF CalmStep, Heeds
<1>4. QED
  BY <1>1, <1>2, <1>3

\* The card answers the first request.
LEMMA ExchangeKeepsPairs ==
    ASSUME Base, PairInv, Exchange
    PROVE  PairInv'
<1>0. /\ pc \in [Procs -> PCs] /\ card \in [Cards -> CardState] /\ txq \in Seq(Requests)
      /\ res \in [Procs -> Reply \cup {None}] /\ cmd \in [Procs -> Command \cup {None}]
      /\ None \notin Cards /\ MaxSlots \in Nat /\ conn \in Cards \cup {None} /\ stored \subseteq Cards
      /\ torn \in [Cards -> Nat] /\ ClientCommands
      /\ \A g, h \in Monitors : pc[g] # "idle" /\ pc[h] # "idle" => g = h
  BY BaseTypes
<1>1. CASE Panic
  <2>1. UNCHANGED <<card, torn, stored, pc, cmd, res, conn, status>>
    BY <1>1 DEF Panic, world, object, locals
  <2>2. QED
    BY <2>1, CalmKeeps DEF CalmStep, Heeds
<1>2. CASE conn # None
  <2> DEFINE q == txq[1]
  <2>1. txq # <<>> /\ Head(txq) = q /\ 1 \in DOMAIN txq /\ q \in Requests
    BY <1>0 DEF Exchange
  <2>2. PICK a \in Replies(q) :
          /\ card' = [card EXCEPT ![conn] = a.card]
          /\ torn' = TornBy(q, a)
          /\ stored' = IF q.cmd = "reset" /\ a.done /\ ResetRenewsUID
                       THEN stored \ {conn} ELSE stored
          /\ IF q.proc = None
             THEN UNCHANGED <<pc, res>>
             ELSE /\ pc' = [pc EXCEPT ![q.proc] = "got"]
                  /\ res' = [res EXCEPT ![q.proc] =
                               [out |-> a.out, from |-> conn, k |-> a.card]]
          /\ UNCHANGED <<cmd, conn, status>>
    BY <1>2, <2>1 DEF Exchange, Goto
  <2>3. SlotsFit /\ \A g \in Monitors : HeedFits(g)
    BY DEF PairInv
  <2>4. q.proc # None => q.proc \in Procs /\ pc[q.proc] = "wait" /\ cmd[q.proc] = q.cmd
    BY <2>1 DEF Base, ControlInv, QueueMatchesWaiters, Requests
  <2>5. /\ card[conn] \in CardState /\ q.cmd \in Command /\ conn \in Cards
        /\ card'[conn] = a.card /\ \A c \in Cards \ {conn} : card'[c] = card[c]
    BY <1>0, <1>2, <2>1, <2>2 DEF Requests
  <2>6. \/ a.card = card[conn] /\ ~a.done /\ a.out # "ok"
        \/ /\ a.card = After(card[conn], q.cmd) /\ a.done = Accepts(card[conn], q.cmd)
           /\ a.out \in {Answer(card[conn], q.cmd), "scard"}
    BY DEF Replies
  <2>7. q.proc # None =>
          /\ pc'[q.proc] = "got" /\ res'[q.proc] = [out |-> a.out, from |-> conn, k |-> a.card]
          /\ \A p \in Procs \ {q.proc} : pc'[p] = pc[p] /\ res'[p] = res[p]
    BY <1>0, <2>2, <2>4
  <2>8. \A c \in Cards \ {conn} : torn'[c] = torn[c]
    BY <1>0, <2>2 DEF TornBy
  <2>0. /\ MaxSlots \in Nat /\ card[conn].slots \in Nat /\ torn[conn] \in Nat
        /\ conn \in Cards /\ torn \in [Cards -> Nat]
    BY <1>0, <1>2 DEF CardState
  <2> HIDE DEF q
  <2>9. \A g \in Monitors : HeedFits(g)'
    <3>1. stored' \subseteq stored
      BY <2>2
    <3>2. ASSUME NEW g \in Monitors, g # q.proc PROVE pc'[g] = pc[g] /\ res'[g] = res[g]
      BY <2>2, <2>7, <3>2, ProcFacts
    <3>3. q.proc \in Monitors => res'[q.proc].from = conn
      BY <2>7, ProcFacts
    <3>4. q.proc \in Monitors => pc'[q.proc] = "got"
      BY <2>7, ProcFacts
    <3>5. QED
      BY <2>2, <2>3, <3>1, <3>2, <3>3, <3>4 DEF HeedFits
  <2>10. CASE q.cmd # "pair"
    <3>1. \A c \in Cards : Pairing(c) => Pairing(c)'
      BY <2>2, <2>4, <2>7, <2>10, ProcFacts DEF Pairing, Succeeded
    <3>2. \A c \in Cards \ {conn} : c \in stored => c \in stored'
      BY <2>2
    <3>3. CASE a.done /\ q.cmd = "reset"
      <4>1. a.card.slots = MaxSlots /\ torn'[conn] = 0
        BY <2>0, <2>2, <2>5, <2>6, <3>3, ResetFills DEF TornBy
      <4>2. QED
        BY <2>0, <2>3, <2>5, <2>8, <2>9, <3>1, <3>2, <4>1 DEF PairInv, SlotsFit
    <3>4. CASE ~(a.done /\ q.cmd = "reset")
      <4>1. stored' = stored /\ torn' = torn
        BY <2>2, <2>10, <3>4 DEF TornBy
      <4>2. a.card.slots = card[conn].slots
        <5>1. CASE q.cmd = "reset"
          BY <2>6, <3>4, <5>1 DEF After
        <5>2. CASE q.cmd # "reset"
          BY <2>5, <2>6, <2>10, <5>2, OthersKeepSlots
        <5>3. QED
          BY <5>1, <5>2
      <4>3. QED
        BY <2>0, <2>3, <2>5, <2>9, <3>1, <4>1, <4>2 DEF PairInv, SlotsFit
    <3>5. QED
      BY <2>9, <3>3, <3>4 DEF PairInv
  <2>11. CASE q.cmd = "pair"
    <3>1. stored' = stored
      BY <2>2, <2>11
    <3>2. q.proc # None => q.proc \in Monitors
      BY <1>0, <2>4, <2>11, CommandFacts, ProcFacts DEF ClientCommands, Commanding
    <3>3. q.proc # None => conn \notin stored /\ \A c \in Cards : ~Pairing(c)
      BY <1>0, <2>3, <2>4, <2>11, <3>2 DEF HeedFits, Pairing
    <3>4. \A c \in Cards : Pairing(c) => Pairing(c)'
      BY <2>2, <3>3 DEF Pairing, Succeeded
    <3>5. CASE ~a.done
      <4>1. a.card = card[conn] /\ torn' = torn
        BY <2>2, <2>5, <2>6, <2>11, <3>5, PairTakesOne DEF TornBy
      <4>2. QED
        BY <1>0, <2>3, <2>5, <2>9, <3>1, <3>4, <4>1 DEF PairInv, SlotsFit
    <3>6. CASE a.done
      <4>1. a.card.slots = card[conn].slots - 1 /\ a.out \in {"ok", "scard"}
        BY <2>5, <2>6, <2>11, <3>6, PairTakesOne
      <4>2. CASE a.out = "scard" \/ q.proc = None
        <5>1. torn'[conn] = torn[conn] + 1
          BY <1>0, <2>2, <2>5, <2>11, <3>6, <4>2 DEF TornBy
        <5>2. SlotsFit'
          BY <2>0, <2>3, <2>5, <2>8, <3>1, <3>4, <4>1, <5>1 DEF SlotsFit
        <5>3. QED
          BY <2>9, <5>2 DEF PairInv
      <4>3. CASE a.out = "ok" /\ q.proc # None
        <5>1. torn' = torn
          BY <2>2, <2>11, <4>3 DEF TornBy
        <5>2. MaxSlots - card[conn].slots <= torn[conn]
          BY <2>3, <2>5, <3>3, <4>3 DEF SlotsFit
        <5>3. \A c \in Cards : c = conn => Pairing(c)'
          <6>1. a.card \in CardState
            BY <2>5, <2>6, CardAnswers
          <6>2. res'[q.proc] \in Reply
            BY <2>5, <2>7, <4>3, <6>1 DEF Reply, Outcome
          <6>3. res'[q.proc] # None
            BY <6>2, BaseTypes
          <6>4. QED
            BY <2>2, <2>4, <2>7, <2>11, <3>2, <4>3, <6>3 DEF Pairing, Succeeded
        <5>4. SlotsFit'
          <6>1. MaxSlots - card'[conn].slots <= 1 + torn'[conn]
            BY <2>0, <2>5, <4>1, <5>1, <5>2
          <6>2. \A c \in Cards \ {conn} :
                  /\ card'[c] = card[c] /\ torn'[c] = torn[c]
                  /\ c \in stored \/ Pairing(c) => c \in stored' \/ Pairing(c)'
            BY <2>5, <3>1, <3>4, <5>1
          <6>3. QED
            BY <2>3, <5>3, <6>1, <6>2 DEF SlotsFit
        <5>5. QED
          BY <2>9, <5>4 DEF PairInv
      <4>4. QED
        BY <4>1, <4>2, <4>3
    <3>7. QED
      BY <3>5, <3>6
  <2>12. QED
    BY <2>10, <2>11
<1>3. QED
  BY <1>1, <1>2 DEF Exchange

\* The watcher that takes over is on its way to no pairing.
LEMMA HandOverHeeds ==
    ASSUME Base, NEW g \in Monitors, pc[g] # "idle",
           NEW where \in {"poll", "detect"}, NEW next, HandOver(g, where, next)
    PROVE  /\ \A h \in Monitors : ~Heeds(h)'
           /\ \A h \in Monitors \ {g} : pc[h] = "idle"
<1>1. \A h \in Monitors \ {g} : pc[h] = "idle"
  BY BaseTypes
<1>2. /\ pc'[g] = "idle"
      /\ \A p \in Procs : p # g => pc'[p] = pc[p] \/ (pc[p] = "idle" /\ pc'[p] = where)
  BY HandOverControl DEF Base, ControlInv, Active
<1>3. QED
  BY <1>1, <1>2, ProcFacts DEF Heeds

\* Steps of the monitor.
LEMMA MonitorKeepsPairs ==
    ASSUME Base, PairInv, NEW g \in Monitors, Monitor(g)
    PROVE  PairInv'
<1>0. /\ pc \in [Procs -> PCs] /\ card \in [Cards -> CardState] /\ txq \in Seq(Requests)
      /\ res \in [Procs -> Reply \cup {None}] /\ cmd \in [Procs -> Command \cup {None}]
      /\ None \notin Cards /\ MaxSlots \in Nat /\ conn \in Cards \cup {None} /\ stored \subseteq Cards
      /\ status \in Status /\ g \in Procs
  BY BaseTypes, ProcFacts
<1>a. pc[g] # "idle"
  BY DEF Monitor, Detect, ConnectCard, CardSelected, AwaitReaders, ReadersChanged, ConnectKeycard,
         Paired, Reselected, ChannelOpened, Poll, Tick, TickClosed, Rendezvous, ScanForced
<1>b. \A h \in Monitors \ {g} : pc[h] = "idle"
  BY <1>a, BaseTypes
<1>1. CASE Detect(g)
  <2>1. /\ UNCHANGED <<card, torn, stored, cmd, res>>
        /\ \A h \in Monitors : pc'[h] \in {"idle", "readers", "connect"} \/ pc'[h] = pc[h]
    BY <1>0, <1>1, <1>b, ProcFacts DEF Detect, Goto, life
  <2>2. pc'[g] \in {"idle", "readers", "connect"}
    BY <1>0, <1>1 DEF Detect, Goto
  <2>3. \A h \in Monitors : ~Heeds(h)'
    BY <1>b, <2>1, <2>2 DEF Heeds
  <2>4. QED
    BY <1>0, <1>1, <1>b, <2>1, <2>3, CalmKeeps DEF CalmStep, Detect
<1>2. CASE ConnectCard(g)
  <2>1. /\ UNCHANGED <<card, torn, stored, res>>
        /\ pc'[g] \in {"readers", "lock"} /\ \A h \in Monitors \ {g} : pc'[h] = pc[h]
    BY <1>0, <1>2, ProcFacts DEF ConnectCard, Goto, world, life
  <2>2. \A h \in Monitors : ~Heeds(h)'
    BY <1>b, <2>1 DEF Heeds
  <2>3. QED
    BY <1>2, <1>b, <2>1, <2>2, CalmKeeps DEF CalmStep, ConnectCard
<1>3. CASE CardSelected(g)
  <2>1. /\ UNCHANGED <<card, torn, stored>>
        /\ pc[g] = "got" /\ cmd[g] = "select"
        /\ \A h \in Monitors \ {g} : pc'[h] = pc[h] /\ cmd'[h] = cmd[h] /\ res'[h] = res[h]
    BY <1>0, <1>3, ProcFacts DEF CardSelected, Goto, world, life, Unlock
  <2>2. CASE pc'[g] = "keycard"
    <3>1. /\ res[g] # None /\ conn' = conn /\ status'.app = InfoOf(res[g])
      BY <1>0, <1>3, <2>2 DEF CardSelected, Goto, Failure, Publish, Status
    <3>2. SlotsFit /\ \A h \in Monitors : HeedFits(h)
      BY <2>1 DEF PairInv
    <3>3. \A c \in Cards : ~Pairing(c)
      BY <1>b, <2>1 DEF Pairing
    <3>4. SlotsFit'
      BY <2>1, <3>2, <3>3 DEF SlotsFit
    <3>5. HeedFits(g)'
      BY <2>1, <2>2, <3>1, <3>2 DEF HeedFits, InfoOf
    <3>6. QED
      BY <1>b, <2>1, <3>2, <3>4, <3>5 DEF PairInv, HeedFits
  <2>3. CASE pc'[g] # "keycard"
    <3>1. pc'[g] = "readers"
      BY <1>0, <1>3, <2>3 DEF CardSelected, Goto
    <3>2. \A h \in Monitors : ~Heeds(h)'
      BY <1>b, <2>1, <3>1 DEF Heeds
    <3>3. QED
      BY <1>0, <1>b, <2>1, <3>2, CalmKeeps DEF CalmStep
  <2>4. QED
    BY <2>2, <2>3
<1>4. CASE AwaitReaders(g) \/ ReadersChanged(g) \/ Tick(g) \/ TickClosed(g)
  <2>1. /\ UNCHANGED <<card, torn, stored, cmd, res, conn, status>>
        /\ pc[g] \in {"readers", "blocked", "tick"}
        /\ pc'[g] \in {"idle", "detect", "blocked", "poll"}
        /\ \A h \in Monitors \ {g} : pc'[h] = pc[h]
    BY <1>0, <1>4, ProcFacts DEF AwaitReaders, ReadersChanged, Tick, TickClosed, Goto, world,
       object, life
  <2>2. QED
    BY <1>b, <2>1, CalmKeeps DEF CalmStep, Heeds
<1>5. CASE Poll(g)
  <2>1. UNCHANGED <<card, torn, stored, cmd, res, conn, status>> /\ pc[g] = "poll"
    BY <1>5 DEF Poll, world, object, life
  <2>2. CASE StartDetection(g)
    BY <1>a, <1>b, <2>1, <2>2, HandOverHeeds, CalmKeeps DEF CalmStep, StartDetection
  <2>3. CASE \E where \in {"idle", "tick"} : Goto(g, where)
    <3>1. pc'[g] \in {"idle", "tick"} /\ \A h \in Monitors \ {g} : pc'[h] = pc[h]
      BY <1>0, <2>3, ProcFacts DEF Goto
    <3>2. QED
      BY <1>b, <2>1, <3>1, CalmKeeps DEF CalmStep, Heeds
  <2>4. QED
    BY <1>5, <2>2, <2>3 DEF Poll
<1>6. ASSUME NEW p \in Procs, Rendezvous(g, p) PROVE PairInv'
  <2>1. UNCHANGED <<card, torn, stored, cmd, res, conn, status>> /\ pc[g] = "tick"
    BY <1>6 DEF Rendezvous, ScanForced, world, object, life
  <2>2. PICK h \in Monitors : pc' = [pc EXCEPT ![g] = "idle", ![h] = "detect", ![p] = "forced"]
    BY <1>6 DEF Rendezvous
  <2>3. \A m \in Monitors : pc'[m] \in {pc[m], "idle", "detect", "forced"}
    BY <1>0, <2>2, ProcFacts
  <2>4. \A m \in Monitors : ~Heeds(m)
    BY <1>b, <2>1 DEF Heeds
  <2>5. \A m \in Monitors : ~Heeds(m)'
    BY <2>1, <2>3, <2>4 DEF Heeds
  <2>6. QED
    BY <1>b, <2>1, <2>5, CalmKeeps DEF CalmStep
<1>7. CASE ConnectKeycard(g)
  <2>1. CASE Panic
    BY <2>1, CalmKeeps DEF Panic, world, object, locals, CalmStep, Heeds
  <2>2. CASE status.app # None /\ ~status.app.init
    <3>1. UNCHANGED <<card, torn, stored, cmd, res, conn>> /\ Watch(g) /\ pc[g] = "keycard"
      BY <1>7, <2>2 DEF ConnectKeycard, world, life
    <3>2. QED
      BY <1>a, <1>b, <3>1, HandOverHeeds, CalmKeeps DEF CalmStep, Watch
  <2>3. CASE status.app # None /\ status.app.init
    <3> DEFINE command == IF status.app.card \in stored THEN "open" ELSE "pair"
    <3>1. /\ UNCHANGED <<card, torn, stored, conn, res, status>> /\ pc[g] = "keycard"
          /\ cmd' = [cmd EXCEPT ![g] = command]
          /\ pc' = [pc EXCEPT ![g] = "wait"]
      BY <1>7, <2>3 DEF ConnectKeycard, world, life, Goto
    <3>2. /\ pc'[g] = "wait" /\ cmd'[g] = command
          /\ \A h \in Monitors \ {g} : pc'[h] = pc[h] /\ cmd'[h] = cmd[h]
      BY <1>0, <3>1, ProcFacts
    <3>3. command \in Command
      BY CommandNames
    <3>4. SlotsFit /\ \A h \in Monitors : HeedFits(h)
      BY <3>1 DEF PairInv
    <3>5. SlotsFit'
      BY <1>b, <3>1, <3>4 DEF SlotsFit, Pairing
    <3>6. HeedFits(g)'
      <4>1. command = "pair" => status.app.card \notin stored /\ conn \in {None, status.app.card}
        BY <2>3, <3>1, <3>4 DEF HeedFits
      <4>2. None \notin stored
        BY <1>0
      <4>3. QED
        BY <3>1, <3>2, <4>1, <4>2 DEF HeedFits
    <3>7. \A h \in Monitors \ {g} : HeedFits(h)'
      BY <1>b, <3>2 DEF HeedFits
    <3>8. QED
      BY <3>5, <3>6, <3>7 DEF PairInv
  <2>4. QED
    BY <1>7, <2>1, <2>2, <2>3 DEF ConnectKeycard
<1>8. CASE Paired(g)
  <2>1. /\ UNCHANGED <<card, torn, conn>> /\ pc[g] = "got" /\ cmd[g] = "pair"
    BY <1>8 DEF Paired, world, life
  <2>2. SlotsFit
    BY <2>1 DEF PairInv
  <2>3. \A c \in Cards : Pairing(c) => Succeeded(g) /\ c = res[g].from
    BY <1>b, <2>1 DEF Pairing
  <2>4. SlotsFit'
    <3>1. \A c \in Cards : c \in stored \/ Pairing(c) => c \in stored'
      BY <1>8, <2>3 DEF Paired, Failure, Succeeded, StorePairing
    <3>2. QED
      BY <2>1, <2>2, <3>1 DEF SlotsFit
  <2>5. \A h \in Monitors : ~Heeds(h)'
    <3>1. CASE Failure(res[g])
      <4>1. Watch(g)
        BY <1>8, <3>1 DEF Paired, GiveUp
      <4>2. QED
        BY <1>a, <4>1, HandOverHeeds DEF Watch
    <3>2. CASE ~Failure(res[g])
      <4>1. pc'[g] = "lock" /\ \A h \in Monitors \ {g} : pc'[h] = pc[h]
        BY <1>0, <1>8, <3>2, ProcFacts DEF Paired, Goto
      <4>2. QED
        BY <1>b, <4>1 DEF Heeds
    <3>3. QED
      BY <3>1, <3>2
  <2>6. QED
    BY <2>4, <2>5 DEF PairInv, HeedFits, Heeds
<1>9. CASE Reselected(g)
  <2>1. UNCHANGED <<card, torn, stored, conn>> /\ pc[g] = "got" /\ cmd[g] = "reselect"
    BY <1>9 DEF Reselected, world, life
  <2>2. CASE Failure(res[g])
    <3>1. Watch(g)
      BY <1>9, <2>2 DEF Reselected, GiveUp
    <3>2. QED
      BY <1>a, <1>b, <2>1, <3>1, HandOverHeeds, CalmKeeps DEF CalmStep, Watch
  <2>3. CASE ~Failure(res[g])
    <3>1. pc' = [pc EXCEPT ![g] = "wait"] /\ cmd' = [cmd EXCEPT ![g] = "open"]
      BY <1>9, <2>3 DEF Reselected, Goto
    <3>2. pc'[g] = "wait" /\ cmd'[g] = "open" /\ \A h \in Monitors \ {g} : pc'[h] = pc[h]
      BY <1>0, <3>1, ProcFacts
    <3>3. \A h \in Monitors : ~Heeds(h)'
      BY <1>b, <3>2 DEF Heeds
    <3>4. QED
      BY <1>0, <1>b, <2>1, <3>1, <3>3, CommandNames, CalmKeeps DEF CalmStep
  <2>4. QED
    BY <2>2, <2>3
<1>10. CASE ChannelOpened(g)
  <2>1. UNCHANGED <<card, torn, stored, conn>> /\ pc[g] = "got" /\ cmd[g] = "open"
    BY <1>10 DEF ChannelOpened, world, life
  <2>2. CASE \E x \in State : GiveUp(g, x)
    BY <1>a, <1>b, <2>1, <2>2, HandOverHeeds, CalmKeeps DEF CalmStep, GiveUp, Watch
  <2>3. CASE Goto(g, "refresh")
    <3>1. pc'[g] = "refresh" /\ \A h \in Monitors \ {g} : pc'[h] = pc[h]
      BY <1>0, <2>3, ProcFacts DEF Goto
    <3>2. \A h \in Monitors : ~Heeds(h)'
      BY <1>b, <3>1 DEF Heeds
    <3>3. QED
      BY <1>b, <2>1, <3>2, CalmKeeps DEF CalmStep
  <2>4. QED
    BY <1>10, <2>2, <2>3, StateNames DEF ChannelOpened
<1>11. QED
  BY <1>1, <1>2, <1>3, <1>4, <1>5, <1>6, <1>7, <1>8, <1>9, <1>10 DEF Monitor

\* A client is on its way to no pairing, whatever it does.
LEMMA ClientKeepsPairs ==
    ASSUME Base, PairInv, NEW c \in Clients, Client(c) \/ Caller(c)
    PROVE  PairInv'
<1>0. /\ pc \in [Procs -> PCs] /\ cmd \in [Procs -> Command \cup {None}]
      /\ res \in [Procs -> Reply \cup {None}] /\ status \in Status
      /\ c \in Procs /\ Monitors \subseteq Procs /\ c \notin Monitors
  BY BaseTypes, ProcFacts
<1>1. CASE Panic
  BY <1>1, CalmKeeps DEF Panic, world, object, locals, CalmStep, Heeds
<1>2. CASE CancelContext(c)
  <2>1. \A h \in Monitors : pc'[h] = pc[h] \/ (pc'[h] = "idle" /\ pc[h] = "blocked")
    <3>1. \A q \in Procs : pc'[q] = IF q = c THEN "shutdown" ELSE IF pc[q] = "blocked" THEN "idle" ELSE pc[q]
      BY <1>2 DEF CancelContext
    <3>2. QED
      BY <1>0, <3>1
  <2>2. QED
    BY <1>2, <2>1, CalmKeeps DEF CancelContext, world, object, life, CalmStep, Heeds
<1>3. CASE ~Panic /\ ~CancelContext(c)
  <2>1. /\ UNCHANGED <<card, torn, stored, conn>>
        /\ status'.app \in {status.app, None}
        /\ \A h \in Monitors : pc'[h] = pc[h] /\ cmd'[h] = cmd[h] /\ res'[h] = res[h]
    <3>1. CASE \E op \in Op : Call(c, op)
      BY <1>0, <1>3, <3>1 DEF Call, Goto, world, life, Publish, Reset
    <3>2. CASE Stop(c)
      BY <1>0, <1>3, <3>2 DEF Stop, Goto, world, life
    <3>3. CASE CommandDone(c)
      BY <1>0, <1>3, <3>3 DEF CommandDone, Goto, world, life, Unlock
    <3>4. CASE OnAuthorizeInteractions(c)
      BY <1>0, <1>3, <3>4 DEF OnAuthorizeInteractions, Goto, world, life, Publish, WithState,
         Status
    <3>5. CASE MnemonicLoaded(c)
      BY <1>0, <1>3, <3>5 DEF MnemonicLoaded, Goto, world, life, Publish, Status
    <3>6. CASE Shutdown(c)
      BY <1>0, <1>3, <3>6 DEF Shutdown, Goto, world, object
    <3>7. QED
      BY <1>3, <3>1, <3>2, <3>3, <3>4, <3>5, <3>6 DEF Client, Caller
  <2>2. QED
    BY <2>1, CalmKeeps DEF CalmStep, Heeds
<1>4. QED
  BY <1>1, <1>2, <1>3

\* The steps that monitors and clients share pair with nothing.
LEMMA EitherKeepsPairs ==
    ASSUME Base, PairInv, NEW p \in Procs, Either(p)
    PROVE  PairInv'
<1>0. /\ pc \in [Procs -> PCs] /\ cmd \in [Procs -> Command \cup {None}]
      /\ res \in [Procs -> Reply \cup {None}] /\ status \in Status
      /\ Monitors \subseteq Procs /\ LockedWhenLocking
  BY BaseTypes, ProcFacts
<1>1. CASE Panic
  BY <1>1, CalmKeeps DEF Panic, world, object, locals, CalmStep, Heeds
<1>2. CASE Lock(p) /\ ~Panic
  <2>1. /\ UNCHANGED <<card, torn, stored, conn, status, cmd, res>>
        /\ pc[p] = "lock" /\ cmd[p] \in LockedCommand
        /\ pc' = [pc EXCEPT ![p] = "wait"]
    BY <1>0, <1>2 DEF Lock, Goto, world, life, LockedWhenLocking
  <2>2. cmd[p] # "pair" /\ cmd[p] \in Command
    BY <2>1, CommandFacts, CommandNames
  <2>3. \A h \in Monitors : pc'[h] = IF h = p THEN "wait" ELSE pc[h]
    BY <1>0, <2>1
  <2>4. QED
    BY <1>0, <2>1, <2>2, <2>3, CalmKeeps DEF CalmStep, Heeds
<1>3. CASE TransmitDone(p)
  <2>1. /\ UNCHANGED <<card, torn, stored, cmd, conn, status>> /\ pc[p] = "wait"
        /\ pc' = [pc EXCEPT ![p] = "got"] /\ res' = [res EXCEPT ![p] = None]
    BY <1>3 DEF TransmitDone, Goto, world
  <2>2. /\ pc'[p] = "got" /\ res'[p] = None
        /\ \A h \in Procs \ {p} : pc'[h] = pc[h] /\ res'[h] = res[h]
    BY <1>0, <2>1
  <2>3. \A c \in Cards : Pairing(c) => Pairing(c)'
    BY <1>0, <2>1, <2>2 DEF Pairing, Succeeded
  <2>4. \A h \in Monitors : HeedFits(h)'
    BY <1>0, <2>1, <2>2 DEF PairInv, HeedFits
  <2>5. QED
    BY <2>1, <2>3, <2>4 DEF PairInv, SlotsFit
\* What is left ends at a place that is on the way to no pairing.
<1>4. ASSUME UNCHANGED <<card, torn, stored>>, conn' \in {conn, None},
             status'.app = status.app,
             ~(pc[p] = "got" /\ cmd[p] = "pair"),
             NEW where \in PCs \ {"wait", "got", "keycard"}, pc' = [pc EXCEPT ![p] = where],
             \A q \in Procs \ {p} : cmd'[q] = cmd[q] /\ res'[q] = res[q]
      PROVE  PairInv'
  <2>1. \A h \in Monitors : pc'[h] = IF h = p THEN where ELSE pc[h]
    BY <1>0, <1>4
  <2>2. QED
    BY <1>0, <1>4, <2>1, CalmKeeps DEF CalmStep, Heeds
<1>5. ASSUME UNCHANGED <<card, torn, stored, conn>>,
             p \in Monitors, pc[p] # "idle", ~(pc[p] = "got" /\ cmd[p] = "pair"), Watch(p)
      PROVE  PairInv'
  <2>1. \A h \in Monitors \ {p} : pc[h] = "idle"
    BY <1>5, BaseTypes
  <2>2. QED
    BY <1>5, <2>1, HandOverHeeds, CalmKeeps DEF CalmStep, Watch
<1>6. CASE RefreshStatus(p)
  <2>1. /\ UNCHANGED <<card, torn, stored, conn, status, res>> /\ pc[p] = "refresh"
        /\ \A q \in Procs \ {p} : cmd'[q] = cmd[q]
    BY <1>0, <1>6 DEF RefreshStatus, world, life
  <2>2. \/ p \in Monitors /\ Watch(p)
        \/ pc' = [pc EXCEPT ![p] = "lock"]
        \/ pc' = [pc EXCEPT ![p] = "authorize"]
    BY <1>6 DEF RefreshStatus, Goto
  <2>3. QED
    BY <1>4, <1>5, <2>1, <2>2, PCNames
<1>7. CASE StatusRefreshed(p)
  <2>1. /\ UNCHANGED <<card, torn, stored, conn>> /\ pc[p] = "got" /\ cmd[p] = "status"
        /\ \A q \in Procs \ {p} : cmd'[q] = cmd[q] /\ res'[q] = res[q]
        /\ status'.app = status.app
    BY <1>0, <1>7 DEF StatusRefreshed, world, life, Unlock, Status
  <2>2. \/ p \in Monitors /\ Watch(p)
        \/ pc' = [pc EXCEPT ![p] = "metadata"]
        \/ pc' = [pc EXCEPT ![p] = "authorize"]
    BY <1>7 DEF StatusRefreshed, Goto
  <2>3. QED
    BY <1>4, <1>5, <2>1, <2>2, PCNames
<1>8. CASE RefreshMetadata(p)
  <2>1. /\ UNCHANGED <<card, torn, stored, conn, res>> /\ pc[p] = "metadata"
        /\ \A q \in Procs \ {p} : cmd'[q] = cmd[q]
        /\ status'.app = status.app
    BY <1>0, <1>8 DEF RefreshMetadata, world, life, MetadataDone, WithState, Status
  <2>2. \/ p \in Monitors /\ Watch(p)
        \/ pc' = [pc EXCEPT ![p] = "lock"]
        \/ pc' = [pc EXCEPT ![p] = "idle"]
    BY <1>8 DEF RefreshMetadata, Goto, MetadataDone
  <2>3. QED
    BY <1>4, <1>5, <2>1, <2>2, PCNames
<1>9. CASE MetadataRead(p)
  <2>1. /\ UNCHANGED <<card, torn, stored, conn>> /\ cmd[p] = "getData" /\ pc[p] # "idle"
        /\ \A q \in Procs \ {p} : cmd'[q] = cmd[q] /\ res'[q] = res[q]
        /\ status'.app = status.app
    BY <1>0, <1>9 DEF MetadataRead, Returning, world, life, MetadataDone, WithState, Status,
       Unlock
  <2>2. \/ p \in Monitors /\ Watch(p)
        \/ pc' = [pc EXCEPT ![p] = "idle"]
    BY <1>9 DEF MetadataRead, Goto, MetadataDone
  <2>3. QED
    BY <1>4, <1>5, <2>1, <2>2, PCNames
<1>10. CASE DropConnection(p)
  <2>1. /\ UNCHANGED <<card, torn, stored, status, cmd, res>> /\ conn' = None
        /\ pc[p] = "got" /\ cmd[p] \in Checked \cup InitCommands \cup {"reset"}
        /\ pc' = [pc EXCEPT ![p] = "force"]
    BY <1>10 DEF DropConnection, NeedsForce, world, life, Goto
  <2>2. cmd[p] # "pair"
    BY <2>1, CommandFacts
  <2>3. QED
    BY <1>4, <2>1, <2>2, PCNames
<1>11. CASE ForceScan(p) /\ ~Panic
  <2>1. /\ UNCHANGED <<card, torn, stored, conn, status, cmd, res>> /\ pc[p] = "force"
        /\ \/ pc' = [pc EXCEPT ![p] = "sending"]
           \/ pc' = [pc EXCEPT ![p] = "orphan"]
    BY <1>11 DEF ForceScan, world, object, life, Goto
  <2>2. QED
    BY <1>4, <2>1, PCNames
<1>12. CASE SendOnClosed(p)
  BY <1>1, <1>12 DEF SendOnClosed
<1>13. QED
  BY <1>1, <1>2, <1>3, <1>6, <1>7, <1>8, <1>9, <1>10, <1>11, <1>12 DEF Either

\* Each card lacks at most the slots of one pairing and of the answers that were
\* lost; the pairing is in the store or about to be.
LEMMA PairInvKept == Base /\ PairInv /\ [Next]_vars => PairInv'
<1> SUFFICES ASSUME Base, PairInv, [Next]_vars PROVE PairInv'
  OBVIOUS
<1>1. CASE Next
  <2>1. ASSUME NEW g \in Monitors, Monitor(g) PROVE PairInv'
    BY <2>1, MonitorKeepsPairs
  <2>2. ASSUME NEW c \in Clients, Client(c) \/ Caller(c) PROVE PairInv'
    BY <2>2, ClientKeepsPairs
  <2>3. ASSUME NEW p \in Procs, Either(p) PROVE PairInv'
    BY <2>3, EitherKeepsPairs
  <2>4. QED
    BY <1>1, <2>1, <2>2, <2>3, WorldKeepsPairs, ExchangeKeepsPairs DEF Next
<1>2. CASE UNCHANGED vars
  BY <1>2, CalmKeeps DEF vars, world, object, life, locals, CalmStep, Heeds
<1>3. QED
  BY <1>1, <1>2

\* Cards that come with all their slots give the service one of them, and one
\* more for each Pair whose answer got lost, however many goroutines make requests,
\* whatever answers get lost, however often the card is pulled, reset or exchanged,
\* and after Stop too (connectKeycard, keycard_context_v2.go:389-410).
THEOREM CardsArePairedOnce ==
    ASSUME \A k \in CardTypes : k.slots = MaxSlots
    PROVE  Spec => []PairsOnce
<1>1. Init => PairInv
  BY ProcFacts, KeycardAssumption DEF Init, PairInv, SlotsFit, HeedFits
<1>2. PairInv => PairsOnce
  BY DEF PairInv, SlotsFit, PairsOnce
<1>3. QED
  BY <1>1, <1>2, BaseHolds, PairInvKept, PTL DEF Spec

-----------------------------------------------------------------------------
\* Announcements.

\* A goroutine that will publish the status before it comes to rest.
Owes(p) ==
    \/ p \in Clients /\ pc[p] = "authorize"
    \/ /\ p \in Monitors
       /\ \/ pc[p] \in {"refresh", "metadata"}
          \/ pc[p] \in Commanding /\ cmd[p] \in {"open", "status", "getData"}

\* StoreMetadata, which leaves what it read unpublished when it fails, is not called.
NoStoring == \A c \in Clients : call[c].op # "StoreMetadata" /\ pc[c] # "metadata"

DebtInv == NoStoring /\ (published = status \/ \E p \in Procs : Owes(p))

\* A step that neither changes nor publishes the status, and pays no debt.
LEMMA DebtsStay ==
    ASSUME DebtInv, NoStoring', UNCHANGED <<status, published>>,
           \A p \in Procs : Owes(p) => Owes(p)'
    PROVE  DebtInv'
BY DEF DebtInv

\* A step that publishes what the status is.
LEMMA DebtsPaid ==
    ASSUME NoStoring', published' = status'
    PROVE  DebtInv'
BY DEF DebtInv

\* A step that is not one of a client keeps clients where they are, or is about
\* their commands.
LEMMA NoStoringFrame ==
    ASSUME NoStoring, call' = call,
           \A c \in Clients : pc'[c] = "metadata" => pc[c] = "metadata"
    PROVE  NoStoring'
BY DEF NoStoring

\* Steps of the user, of the service's life and of the card.
LEMMA WorldKeepsDebts ==
    ASSUME Base, DebtInv,
           \/ User \/ Start \/ StopFailed \/ ReleaseContext \/ Exchange
           \/ \E e \in Faults \cup {None} : SimulateError(e)
    PROVE  DebtInv'
<1>0. pc \in [Procs -> PCs] /\ NoStoring /\ txq \in Seq(Requests)
  BY BaseTypes DEF DebtInv
<1>1. CASE User \/ StopFailed \/ ReleaseContext \/ \E e \in Faults \cup {None} : SimulateError(e)
  <2>1. UNCHANGED <<pc, cmd, call, status, published>>
    BY <1>1 DEF User, InsertCard, RemoveCard, UnplugReader, PlugReader, Move, StopFailed,
       ReleaseContext,
       SimulateError, object, locals
  <2>2. QED
    BY <1>0, <2>1, DebtsStay, NoStoringFrame DEF Owes
<1>2. CASE Start
  <2>1. /\ UNCHANGED <<cmd, call>>
        /\ published' = status' \/ UNCHANGED <<status, published>>
        /\ pc' = pc \/ \E g \in Monitors : pc' = [pc EXCEPT ![g] = "detect"]
        /\ \A p \in Procs : pc[p] = "idle"
    BY <1>2 DEF Start, Goto, Publish, Base, ControlInv, OffIsIdle
  <2>2. \A p \in Procs : pc'[p] \in {"idle", "detect"}
    BY <1>0, <2>1
  <2>3. NoStoring'
    BY <1>0, <2>1, <2>2, ProcFacts, NoStoringFrame
  <2>4. \A p \in Procs : ~Owes(p)
    BY <2>1 DEF Owes, Commanding
  <2>5. QED
    BY <2>1, <2>3, <2>4, DebtsPaid, DebtsStay
<1>3. CASE Exchange
  <2>1. UNCHANGED <<cmd, call, status, published>>
    BY <1>3 DEF Exchange, Panic, object, locals
  <2>2. pc' = pc \/ \E p \in Procs : pc[p] = "wait" /\ pc' = [pc EXCEPT ![p] = "got"]
    <3>1. txq # <<>> => 1 \in DOMAIN txq /\ Head(txq) = txq[1] /\ txq[1] \in Requests
      BY <1>0
    <3>2. \/ pc' = pc
          \/ txq # <<>> /\ Head(txq).proc # None /\ pc' = [pc EXCEPT ![Head(txq).proc] = "got"]
      BY <1>3 DEF Exchange, Panic, locals, Goto
    <3>3. QED
      BY <3>1, <3>2 DEF Base, ControlInv, QueueMatchesWaiters, Requests
  <2>3. \A p \in Procs : pc'[p] = pc[p] \/ (pc[p] = "wait" /\ pc'[p] = "got")
    BY <1>0, <2>2
  <2>4. NoStoring'
    BY <1>0, <2>1, <2>3, ProcFacts, NoStoringFrame
  <2>5. \A p \in Procs : Owes(p) => Owes(p)'
    BY <2>1, <2>3 DEF Owes, Commanding
  <2>6. QED
    BY <2>1, <2>4, <2>5, DebtsStay
<1>4. QED
  BY <1>1, <1>2, <1>3

\* A monitor that hands over owes nothing to the goroutines that it starts.
LEMMA HandOverOwes ==
    ASSUME Base, NEW g \in Monitors, pc[g] # "idle",
           NEW where \in {"poll", "detect"}, NEW next, HandOver(g, where, next)
    PROVE  /\ \A c \in Clients : pc'[c] = pc[c]
           /\ cmd' = cmd /\ ~Owes(g) => \A p \in Procs : Owes(p) => Owes(p)'
<1>1. /\ \A c \in Clients : pc'[c] = pc[c]
      /\ \A p \in Procs : p # g => pc'[p] = pc[p] \/ (pc[p] = "idle" /\ pc'[p] = where)
  BY HandOverControl DEF Base, ControlInv, Active
<1>2. QED
  BY <1>1 DEF Owes, Commanding

\* Steps of the monitor.
LEMMA MonitorKeepsDebts ==
    ASSUME Base, DebtInv, NEW g \in Monitors, Monitor(g)
    PROVE  DebtInv'
<1>0. /\ pc \in [Procs -> PCs] /\ cmd \in [Procs -> Command \cup {None}]
      /\ g \in Procs /\ g \notin Clients /\ Clients \subseteq Procs /\ NoStoring
  BY BaseTypes, ProcFacts DEF DebtInv
<1>1. ASSUME call' = call, published' = status', NEW where \in PCs, Goto(g, where)
      PROVE  DebtInv'
  <2>1. \A c \in Clients : pc'[c] = pc[c]
    BY <1>0, <1>1 DEF Goto
  <2>2. QED
    BY <1>0, <1>1, <2>1, NoStoringFrame, DebtsPaid
<1>2. ASSUME call' = call, published' = status', pc[g] # "idle", Watch(g)
      PROVE  DebtInv'
  BY <1>0, <1>2, HandOverOwes, NoStoringFrame, DebtsPaid DEF Watch
<1>3. ASSUME UNCHANGED <<call, status, published>>, ~Owes(g), NEW where \in PCs, Goto(g, where),
             \A p \in Procs \ {g} : cmd'[p] = cmd[p]
      PROVE  DebtInv'
  <2>1. \A p \in Procs \ {g} : pc'[p] = pc[p]
    BY <1>0, <1>3 DEF Goto
  <2>2. \A p \in Procs : Owes(p) => Owes(p)'
    BY <1>3, <2>1 DEF Owes
  <2>3. NoStoring'
    BY <1>0, <1>3, <2>1, NoStoringFrame
  <2>4. QED
    BY <1>3, <2>2, <2>3, DebtsStay
<1>4. CASE Detect(g)
  <2>1. /\ UNCHANGED <<cmd, call>> /\ pc[g] = "detect"
        /\ published' = status' \/ UNCHANGED <<status, published>>
        /\ \A p \in Procs \ {g} : pc'[p] = pc[p] \/ (pc[p] = "sending" /\ pc'[p] = "orphan")
    BY <1>0, <1>4 DEF Detect, Goto, Publish
  <2>2. NoStoring'
    BY <1>0, <2>1, NoStoringFrame
  <2>3. \A p \in Procs : Owes(p) => Owes(p)'
    BY <1>0, <2>1 DEF Owes, Commanding
  <2>4. QED
    BY <2>1, <2>2, <2>3, DebtsPaid, DebtsStay
<1>5. CASE ConnectCard(g)
  <2>1. /\ call' = call /\ pc[g] = "connect" /\ \A p \in Procs \ {g} : cmd'[p] = cmd[p]
        /\ Goto(g, "readers") \/ Goto(g, "lock")
        /\ published' = status' \/ UNCHANGED <<status, published>>
    BY <1>0, <1>5 DEF ConnectCard, Publish
  <2>2. ~Owes(g)
    BY <1>0, <2>1 DEF Owes, Commanding
  <2>3. QED
    BY <1>1, <1>3, <2>1, <2>2, PCNames
<1>6. CASE CardSelected(g)
  <2>1. /\ call' = call /\ published' = status'
        /\ Goto(g, "readers") \/ Goto(g, "keycard")
    BY <1>6 DEF CardSelected, Publish
  <2>2. QED
    BY <1>1, <2>1, PCNames
<1>7. CASE AwaitReaders(g) \/ ReadersChanged(g) \/ Tick(g) \/ TickClosed(g)
  <2>1. /\ UNCHANGED <<call, cmd, status, published>> /\ pc[g] \in {"readers", "blocked", "tick"}
        /\ \E where \in {"idle", "detect", "blocked", "poll"} : Goto(g, where)
    BY <1>7 DEF AwaitReaders, ReadersChanged, Tick, TickClosed, object
  <2>2. ~Owes(g)
    BY <1>0, <2>1 DEF Owes, Commanding
  <2>3. QED
    BY <1>3, <2>1, <2>2, PCNames
<1>8. CASE Poll(g)
  <2>1. /\ UNCHANGED <<call, cmd, status, published>> /\ pc[g] = "poll"
        /\ StartDetection(g) \/ \E where \in {"idle", "tick"} : Goto(g, where)
    BY <1>8 DEF Poll, object
  <2>2. ~Owes(g)
    BY <1>0, <2>1 DEF Owes, Commanding
  <2>3. CASE StartDetection(g)
    BY <1>0, <2>1, <2>2, <2>3, HandOverOwes, NoStoringFrame, DebtsStay DEF StartDetection
  <2>4. QED
    BY <1>3, <2>1, <2>2, <2>3, PCNames
<1>9. ASSUME NEW p \in Procs, Rendezvous(g, p) PROVE DebtInv'
  <2>1. UNCHANGED <<call, cmd, status, published>> /\ pc[g] = "tick" /\ pc[p] = "sending"
    BY <1>9 DEF Rendezvous, ScanForced, object
  <2>2. PICK h \in Monitors : pc[h] = "idle" /\ pc' = [pc EXCEPT ![g] = "idle", ![h] = "detect", ![p] = "forced"]
    BY <1>9 DEF Rendezvous
  <2>3. \A q \in Procs : \/ pc'[q] = pc[q]
                         \/ pc[q] \in {"tick", "idle"} /\ q \in Monitors
                         \/ pc[q] = "sending" /\ pc'[q] = "forced"
    BY <1>0, <2>1, <2>2, ProcFacts
  <2>4. \A q \in Procs : Owes(q) => Owes(q)'
    BY <2>1, <2>3 DEF Owes, Commanding
  <2>5. NoStoring'
    BY <1>0, <2>1, <2>3, ProcFacts, NoStoringFrame
  <2>6. QED
    BY <2>1, <2>4, <2>5, DebtsStay
<1>10. CASE ConnectKeycard(g)
  <2>1. CASE Panic
    BY <1>0, <2>1, NoStoringFrame, DebtsStay DEF Panic, object, locals, Owes
  <2>2. CASE ~Panic
    <3>1. /\ call' = call /\ pc[g] = "keycard" /\ \A p \in Procs \ {g} : cmd'[p] = cmd[p]
          /\ \/ published' = status' /\ Watch(g)
             \/ UNCHANGED <<status, published>> /\ Goto(g, "wait")
      BY <1>0, <1>10, <2>2 DEF ConnectKeycard, Publish
    <3>2. ~Owes(g)
      BY <1>0, <3>1 DEF Owes, Commanding
    <3>3. QED
      BY <1>2, <1>3, <3>1, <3>2, PCNames
  <2>3. QED
    BY <2>1, <2>2
<1>11. CASE Paired(g)
  <2>1. /\ call' = call /\ pc[g] = "got" /\ cmd[g] = "pair" /\ \A p \in Procs \ {g} : cmd'[p] = cmd[p]
        /\ \/ published' = status' /\ Watch(g)
           \/ UNCHANGED <<status, published>> /\ Goto(g, "lock")
    BY <1>0, <1>11 DEF Paired, GiveUp, Publish
  <2>2. ~Owes(g)
    BY <1>0, <2>1 DEF Owes
  <2>3. QED
    BY <1>2, <1>3, <2>1, <2>2, PCNames
\* From here on the monitor owes.
<1>12. ASSUME call' = call, \A c \in Clients : pc'[c] = pc[c], Owes(g)' PROVE DebtInv'
  BY <1>0, <1>12, NoStoringFrame DEF DebtInv
<1>13. CASE Reselected(g)
  <2>1. CASE Failure(res[g])
    <3>1. call' = call /\ published' = status' /\ Watch(g) /\ pc[g] # "idle"
      BY <1>13, <2>1 DEF Reselected, GiveUp, Publish
    <3>2. QED
      BY <1>2, <3>1
  <2>2. CASE ~Failure(res[g])
    <3>1. call' = call /\ pc'[g] = "wait" /\ cmd'[g] = "open" /\ \A c \in Clients : pc'[c] = pc[c]
      BY <1>0, <1>13, <2>2 DEF Reselected, Goto
    <3>2. QED
      BY <1>12, <3>1 DEF Owes, Commanding
  <2>3. QED
    BY <2>1, <2>2
<1>14. CASE ChannelOpened(g)
  <2>1. \/ call' = call /\ published' = status' /\ Watch(g) /\ pc[g] # "idle"
        \/ call' = call /\ Goto(g, "refresh")
    BY <1>14 DEF ChannelOpened, GiveUp, Publish
  <2>2. CASE Goto(g, "refresh") /\ call' = call
    <3>1. pc'[g] = "refresh" /\ \A c \in Clients : pc'[c] = pc[c]
      BY <1>0, <2>2 DEF Goto
    <3>2. QED
      BY <1>12, <2>2, <3>1 DEF Owes
  <2>3. QED
    BY <1>2, <2>1, <2>2
<1>15. QED
  BY <1>4, <1>5, <1>6, <1>7, <1>8, <1>9, <1>10, <1>11, <1>13, <1>14 DEF Monitor

\* A client publishes what it has changed, or owes it.
LEMMA ClientKeepsDebts ==
    ASSUME "StoreMetadata" \notin Ops, Base, DebtInv, NEW c \in Clients, Client(c) \/ Caller(c)
    PROVE  DebtInv'
<1>0. /\ pc \in [Procs -> PCs] /\ cmd \in [Procs -> Command \cup {None}]
      /\ call \in [Clients -> CallRecord] /\ None \notin Op
      /\ c \in Procs /\ c \notin Monitors /\ Clients \subseteq Procs /\ NoStoring
  BY BaseTypes, ProcFacts DEF DebtInv
<1>1. CASE Panic
  BY <1>0, <1>1, NoStoringFrame, DebtsStay DEF Panic, object, locals, Owes
<1>2. CASE CancelContext(c)
  <2>1. /\ UNCHANGED <<call, cmd, status, published>>
        /\ \A q \in Procs : pc'[q] = IF q = c THEN "shutdown" ELSE IF pc[q] = "blocked" THEN "idle" ELSE pc[q]
        /\ pc[c] = "cancel"
    BY <1>2 DEF CancelContext, object
  <2>2. \A q \in Procs : Owes(q) => Owes(q)'
    BY <2>1 DEF Owes, Commanding
  <2>3. QED
    BY <1>0, <2>1, <2>2, NoStoringFrame, DebtsStay
<1>3. ASSUME NEW where \in PCs \ {"metadata"}, Goto(c, where),
             NEW op \in Op \cup {None}, op # "StoreMetadata", call'[c].op = op,
             \A d \in Clients \ {c} : call'[d] = call[d]
      PROVE  NoStoring'
  BY <1>0, <1>3 DEF NoStoring, Goto
<1>4. ASSUME NEW where \in PCs, Goto(c, where), pc[c] # "authorize", UNCHANGED <<status, published>>,
             \A p \in Procs \ {c} : cmd'[p] = cmd[p], NoStoring'
      PROVE  DebtInv'
  <2>1. \A p \in Procs : Owes(p) => Owes(p)'
    BY <1>0, <1>4 DEF Owes, Goto
  <2>2. QED
    BY <1>4, <2>1, DebtsStay
<1>5. ASSUME NEW op \in Op, Call(c, op), ~Panic PROVE DebtInv'
  <2>1. /\ op \in Ops /\ op # "StoreMetadata" /\ pc[c] = "idle" /\ Goto(c, "lock")
        /\ call'[c].op = op /\ \A d \in Clients \ {c} : call'[d] = call[d]
        /\ \A p \in Procs \ {c} : cmd'[p] = cmd[p]
        /\ published' = status' \/ UNCHANGED <<status, published>>
    BY <1>0, <1>5 DEF Call, MayCall, Publish
  <2>2. NoStoring'
    BY <1>3, <2>1, PCNames
  <2>3. QED
    BY <1>4, <2>1, <2>2, DebtsPaid, PCNames
<1>6. CASE Stop(c) /\ ~Panic
  <2>1. /\ UNCHANGED <<status, published, cmd>> /\ pc[c] = "idle" /\ Goto(c, "cancel")
        /\ call'[c].op = "Stop" /\ \A d \in Clients \ {c} : call'[d] = call[d]
    BY <1>0, <1>6 DEF Stop, MayCall, CallRecord
  <2>2. NoStoring'
    BY <1>3, <2>1, PCNames DEF Op
  <2>3. QED
    BY <1>4, <2>1, <2>2, PCNames
<1>7. CASE CommandDone(c)
  <2>1. /\ UNCHANGED <<status, published>> /\ pc[c] \in {"got", "forced"} /\ Goto(c, Epilogue(c))
        /\ \A p \in Procs \ {c} : cmd'[p] = cmd[p]
    BY <1>0, <1>7 DEF CommandDone, Returning
  <2>2. call[c].op # "StoreMetadata"
    BY <1>0 DEF NoStoring
  <2>3. Epilogue(c) \in {"refresh", "load", "lock", "idle"}
    BY <2>2 DEF Epilogue
  <2>4. /\ call'[c].op \in {None, call[c].op} /\ \A d \in Clients \ {c} : call'[d] = call[d]
    BY <1>0, <1>7, <2>3 DEF CommandDone, CallRecord
  <2>5. NoStoring'
    <3>1. call'[c].op \in Op \cup {None} /\ call'[c].op # "StoreMetadata"
      BY <1>0, <2>2, <2>4 DEF CallRecord, Op
    <3>2. Epilogue(c) \in PCs \ {"metadata"}
      BY <2>3, PCNames
    <3>3. QED
      BY <1>3, <2>1, <2>4, <3>1, <3>2
  <2>6. QED
    BY <1>4, <2>1, <2>3, <2>5, PCNames
<1>8. CASE (OnAuthorizeInteractions(c) \/ MnemonicLoaded(c)) /\ ~Panic
  <2>1. /\ published' = status' /\ Goto(c, "idle") /\ call' = CallOver(c)
    BY <1>8 DEF OnAuthorizeInteractions, MnemonicLoaded, Publish
  <2>2. call'[c].op = None /\ \A d \in Clients \ {c} : call'[d] = call[d]
    BY <1>0, <2>1 DEF CallOver, CallRecord
  <2>3. NoStoring'
    BY <1>0, <1>3, <2>1, <2>2, PCNames DEF Op
  <2>4. QED
    BY <2>1, <2>3, DebtsPaid
<1>9. CASE Shutdown(c)
  <2>1. /\ UNCHANGED <<status, published, cmd>> /\ pc[c] = "shutdown" /\ Goto(c, "idle") /\ call' = CallOver(c)
    BY <1>9 DEF Shutdown, object
  <2>2. call'[c].op = None /\ \A d \in Clients \ {c} : call'[d] = call[d]
    BY <1>0, <2>1 DEF CallOver, CallRecord
  <2>3. NoStoring'
    BY <1>0, <1>3, <2>1, <2>2, PCNames DEF Op
  <2>4. QED
    BY <1>4, <2>1, <2>3, PCNames
<1>10. QED
  BY <1>1, <1>2, <1>5, <1>6, <1>7, <1>8, <1>9 DEF Client, Caller

\* What monitors and clients share: a refresh owes, or is published.
LEMMA EitherKeepsDebts ==
    ASSUME "StoreMetadata" \notin Ops, Base, DebtInv, NEW p \in Procs, Either(p)
    PROVE  DebtInv'
<1>0. /\ pc \in [Procs -> PCs] /\ cmd \in [Procs -> Command \cup {None}]
      /\ call \in [Clients -> CallRecord] /\ NoStoring
      /\ Clients \subseteq Procs /\ \A c \in Clients : c \notin Monitors
      /\ p \notin Clients => p \in Monitors
  BY BaseTypes, ProcFacts DEF DebtInv
\* A goroutine goes on in its command.
<1>1. ASSUME UNCHANGED <<call, cmd, status, published>>, pc[p] \in Commanding,
             NEW where \in Commanding, Goto(p, where)
      PROVE  DebtInv'
  <2>1. pc'[p] = where /\ \A q \in Procs \ {p} : pc'[q] = pc[q]
    BY <1>0, <1>1 DEF Goto
  <2>2. \A q \in Procs : Owes(q) => Owes(q)'
    BY <1>1, <2>1 DEF Owes, Commanding
  <2>3. NoStoring'
    BY <1>0, <1>1, <2>1, NoStoringFrame DEF Commanding
  <2>4. QED
    BY <1>1, <2>2, <2>3, DebtsStay
\* A monitor hands over as it publishes.
<1>2. ASSUME call' = call, published' = status', p \in Monitors, pc[p] # "idle", Watch(p)
      PROVE  DebtInv'
  BY <1>0, <1>2, HandOverOwes, NoStoringFrame, DebtsPaid DEF Watch
\* It owes.
<1>3. ASSUME call' = call, NEW where \in PCs, Goto(p, where), p \in Clients => where # "metadata", Owes(p)'
      PROVE  DebtInv'
  <2>1. \A c \in Clients : pc'[c] = "metadata" => pc[c] = "metadata"
    BY <1>0, <1>3 DEF Goto
  <2>2. QED
    BY <1>0, <1>3, <2>1, NoStoringFrame DEF DebtInv
<1>4. CASE Panic
  BY <1>0, <1>4, NoStoringFrame, DebtsStay DEF Panic, object, locals, Owes
<1>5. CASE ~Panic /\ (Lock(p) \/ TransmitDone(p) \/ DropConnection(p) \/ ForceScan(p))
  <2>1. /\ UNCHANGED <<call, cmd, status, published>> /\ pc[p] \in Commanding
        /\ \E where \in Commanding : Goto(p, where)
    BY <1>5 DEF Lock, TransmitDone, DropConnection, ForceScan, object, Commanding
  <2>2. QED
    BY <1>1, <2>1
<1>6. CASE RefreshStatus(p)
  <2>1. call' = call /\ status' = status /\ pc[p] = "refresh"
    BY <1>6 DEF RefreshStatus
  <2>2. CASE Goto(p, "lock") /\ cmd' = [cmd EXCEPT ![p] = "status"] /\ UNCHANGED published
    <3>1. pc'[p] = "lock" /\ cmd'[p] = "status" /\ \A q \in Procs \ {p} : pc'[q] = pc[q] /\ cmd'[q] = cmd[q]
      BY <1>0, <2>2 DEF Goto
    <3>2. \A q \in Procs : Owes(q) => Owes(q)'
      BY <3>1, <1>0, <2>1 DEF Owes, Commanding
    <3>3. NoStoring'
      BY <1>0, <2>1, <3>1, NoStoringFrame
    <3>4. QED
      BY <2>1, <2>2, <3>2, <3>3, DebtsStay
  <2>3. CASE p \in Clients /\ Goto(p, "authorize")
    <3>1. Owes(p)'
      BY <1>0, <2>3 DEF Goto, Owes
    <3>2. QED
      BY <1>3, <2>1, <2>3, <3>1, PCNames
  <2>4. CASE p \in Monitors /\ Watch(p) /\ published' = status
    BY <1>2, <2>1, <2>4
  <2>5. QED
    BY <1>6, <2>2, <2>3, <2>4 DEF RefreshStatus
<1>7. CASE StatusRefreshed(p)
  <2>1. call' = call /\ pc[p] = "got"
    BY <1>7 DEF StatusRefreshed
  <2>2. CASE p \in Clients /\ Goto(p, "authorize")
    <3>1. Owes(p)'
      BY <1>0, <2>2 DEF Goto, Owes
    <3>2. QED
      BY <1>3, <2>1, <2>2, <3>1, PCNames
  <2>3. CASE p \in Monitors /\ Watch(p) /\ published' = status'
    BY <1>2, <2>1, <2>3
  <2>4. CASE p \in Monitors /\ Goto(p, "metadata")
    <3>1. Owes(p)'
      BY <1>0, <2>4 DEF Goto, Owes
    <3>2. QED
      BY <1>0, <1>3, <2>1, <2>4, <3>1, PCNames
  <2>5. QED
    BY <1>7, <2>2, <2>3, <2>4 DEF StatusRefreshed
<1>8. CASE RefreshMetadata(p)
  <2>1. pc[p] = "metadata" /\ p \in Monitors
    BY <1>0, <1>8 DEF RefreshMetadata, NoStoring
  <2>2. CASE Goto(p, "lock") /\ cmd' = [cmd EXCEPT ![p] = "getData"] /\ UNCHANGED <<status, published, call>>
    <3>1. pc'[p] = "lock" /\ cmd'[p] = "getData"
      BY <1>0, <2>2 DEF Goto
    <3>2. Owes(p)'
      BY <2>1, <3>1 DEF Owes, Commanding
    <3>3. QED
      BY <1>3, <2>2, <3>2, PCNames
  <2>3. CASE MetadataDone(p, WithState("connection-error"), FALSE)
    <3>1. call' = call /\ published' = status' /\ Watch(p)
      BY <2>1, <2>3 DEF MetadataDone
    <3>2. QED
      BY <1>2, <2>1, <3>1
  <2>4. QED
    BY <1>8, <2>2, <2>3 DEF RefreshMetadata
<1>9. CASE MetadataRead(p)
  <2>1. p \in Monitors /\ pc[p] # "idle"
    BY <1>0, <1>9 DEF MetadataRead, Returning, NoStoring
  <2>2. call' = call /\ published' = status' /\ Watch(p)
    BY <1>9, <2>1 DEF MetadataRead, MetadataDone
  <2>3. QED
    BY <1>2, <2>1, <2>2
<1>10. CASE SendOnClosed(p)
  BY <1>4, <1>10 DEF SendOnClosed
<1>11. QED
  BY <1>4, <1>5, <1>6, <1>7, <1>8, <1>9, <1>10 DEF Either

\* A status that was not published is on its way.
LEMMA DebtInvKept ==
    ASSUME "StoreMetadata" \notin Ops
    PROVE  Base /\ DebtInv /\ [Next]_vars => DebtInv'
<1> SUFFICES ASSUME Base, DebtInv, [Next]_vars PROVE DebtInv'
  OBVIOUS
<1>1. CASE Next
  <2>1. ASSUME NEW g \in Monitors, Monitor(g) PROVE DebtInv'
    BY <2>1, MonitorKeepsDebts
  <2>2. ASSUME NEW c \in Clients, Client(c) \/ Caller(c) PROVE DebtInv'
    BY <2>2, ClientKeepsDebts
  <2>3. ASSUME NEW p \in Procs, Either(p) PROVE DebtInv'
    BY <2>3, EitherKeepsDebts
  <2>4. QED
    BY <1>1, <2>1, <2>2, <2>3, WorldKeepsDebts DEF Next
<1>2. CASE UNCHANGED vars
  BY <1>2 DEF vars, object, locals, DebtInv, NoStoring, Owes
<1>3. QED
  BY <1>1, <1>2

\* Once the service rests, the client has been told what GetStatus returns,
\* whatever the goroutines did and in whatever order (publishStatus,
\* keycard_context_v2.go; README.md:23).
THEOREM RestsPublished ==
    ASSUME "StoreMetadata" \notin Ops
    PROVE  Spec => []RestIsPublished
<1>1. Init => DebtInv
  <2>1. None # "StoreMetadata"
    BY SessionAssumption DEF Op
  <2>2. QED
    BY <2>1, ProcFacts DEF Init, DebtInv, NoStoring
<1>2. DebtInv => RestIsPublished
  <2> SUFFICES ASSUME DebtInv, Quiet PROVE published = status
    BY DEF RestIsPublished, AtRest
  <2>1. \A p \in Procs : ~Owes(p)
    BY DEF Quiet, Waiting, Owes, Commanding
  <2>2. QED
    BY <2>1 DEF DebtInv
<1>3. QED
  BY <1>1, <1>2, BaseHolds, DebtInvKept, PTL DEF Spec

-----------------------------------------------------------------------------
\* Every request has a goroutine that waits for the reply.
AllAwaited == \A i \in DOMAIN txq : txq[i].proc # None

\* The queue of awaited requests.
LEMMA AwaitedQueue ==
    ASSUME txq \in Seq(Requests)
    PROVE  /\ txq' = txq => (AllAwaited => AllAwaited')
           /\ txq' = Stale(txq) => (AllAwaited => AllAwaited')
           /\ txq' = Tail(txq) /\ txq # <<>> => (AllAwaited => AllAwaited')
           /\ \A p \in Procs, command \in Command :
                txq' = Append(txq, Request(p, command)) => (AllAwaited => AllAwaited')
<1>1. txq' = Stale(txq) => (AllAwaited => AllAwaited')
  BY StaleRequests DEF AllAwaited
<1>2. txq' = Tail(txq) /\ txq # <<>> => (AllAwaited => AllAwaited')
  <2>1. txq # <<>> => /\ \A i \in DOMAIN Tail(txq) : i + 1 \in DOMAIN txq /\ Tail(txq)[i] = txq[i + 1]
    OBVIOUS
  <2>2. QED
    BY <2>1 DEF AllAwaited
<1>3. ASSUME NEW p \in Procs, NEW command \in Command, txq' = Append(txq, Request(p, command)), AllAwaited
      PROVE  AllAwaited'
  <2>1. \A i \in DOMAIN txq' : (i \in DOMAIN txq /\ txq'[i] = txq[i]) \/ txq'[i] = Request(p, command)
    BY <1>3, RequestTypes
  <2>2. Request(p, command).proc # None
    BY ProcFacts DEF Request
  <2>3. QED
    BY <1>3, <2>1, <2>2 DEF AllAwaited
<1>4. QED
  BY <1>1, <1>2, <1>3 DEF AllAwaited

-----------------------------------------------------------------------------
\* Panics.  One client that makes its calls when the monitor waits, a card that
\* stays, and no Stop.

OneCalmClient ==
    /\ \A c, d \in Clients : c = d
    /\ Polite /\ MaxMoves = 0 /\ "Stop" \notin Ops
    /\ Lost = {}

\* Where a client is when it uses the connection, and when it has dropped it.
Talking == {"lock", "wait", "got", "refresh", "authorize", "load", "metadata"}
Forcing == {"force", "sending", "orphan", "forced"}
Dropping == InitCommands \cup {"reset"}

WorldCalm ==
    /\ ~dirty /\ moves = 0
    /\ ~ctxDone /\ ~released /\ forceScanC # "closed"
    /\ conn # None => link

RepliesCalm ==
    /\ AllAwaited
    /\ \A p \in Procs : res[p] # None => res[p].out # "scard"

\* A card that is announced for use has been read.
StatusCalm ==
    status.state \in {"ready", "authorized", "blocked-pin", "blocked-puk"} =>
        status.app # None /\ status.appst # None

\* While a client uses the connection the monitor waits, and what the client
\* has seen of the card stays.
ClientCalm(c) ==
    /\ pc[c] \in {"idle"} \cup Talking \cup Forcing
    /\ pc[c] \in Talking => conn # None
    /\ pc[c] \in Talking \cup {"force", "sending"} => \A g \in Monitors : Waiting(g)
    /\ pc[c] \in Forcing => cmd[c] \in Dropping
    /\ pc[c] \in Commanding /\ cmd[c] \in Dropping => call[c].op \in {"Initialize", "FactoryReset"}
    /\ pc[c] = "refresh" \/ (pc[c] \in Commanding /\ cmd[c] = "status") =>
         call[c].op \in Interacting
    /\ pc[c] = "load" => call[c].op = "LoadMnemonic"
    /\ pc[c] # "idle" /\ call[c].op \in Interacting \cup {"LoadMnemonic"} => status.app # None
    /\ pc[c] # "idle" /\ call[c].op = "LoadMnemonic" => status.appst # None

\* The monitor's own way through a connection.
Exchanging == {"lock", "wait", "got"}
Connecting == Exchanging \cup {"keycard", "refresh", "metadata"}
MonitorCalm(g) ==
    /\ pc[g] \in Connecting \cup {"idle", "detect", "connect", "readers", "blocked", "poll", "tick"}
    /\ pc[g] \in Connecting => conn # None
    /\ pc[g] \in Connecting \cup {"connect", "poll", "tick"} => slot[scan[g].active] \in Cards
    /\ pc[g] \in Exchanging =>
         cmd[g] \in {"select", "reselect", "status", "getData", "pair", "open"}
    /\ pc[g] \in Connecting /\ ~(pc[g] \in Exchanging /\ cmd[g] = "select") => status.app # None

CalmInv ==
    /\ ~panicked
    /\ WorldCalm
    /\ RepliesCalm
    /\ StatusCalm
    /\ \A c \in Clients : ClientCalm(c)
    /\ \A g \in Monitors : MonitorCalm(g)

\* Types, in the form the proofs below use them.
LEMMA CalmTypes ==
    ASSUME Base
    PROVE  /\ slot \in [Readers -> Cards \cup {None, Unplugged}] /\ Unplugged \notin Cards
           /\ scan \in [Monitors -> ScanRecord] /\ link \in BOOLEAN
           /\ forceScanC \in {None, "open", "closed"} /\ None \notin Procs
BY SessionAssumption, ProcFacts
   DEF Base, TypeInv, TypeOK, WorldTypeOK, ObjectTypeOK, LocalsTypeOK

\* What each RPC has checked, and the commands it sends.
LEMMA PermittedMeans ==
    ASSUME NEW op \in Op \ {"Stop"}, Permitted(op)
    PROVE  /\ conn # None
           /\ op \in Interacting \cup {"LoadMnemonic"} =>
                status.state \in {"ready", "authorized", "blocked-pin"}
           /\ op \in {"ExportLoginKeys", "ExportRecoverKeys"} => status.state = "authorized"
           /\ \A command \in CardCommands(op) :
                /\ command # "status"
                /\ command \in Dropping => op \in {"Initialize", "FactoryReset"}
<1>1. /\ conn # None
      /\ op \in Interacting \cup {"LoadMnemonic"} =>
                status.state \in {"ready", "authorized", "blocked-pin"}
      /\ op \in {"ExportLoginKeys", "ExportRecoverKeys"} => status.state = "authorized"
  BY DEF Op, Permitted, Connected, KeycardInitialized, KeycardReady, KeycardAuthorized,
         Interacting, Authorizing
<1>2. \A command \in CardCommands(op) :
                /\ command # "status"
                /\ command \in Dropping => op \in {"Initialize", "FactoryReset"}
  BY DEF Op, CardCommands, Dropping, InitCommands
<1>3. QED
  BY <1>1, <1>2

\* A step of a client leaves the monitor where it is.
LEMMA MonitorsStay ==
    ASSUME Base, CalmInv, UNCHANGED <<slot, scan>>,
           \A g \in Monitors : pc'[g] = pc[g] /\ cmd'[g] = cmd[g],
           \/ \A g \in Monitors : Waiting(g)
           \/ conn' = conn /\ status'.app = status.app
    PROVE  \A g \in Monitors : MonitorCalm(g)'
<1> SUFFICES ASSUME NEW g \in Monitors PROVE MonitorCalm(g)'
  OBVIOUS
<1>1. MonitorCalm(g)
  BY DEF CalmInv
<1>2. CASE Waiting(g)
  BY <1>1, <1>2 DEF MonitorCalm, Waiting, Connecting, Exchanging
<1>3. CASE conn' = conn /\ status'.app = status.app
  BY <1>1, <1>3 DEF MonitorCalm
<1>4. QED
  BY <1>2, <1>3

\* Replies are read or stay.
LEMMA RepliesStay ==
    ASSUME RepliesCalm, AllAwaited', \A p \in Procs : res'[p] \in {res[p], None}
    PROVE  RepliesCalm'
BY DEF RepliesCalm

\* A command is dropped only after a reset or an initialization.
LEMMA ForceMeans ==
    ASSUME CalmInv, NEW p \in Procs, NeedsForce(p)
    PROVE  cmd[p] \in Dropping
BY DEF CalmInv, RepliesCalm, NeedsForce, SCardError, Dropping

\* A call that is made, answered and over.
LEMMA ClientStaysCalm ==
    ASSUME OneCalmClient, Base, CalmInv, NEW c \in Clients, Client(c) \/ Caller(c)
    PROVE  CalmInv'
<1>0. /\ pc \in [Procs -> PCs] /\ cmd \in [Procs -> Command \cup {None}]
      /\ res \in [Procs -> Reply \cup {None}] /\ call \in [Clients -> CallRecord]
      /\ status \in Status /\ None \notin Cards \cup Op \cup Command \cup Reply \cup AppInfo \cup AppStatus
      /\ c \in Procs /\ Monitors \subseteq Procs /\ c \notin Monitors /\ ClientCommands
  BY BaseTypes, ProcFacts
<1>1. /\ ~panicked /\ WorldCalm /\ RepliesCalm /\ StatusCalm /\ ClientCalm(c)
      /\ \A d \in Clients : d = c
  BY DEF CalmInv, OneCalmClient
<1>2. ASSUME UNCHANGED <<world, forceScanC, txq, ctxDone, released, panicked, scan, conn, link>>,
             \A p \in Procs \ {c} : pc'[p] = pc[p] /\ cmd'[p] = cmd[p],
             \A p \in Procs : res'[p] \in {res[p], None},
             status'.app = status.app \/ \A g \in Monitors : Waiting(g),
             StatusCalm', ClientCalm(c)'
      PROVE  CalmInv'
  <2>1. \A g \in Monitors : MonitorCalm(g)'
    BY <1>0, <1>2, MonitorsStay DEF world
  <2>2. RepliesCalm'
    BY <1>1, <1>2, RepliesStay DEF RepliesCalm, AllAwaited
  <2>3. WorldCalm'
    BY <1>1, <1>2 DEF WorldCalm, world
  <2>4. QED
    BY <1>1, <1>2, <2>1, <2>2, <2>3 DEF CalmInv
<1>3. ASSUME NEW op \in Op, Call(c, op) PROVE CalmInv'
  <2>1. /\ op \in Op \ {"Stop"} /\ Permitted(op) /\ pc[c] = "idle"
        /\ \A g \in Monitors : Waiting(g)
    BY <1>3 DEF Call, OneCalmClient, Sensible, MayCall
  <2>2. status.state \in {"ready", "authorized", "blocked-pin"} =>
          status.app # None /\ status.appst # None
    BY <1>1 DEF StatusCalm
  <2>3. ~(op \in {"ExportLoginKeys", "ExportRecoverKeys"} /\ status.appst = None)
    BY <2>1, <2>2, PermittedMeans
  <2>4. PICK command \in CardCommands(op) : cmd' = [cmd EXCEPT ![c] = command]
    BY <1>3, <2>3 DEF Call
  <2>5. /\ call' = [call EXCEPT ![c] = [op |-> op, good |-> FALSE, left |-> Exports(op),
                                        made |-> @.made + 1]]
        /\ pc' = [pc EXCEPT ![c] = "lock"]
        /\ \/ op = "FactoryReset" /\ status' = Reset("factory-resetting")
           \/ op # "FactoryReset" /\ status' = status
        /\ UNCHANGED <<world, conn, link, forceScanC, mutex, txq, stored, life, res, scan>>
    BY <1>3, <2>3 DEF Call, Goto, Publish
  <2>6. /\ pc'[c] = "lock" /\ cmd'[c] = command /\ call'[c].op = op
        /\ \A p \in Procs \ {c} : pc'[p] = pc[p] /\ cmd'[p] = cmd[p]
    BY <1>0, <2>4, <2>5
  <2>7. StatusCalm'
    BY <1>1, <2>5 DEF StatusCalm, Reset
  <2>8. \A g \in Monitors : Waiting(g)'
    BY <1>0, <2>1, <2>6 DEF Waiting
  <2>9. ClientCalm(c)'
    <3>1. conn' # None /\ (command # "status") /\ (command \in Dropping => op \in {"Initialize", "FactoryReset"})
      BY <2>1, <2>5, PermittedMeans
    <3>2. op \in Interacting \cup {"LoadMnemonic"} => status'.app # None /\ status'.appst # None
      BY <2>1, <2>2, <2>5, PermittedMeans DEF Interacting, Authorizing
    <3>3. QED
      BY <2>6, <2>8, <3>1, <3>2 DEF ClientCalm, Talking, Forcing, Commanding
  <2>10. QED
    BY <1>2, <2>1, <2>5, <2>6, <2>7, <2>9 DEF life
<1>4. ASSUME Stop(c) PROVE FALSE
  BY <1>4 DEF Stop, MayCall, OneCalmClient
<1>5. CASE CommandDone(c)
  <2>1. pc[c] \in {"got", "forced"} /\ cmd[c] # "status"
    BY <1>5 DEF CommandDone, Returning
  <2>2. Epilogue(c) \in {"refresh", "load", "lock", "idle", "metadata"}
    BY DEF Epilogue
  <2>3. /\ pc' = [pc EXCEPT ![c] = Epilogue(c)]
        /\ cmd' = [cmd EXCEPT ![c] = IF NextExport(c) THEN @ ELSE None]
        /\ res' = [res EXCEPT ![c] = None]
        /\ UNCHANGED <<world, conn, link, status, forceScanC, txq, life, scan>>
    BY <1>5 DEF CommandDone, Goto, Unlock
  <2>4. /\ pc'[c] = Epilogue(c) /\ cmd'[c] = IF NextExport(c) THEN cmd[c] ELSE None
        /\ \A p \in Procs \ {c} : pc'[p] = pc[p] /\ cmd'[p] = cmd[p]
        /\ \A p \in Procs : res'[p] \in {res[p], None}
    BY <1>0, <2>3
  <2>5. Epilogue(c) # "idle" => call'[c].op = call[c].op
    BY <1>0, <1>5, <2>2 DEF CommandDone, CallRecord
  <2>6. CASE Epilogue(c) = "idle"
    <3>1. ClientCalm(c)'
      BY <2>4, <2>6 DEF ClientCalm, Talking, Forcing, Commanding
    <3>2. QED
      BY <1>1, <1>2, <2>3, <2>4, <3>1 DEF life, StatusCalm
  <2>7. CASE Epilogue(c) # "idle"
    <3>1. pc[c] = "got"
      <4>1. pc[c] = "forced" => cmd[c] \in Dropping /\ call[c].op \in {"Initialize", "FactoryReset"}
        BY <1>1 DEF ClientCalm, Forcing, Commanding
      <4>2. "export" \notin Dropping
        BY DEF Dropping, InitCommands
      <4>3. pc[c] # "forced"
        BY <2>7, <4>1, <4>2 DEF Epilogue, NextExport, Interacting, Authorizing
      <4>4. QED
        BY <2>1, <4>3
    <3>2. conn' # None /\ \A g \in Monitors : Waiting(g)'
      BY <1>0, <1>1, <2>3, <2>4, <3>1 DEF ClientCalm, Talking, Waiting
    <3>3. /\ Epilogue(c) = "refresh" => call[c].op \in Interacting
          /\ Epilogue(c) = "load" => call[c].op = "LoadMnemonic"
          /\ Epilogue(c) = "lock" => NextExport(c)
      BY DEF Epilogue
    <3>4. NextExport(c) => cmd[c] \notin Dropping
      BY DEF NextExport, Dropping, InitCommands
    <3>5. None \notin Dropping /\ None # "status"
      BY <1>0 DEF Command, Dropping, ChannelCommands
    <3>6. ClientCalm(c)'
      BY <1>1, <2>1, <2>2, <2>3, <2>4, <2>5, <2>7, <3>1, <3>2, <3>3, <3>4, <3>5
         DEF ClientCalm, Talking, Forcing, Commanding
    <3>7. QED
      BY <1>1, <1>2, <2>3, <2>4, <3>6 DEF life, StatusCalm
  <2>8. QED
    BY <2>6, <2>7
<1>6. CASE OnAuthorizeInteractions(c)
  <2>1. /\ pc' = [pc EXCEPT ![c] = "idle"]
        /\ status' \in {status, WithState("authorized")} /\ (status' # status => status.state = "ready")
        /\ UNCHANGED <<world, conn, link, forceScanC, txq, life, cmd, res, scan>>
    BY <1>6 DEF OnAuthorizeInteractions, Publish, Goto
  <2>2. pc'[c] = "idle" /\ \A p \in Procs \ {c} : pc'[p] = pc[p]
    BY <1>0, <2>1
  <2>3. StatusCalm' /\ status'.app = status.app
    BY <1>0, <1>1, <2>1 DEF StatusCalm, WithState, Status
  <2>4. ClientCalm(c)'
    BY <2>2 DEF ClientCalm, Talking, Forcing, Commanding
  <2>5. QED
    BY <1>2, <2>1, <2>2, <2>3, <2>4 DEF life
<1>7. CASE MnemonicLoaded(c)
  <2>1. status.app # None /\ status.appst # None
    BY <1>1, <1>7 DEF MnemonicLoaded, ClientCalm, Interacting
  <2>2. /\ pc' = [pc EXCEPT ![c] = "idle"]
        /\ status' = [status EXCEPT !.appst = [@ EXCEPT !.keys = TRUE]]
        /\ UNCHANGED <<world, conn, link, forceScanC, txq, life, cmd, res, scan>>
    BY <1>7, <2>1 DEF MnemonicLoaded, Publish, Goto
  <2>3. pc'[c] = "idle" /\ \A p \in Procs \ {c} : pc'[p] = pc[p]
    BY <1>0, <2>2
  <2>4. status'.app = status.app /\ status'.state = status.state /\ status'.appst \in AppStatus
    BY <1>0, <2>1, <2>2 DEF Status, AppStatus
  <2>5. StatusCalm'
    BY <1>0, <2>1, <2>4 DEF StatusCalm
  <2>6. ClientCalm(c)'
    BY <2>3 DEF ClientCalm, Talking, Forcing, Commanding
  <2>7. QED
    BY <1>2, <2>2, <2>3, <2>4, <2>5, <2>6 DEF life
<1>8. ASSUME CancelContext(c) \/ Shutdown(c) PROVE FALSE
  BY <1>1, <1>8 DEF CancelContext, Shutdown, ClientCalm, Talking, Forcing
<1>9. QED
  BY <1>3, <1>4, <1>5, <1>6, <1>7, <1>8 DEF Client, Caller

\* What a client shares with the monitor.
LEMMA ClientCommandStaysCalm ==
    ASSUME OneCalmClient, Base, CalmInv, NEW c \in Clients, Either(c)
    PROVE  CalmInv'
<1>0. /\ pc \in [Procs -> PCs] /\ cmd \in [Procs -> Command \cup {None}]
      /\ res \in [Procs -> Reply \cup {None}] /\ call \in [Clients -> CallRecord]
      /\ status \in Status /\ None \notin Cards \cup Op \cup Command \cup Reply \cup AppInfo \cup AppStatus
      /\ txq \in Seq(Requests)
      /\ c \in Procs /\ Monitors \subseteq Procs /\ c \notin Monitors /\ ClientCommands
  BY BaseTypes, ProcFacts
<1>1. /\ ~panicked /\ WorldCalm /\ RepliesCalm /\ StatusCalm /\ ClientCalm(c)
      /\ \A d \in Clients : d = c
  BY DEF CalmInv, OneCalmClient
<1>2. ASSUME UNCHANGED <<world, forceScanC, ctxDone, released, panicked, scan>>,
             conn' # None => conn' = conn /\ link' = link,
             AllAwaited => AllAwaited',
             \A p \in Procs \ {c} : pc'[p] = pc[p] /\ cmd'[p] = cmd[p],
             \A p \in Procs : res'[p] \in {res[p], None},
             (conn' = conn /\ status'.app = status.app) \/ \A g \in Monitors : Waiting(g),
             StatusCalm', ClientCalm(c)'
      PROVE  CalmInv'
  <2>1. \A g \in Monitors : MonitorCalm(g)'
    BY <1>0, <1>2, MonitorsStay DEF world
  <2>2. RepliesCalm'
    BY <1>1, <1>2, RepliesStay DEF RepliesCalm
  <2>3. WorldCalm'
    BY <1>1, <1>2 DEF WorldCalm, world
  <2>4. QED
    BY <1>1, <1>2, <2>1, <2>2, <2>3 DEF CalmInv
<1>3. ASSUME pc[c] \in Talking \cup {"force", "sending"},
             \A p \in Procs \ {c} : pc'[p] = pc[p]
      PROVE  (\A g \in Monitors : Waiting(g)) /\ \A g \in Monitors : Waiting(g)'
  BY <1>0, <1>1, <1>3 DEF ClientCalm, Waiting
<1>4. CASE Lock(c)
  <2>1. pc[c] = "lock" /\ conn # None
    BY <1>1, <1>4 DEF Lock, ClientCalm, Talking
  <2>2. /\ pc' = [pc EXCEPT ![c] = "wait"] /\ txq' = Append(txq, Request(c, cmd[c]))
        /\ UNCHANGED <<world, conn, link, status, forceScanC, life, cmd, res, call, scan>>
    BY <1>4, <2>1 DEF Lock, Goto
  <2>3. pc'[c] = "wait" /\ \A p \in Procs \ {c} : pc'[p] = pc[p]
    BY <1>0, <2>2
  <2>4. cmd[c] \in Command
    <3>1. LockedWhenLocking
      BY BaseTypes
    <3>2. QED
      BY <1>0, <2>1, <3>1, CommandNames DEF LockedWhenLocking
  <2>5. AllAwaited => AllAwaited'
    BY <1>0, <2>2, <2>4, AwaitedQueue
  <2>6. ClientCalm(c)'
    BY <1>1, <1>3, <2>1, <2>2, <2>3 DEF ClientCalm, Talking, Forcing, Commanding
  <2>7. QED
    BY <1>1, <1>2, <2>2, <2>3, <2>5, <2>6 DEF life, StatusCalm
<1>5. ASSUME TransmitDone(c) PROVE FALSE
  BY <1>1, <1>5 DEF TransmitDone, WorldCalm
<1>6. CASE RefreshStatus(c)
  <2>1. /\ pc[c] = "refresh" /\ UNCHANGED <<world, conn, link, status, forceScanC, txq, life, res, call, scan>>
        /\ \/ pc' = [pc EXCEPT ![c] = "lock"] /\ cmd' = [cmd EXCEPT ![c] = "status"]
           \/ pc' = [pc EXCEPT ![c] = "authorize"] /\ cmd' = cmd
    BY <1>0, <1>6 DEF RefreshStatus, Goto
  <2>2. /\ \A p \in Procs \ {c} : pc'[p] = pc[p] /\ cmd'[p] = cmd[p]
        /\ \/ pc'[c] = "lock" /\ cmd'[c] = "status"
           \/ pc'[c] = "authorize"
    BY <1>0, <2>1
  <2>3. "status" \notin Dropping
    BY DEF Dropping, InitCommands
  <2>4. ClientCalm(c)'
    BY <1>1, <1>3, <2>1, <2>2, <2>3 DEF ClientCalm, Talking, Forcing, Commanding
  <2>5. QED
    BY <1>1, <1>2, <2>1, <2>2, <2>4 DEF life, StatusCalm, AllAwaited
<1>7. CASE StatusRefreshed(c)
  <2>1. /\ pc[c] = "got" /\ cmd[c] = "status"
        /\ UNCHANGED <<world, conn, link, forceScanC, txq, life, call, scan>>
        /\ pc' = [pc EXCEPT ![c] = "authorize"]
        /\ cmd' = [cmd EXCEPT ![c] = None] /\ res' = [res EXCEPT ![c] = None]
    BY <1>0, <1>7 DEF StatusRefreshed, Goto, Unlock
  <2>2. /\ \A p \in Procs \ {c} : pc'[p] = pc[p] /\ cmd'[p] = cmd[p]
        /\ \A p \in Procs : res'[p] \in {res[p], None}
        /\ pc'[c] = "authorize"
    BY <1>0, <2>1
  <2>3. /\ call[c].op \in Interacting /\ status.app # None /\ conn # None
        /\ call[c].op # "LoadMnemonic"
    BY <1>1, <2>1 DEF ClientCalm, Commanding, Talking, Interacting, Authorizing
  <2>4. status'.app = status.app /\ StatusCalm'
    <3>1. CASE Failure(res[c])
      BY <1>0, <1>7, <3>1 DEF StatusRefreshed, Status, StatusCalm
    <3>2. CASE ~Failure(res[c])
      <4>1. /\ AppStatusOf(res[c]) \in AppStatus /\ res[c] \in Reply
        BY <1>0, <3>2 DEF Failure, AppStatusOf, AppStatus, Reply, CardState
      <4>2. status' = [status EXCEPT !.appst = AppStatusOf(res[c]), !.state = StateOfCard(res[c])]
        BY <1>7, <3>2 DEF StatusRefreshed
      <4>3. status'.app = status.app /\ status'.appst = AppStatusOf(res[c])
        BY <1>0, <4>2 DEF Status
      <4>4. AppStatusOf(res[c]) # None
        BY <1>0, <4>1
      <4>5. QED
        BY <2>3, <4>3, <4>4 DEF StatusCalm
    <3>3. QED
      BY <3>1, <3>2
  <2>5. ClientCalm(c)'
    BY <1>1, <1>3, <2>1, <2>2, <2>3, <2>4 DEF ClientCalm, Talking, Forcing, Commanding
  <2>6. QED
    BY <1>1, <1>2, <2>1, <2>2, <2>4, <2>5 DEF life, AllAwaited
<1>8. CASE RefreshMetadata(c) /\ Goto(c, "lock")
  <2>1. /\ pc[c] = "metadata" /\ pc' = [pc EXCEPT ![c] = "lock"]
        /\ UNCHANGED <<world, conn, link, forceScanC, txq, life, res>>
        /\ cmd' = [cmd EXCEPT ![c] = "getData"] /\ UNCHANGED <<status, call, scan>>
    <3>1. pc'[c] = "lock"
      BY <1>0, <1>8 DEF Goto
    <3>2. ~MetadataDone(c, WithState("connection-error"), FALSE)
      BY <1>0, <3>1 DEF MetadataDone, Goto
    <3>3. QED
      BY <1>8, <3>2 DEF RefreshMetadata, Goto
  <2>2. /\ \A p \in Procs \ {c} : pc'[p] = pc[p] /\ cmd'[p] = cmd[p]
        /\ pc'[c] = "lock" /\ cmd'[c] = "getData"
    BY <1>0, <2>1
  <2>3. "getData" \notin Dropping
    BY DEF Dropping, InitCommands
  <2>4. ClientCalm(c)'
    BY <1>1, <1>3, <2>1, <2>2, <2>3 DEF ClientCalm, Talking, Forcing, Commanding
  <2>5. QED
    BY <1>1, <1>2, <2>1, <2>2, <2>4 DEF life, StatusCalm, AllAwaited
\* The metadata are read, or not; the call is over.
<1>9. ASSUME NEW s, NEW fine, MetadataDone(c, s, fine),
             s.app = status.app, s.appst = status.appst, s.state \in {status.state, "connection-error"},
             UNCHANGED <<world, conn, link, forceScanC, txq, life>>,
             \A p \in Procs \ {c} : cmd'[p] = cmd[p],
             \A p \in Procs : res'[p] \in {res[p], None}
      PROVE  CalmInv'
  <2>1. /\ status' = s /\ scan' = scan /\ pc' = [pc EXCEPT ![c] = "idle"]
    BY <1>0, <1>9 DEF MetadataDone, Goto
  <2>2. pc'[c] = "idle" /\ \A p \in Procs \ {c} : pc'[p] = pc[p]
    BY <1>0, <2>1
  <2>3. StatusCalm'
    BY <1>1, <1>9, <2>1 DEF StatusCalm
  <2>4. ClientCalm(c)'
    BY <2>2 DEF ClientCalm, Talking, Forcing, Commanding
  <2>5. QED
    BY <1>1, <1>2, <1>9, <2>1, <2>2, <2>3, <2>4 DEF life, AllAwaited
<1>10. CASE RefreshMetadata(c) /\ ~Goto(c, "lock")
  <2>1. /\ MetadataDone(c, WithState("connection-error"), FALSE)
        /\ UNCHANGED <<world, conn, link, forceScanC, txq, life, cmd, res>>
    BY <1>10 DEF RefreshMetadata
  <2>2. LET s == WithState("connection-error") IN
          s.app = status.app /\ s.appst = status.appst /\ s.state = "connection-error"
    BY <1>0 DEF WithState, Status
  <2>3. QED
    BY <1>9, <2>1, <2>2
<1>11. CASE MetadataRead(c)
  <2>1. \E s, fine : /\ MetadataDone(c, s, fine)
                     /\ s.app = status.app /\ s.appst = status.appst
                     /\ s.state \in {status.state, "connection-error"}
    <3>1. LET s == WithState("connection-error") IN
            s.app = status.app /\ s.appst = status.appst /\ s.state = "connection-error"
      BY <1>0 DEF WithState, Status
    <3>2. \A m : LET s == [status EXCEPT !.meta = m] IN
            s.app = status.app /\ s.appst = status.appst /\ s.state = status.state
      BY <1>0 DEF Status
    <3>3. CASE Failure(res[c])
      BY <1>11, <3>1, <3>3 DEF MetadataRead
    <3>4. CASE ~Failure(res[c])
      <4>1. \E m : MetadataDone(c, [status EXCEPT !.meta = m], TRUE)
        BY <1>11, <3>4 DEF MetadataRead
      <4>2. QED
        BY <3>2, <4>1
    <3>5. QED
      BY <3>3, <3>4
  <2>2. /\ UNCHANGED <<world, conn, link, forceScanC, txq, life>>
        /\ \A p \in Procs \ {c} : cmd'[p] = cmd[p]
        /\ \A p \in Procs : res'[p] \in {res[p], None}
    BY <1>0, <1>11 DEF MetadataRead, Unlock
  <2>3. QED
    BY <1>9, <2>1, <2>2
<1>12. CASE DropConnection(c)
  <2>1. /\ pc[c] = "got" /\ cmd[c] \in Dropping
        /\ conn' = None /\ link' = FALSE /\ txq' = Stale(txq) /\ pc' = [pc EXCEPT ![c] = "force"]
        /\ UNCHANGED <<world, status, forceScanC, life, cmd, res, call, scan>>
    BY <1>0, <1>12, ForceMeans DEF DropConnection, Goto
  <2>2. pc'[c] = "force" /\ \A p \in Procs \ {c} : pc'[p] = pc[p]
    BY <1>0, <2>1
  <2>3. pc[c] \in Talking /\ pc[c] \in Commanding
    BY <2>1 DEF Talking, Commanding
  <2>4. call[c].op \in {"Initialize", "FactoryReset"} /\ cmd[c] # "status"
    BY <1>1, <2>1, <2>3 DEF ClientCalm, Dropping, InitCommands
  <2>5. ClientCalm(c)'
    BY <1>1, <1>3, <2>1, <2>2, <2>3, <2>4 DEF ClientCalm, Talking, Forcing, Commanding,
       Interacting, Authorizing
  <2>6. AllAwaited => AllAwaited'
    BY <1>0, <2>1, AwaitedQueue
  <2>7. QED
    BY <1>1, <1>2, <1>3, <2>1, <2>2, <2>3, <2>5, <2>6 DEF life, StatusCalm
<1>13. CASE ForceScan(c)
  <2>1. pc[c] = "force" /\ forceScanC # "closed"
    BY <1>1, <1>13 DEF ForceScan, WorldCalm
  <2>2. /\ UNCHANGED <<world, object, life, cmd, res, call, scan>>
        /\ \/ pc' = [pc EXCEPT ![c] = "sending"]
           \/ pc' = [pc EXCEPT ![c] = "orphan"]
    BY <1>13, <2>1 DEF ForceScan, Goto
  <2>3. pc'[c] \in {"sending", "orphan"} /\ \A p \in Procs \ {c} : pc'[p] = pc[p]
    BY <1>0, <2>2
  <2>4. ClientCalm(c)'
    BY <1>1, <1>3, <2>1, <2>2, <2>3 DEF ClientCalm, Talking, Forcing, Commanding, object
  <2>5. QED
    BY <1>1, <1>2, <2>2, <2>3, <2>4 DEF life, object, StatusCalm, AllAwaited
<1>14. ASSUME SendOnClosed(c) PROVE FALSE
  BY <1>1, <1>14 DEF SendOnClosed, WorldCalm
<1>15. QED
  BY <1>4, <1>5, <1>6, <1>7, <1>8, <1>10, <1>11, <1>12, <1>13, <1>14 DEF Either

\* While the monitor is at work the client has no use for the connection.
LEMMA ClientsStayCalm ==
    ASSUME CalmInv, call' = call, \A c \in Clients : pc'[c] = pc[c] /\ cmd'[c] = cmd[c],
           \/ \E g \in Monitors : ~Waiting(g)
           \/ /\ conn' = conn /\ status' = status
              /\ \A g \in Monitors : Waiting(g)'
    PROVE  \A c \in Clients : ClientCalm(c)'
<1> SUFFICES ASSUME NEW c \in Clients PROVE ClientCalm(c)'
  OBVIOUS
<1>1. ClientCalm(c)
  BY DEF CalmInv
<1>2. CASE \E g \in Monitors : ~Waiting(g)
  <2>1. pc[c] \in {"idle", "orphan", "forced"}
    BY <1>1, <1>2 DEF ClientCalm, Talking, Forcing
  <2>2. pc[c] # "idle" => cmd[c] \in Dropping /\ call[c].op \in {"Initialize", "FactoryReset"}
    BY <1>1, <2>1 DEF ClientCalm, Forcing, Commanding
  <2>3. "status" \notin Dropping
    BY DEF Dropping, InitCommands
  <2>4. QED
    BY <2>1, <2>2, <2>3 DEF ClientCalm, Talking, Forcing, Commanding, Interacting, Authorizing
<1>3. CASE /\ conn' = conn /\ status' = status
           /\ \A g \in Monitors : Waiting(g)'
  BY <1>1, <1>3 DEF ClientCalm
<1>4. QED
  BY <1>2, <1>3

\* One monitor runs, and it may name its successor.
LEMMA OneCalmMonitor ==
    ASSUME Base, NEW g \in Monitors, pc[g] # "idle", slot' = slot
    PROVE  /\ \A where : Goto(g, where) /\ MonitorCalm(g)' =>
                /\ \A h \in Monitors : MonitorCalm(h)'
                /\ \A c \in Clients : pc'[c] = pc[c]
           /\ \A where \in {"poll", "detect"}, next \in ScanRecord :
                HandOver(g, where, next) /\ (where = "poll" => slot[next.active] \in Cards) =>
                /\ \A h \in Monitors : MonitorCalm(h)'
                /\ \A c \in Clients : pc'[c] = pc[c]
<1>0. /\ pc \in [Procs -> PCs] /\ Monitors \subseteq Procs /\ Clients \subseteq Procs
      /\ \A c \in Clients : c \notin Monitors
      /\ scan \in [Monitors -> ScanRecord]
      /\ \A h \in Monitors \ {g} : pc[h] = "idle"
  BY BaseTypes, CalmTypes, ProcFacts
<1>1. \A h \in Monitors : pc'[h] = "idle" => MonitorCalm(h)'
  BY DEF MonitorCalm, Connecting, Exchanging
<1>2. ASSUME NEW where, Goto(g, where), MonitorCalm(g)'
      PROVE  /\ \A h \in Monitors : MonitorCalm(h)'
             /\ \A c \in Clients : pc'[c] = pc[c]
  <2>1. \A p \in Procs \ {g} : pc'[p] = pc[p]
    BY <1>0, <1>2 DEF Goto
  <2>2. QED
    BY <1>0, <1>1, <1>2, <2>1
<1>3. ASSUME NEW where \in {"poll", "detect"}, NEW next \in ScanRecord,
             HandOver(g, where, next), where = "poll" => slot[next.active] \in Cards
      PROVE  /\ \A h \in Monitors : MonitorCalm(h)'
             /\ \A c \in Clients : pc'[c] = pc[c]
  <2>1. PICK h \in Monitors :
          /\ pc[h] = "idle" /\ h # g
          /\ pc' = [pc EXCEPT ![g] = "idle", ![h] = where]
          /\ scan' = [scan EXCEPT ![g] = [active |-> None, known |-> {}], ![h] = next]
    BY <1>3 DEF HandOver
  <2>2. /\ pc'[h] = where /\ scan'[h] = next
        /\ \A p \in Procs \ {g, h} : pc'[p] = pc[p]
        /\ pc'[g] = "idle"
    BY <1>0, <2>1
  <2>3. MonitorCalm(h)'
    BY <1>3, <2>2 DEF MonitorCalm, Connecting, Exchanging
  <2>4. QED
    BY <1>0, <1>1, <2>2, <2>3
<1>4. QED
  BY <1>2, <1>3

\* A monitor at work takes a step.
LEMMA WorkStaysCalm ==
    ASSUME Base, CalmInv, NEW g \in Monitors, ~Waiting(g),
           UNCHANGED <<slot, moves, ctxDone, released, panicked, call>>, ~dirty',
           \A c \in Clients : pc'[c] = pc[c] /\ cmd'[c] = cmd[c],
           \A h \in Monitors : MonitorCalm(h)',
           \A p \in Procs : res'[p] \in {res[p], None},
           AllAwaited => AllAwaited', forceScanC' \in {forceScanC, "open"},
           conn' # None => link' = TRUE \/ (conn' = conn /\ link' = link), StatusCalm'
    PROVE  CalmInv'
<1>1. RepliesCalm'
  BY RepliesStay DEF CalmInv, RepliesCalm
<1>2. WorldCalm'
  BY DEF CalmInv, WorldCalm
<1>3. QED
  BY <1>1, <1>2, ClientsStayCalm DEF CalmInv

\* A monitor that returns to watching its card.
LEMMA WatchCalm ==
    ASSUME Base, CalmInv, NEW g \in Monitors, pc[g] \in Connecting, slot' = slot, Watch(g)
    PROVE  /\ \A h \in Monitors : MonitorCalm(h)'
           /\ \A c \in Clients : pc'[c] = pc[c]
<1>1. slot[scan[g].active] \in Cards /\ pc[g] # "idle"
  BY DEF CalmInv, MonitorCalm, Connecting, Exchanging
<1>2. scan[g] \in ScanRecord
  BY CalmTypes
<1>3. [active |-> scan[g].active, known |-> {}] \in ScanRecord
  BY <1>2, RecordTypes
<1>4. HandOver(g, "poll", [active |-> scan[g].active, known |-> {}])
  BY DEF Watch
<1>5. QED
  BY <1>1, <1>3, <1>4, OneCalmMonitor

\* Statuses that announce no usable card.
LEMMA TroubleIsCalm ==
    ASSUME status \in Status, NEW x \in State \ {"ready", "authorized", "blocked-pin", "blocked-puk"}
    PROVE  /\ status' = WithState(x) => StatusCalm'
           /\ status' = Reset(x) => StatusCalm'
BY DEF WithState, Reset, StatusCalm, Status

\* The monitor goes on with its connection.
LEMMA ConnectionStaysCalm ==
    ASSUME Base, CalmInv, NEW g \in Monitors, pc[g] \in Connecting, NEW where, Goto(g, where),
           UNCHANGED <<world, conn, link, forceScanC, life, call, scan>>,
           \A p \in Procs : res'[p] \in {res[p], None},
           \A c \in Clients : cmd'[c] = cmd[c],
           AllAwaited => AllAwaited',
           where \in {"lock", "wait"} =>
             cmd'[g] \in {"reselect", "status", "getData", "pair", "open"},
           where \in {"lock", "wait", "refresh", "metadata"},
           status'.app # None, StatusCalm'
    PROVE  CalmInv'
<1>1. /\ ~Waiting(g) /\ pc[g] # "idle" /\ conn # None /\ slot[scan[g].active] \in Cards
      /\ pc \in [Procs -> PCs] /\ g \in Procs
  BY BaseTypes, ProcFacts DEF CalmInv, Waiting, Connecting, Exchanging, MonitorCalm
<1>2. pc'[g] = where
  BY <1>1 DEF Goto
<1>3. MonitorCalm(g)'
  BY <1>1, <1>2 DEF MonitorCalm, Connecting, Exchanging, world
<1>4. /\ \A h \in Monitors : MonitorCalm(h)'
      /\ \A c \in Clients : pc'[c] = pc[c]
  BY <1>1, <1>3, OneCalmMonitor DEF world
<1>5. ~dirty'
  BY DEF CalmInv, WorldCalm, world
<1>6. QED
  BY <1>1, <1>4, <1>5, WorkStaysCalm DEF life, world

\* The monitor goes back to watching.
LEMMA WatchingStaysCalm ==
    ASSUME Base, CalmInv, NEW g \in Monitors, pc[g] \in Connecting, Watch(g),
           UNCHANGED <<world, conn, link, forceScanC, life, call>>,
           \A p \in Procs : res'[p] \in {res[p], None},
           \A c \in Clients : cmd'[c] = cmd[c],
           AllAwaited => AllAwaited', StatusCalm'
    PROVE  CalmInv'
<1>1. ~Waiting(g) /\ slot' = slot
  BY DEF Waiting, Connecting, Exchanging, world
<1>2. /\ \A h \in Monitors : MonitorCalm(h)'
      /\ \A c \in Clients : pc'[c] = pc[c]
  BY <1>1, WatchCalm
<1>3. ~dirty'
  BY DEF CalmInv, WorldCalm, world
<1>4. QED
  BY <1>1, <1>2, <1>3, WorkStaysCalm DEF life, world

\* The monitor's steps.
LEMMA MonitorStaysCalm ==
    ASSUME OneCalmClient, Base, CalmInv, NEW g \in Monitors, Monitor(g)
    PROVE  CalmInv'
<1>0. /\ pc \in [Procs -> PCs] /\ cmd \in [Procs -> Command \cup {None}]
      /\ res \in [Procs -> Reply \cup {None}] /\ call \in [Clients -> CallRecord]
      /\ status \in Status /\ None \notin Cards \cup Op \cup Command \cup Reply \cup AppInfo \cup AppStatus
      /\ txq \in Seq(Requests) /\ conn \in Cards \cup {None}
      /\ Monitors \subseteq Procs /\ Clients \subseteq Procs /\ \A c \in Clients : c \notin Monitors
  BY BaseTypes, ProcFacts
<1>1. /\ ~panicked /\ WorldCalm /\ RepliesCalm /\ StatusCalm /\ MonitorCalm(g)
      /\ scan \in [Monitors -> ScanRecord] /\ scan[g] \in ScanRecord
      /\ slot \in [Readers -> Cards \cup {None, Unplugged}] /\ Unplugged \notin Cards
  BY CalmTypes DEF CalmInv
<1>2. /\ ~released /\ ~ctxDone /\ ~dirty /\ forceScanC # "closed"
  BY <1>1 DEF WorldCalm
<1>3. CASE Detect(g)
  <2>1. /\ pc[g] = "detect" /\ ~Waiting(g)
        /\ UNCHANGED <<slot, moves, life, cmd, res, call>>
    BY <1>3 DEF Detect, Waiting
  <2>2. /\ forceScanC' \in {forceScanC, "open"} /\ ~dirty' /\ StatusCalm'
        /\ AllAwaited => AllAwaited'
        /\ (conn' = conn /\ link' = link) \/ conn' = None
    <3>1. StatusCalm'
      BY <1>0, <1>1, <1>3, TroubleIsCalm, StateNames DEF Detect, Publish, StatusCalm
    <3>2. AllAwaited => AllAwaited'
      <4>1. txq' = txq \/ txq' = Stale(txq)
        BY <1>3 DEF Detect
      <4>2. QED
        BY <1>0, <4>1, AwaitedQueue DEF AllAwaited
    <3>3. /\ forceScanC' \in {forceScanC, "open"} /\ ~dirty'
          /\ (conn' = conn /\ link' = link) \/ conn' = None
      BY <1>2, <1>3 DEF Detect
    <3>4. QED
      BY <3>1, <3>2, <3>3
  <2>3. \A p \in Procs : pc[p] # "sending"
    <3>1. \A c \in Clients : pc[c] # "sending"
      BY <2>1 DEF CalmInv, ClientCalm
    <3>2. \A h \in Monitors : pc[h] # "sending"
      BY DEF CalmInv, MonitorCalm, Connecting, Exchanging
    <3>3. QED
      BY <3>1, <3>2, ProcFacts
  <2>4. /\ \A h \in Monitors : MonitorCalm(h)'
        /\ \A c \in Clients : pc'[c] = pc[c]
    <3>1. \E where \in {"idle", "readers", "connect"} :
            Goto(g, where) /\ (where = "connect" => slot'[scan'[g].active] \in Cards)
      <4>1. CASE ListingFails
        BY <1>3, <4>1 DEF Detect
      <4>2. CASE ~ListingFails /\ Listed = {}
        BY <1>3, <4>2 DEF Detect
      <4>3. CASE ~ListingFails /\ Listed # {}
        <5>1. PICK where \in {"readers", "connect"} :
                /\ where = "connect" <=> WithCard # {}
                /\ pc' = [p \in Procs |-> IF p = g THEN where
                                          ELSE IF pc[p] = "sending" THEN "orphan"
                                          ELSE pc[p]]
          BY <1>3, <4>3 DEF Detect
        <5>2. Goto(g, where)
          BY <1>0, <2>3, <5>1 DEF Goto
        <5>3. ASSUME where = "connect" PROVE slot'[scan'[g].active] \in Cards
          <6>1. PICK r \in WithCard : scan' = [scan EXCEPT ![g] = [active |-> r, known |-> Listed]]
            BY <1>3, <4>3, <5>1, <5>3 DEF Detect
          <6>2. scan'[g].active = r
            BY <1>1, <6>1
          <6>3. slot[r] \in Cards
            BY <1>1, <6>1 DEF WithCard, Listed
          <6>4. QED
            BY <2>1, <6>2, <6>3
        <5>4. QED
          BY <5>2, <5>3
      <4>4. QED
        BY <4>1, <4>2, <4>3
    <3>2. PICK where \in {"idle", "readers", "connect"} :
            Goto(g, where) /\ (where = "connect" => slot'[scan'[g].active] \in Cards)
      BY <3>1
    <3>3. pc'[g] = where
      BY <1>0, <3>2 DEF Goto
    <3>4. MonitorCalm(g)'
      BY <3>2, <3>3 DEF MonitorCalm, Connecting, Exchanging
    <3>5. QED
      BY <2>1, <3>2, <3>4, OneCalmMonitor
  <2>5. QED
    BY <2>1, <2>2, <2>4, WorkStaysCalm DEF life
<1>4. CASE ConnectCard(g)
  <2>1. /\ pc[g] = "connect" /\ ~Waiting(g)
        /\ UNCHANGED <<world, forceScanC, txq, life, res, call, scan>>
        /\ slot[scan[g].active] \in Cards
    BY <1>1, <1>4 DEF ConnectCard, Waiting, MonitorCalm
  <2>2. CASE /\ Publish(WithState("connection-error"))
             /\ Goto(g, "readers")
             /\ UNCHANGED <<conn, link, cmd>>
    <3>1. pc'[g] = "readers"
      BY <1>0, <2>2 DEF Goto
    <3>2. MonitorCalm(g)'
      BY <3>1 DEF MonitorCalm, Connecting, Exchanging
    <3>3. /\ \A h \in Monitors : MonitorCalm(h)'
          /\ \A c \in Clients : pc'[c] = pc[c]
      BY <2>1, <2>2, <3>2, OneCalmMonitor DEF world
    <3>4. StatusCalm'
      BY <1>0, <2>2, TroubleIsCalm, StateNames DEF Publish
    <3>5. QED
      BY <1>2, <2>1, <2>2, <3>3, <3>4, WorkStaysCalm DEF life, world, AllAwaited
  <2>3. CASE /\ conn' = slot[scan[g].active]
             /\ link' = TRUE
             /\ Goto(g, "lock")
             /\ cmd' = [cmd EXCEPT ![g] = "select"]
             /\ UNCHANGED <<status, published>>
    <3>1. pc'[g] = "lock" /\ cmd'[g] = "select" /\ \A c \in Clients : cmd'[c] = cmd[c]
      BY <1>0, <2>3 DEF Goto
    <3>2. MonitorCalm(g)'
      BY <1>0, <2>1, <2>3, <3>1 DEF MonitorCalm, Connecting, Exchanging, world
    <3>3. /\ \A h \in Monitors : MonitorCalm(h)'
          /\ \A c \in Clients : pc'[c] = pc[c]
      BY <2>1, <2>3, <3>2, OneCalmMonitor DEF world
    <3>4. StatusCalm'
      BY <1>1, <2>3 DEF StatusCalm
    <3>5. QED
      BY <1>2, <2>1, <2>3, <3>1, <3>3, <3>4, WorkStaysCalm DEF life, world, AllAwaited
  <2>4. QED
    BY <1>4, <2>2, <2>3 DEF ConnectCard
<1>5. CASE CardSelected(g)
  <2>1. /\ pc[g] = "got" /\ cmd[g] = "select" /\ ~Waiting(g) /\ conn # None
        /\ slot[scan[g].active] \in Cards
        /\ UNCHANGED <<world, forceScanC, life, call, scan>>
        /\ res' = [res EXCEPT ![g] = None] /\ cmd' = [cmd EXCEPT ![g] = None]
    BY <1>1, <1>5 DEF CardSelected, Waiting, MonitorCalm, Connecting, Exchanging, Unlock
  <2>2. /\ cmd'[g] = None /\ \A c \in Clients : cmd'[c] = cmd[c]
        /\ \A p \in Procs : res'[p] \in {res[p], None}
    BY <1>0, <2>1
  <2>3. CASE /\ Publish(WithState("connection-error")) \/ status'.state = "not-keycard"
             /\ Goto(g, "readers")
             /\ conn' = None /\ txq' = Stale(txq)
    <3>1. pc'[g] = "readers"
      BY <1>0, <2>3 DEF Goto
    <3>2. MonitorCalm(g)'
      BY <3>1 DEF MonitorCalm, Connecting, Exchanging
    <3>3. /\ \A h \in Monitors : MonitorCalm(h)'
          /\ \A c \in Clients : pc'[c] = pc[c]
      BY <2>1, <2>3, <3>2, OneCalmMonitor DEF world
    <3>4. StatusCalm'
      BY <1>0, <2>3, TroubleIsCalm, StateNames DEF Publish, StatusCalm
    <3>5. AllAwaited => AllAwaited'
      BY <1>0, <2>3, AwaitedQueue
    <3>6. QED
      BY <1>2, <2>1, <2>2, <2>3, <3>3, <3>4, <3>5, WorkStaysCalm DEF life, world
  <2>4. CASE /\ status' = [status EXCEPT !.app = InfoOf(res[g]), !.state = "connecting-card"]
             /\ res[g] # None
             /\ Goto(g, "keycard") /\ UNCHANGED <<conn, link, txq>>
    <3>1. pc'[g] = "keycard"
      BY <1>0, <2>4 DEF Goto
    <3>2. status'.app = InfoOf(res[g]) /\ status'.state = "connecting-card" /\ InfoOf(res[g]) \in AppInfo
      BY <1>0, <2>4 DEF Status, InfoOf, AppInfo, Reply, CardState
    <3>3. MonitorCalm(g)'
      BY <1>0, <2>1, <2>4, <3>1, <3>2 DEF MonitorCalm, Connecting, Exchanging, world
    <3>4. /\ \A h \in Monitors : MonitorCalm(h)'
          /\ \A c \in Clients : pc'[c] = pc[c]
      BY <2>1, <2>4, <3>3, OneCalmMonitor DEF world
    <3>5. StatusCalm'
      BY <3>2 DEF StatusCalm
    <3>6. QED
      BY <1>2, <2>1, <2>2, <2>4, <3>4, <3>5, WorkStaysCalm DEF life, world, AllAwaited
  <2>5. CASE Failure(res[g]) \/ sim = "select-applet"
    BY <1>5, <2>3, <2>5 DEF CardSelected
  <2>6. CASE ~(Failure(res[g]) \/ sim = "select-applet")
    <3>1. LET info == InfoOf(res[g]) IN
            /\ Publish([status EXCEPT !.app = info,
                            !.state = IF info.installed THEN "connecting-card" ELSE "not-keycard"])
            /\ Goto(g, IF info.installed THEN "keycard" ELSE "readers")
            /\ IF info.installed
               THEN UNCHANGED <<conn, link, txq>>
               ELSE conn' = None /\ link' = FALSE /\ txq' = Stale(txq)
      BY <1>5, <2>6 DEF CardSelected
    <3>2. CASE InfoOf(res[g]).installed
      BY <2>4, <2>6, <3>1, <3>2 DEF Publish, Failure
    <3>3. CASE ~InfoOf(res[g]).installed
      <4>1. status' = [status EXCEPT !.app = InfoOf(res[g]), !.state = "not-keycard"]
        BY <3>1, <3>3 DEF Publish
      <4>2. status'.state = "not-keycard"
        BY <1>0, <4>1 DEF Status
      <4>3. QED
        BY <2>3, <3>1, <3>3, <4>2
    <3>4. QED
      BY <3>2, <3>3
  <2>7. QED
    BY <2>5, <2>6
<1>6. CASE AwaitReaders(g)
  <2>1. /\ pc[g] = "readers" /\ ~Waiting(g)
        /\ UNCHANGED <<world, object, life, cmd, res, call>>
    BY <1>6 DEF AwaitReaders, Waiting
  <2>2. PICK where \in {"idle", "detect", "blocked"} : Goto(g, where)
    BY <1>6 DEF AwaitReaders
  <2>3. pc'[g] = where
    BY <1>0, <2>2 DEF Goto
  <2>4. MonitorCalm(g)'
    BY <2>3 DEF MonitorCalm, Connecting, Exchanging
  <2>5. /\ \A h \in Monitors : MonitorCalm(h)'
        /\ \A c \in Clients : pc'[c] = pc[c]
    BY <2>1, <2>2, <2>4, OneCalmMonitor DEF world
  <2>6. QED
    BY <1>1, <1>2, <2>1, <2>5, WorkStaysCalm DEF life, world, object, AllAwaited, StatusCalm
<1>7. ASSUME ReadersChanged(g) \/ TickClosed(g) PROVE FALSE
  BY <1>2, <1>7 DEF ReadersChanged, TickClosed
<1>8. ASSUME pc[g] \in Connecting, NEW x \in State \ {"ready", "authorized", "blocked-pin", "blocked-puk"},
              GiveUp(g, x), txq' = txq,
              UNCHANGED <<world, conn, link, forceScanC, life, call>>,
              res' = [res EXCEPT ![g] = None]
       PROVE  CalmInv'
  <2>1. /\ \A p \in Procs : res'[p] \in {res[p], None}
        /\ \A c \in Clients : cmd'[c] = cmd[c]
        /\ StatusCalm'
    BY <1>0, <1>8, TroubleIsCalm DEF GiveUp, Publish
  <2>2. QED
    BY WatchingStaysCalm, <1>8, <2>1 DEF GiveUp, AllAwaited
<1>9. CASE ConnectKeycard(g)
  <2>1. pc[g] \in Connecting /\ pc[g] = "keycard" /\ status.app # None
    BY <1>1, <1>9 DEF ConnectKeycard, MonitorCalm, Connecting, Exchanging
  <2>2. UNCHANGED <<world, conn, link, forceScanC, life, res, call>>
    BY <1>9, <2>1 DEF ConnectKeycard
  <2>3. CASE ~status.app.init
    <3>1. Watch(g) /\ txq' = txq /\ cmd' = cmd /\ StatusCalm'
      BY <1>0, <1>9, <2>1, <2>3, TroubleIsCalm, StateNames DEF ConnectKeycard, Publish
    <3>2. QED
      BY WatchingStaysCalm, <2>1, <2>2, <3>1 DEF AllAwaited
  <2>4. CASE status.app.init
    <3>1. PICK command \in {"open", "pair"} :
            /\ cmd' = [cmd EXCEPT ![g] = command]
            /\ txq' = Append(txq, Request(g, command))
            /\ Goto(g, "wait")
            /\ UNCHANGED <<status, published, scan>>
      BY <1>9, <2>1, <2>4 DEF ConnectKeycard
    <3>2. cmd'[g] = command /\ \A c \in Clients : cmd'[c] = cmd[c]
      BY <1>0, <3>1
    <3>3. AllAwaited => AllAwaited'
      BY <1>0, <3>1, AwaitedQueue, CommandNames
    <3>4. QED
      BY <1>1, ConnectionStaysCalm, <2>1, <2>2, <3>1, <3>2, <3>3 DEF StatusCalm
  <2>5. QED
    BY <2>3, <2>4
<1>10. CASE Paired(g)
  <2>1. /\ pc[g] \in Connecting /\ status.app # None
        /\ UNCHANGED <<world, conn, link, forceScanC, txq, life, call>>
        /\ res' = [res EXCEPT ![g] = None]
    BY <1>1, <1>10 DEF Paired, MonitorCalm, Connecting, Exchanging
  <2>2. CASE Failure(res[g])
    BY <1>8, <1>10, <2>1, <2>2, StateNames DEF Paired
  <2>3. CASE ~Failure(res[g])
    <3>1. /\ cmd' = [cmd EXCEPT ![g] = "reselect"]
          /\ Goto(g, "lock")
          /\ UNCHANGED <<status, published, scan>>
      BY <1>10, <2>3 DEF Paired
    <3>2. /\ cmd'[g] = "reselect" /\ \A c \in Clients : cmd'[c] = cmd[c]
          /\ \A p \in Procs : res'[p] \in {res[p], None}
      BY <1>0, <2>1, <3>1
    <3>3. QED
      BY <1>1, ConnectionStaysCalm, <2>1, <3>1, <3>2 DEF StatusCalm, AllAwaited
  <2>4. QED
    BY <2>2, <2>3
<1>11. CASE Reselected(g)
  <2>1. /\ pc[g] \in Connecting /\ status.app # None
        /\ UNCHANGED <<world, conn, link, forceScanC, life, call>>
        /\ res' = [res EXCEPT ![g] = None]
    BY <1>1, <1>11 DEF Reselected, MonitorCalm, Connecting, Exchanging, Unlock
  <2>2. CASE Failure(res[g])
    BY <1>8, <1>11, <2>1, <2>2, StateNames DEF Reselected
  <2>3. CASE ~Failure(res[g])
    <3>1. /\ status' = [status EXCEPT !.app = InfoOf(res[g])]
          /\ cmd' = [cmd EXCEPT ![g] = "open"]
          /\ txq' = Append(txq, Request(g, "open"))
          /\ Goto(g, "wait")
          /\ scan' = scan
      BY <1>11, <2>3 DEF Reselected
    <3>2. /\ cmd'[g] = "open" /\ \A c \in Clients : cmd'[c] = cmd[c]
          /\ \A p \in Procs : res'[p] \in {res[p], None}
      BY <1>0, <2>1, <3>1
    <3>3. AllAwaited => AllAwaited'
      BY <1>0, <3>1, AwaitedQueue, CommandNames
    <3>4. /\ status'.app = InfoOf(res[g]) /\ InfoOf(res[g]) \in AppInfo
          /\ status'.state = status.state /\ status'.appst = status.appst
      BY <1>0, <2>3, <3>1 DEF Failure, Status, InfoOf, AppInfo, Reply, CardState
    <3>5. StatusCalm' /\ status'.app # None
      BY <1>0, <1>1, <3>4 DEF StatusCalm
    <3>6. QED
      BY ConnectionStaysCalm, <2>1, <3>1, <3>2, <3>3, <3>5
  <2>4. QED
    BY <2>2, <2>3
<1>12. CASE ChannelOpened(g)
  <2>1. /\ pc[g] \in Connecting /\ status.app # None
        /\ UNCHANGED <<world, conn, link, forceScanC, txq, life, call>>
        /\ res' = [res EXCEPT ![g] = None]
    BY <1>1, <1>12 DEF ChannelOpened, MonitorCalm, Connecting, Exchanging
  <2>2. CASE Failure(res[g]) \/ sim = "open-secure-channel"
    BY <1>8, <1>12, <2>1, <2>2, StateNames DEF ChannelOpened
  <2>3. CASE ~(Failure(res[g]) \/ sim = "open-secure-channel")
    <3>1. /\ cmd' = [cmd EXCEPT ![g] = None]
          /\ Goto(g, "refresh")
          /\ UNCHANGED <<status, published, scan>>
      BY <1>12, <2>3 DEF ChannelOpened
    <3>2. /\ \A c \in Clients : cmd'[c] = cmd[c]
          /\ \A p \in Procs : res'[p] \in {res[p], None}
      BY <1>0, <2>1, <3>1
    <3>3. QED
      BY <1>1, ConnectionStaysCalm, <2>1, <3>1, <3>2 DEF StatusCalm, AllAwaited
  <2>4. QED
    BY <2>2, <2>3
\* Watching changes nothing that a client sees.
<1>13. CASE Poll(g) \/ Tick(g)
  <2>1. /\ pc[g] \in {"poll", "tick"} /\ slot[scan[g].active] \in Cards
        /\ UNCHANGED <<world, object, life, cmd, res, call>>
    BY <1>1, <1>13 DEF Poll, Tick, MonitorCalm
  <2>2. \E where \in {"poll", "tick"} : Goto(g, where) /\ scan' = scan
    <3>1. ~CardGone(g)
      BY <1>0, <1>1, <2>1 DEF CardGone
    <3>2. QED
      BY <1>2, <1>13, <3>1 DEF Poll, Tick
  <2>3. PICK where \in {"poll", "tick"} : Goto(g, where) /\ scan' = scan
    BY <2>2
  <2>4. pc'[g] = where /\ \A p \in Procs \ {g} : pc'[p] = pc[p]
    BY <1>0, <2>3 DEF Goto
  <2>5. MonitorCalm(g)'
    BY <2>1, <2>3, <2>4 DEF MonitorCalm, Connecting, Exchanging, world
  <2>6. /\ \A h \in Monitors : MonitorCalm(h)'
        /\ \A c \in Clients : pc'[c] = pc[c]
    BY <2>1, <2>3, <2>5, OneCalmMonitor DEF world
  <2>7. (\A h \in Monitors : Waiting(h)) => \A h \in Monitors : Waiting(h)'
    BY <1>0, <2>4 DEF Waiting
  <2>8. \A c \in Clients : ClientCalm(c)'
    BY <2>1, <2>6, <2>7, ClientsStayCalm DEF object
  <2>9. QED
    BY <1>1, <2>1, <2>6, <2>8 DEF CalmInv, WorldCalm, RepliesCalm, AllAwaited, StatusCalm,
                                  world, object, life
<1>14. ASSUME NEW p \in Procs, Rendezvous(g, p) PROVE CalmInv'
  <2>1. /\ pc[g] = "tick" /\ pc[p] = "sending"
        /\ UNCHANGED <<world, object, life, cmd, res, call>>
    BY <1>14 DEF Rendezvous, ScanForced
  <2>2. p \in Clients
    <3>1. \A h \in Monitors : pc[h] # "sending"
      BY DEF CalmInv, MonitorCalm, Connecting, Exchanging
    <3>2. QED
      BY <2>1, <3>1, ProcFacts
  <2>3. PICK h \in Monitors :
          pc[h] = "idle" /\ pc' = [pc EXCEPT ![g] = "idle", ![h] = "detect", ![p] = "forced"]
    BY <1>14 DEF Rendezvous
  <2>4. /\ pc'[g] = "idle" /\ pc'[h] = "detect" /\ pc'[p] = "forced"
        /\ \A q \in Procs \ {g, h, p} : pc'[q] = pc[q]
    BY <1>0, <2>1, <2>2, <2>3
  <2>5. \A m \in Monitors : pc'[m] \in {"idle", "detect"}
    BY <1>0, <2>1, <2>2, <2>4, BaseTypes
  <2>6. \A m \in Monitors : MonitorCalm(m)'
    BY <2>5 DEF MonitorCalm, Connecting, Exchanging
  <2>7. /\ ClientCalm(p) /\ \A c \in Clients : c = p
    BY <2>2 DEF CalmInv, OneCalmClient
  <2>8. ClientCalm(p)'
    BY <2>1, <2>4, <2>7 DEF ClientCalm, Talking, Forcing, Commanding, Interacting, Authorizing,
       Dropping, InitCommands
  <2>9. QED
    BY <1>1, <2>1, <2>6, <2>7, <2>8 DEF CalmInv, WorldCalm, RepliesCalm, AllAwaited, StatusCalm,
                                  world, object, life
<1>15. QED
  BY <1>3, <1>4, <1>5, <1>6, <1>7, <1>9, <1>10, <1>11, <1>12, <1>13, <1>14 DEF Monitor

\* What the monitor shares with a client.
LEMMA MonitorCommandStaysCalm ==
    ASSUME OneCalmClient, Base, CalmInv, NEW g \in Monitors, Either(g)
    PROVE  CalmInv'
<1>0. /\ pc \in [Procs -> PCs] /\ cmd \in [Procs -> Command \cup {None}]
      /\ res \in [Procs -> Reply \cup {None}] /\ status \in Status
      /\ None \notin Cards \cup Op \cup Command \cup Reply \cup AppInfo \cup AppStatus
      /\ txq \in Seq(Requests)
      /\ Monitors \subseteq Procs /\ Clients \subseteq Procs /\ \A c \in Clients : c \notin Monitors
      /\ g \notin Clients
  BY BaseTypes, ProcFacts
<1>1. ~panicked /\ WorldCalm /\ RepliesCalm /\ StatusCalm /\ MonitorCalm(g)
  BY DEF CalmInv
<1>2. ASSUME pc[g] \in {"lock", "got", "refresh", "metadata"}
      PROVE  /\ pc[g] \in Connecting
             /\ ~(pc[g] \in {"lock", "got"} /\ cmd[g] = "select") => status.app # None
             /\ conn # None
  BY <1>1, <1>2 DEF MonitorCalm, Connecting, Exchanging
<1>3. CASE Lock(g)
  <2>1. pc[g] = "lock" /\ conn # None
    BY <1>2, <1>3 DEF Lock
  <2>2. /\ Goto(g, "wait") /\ txq' = Append(txq, Request(g, cmd[g]))
        /\ UNCHANGED <<world, conn, link, status, forceScanC, life, cmd, res, call, scan>>
    BY <1>3, <2>1 DEF Lock
  <2>3. AllAwaited => AllAwaited'
    <3>1. LockedWhenLocking
      BY BaseTypes
    <3>2. cmd[g] \in Command
      BY <1>0, <2>1, <3>1, CommandNames DEF LockedWhenLocking
    <3>3. QED
      BY <1>0, <2>2, <3>2, AwaitedQueue
  <2>4. StatusCalm'
    BY <1>1, <2>2 DEF StatusCalm
  <2>5. ~Waiting(g) /\ pc[g] # "idle"
    BY <2>1 DEF Waiting
  <2>6. pc'[g] = "wait"
    BY <1>0, <2>2 DEF Goto
  <2>7. MonitorCalm(g)'
    BY <1>1, <2>1, <2>2, <2>6 DEF MonitorCalm, Connecting, Exchanging, world
  <2>8. /\ \A h \in Monitors : MonitorCalm(h)'
        /\ \A c \in Clients : pc'[c] = pc[c]
    BY <2>2, <2>5, <2>7, OneCalmMonitor DEF world
  <2>9. QED
    BY <1>1, <2>2, <2>3, <2>4, <2>5, <2>8, WorkStaysCalm DEF WorldCalm, life, world
<1>4. ASSUME TransmitDone(g) \/ SendOnClosed(g) PROVE FALSE
  BY <1>1, <1>4 DEF TransmitDone, SendOnClosed, WorldCalm
<1>5. ASSUME ForceScan(g) PROVE FALSE
  BY <1>1, <1>5 DEF ForceScan, MonitorCalm, Connecting, Exchanging
<1>6. ASSUME DropConnection(g) PROVE FALSE
  <2>1. pc[g] = "got" /\ cmd[g] \in Dropping
    BY <1>0, <1>6, ForceMeans DEF DropConnection
  <2>2. QED
    BY <1>1, <2>1 DEF MonitorCalm, Exchanging, Dropping, InitCommands
<1>7. CASE RefreshStatus(g)
  <2>1. /\ pc[g] \in Connecting /\ status.app # None
        /\ UNCHANGED <<world, conn, link, status, forceScanC, txq, life, res, call>>
    BY <1>2, <1>7 DEF RefreshStatus
  <2>2. StatusCalm' /\ (AllAwaited => AllAwaited')
    BY <1>1, <2>1 DEF StatusCalm, AllAwaited
  <2>3. CASE Goto(g, "lock") /\ cmd' = [cmd EXCEPT ![g] = "status"] /\ UNCHANGED scan
    <3>1. cmd'[g] = "status" /\ \A c \in Clients : cmd'[c] = cmd[c]
      BY <1>0, <2>3
    <3>2. QED
      BY <2>1, <2>2, <2>3, <3>1, ConnectionStaysCalm
  <2>4. CASE Watch(g) /\ UNCHANGED cmd
    BY <2>1, <2>2, <2>4, WatchingStaysCalm
  <2>5. QED
    BY <1>0, <1>7, <2>3, <2>4 DEF RefreshStatus
<1>8. CASE StatusRefreshed(g)
  <2>1. /\ pc[g] \in Connecting /\ status.app # None
        /\ UNCHANGED <<world, conn, link, forceScanC, txq, life, call>>
        /\ \A p \in Procs : res'[p] \in {res[p], None}
        /\ \A c \in Clients : cmd'[c] = cmd[c]
        /\ AllAwaited => AllAwaited'
    BY <1>0, <1>2, <1>8 DEF StatusRefreshed, Unlock, AllAwaited
  <2>2. CASE Failure(res[g])
    <3>1. Watch(g) /\ status' = [status EXCEPT !.appst = None, !.state = "connection-error"]
      BY <1>0, <1>8, <2>2 DEF StatusRefreshed
    <3>2. StatusCalm'
      BY <1>0, <3>1 DEF StatusCalm, Status
    <3>3. QED
      BY <2>1, <3>1, <3>2, WatchingStaysCalm
  <2>3. CASE ~Failure(res[g])
    <3>1. /\ Goto(g, "metadata") /\ scan' = scan
          /\ status' = [status EXCEPT !.appst = AppStatusOf(res[g]), !.state = StateOfCard(res[g])]
      BY <1>0, <1>8, <2>3 DEF StatusRefreshed
    <3>2. AppStatusOf(res[g]) \in AppStatus
      BY <1>0, <2>3 DEF Failure, AppStatusOf, AppStatus, Reply, CardState
    <3>3. status'.app = status.app /\ status'.appst = AppStatusOf(res[g])
      BY <1>0, <3>1 DEF Status
    <3>4. StatusCalm' /\ status'.app # None
      BY <1>0, <2>1, <3>2, <3>3 DEF StatusCalm
    <3>5. QED
      BY <2>1, <3>1, <3>4, ConnectionStaysCalm
  <2>4. QED
    BY <2>2, <2>3
\* The metadata end the monitor's connection, read or not.
<1>9. ASSUME pc[g] \in Connecting, NEW s, NEW fine, MetadataDone(g, s, fine),
             s.app = status.app, s.appst = status.appst, s.state \in {status.state, "connection-error"},
             UNCHANGED <<world, conn, link, forceScanC, txq, life>>,
             \A p \in Procs : res'[p] \in {res[p], None},
             \A c \in Clients : cmd'[c] = cmd[c]
      PROVE  CalmInv'
  <2>1. status' = s /\ Watch(g) /\ call' = call
    BY <1>9 DEF MetadataDone
  <2>2. StatusCalm'
    BY <1>1, <1>9, <2>1 DEF StatusCalm
  <2>3. QED
    BY <1>9, <2>1, <2>2, WatchingStaysCalm DEF AllAwaited
<1>10. LET s == WithState("connection-error") IN
         s.app = status.app /\ s.appst = status.appst /\ s.state = "connection-error"
  BY <1>0 DEF WithState, Status
<1>11. CASE RefreshMetadata(g)
  <2>1. /\ pc[g] \in Connecting /\ status.app # None
        /\ UNCHANGED <<world, conn, link, forceScanC, txq, life, res>>
    BY <1>2, <1>11 DEF RefreshMetadata
  <2>2. CASE /\ Goto(g, "lock") /\ cmd' = [cmd EXCEPT ![g] = "getData"]
             /\ UNCHANGED <<status, call, scan>>
    <3>1. cmd'[g] = "getData" /\ \A c \in Clients : cmd'[c] = cmd[c]
      BY <1>0, <2>2
    <3>2. QED
      BY <1>1, <2>1, <2>2, <3>1, ConnectionStaysCalm DEF StatusCalm, AllAwaited
  <2>3. CASE MetadataDone(g, WithState("connection-error"), FALSE) /\ UNCHANGED cmd
    BY <1>9, <1>10, <2>1, <2>3
  <2>4. QED
    BY <1>11, <2>2, <2>3 DEF RefreshMetadata
<1>12. CASE MetadataRead(g)
  <2>1. \E s, fine : /\ MetadataDone(g, s, fine)
                     /\ s.app = status.app /\ s.appst = status.appst
                     /\ s.state \in {status.state, "connection-error"}
    <3>1. \A m : LET s == [status EXCEPT !.meta = m] IN
            s.app = status.app /\ s.appst = status.appst /\ s.state = status.state
      BY <1>0 DEF Status
    <3>2. CASE Failure(res[g])
      BY <1>12, <1>10, <3>2 DEF MetadataRead
    <3>3. CASE ~Failure(res[g])
      <4>1. \E m : MetadataDone(g, [status EXCEPT !.meta = m], TRUE)
        BY <1>12, <3>3 DEF MetadataRead
      <4>2. QED
        BY <3>1, <4>1
    <3>4. QED
      BY <3>2, <3>3
  <2>2. /\ UNCHANGED <<world, conn, link, forceScanC, txq, life>>
        /\ \A c \in Clients : cmd'[c] = cmd[c]
        /\ \A p \in Procs : res'[p] \in {res[p], None}
    BY <1>0, <1>12 DEF MetadataRead, Unlock
  <2>3. pc[g] \in Connecting
    BY <1>1, <1>12 DEF MetadataRead, Returning, MonitorCalm, Connecting, Exchanging
  <2>4. QED
    BY <1>9, <2>1, <2>2, <2>3
<1>13. QED
  BY <1>3, <1>4, <1>5, <1>6, <1>7, <1>8, <1>11, <1>12 DEF Either

\* An exchange: its connection is there, and the card answers.
LEMMA ExchangeStaysCalm ==
    ASSUME OneCalmClient, Base, CalmInv, Exchange
    PROVE  CalmInv'
<1>0. /\ pc \in [Procs -> PCs] /\ res \in [Procs -> Reply \cup {None}]
      /\ card \in [Cards -> CardState] /\ conn \in Cards \cup {None}
      /\ txq \in Seq(Requests)
      /\ Monitors \subseteq Procs /\ Clients \subseteq Procs /\ \A c \in Clients : c \notin Monitors
  BY BaseTypes, ProcFacts
<1>1. ~panicked /\ WorldCalm /\ RepliesCalm /\ StatusCalm
  BY DEF CalmInv
<1> DEFINE q == Head(txq)
<1>2. /\ txq # <<>> /\ 1 \in DOMAIN txq /\ q = txq[1]
      /\ q \in Requests
  BY <1>0 DEF Exchange
<1>3. q.proc \in Procs /\ q.proc # None /\ pc[q.proc] = "wait"
  <2>1. q.proc # None
    BY <1>1, <1>2 DEF RepliesCalm, AllAwaited
  <2>2. QED
    BY <1>2, <2>1 DEF Requests, Base, ControlInv, QueueMatchesWaiters
<1>4. conn # None /\ link
  <2>1. conn # None
    <3>1. CASE q.proc \in Clients
      BY <1>3, <3>1 DEF CalmInv, ClientCalm, Talking
    <3>2. CASE q.proc \in Monitors
      BY <1>3, <3>2 DEF CalmInv, MonitorCalm, Connecting, Exchanging
    <3>3. QED
      BY <1>3, <3>1, <3>2, ProcFacts
  <2>2. QED
    BY <1>1, <2>1 DEF WorldCalm
<1>5. PICK a \in Replies(q) :
        /\ pc' = [pc EXCEPT ![q.proc] = "got"]
        /\ res' = [res EXCEPT ![q.proc] = [out |-> a.out, from |-> conn, k |-> a.card]]
  BY <1>3, <1>4 DEF Exchange, Goto
<1>6. /\ txq' = Tail(txq)
      /\ UNCHANGED <<slot, dirty, moves, conn, link, status, forceScanC, life, cmd, call, scan>>
  BY <1>4 DEF Exchange
<1>7. a.out # "scard"
  <2>1. \A k \in CardState : \A command : Answer(k, command) # "scard"
    BY DEF Answer, Verdict
  <2>2. q.cmd \notin Lost
    BY DEF OneCalmClient
  <2>3. \/ a.out = Answer(card[conn], q.cmd)
        \/ a.out = "err"
    BY <1>4, <1>5, <2>2 DEF Replies
  <2>4. QED
    BY <1>0, <1>4, <2>1, <2>3
<1> HIDE DEF q
<1>8. /\ pc'[q.proc] = "got" /\ \A p \in Procs \ {q.proc} : pc'[p] = pc[p] /\ res'[p] = res[p]
      /\ res'[q.proc].out # "scard"
  BY <1>0, <1>3, <1>5, <1>7
<1>9. RepliesCalm'
  <2>1. AllAwaited => AllAwaited'
    BY <1>0, <1>2, <1>6, AwaitedQueue
  <2>2. QED
    BY <1>1, <1>8, <2>1 DEF RepliesCalm
<1>10. \A g \in Monitors : Waiting(g) => Waiting(g)'
  BY <1>0, <1>3, <1>8 DEF Waiting
<1>11. ASSUME NEW c \in Clients PROVE ClientCalm(c)'
  <2>1. ClientCalm(c) /\ c \in Procs
    BY <1>0 DEF CalmInv
  <2>2. \/ pc'[c] = pc[c]
        \/ pc[c] = "wait" /\ pc'[c] = "got"
    BY <1>3, <1>8, <2>1
  <2>3. QED
    BY <1>6, <1>10, <2>1, <2>2 DEF ClientCalm, Talking, Forcing, Commanding
<1>12. ASSUME NEW g \in Monitors PROVE MonitorCalm(g)'
  <2>1. MonitorCalm(g) /\ g \in Procs
    BY <1>0 DEF CalmInv
  <2>2. \/ pc'[g] = pc[g]
        \/ pc[g] = "wait" /\ pc'[g] = "got"
    BY <1>3, <1>8, <2>1
  <2>3. QED
    BY <1>6, <2>1, <2>2 DEF MonitorCalm, Connecting, Exchanging
<1>13. QED
  BY <1>1, <1>6, <1>9, <1>11, <1>12 DEF CalmInv, WorldCalm, StatusCalm, life

\* The rest of the world: the service starts, errors are simulated.
LEMMA WorldStaysCalm ==
    ASSUME OneCalmClient, Base, CalmInv,
           User \/ Start \/ StopFailed \/ (\E e \in Faults \cup {None} : SimulateError(e)) \/ ReleaseContext
    PROVE  CalmInv'
<1>1. /\ ~panicked /\ WorldCalm /\ RepliesCalm /\ StatusCalm
      /\ status \in Status /\ pc \in [Procs -> PCs] /\ Monitors \subseteq Procs
      /\ \A c \in Clients : c \in Procs /\ c \notin Monitors
  BY BaseTypes, ProcFacts DEF CalmInv
<1>2. ASSUME User PROVE FALSE
  <2>1. moves = 0 /\ MaxMoves = 0
    BY <1>1 DEF WorldCalm, OneCalmClient
  <2>2. ~UserMay
    BY <2>1 DEF UserMay
  <2>3. QED
    BY <1>2, <2>2 DEF User, InsertCard, RemoveCard, UnplugReader, PlugReader
<1>3. CASE Start
  <2>1. \A p \in Procs : pc[p] = "idle"
    BY <1>3 DEF Start, Base, ControlInv, OffIsIdle
  <2>2. /\ \A c \in Clients : pc'[c] = "idle"
        /\ \A g \in Monitors : pc'[g] \in {"idle", "detect"}
    BY <1>1, <1>3, <2>1 DEF Start, Goto
  <2>3. /\ UNCHANGED <<world, conn, link, forceScanC, txq, ctxDone, released, panicked, res>>
        /\ StatusCalm'
    BY <1>1, <1>3, TroubleIsCalm, StateNames DEF Start, Publish, StatusCalm
  <2>4. \A c \in Clients : ClientCalm(c)'
    BY <2>2 DEF ClientCalm, Talking, Forcing, Commanding
  <2>5. \A g \in Monitors : MonitorCalm(g)'
    BY <2>2 DEF MonitorCalm, Connecting, Exchanging
  <2>6. QED
    BY <1>1, <2>3, <2>4, <2>5 DEF CalmInv, WorldCalm, RepliesCalm, AllAwaited, world
<1>4. ASSUME StopFailed \/ ReleaseContext PROVE FALSE
  BY <1>1, <1>4 DEF StopFailed, ReleaseContext, WorldCalm, OneCalmClient
<1>5. CASE \E e \in Faults \cup {None} : SimulateError(e)
  <2>1. UNCHANGED <<world, object, ctxDone, released, panicked, locals>>
    BY <1>5 DEF SimulateError
  <2>2. QED
    BY <2>1 DEF world, object, locals, CalmInv, WorldCalm, RepliesCalm, AllAwaited, StatusCalm,
                ClientCalm, MonitorCalm, Waiting
<1>6. QED
  BY <1>2, <1>3, <1>4, <1>5

\* Calm is kept.
LEMMA CalmInvKept ==
    ASSUME OneCalmClient
    PROVE  Base /\ CalmInv /\ [Next]_vars => CalmInv'
<1> SUFFICES ASSUME Base, CalmInv, [Next]_vars PROVE CalmInv'
  OBVIOUS
<1>1. CASE Next
  <2>1. ASSUME NEW g \in Monitors, Monitor(g) PROVE CalmInv'
    BY <2>1, MonitorStaysCalm
  <2>2. ASSUME NEW c \in Clients, Client(c) \/ Caller(c) PROVE CalmInv'
    BY <2>2, ClientStaysCalm
  <2>3. ASSUME NEW p \in Procs, Either(p) PROVE CalmInv'
    BY <2>3, ClientCommandStaysCalm, MonitorCommandStaysCalm, ProcFacts
  <2>4. QED
    BY <1>1, <2>1, <2>2, <2>3, ExchangeStaysCalm, WorldStaysCalm DEF Next
<1>2. CASE UNCHANGED vars
  BY <1>2 DEF vars, world, object, life, locals, CalmInv, WorldCalm, RepliesCalm, AllAwaited,
              StatusCalm, ClientCalm, MonitorCalm, Waiting
<1>3. QED
  BY <1>1, <1>2

\* With one client that goes by the published status, a card that stays where
\* it is and no Stop, no goroutine of the service panics, in spite of every
\* simulated error: kc.cmdSet, AppInfo and AppStatus are there wherever they
\* are dereferenced, and forceScanC is not closed under a sender
\* (keycard_context_v2.go, service.go).
THEOREM CalmClientsNeverPanic ==
    ASSUME OneCalmClient
    PROVE  Spec => []NoPanic
<1>1. Init => CalmInv
  BY SessionAssumption, ProcFacts
     DEF Init, Reset, CalmInv, WorldCalm, RepliesCalm, AllAwaited, StatusCalm,
         ClientCalm, MonitorCalm, Talking, Forcing, Commanding, Connecting, Exchanging
<1>2. CalmInv => NoPanic
  BY DEF CalmInv, NoPanic
<1>3. QED
  BY <1>1, <1>2, BaseHolds, CalmInvKept, PTL DEF Spec

-----------------------------------------------------------------------------
\* Coherence.

\* One client that makes its calls when the monitor waits, one reader, and a
\* user who moves cards only when nothing is going on; cards come without power.
\* Of the answers whose loss makes a caller drop the connection (checkSCardError)
\* only the one to a reset can get lost: the others leave a channel open behind.
OneSettledReader ==
    /\ \A c, d \in Clients : c = d
    /\ \A r, s \in Readers : r = s
    /\ Polite /\ Settled /\ "Stop" \notin Ops
    /\ Lost \cap Checked \subseteq {"reset"}
    /\ \A k \in CardTypes : ~k.channel

Usable == {"ready", "authorized"}

\* The published states that such a client makes a call in.
Callable == Usable \cup {"blocked-pin", "blocked-puk", "pairing-error",
                         "no-available-pairing-slots", "empty-keycard"}

Coherent(s) ==
    s.state \in Usable =>
        /\ s.app # None /\ s.app.init
        /\ s.appst # None
        /\ s.appst.pin > 0 /\ s.appst.puk > 0
        /\ s.appst.card = s.app.card

\* A client that has not got as far as the refresh of the status.
Early(c) == \/ pc[c] \in Exchanging /\ cmd[c] # "status"
            \/ pc[c] \in {"force", "sending", "load", "metadata"}

NoCard == \A r \in Readers : slot[r] \notin Cards
Watching == \A g \in Monitors : pc[g] \in {"idle", "poll", "tick"}
NoChannel == \A k \in Cards : ~card[k].channel

\* The reset of a card whose status has been dropped already.
Resetting == \E c \in Clients : call[c].op = "FactoryReset" /\ pc[c] \in {"lock", "wait"}

\* The application info is that of card k, initialized.
InfoFits(k) == status.app # None /\ status.app.init /\ status.app.card = k

\* A status that the card has reported.
Reported(p) == pc[p] = "got" /\ cmd[p] = "status" /\ ~Failure(res[p])

\* What holds of a client at each step of its call.
ClientSettled(c) ==
    /\ pc[c] \in {"idle"} \cup Talking \cup Forcing
    /\ Early(c) => Watching \/ NoCard
    /\ pc[c] \in {"force", "sending"} => conn = None
    /\ pc[c] \in Forcing => NeedsForce(c)
    /\ pc[c] \in Commanding /\ cmd[c] \in Dropping => call[c].op \in {"Initialize", "FactoryReset"}
    /\ pc[c] \in Exchanging /\ call[c].op = "FactoryReset" => cmd[c] = "reset"
    /\ pc[c] = "metadata" => call[c].op # "FactoryReset"
    /\ pc[c] = "refresh" \/ (pc[c] \in Commanding /\ cmd[c] = "status") =>
         call[c].op \in Interacting
    /\ pc[c] = "got" /\ NeedsForce(c) => NoChannel
    /\ Reported(c) => link /\ res[c].from = conn /\ InfoFits(conn) /\ card[conn].channel

\* The monitor between the selection of a card and the opening of the channel.
BeforeChannel(g) == \/ pc[g] = "keycard"
                    \/ pc[g] \in Exchanging /\ cmd[g] \in {"pair", "reselect"}
                    \/ pc[g] = "wait" /\ cmd[g] = "open"

\* What holds of a monitor at each step of a connection.
MonitorSettled(g) ==
    /\ pc[g] \in Connecting \cup {"idle", "detect", "connect", "readers", "blocked", "poll", "tick"}
    /\ pc[g] \in Exchanging =>
         cmd[g] \in {"select", "reselect", "status", "getData", "pair", "open"}
    /\ pc[g] \in Connecting \cup {"connect", "poll", "tick"} => scan[g].active \in Readers
    /\ pc[g] \in Connecting => link /\ slot[scan[g].active] = conn
    /\ pc[g] = "got" => res[g] # None /\ res[g].from = conn
    /\ pc[g] = "got" /\ cmd[g] \in Checked => res[g].out # "scard"
    /\ pc[g] \in {"readers", "blocked"} =>
         status.state \notin Callable /\ published.state \notin Callable
    /\ pc[g] \in Exchanging /\ cmd[g] = "select" => NoChannel
    /\ pc[g] = "got" /\ cmd[g] \in {"select", "reselect"} => res[g].k.init = card[conn].init
    /\ BeforeChannel(g) =>
         /\ NoChannel /\ status.state \notin Usable
         /\ status.app # None /\ status.app.card = conn
         /\ status.app.init = card[conn].init
    /\ Reported(g) => InfoFits(conn)

\* A link is to the card in the monitor's reader.
LinkFits ==
    link => /\ conn \in Cards
            /\ \E g \in Monitors : /\ pc[g] \in Connecting \cup {"poll", "tick"}
                                   /\ slot[scan[g].active] = conn

\* An open channel is with the card that the status is about.
ChannelFits ==
    \A k \in Cards : card[k].channel =>
        /\ card[k].installed /\ card[k].init
        /\ link /\ conn = k
        /\ Resetting \/ InfoFits(k)

CohInv ==
    /\ ~ctxDone /\ ~released /\ forceScanC # "closed" /\ AllAwaited
    /\ Coherent(status) /\ Coherent(published)
    /\ \A c \in Clients : ClientSettled(c)
    /\ \A g \in Monitors : MonitorSettled(g)
    /\ LinkFits
    /\ ChannelFits

\* A command leaves a closed channel closed, but for the one that opens it, and
\* a card with an open channel initialized.
LEMMA ChannelCards ==
    ASSUME NEW k \in CardState, NEW command \in Command, k.channel => k.installed /\ k.init
    PROVE  /\ command # "open" /\ After(k, command).channel =>
                k.channel /\ After(k, command).installed /\ After(k, command).init
           /\ command = "open" => \/ After(k, command) = k
                                  \/ After(k, command).installed /\ After(k, command).init /\ k.init
           /\ command = "reset" => ~After(k, command).channel
           /\ command \in {"select", "reselect", "status", "getData", "pair", "open"} =>
                After(k, command).init = k.init
           /\ command = "status" => After(k, command) = k /\ (Answer(k, command) = "ok" => k.channel)
           /\ command \in InitCommands /\ Answer(k, command) = "ok" => ~After(k, command).channel
           /\ Answer(k, command) # "scard"
<1>1. Answer(k, command) # "scard"
  BY DEF Answer, Verdict
<1>2. command = "reset" => ~After(k, command).channel
  BY DEF After, Accepts, Effect, EmptyCard, SelectCommands, InitCommands
<1>3. command = "status" => After(k, command) = k /\ (Answer(k, command) = "ok" => k.channel)
  BY DEF After, Answer, Accepts, Effect, SelectCommands, InitCommands, PINCommands, ChannelCommands
<1>4. command \in {"select", "reselect", "status", "getData", "pair", "open"} =>
        After(k, command).init = k.init
  BY DEF After, Effect, EndSession, CardState, SelectCommands, InitCommands
<1>5. command = "open" => \/ After(k, command) = k
                          \/ After(k, command).installed /\ After(k, command).init /\ k.init
  <2>1. Accepts(k, "open") => k.installed /\ k.init
    BY DEF Accepts, SelectCommands, InitCommands, PINCommands, ChannelCommands
  <2>2. Effect(k, "open") = [k EXCEPT !.channel = TRUE, !.verified = FALSE]
    BY DEF Effect, SelectCommands, InitCommands
  <2>3. Effect(k, "open").installed = k.installed /\ Effect(k, "open").init = k.init
    BY <2>2 DEF CardState
  <2>4. QED
    BY <2>1, <2>3 DEF After
<1>6. command \in InitCommands => After(k, command) = k \/ (~k.init /\ After(k, command) = Effect(k, command))
  BY DEF After, Accepts, SelectCommands, InitCommands, PINCommands, ChannelCommands
<1>7. command \in InitCommands => Effect(k, command).channel = k.channel
  BY DEF Effect, CardState, SelectCommands, InitCommands
<1>8. command \in InitCommands /\ Answer(k, command) = "ok" => ~After(k, command).channel
  <2>1. command \in InitCommands /\ Answer(k, command) = "ok" => ~k.init
    BY DEF Answer, Accepts, SelectCommands, InitCommands, PINCommands, ChannelCommands
  <2>2. QED
    BY <1>6, <1>7, <2>1
<1>9. command # "open" /\ After(k, command).channel =>
        k.channel /\ After(k, command).installed /\ After(k, command).init
  <2>1. CASE command \in InitCommands
    BY <1>6, <1>7, <2>1
  <2>2. CASE command \notin InitCommands
    BY <1>2, <2>2 DEF After, Effect, EndSession, CardState, SelectCommands
  <2>3. QED
    BY <2>1, <2>2
<1>10. QED
  BY <1>1, <1>2, <1>3, <1>4, <1>5, <1>8, <1>9

\* Types, in the form the proofs below use them.
LEMMA SettledTypes ==
    ASSUME Base
    PROVE  /\ pc \in [Procs -> PCs] /\ cmd \in [Procs -> Command \cup {None}]
           /\ res \in [Procs -> Reply \cup {None}] /\ call \in [Clients -> CallRecord]
           /\ card \in [Cards -> CardState] /\ txq \in Seq(Requests)
           /\ conn \in Cards \cup {None} /\ status \in Status
           /\ slot \in [Readers -> Cards \cup {None, Unplugged}]
           /\ scan \in [Monitors -> ScanRecord]
           /\ None \notin Cards \cup Op \cup Command \cup Reply \cup AppInfo \cup AppStatus
           /\ None \notin Procs /\ Unplugged \notin Cards
           /\ Clients \subseteq Procs /\ Monitors \subseteq Procs
           /\ \A c \in Clients : c \notin Monitors
           /\ LockedWhenLocking /\ ClientCommands
           /\ \A g, h \in Monitors : pc[g] # "idle" /\ pc[h] # "idle" => g = h
BY BaseTypes, CalmTypes, ProcFacts

\* While a monitor uses a connection, its link is good and no client has a
\* command under way that could do without it.
LEMMA ConnectingMeans ==
    ASSUME Base, CohInv, NEW g \in Monitors, pc[g] \in Connecting
    PROVE  /\ link /\ conn \in Cards
           /\ scan[g].active \in Readers /\ slot[scan[g].active] = conn
           /\ \A c \in Clients : ~Early(c)
           /\ ~Resetting
<1>1. /\ link /\ conn \in Cards
      /\ scan[g].active \in Readers /\ slot[scan[g].active] = conn
  BY DEF CohInv, MonitorSettled, LinkFits
<1>2. ~Watching /\ ~NoCard
  BY <1>1 DEF Watching, NoCard, Connecting, Exchanging
<1>3. ASSUME NEW c \in Clients PROVE ~Early(c)
  BY <1>2 DEF CohInv, ClientSettled
<1>4. ASSUME Resetting PROVE FALSE
  <2>1. PICK c \in Clients : call[c].op = "FactoryReset" /\ pc[c] \in {"lock", "wait"}
    BY <1>4 DEF Resetting
  <2>2. cmd[c] = "reset"
    BY <2>1 DEF CohInv, ClientSettled, Exchanging
  <2>3. QED
    BY <1>3, <2>1, <2>2 DEF Early, Exchanging
<1>5. QED
  BY <1>1, <1>3, <1>4

\* While a monitor looks for a card, there is no connection.
LEMMA LookingMeans ==
    ASSUME Base, CohInv, NEW g \in Monitors, pc[g] \in {"detect", "connect", "readers", "blocked"}
    PROVE  /\ ~link /\ NoChannel
           /\ \A c \in Clients : ~Reported(c) /\ (Early(c) => NoCard)
<1>1. ~link
  BY SettledTypes DEF CohInv, LinkFits, Connecting, Exchanging
<1>2. NoChannel
  BY <1>1 DEF CohInv, ChannelFits, NoChannel
<1>3. ~Watching
  BY DEF Watching
<1>4. QED
  BY <1>1, <1>2, <1>3 DEF CohInv, ClientSettled

\* Two goroutines that hold the lock are the same.
LEMMA OneInside ==
    ASSUME Base, NEW p \in Procs, NEW q \in Procs,
           pc[p] \in {"wait", "got"}, cmd[p] \in LockedCommand,
           pc[q] \in {"wait", "got"}, cmd[q] \in LockedCommand
    PROVE  p = q
<1>1. InCriticalSection(p) /\ InCriticalSection(q)
  BY DEF InCriticalSection
<1>2. QED
  BY <1>1 DEF Base, ControlInv, MutexExact

\* A step of a client leaves connection and cards where they are.
LEMMA SettledClient ==
    ASSUME OneSettledReader, Base, CohInv, NEW c \in Clients,
           UNCHANGED <<slot, card, conn, link, forceScanC, ctxDone, released, scan>>,
           \A p \in Procs \ {c} : pc'[p] = pc[p] /\ cmd'[p] = cmd[p] /\ res'[p] = res[p],
           AllAwaited => AllAwaited',
           Coherent(status'), Coherent(published'), ClientSettled(c)',
           \A g \in Monitors : pc[g] \in {"readers", "blocked"} =>
             status'.state \notin Callable /\ published'.state \notin Callable,
           \A g \in Monitors : BeforeChannel(g) => status'.state \notin Usable,
           status'.app = status.app \/ Watching,
           Resetting' \/ (~Resetting /\ status'.app = status.app)
    PROVE  CohInv'
<1>0. /\ \A d \in Clients : d = c
      /\ \A g \in Monitors : g \in Procs \ {c}
  BY SettledTypes DEF OneSettledReader
<1>1. \A d \in Clients : ClientSettled(d)'
  BY <1>0
<1>2. ASSUME NEW g \in Monitors PROVE MonitorSettled(g)'
  <2>1. MonitorSettled(g) /\ pc'[g] = pc[g] /\ cmd'[g] = cmd[g] /\ res'[g] = res[g]
    BY <1>0 DEF CohInv
  <2>2. CASE status'.app = status.app
    BY <2>1, <2>2 DEF MonitorSettled, BeforeChannel, NoChannel, Reported, InfoFits
  <2>3. CASE Watching
    BY <2>1, <2>3 DEF MonitorSettled, BeforeChannel, Reported, Watching, Connecting, Exchanging
  <2>4. QED
    BY <2>2, <2>3
<1>3. LinkFits'
  BY <1>0 DEF CohInv, LinkFits
<1>4. ChannelFits'
  BY DEF CohInv, ChannelFits, InfoFits
<1>5. QED
  BY <1>1, <1>2, <1>3, <1>4 DEF CohInv, Coherent

\* A client that is not resetting a card keeps to the status it has.
LEMMA SettledStatus ==
    ASSUME OneSettledReader, Base, CohInv, NEW c \in Clients,
           UNCHANGED <<slot, card, conn, link, forceScanC, ctxDone, released, scan>>,
           \A p \in Procs \ {c} : pc'[p] = pc[p] /\ cmd'[p] = cmd[p] /\ res'[p] = res[p],
           AllAwaited => AllAwaited',
           ClientSettled(c)', pc[c] \notin {"lock", "wait"},
           status'.app = status.app, Coherent(status'),
           status'.state \in {status.state, "connection-error"}
             \/ (status.state = "ready" /\ status'.state = "authorized"),
           published' \in {published, status'}
    PROVE  CohInv'
<1>1. "connection-error" \notin Callable /\ "ready" \in Callable /\ Usable \subseteq Callable
      /\ "ready" \in Usable
  BY DEF Callable, Usable
<1>2. \A g \in Monitors : pc[g] \in {"readers", "blocked"} =>
        status'.state \notin Callable /\ published'.state \notin Callable
  BY <1>1 DEF CohInv, MonitorSettled
<1>3. \A g \in Monitors : BeforeChannel(g) => status'.state \notin Usable
  BY <1>1 DEF CohInv, MonitorSettled
<1>4. ~Resetting
  BY DEF OneSettledReader, Resetting
<1>5. Coherent(published')
  BY DEF CohInv
<1>6. QED
  BY <1>2, <1>3, <1>4, <1>5, SettledClient

\* A call that is made, answered and over.
LEMMA ClientStaysSettled ==
    ASSUME OneSettledReader, Base, CohInv, NEW c \in Clients, Client(c) \/ Caller(c)
    PROVE  CohInv' \/ Panic
<1>0. /\ pc \in [Procs -> PCs] /\ cmd \in [Procs -> Command \cup {None}]
      /\ res \in [Procs -> Reply \cup {None}] /\ call \in [Clients -> CallRecord]
      /\ status \in Status /\ None \notin Cards \cup Op \cup Command \cup Reply \cup AppInfo \cup AppStatus
      /\ c \in Procs /\ Monitors \subseteq Procs /\ c \notin Monitors /\ ClientCommands
      /\ ClientSettled(c) /\ Coherent(status) /\ Coherent(published)
      /\ \A d \in Clients : d = c
  BY SettledTypes DEF CohInv, OneSettledReader
<1> SUFFICES ASSUME ~Panic PROVE CohInv'
  OBVIOUS
<1>1. ASSUME NEW op \in Op, Call(c, op) PROVE CohInv'
  <2>1. /\ op \in Op \ {"Stop"} /\ Permitted(op) /\ pc[c] = "idle" /\ Sensible(op)
    BY <1>1 DEF Call, OneSettledReader, MayCall
  <2>2. PICK command \in CardCommands(op) : cmd' = [cmd EXCEPT ![c] = command]
    BY <1>1 DEF Call
  <2>3. /\ call' = [call EXCEPT ![c] = [op |-> op, good |-> FALSE, left |-> Exports(op),
                                        made |-> @.made + 1]]
        /\ pc' = [pc EXCEPT ![c] = "lock"]
        /\ \/ op = "FactoryReset" /\ status' = Reset("factory-resetting") /\ published' = status'
           \/ op # "FactoryReset" /\ status' = status /\ published' = published
        /\ UNCHANGED <<world, conn, link, forceScanC, txq, life, res, scan>>
    BY <1>1 DEF Call, Goto, Publish
  <2>4. /\ pc'[c] = "lock" /\ cmd'[c] = command /\ call'[c].op = op
        /\ \A p \in Procs \ {c} : pc'[p] = pc[p] /\ cmd'[p] = cmd[p] /\ res'[p] = res[p]
    BY <1>0, <2>2, <2>3
  <2>5. published.state \in Callable
    BY <2>1 DEF Sensible, Op, Callable, Usable
  <2>6. Watching
    BY <2>1, <2>5 DEF Sensible, Waiting, Watching, CohInv, MonitorSettled
  <2>7. Watching'
    BY <1>0, <2>4, <2>6 DEF Watching
  <2>8. /\ command # "status"
        /\ command \in Dropping => op \in {"Initialize", "FactoryReset"}
        /\ op = "FactoryReset" => command = "reset"
    BY <2>1, PermittedMeans DEF CardCommands
  <2>9. ClientSettled(c)'
    BY <2>4, <2>7, <2>8 DEF ClientSettled, Talking, Forcing, Commanding, Exchanging, Reported
  <2>10. \A g \in Monitors : pc[g] \notin {"readers", "blocked"} /\ ~BeforeChannel(g)
    BY <2>6 DEF Watching, BeforeChannel, Exchanging
  <2>11. Resetting' \/ (~Resetting /\ status'.app = status.app)
    BY <1>0, <2>1, <2>3, <2>4 DEF Resetting
  <2>12. Coherent(status') /\ Coherent(published')
    BY <1>0, <2>3 DEF Coherent, Reset, Usable
  <2>13. QED
    BY <2>3, <2>4, <2>6, <2>9, <2>10, <2>11, <2>12, SettledClient DEF world, life, AllAwaited
<1>2. ASSUME Stop(c) PROVE FALSE
  BY <1>2 DEF Stop, MayCall, OneSettledReader
<1>3. CASE CommandDone(c)
  <2>1. Returning(c) /\ pc[c] \in {"got", "forced"} /\ cmd[c] # "status"
    BY <1>3 DEF CommandDone, Returning
  <2>2. /\ pc' = [pc EXCEPT ![c] = Epilogue(c)]
        /\ cmd' = [cmd EXCEPT ![c] = IF NextExport(c) THEN @ ELSE None]
        /\ res' = [res EXCEPT ![c] = None]
        /\ UNCHANGED <<world, conn, link, status, published, forceScanC, txq, life, scan>>
    BY <1>3 DEF CommandDone, Goto, Unlock
  <2>3. /\ pc'[c] = Epilogue(c) /\ cmd'[c] = IF NextExport(c) THEN cmd[c] ELSE None
        /\ \A p \in Procs \ {c} : pc'[p] = pc[p] /\ cmd'[p] = cmd[p] /\ res'[p] = res[p]
    BY <1>0, <2>2
  <2>4. Epilogue(c) \in {"refresh", "load", "lock", "idle", "metadata"}
    BY DEF Epilogue
  <2>5. Epilogue(c) # "idle" => call'[c].op = call[c].op
    BY <1>0, <1>3, <2>4 DEF CommandDone, CallRecord
  <2>6. /\ Epilogue(c) = "refresh" => call[c].op \in Interacting
        /\ Epilogue(c) = "lock" => NextExport(c)
        /\ Epilogue(c) = "metadata" => call[c].op = "StoreMetadata"
        /\ Epilogue(c) \in {"load", "lock", "metadata"} =>
             Succeeded(c) /\ (call[c].op \in {"LoadMnemonic", "StoreMetadata"} \/ cmd[c] = "export")
    BY DEF Epilogue, NextExport
  <2>7. NextExport(c) => cmd[c] = "export" /\ "export" \notin Dropping /\ "export" # "reset"
    BY DEF NextExport, Dropping, InitCommands
  <2>8. Epilogue(c) \in {"load", "lock", "metadata"} => Watching \/ NoCard
    <3>1. CASE pc[c] = "got"
      BY <1>0, <2>1, <3>1 DEF ClientSettled, Early, Exchanging
    <3>2. CASE pc[c] = "forced" /\ Epilogue(c) \in {"load", "lock", "metadata"}
      <4>1. Succeeded(c) /\ NeedsForce(c)
        BY <1>0, <2>6, <3>2 DEF ClientSettled, Forcing
      <4>2. cmd[c] \in Dropping /\ cmd[c] # "export"
        BY <4>1 DEF NeedsForce, Succeeded, SCardError, Dropping, InitCommands, Checked
      <4>3. call[c].op \in {"Initialize", "FactoryReset"}
        BY <1>0, <3>2, <4>2 DEF ClientSettled, Commanding
      <4>4. QED
        BY <2>6, <3>2, <4>2, <4>3
    <3>3. QED
      BY <2>1, <3>1, <3>2
  <2>9. (Watching => Watching') /\ (NoCard => NoCard')
    BY <1>0, <2>2, <2>3 DEF Watching, NoCard, world
  <2>10. None \notin Dropping /\ None # "status"
    BY <1>0 DEF Command, Dropping, ChannelCommands
  <2>11. cmd'[c] \notin Dropping /\ cmd'[c] # "status"
    BY <2>1, <2>3, <2>7, <2>10
  <2>12. ~(Epilogue(c) = "lock" /\ call[c].op = "FactoryReset")
    <3>1. CASE pc[c] = "got"
      BY <1>0, <2>6, <2>7, <3>1 DEF ClientSettled, Exchanging
    <3>2. CASE pc[c] = "forced"
      <4>1. Epilogue(c) = "lock" => NeedsForce(c) /\ Succeeded(c) /\ cmd[c] = "export"
        BY <1>0, <2>6, <2>7, <3>2 DEF ClientSettled, Forcing
      <4>2. QED
        BY <4>1 DEF NeedsForce, Succeeded, SCardError, InitCommands
    <3>3. QED
      BY <2>1, <3>1, <3>2
  <2>13. ClientSettled(c)'
    <3>1. CASE Epilogue(c) = "idle"
      BY <2>3, <3>1 DEF ClientSettled, Early, Talking, Forcing, Commanding, Exchanging, Reported
    <3>2. CASE Epilogue(c) = "refresh"
      BY <2>3, <2>5, <2>6, <3>2 DEF ClientSettled, Early, Talking, Forcing, Commanding, Exchanging, Reported
    <3>3. CASE Epilogue(c) \in {"load", "lock", "metadata"}
      BY <2>3, <2>5, <2>6, <2>8, <2>9, <2>11, <2>12, <3>3
         DEF ClientSettled, Early, Talking, Forcing, Commanding, Exchanging, Reported
    <3>4. QED
      BY <2>4, <3>1, <3>2, <3>3
  <2>14. QED
    BY <1>0, <2>1, <2>2, <2>3, <2>13, SettledStatus DEF world, life, AllAwaited
\* The rest changes the status and is over.
<1>4. ASSUME pc'[c] = "idle", pc[c] \notin {"lock", "wait"},
             UNCHANGED <<world, conn, link, forceScanC, txq, life, cmd, res, scan>>,
             \A p \in Procs \ {c} : pc'[p] = pc[p],
             status'.app = status.app, Coherent(status'), published' = status',
             status'.state = status.state \/ (status.state = "ready" /\ status'.state = "authorized")
      PROVE  CohInv'
  <2>1. ClientSettled(c)'
    BY <1>4 DEF ClientSettled, Early, Talking, Forcing, Commanding, Exchanging, Reported
  <2>2. QED
    BY <1>4, <2>1, SettledStatus DEF world, life, AllAwaited
<1>5. CASE OnAuthorizeInteractions(c)
  <2>1. /\ pc' = [pc EXCEPT ![c] = "idle"] /\ pc[c] = "authorize"
        /\ UNCHANGED <<world, conn, link, forceScanC, txq, life, cmd, res, scan>>
        /\ published' = status'
        /\ \/ status' = status
           \/ status.state = "ready" /\ status' = [status EXCEPT !.state = "authorized"]
    BY <1>5 DEF OnAuthorizeInteractions, Publish, Goto, WithState
  <2>2. pc'[c] = "idle" /\ \A p \in Procs \ {c} : pc'[p] = pc[p]
    BY <1>0, <2>1
  <2>3. /\ status'.app = status.app /\ status'.appst = status.appst
        /\ status'.state = status.state \/ (status.state = "ready" /\ status'.state = "authorized")
    BY <1>0, <2>1 DEF Status
  <2>4. Coherent(status')
    BY <1>0, <2>3 DEF Coherent, Usable
  <2>5. QED
    BY <1>4, <2>1, <2>2, <2>3, <2>4
<1>6. CASE MnemonicLoaded(c)
  <2>1. /\ pc' = [pc EXCEPT ![c] = "idle"] /\ pc[c] = "load" /\ status.appst # None
        /\ UNCHANGED <<world, conn, link, forceScanC, txq, life, cmd, res, scan>>
        /\ published' = status'
        /\ status' = [status EXCEPT !.appst = [@ EXCEPT !.keys = TRUE]]
    BY <1>6 DEF MnemonicLoaded, Publish, Goto
  <2>2. pc'[c] = "idle" /\ \A p \in Procs \ {c} : pc'[p] = pc[p]
    BY <1>0, <2>1
  <2>3. /\ status'.app = status.app /\ status'.state = status.state
        /\ status'.appst = [status.appst EXCEPT !.keys = TRUE]
    BY <1>0, <2>1 DEF Status
  <2>4. status.appst \in AppStatus
    BY <1>0, <2>1 DEF Status
  <2>5. /\ status'.appst \in AppStatus
        /\ status'.appst.pin = status.appst.pin /\ status'.appst.puk = status.appst.puk
        /\ status'.appst.card = status.appst.card
    BY <2>3, <2>4 DEF AppStatus
  <2>6. Coherent(status')
    BY <1>0, <2>3, <2>5 DEF Coherent
  <2>7. QED
    BY <1>4, <2>1, <2>2, <2>3, <2>6
<1>7. ASSUME CancelContext(c) \/ Shutdown(c) PROVE FALSE
  BY <1>0, <1>7 DEF CancelContext, Shutdown, ClientSettled, Talking, Forcing
<1>8. QED
  BY <1>1, <1>2, <1>3, <1>5, <1>6, <1>7 DEF Client, Caller

\* What a client shares with the monitor.
LEMMA ClientCommandStaysSettled ==
    ASSUME OneSettledReader, Base, CohInv, NEW c \in Clients, Either(c)
    PROVE  CohInv' \/ Panic
<1>0. /\ pc \in [Procs -> PCs] /\ cmd \in [Procs -> Command \cup {None}]
      /\ res \in [Procs -> Reply \cup {None}] /\ call \in [Clients -> CallRecord]
      /\ status \in Status /\ None \notin Cards \cup Op \cup Command \cup Reply \cup AppInfo \cup AppStatus
      /\ txq \in Seq(Requests) /\ LockedWhenLocking
      /\ c \in Procs /\ Monitors \subseteq Procs /\ c \notin Monitors
      /\ ClientSettled(c) /\ Coherent(status) /\ Coherent(published) /\ ~ctxDone
      /\ \A d \in Clients : d = c
      /\ \A g \in Monitors : MonitorSettled(g)
  BY SettledTypes DEF CohInv, OneSettledReader
<1> SUFFICES ASSUME ~Panic PROVE CohInv'
  OBVIOUS
<1>a. ASSUME \A p \in Procs \ {c} : pc'[p] = pc[p], slot' = slot
      PROVE  (Watching => Watching') /\ (NoCard => NoCard')
  BY <1>0, <1>a DEF Watching, NoCard
<1>1. CASE Lock(c)
  <2>1. /\ pc[c] = "lock" /\ cmd[c] \in Command
        /\ pc' = [pc EXCEPT ![c] = "wait"] /\ txq' = Append(txq, Request(c, cmd[c]))
        /\ UNCHANGED <<world, conn, link, status, published, forceScanC, life, cmd, res, call, scan>>
    BY <1>0, <1>1, CommandNames DEF Lock, Goto, LockedWhenLocking
  <2>2. pc'[c] = "wait" /\ \A p \in Procs \ {c} : pc'[p] = pc[p]
    BY <1>0, <2>1
  <2>3. AllAwaited => AllAwaited'
    BY <1>0, <2>1, AwaitedQueue
  <2>4. (Watching => Watching') /\ (NoCard => NoCard')
    BY <1>a, <2>1, <2>2 DEF world
  <2>5. ClientSettled(c)'
    BY <1>0, <2>1, <2>2, <2>4
       DEF ClientSettled, Early, Talking, Forcing, Commanding, Exchanging, Reported
  <2>6. Resetting <=> Resetting'
    BY <1>0, <2>1, <2>2 DEF Resetting
  <2>7. \A g \in Monitors :
          /\ pc[g] \in {"readers", "blocked"} => status.state \notin Callable /\ published.state \notin Callable
          /\ BeforeChannel(g) => status.state \notin Usable
    BY <1>0 DEF MonitorSettled
  <2>8. QED
    BY <1>0, <2>1, <2>2, <2>3, <2>5, <2>6, <2>7, SettledClient DEF world, life
<1>2. ASSUME TransmitDone(c) PROVE FALSE
  BY <1>0, <1>2 DEF TransmitDone
<1>3. CASE RefreshStatus(c)
  <2>1. /\ pc[c] = "refresh" /\ call[c].op \in Interacting
        /\ UNCHANGED <<world, conn, link, status, published, forceScanC, txq, life, res, call, scan>>
        /\ \/ pc' = [pc EXCEPT ![c] = "lock"] /\ cmd' = [cmd EXCEPT ![c] = "status"]
           \/ pc' = [pc EXCEPT ![c] = "authorize"] /\ cmd' = cmd
    BY <1>0, <1>3 DEF RefreshStatus, Goto, ClientSettled
  <2>2. /\ \A p \in Procs \ {c} : pc'[p] = pc[p] /\ cmd'[p] = cmd[p]
        /\ \/ pc'[c] = "lock" /\ cmd'[c] = "status"
           \/ pc'[c] = "authorize"
    BY <1>0, <2>1
  <2>3. "status" \notin Dropping /\ "FactoryReset" \notin Interacting
    BY DEF Dropping, InitCommands, Interacting, Authorizing
  <2>4. ClientSettled(c)'
    BY <2>1, <2>2, <2>3
       DEF ClientSettled, Early, Talking, Forcing, Commanding, Exchanging, Reported
  <2>5. QED
    BY <1>0, <2>1, <2>2, <2>4, SettledStatus DEF world, life, AllAwaited
<1>4. CASE StatusRefreshed(c)
  <2>1. /\ pc[c] = "got" /\ cmd[c] = "status" /\ published' = published
        /\ UNCHANGED <<world, conn, link, forceScanC, txq, life, call, scan>>
        /\ pc' = [pc EXCEPT ![c] = "authorize"]
        /\ cmd' = [cmd EXCEPT ![c] = None] /\ res' = [res EXCEPT ![c] = None]
    BY <1>0, <1>4 DEF StatusRefreshed, Goto, Unlock
  <2>2. /\ \A p \in Procs \ {c} : pc'[p] = pc[p] /\ cmd'[p] = cmd[p] /\ res'[p] = res[p]
        /\ pc'[c] = "authorize"
    BY <1>0, <2>1
  <2>3. ClientSettled(c)'
    BY <2>2 DEF ClientSettled, Early, Talking, Forcing, Commanding, Exchanging, Reported
  <2>4. CASE Failure(res[c])
    <3>1. status'.app = status.app /\ status'.state = "connection-error"
      BY <1>0, <1>4, <2>4 DEF StatusRefreshed, Status
    <3>2. Coherent(status')
      BY <3>1 DEF Coherent, Usable
    <3>3. QED
      BY <1>0, <2>1, <2>2, <2>3, <3>1, <3>2, SettledStatus DEF world, life, AllAwaited
  \* The card has answered on an open channel: no monitor is on its way to it.
  <2>5. CASE ~Failure(res[c])
    <3>1. /\ link /\ res[c].from = conn /\ InfoFits(conn) /\ conn \in Cards /\ card[conn].channel
          /\ res[c] \in Reply /\ AppStatusOf(res[c]) \in AppStatus
      BY <1>0, <2>1, <2>5
         DEF ClientSettled, Reported, CohInv, LinkFits, Failure, AppStatusOf, AppStatus, Reply, CardState
    <3>2. /\ status'.app = status.app /\ status'.appst = AppStatusOf(res[c])
          /\ status'.state = StateOfCard(res[c])
      BY <1>0, <1>4, <2>5 DEF StatusRefreshed, Status
    <3>3. /\ AppStatusOf(res[c]).pin = res[c].k.pin /\ AppStatusOf(res[c]).puk = res[c].k.puk
          /\ AppStatusOf(res[c]).card = res[c].from
          /\ res[c].k.pin \in Nat /\ res[c].k.puk \in Nat
      BY <3>1, KeycardAssumption DEF AppStatusOf, Reply, CardState
    <3>4. Coherent(status')
      BY <1>0, <3>1, <3>2, <3>3 DEF Coherent, Usable, StateOfCard, InfoFits
    <3>5. ~NoChannel
      BY <3>1 DEF NoChannel
    <3>6. \A g \in Monitors : pc[g] \notin {"readers", "blocked"}
      BY <3>1, LookingMeans
    <3>7. \A g \in Monitors : ~BeforeChannel(g)
      BY <1>0, <3>5 DEF MonitorSettled
    <3>8. ~Resetting
      BY <1>0, <2>1 DEF Resetting
    <3>9. QED
      BY <1>0, <2>1, <2>2, <2>3, <3>2, <3>4, <3>6, <3>7, <3>8, SettledClient DEF world, life, AllAwaited
  <2>6. QED
    BY <2>4, <2>5
\* The metadata are read, or not; the call is over.
<1>5. ASSUME NEW s, NEW fine, MetadataDone(c, s, fine), pc[c] \notin {"lock", "wait"},
             s.app = status.app, Coherent(s), s.state \in {status.state, "connection-error"},
             UNCHANGED <<world, conn, link, forceScanC, txq, life>>,
             \A p \in Procs \ {c} : cmd'[p] = cmd[p] /\ res'[p] = res[p]
      PROVE  CohInv'
  <2>1. /\ status' = s /\ scan' = scan /\ pc' = [pc EXCEPT ![c] = "idle"]
        /\ published' \in {published, status'}
    BY <1>0, <1>5 DEF MetadataDone, Goto
  <2>2. pc'[c] = "idle" /\ \A p \in Procs \ {c} : pc'[p] = pc[p]
    BY <1>0, <2>1
  <2>3. ClientSettled(c)'
    BY <2>2 DEF ClientSettled, Early, Talking, Forcing, Commanding, Exchanging, Reported
  <2>4. QED
    BY <1>5, <2>1, <2>2, <2>3, SettledStatus DEF world, life, AllAwaited
<1>6. LET s == WithState("connection-error") IN
        s.app = status.app /\ Coherent(s) /\ s.state = "connection-error"
  BY <1>0 DEF WithState, Status, Coherent, Usable
<1>7. \A m : LET s == [status EXCEPT !.meta = m] IN
        s.app = status.app /\ Coherent(s) /\ s.state = status.state
  BY <1>0 DEF Status, Coherent
<1>8. CASE RefreshMetadata(c)
  <2>1. CASE /\ Goto(c, "lock")
             /\ cmd' = [cmd EXCEPT ![c] = "getData"]
             /\ UNCHANGED <<status, published, call, scan>>
    <3>1. /\ pc[c] = "metadata" /\ pc' = [pc EXCEPT ![c] = "lock"]
          /\ UNCHANGED <<world, conn, link, forceScanC, txq, life, res>>
      BY <1>8, <2>1 DEF RefreshMetadata, Goto
    <3>2. /\ \A p \in Procs \ {c} : pc'[p] = pc[p] /\ cmd'[p] = cmd[p]
          /\ pc'[c] = "lock" /\ cmd'[c] = "getData"
      BY <1>0, <2>1, <3>1
    <3>3. "getData" \notin Dropping
      BY DEF Dropping, InitCommands
    <3>4. (Watching => Watching') /\ (NoCard => NoCard')
      BY <1>a, <3>1, <3>2 DEF world
    <3>5. ClientSettled(c)'
      BY <1>0, <2>1, <3>1, <3>2, <3>3, <3>4
         DEF ClientSettled, Early, Talking, Forcing, Commanding, Exchanging, Reported
    <3>6. QED
      BY <1>0, <2>1, <3>1, <3>2, <3>5, SettledStatus DEF world, life, AllAwaited
  <2>2. CASE MetadataDone(c, WithState("connection-error"), FALSE) /\ UNCHANGED cmd
    BY <1>5, <1>6, <1>8, <2>2 DEF RefreshMetadata
  <2>3. QED
    BY <1>8, <2>1, <2>2 DEF RefreshMetadata
<1>9. CASE MetadataRead(c)
  <2>1. \E s, fine : /\ MetadataDone(c, s, fine)
                     /\ s.app = status.app /\ Coherent(s)
                     /\ s.state \in {status.state, "connection-error"}
    <3>1. CASE Failure(res[c])
      BY <1>6, <1>9, <3>1 DEF MetadataRead
    <3>2. CASE ~Failure(res[c])
      <4>1. \E m : MetadataDone(c, [status EXCEPT !.meta = m], TRUE)
        BY <1>9, <3>2 DEF MetadataRead
      <4>2. QED
        BY <1>7, <4>1
    <3>3. QED
      BY <3>1, <3>2
  <2>2. /\ UNCHANGED <<world, conn, link, forceScanC, txq, life>> /\ pc[c] \notin {"lock", "wait"}
        /\ \A p \in Procs \ {c} : cmd'[p] = cmd[p] /\ res'[p] = res[p]
    BY <1>0, <1>9 DEF MetadataRead, Unlock, Returning
  <2>3. QED
    BY <1>5, <2>1, <2>2
<1>10. CASE DropConnection(c)
  <2>1. /\ pc[c] = "got" /\ NeedsForce(c)
        /\ conn' = None /\ link' = FALSE /\ txq' = Stale(txq) /\ pc' = [pc EXCEPT ![c] = "force"]
        /\ UNCHANGED <<world, status, published, forceScanC, life, cmd, res, call, scan>>
    BY <1>10 DEF DropConnection, Goto
  <2>2. pc'[c] = "force" /\ \A p \in Procs \ {c} : pc'[p] = pc[p]
    BY <1>0, <2>1
  <2>3. (Watching => Watching') /\ (NoCard => NoCard')
    BY <1>a, <2>1, <2>2 DEF world
  <2>4. cmd[c] # "status"
    BY <2>1 DEF NeedsForce, Checked, InitCommands
  <2>5. Early(c) /\ NoChannel
    BY <1>0, <2>1, <2>4 DEF Early, ClientSettled, Exchanging
  <2>6. NeedsForce(c)'
    BY <2>1 DEF NeedsForce, Succeeded, SCardError
  <2>7. ClientSettled(c)'
    BY <1>0, <2>1, <2>2, <2>3, <2>4, <2>5, <2>6
       DEF ClientSettled, Talking, Forcing, Commanding, Exchanging, Reported
  <2>8. ASSUME NEW g \in Monitors PROVE MonitorSettled(g)'
    <3>1. pc[g] \notin Connecting
      BY <2>5, ConnectingMeans
    <3>2. MonitorSettled(g) /\ pc'[g] = pc[g] /\ cmd'[g] = cmd[g]
      BY <1>0, <2>1, <2>2
    <3>3. QED
      BY <2>1, <3>1, <3>2 DEF MonitorSettled, Connecting, Exchanging, BeforeChannel, Reported
  <2>9. AllAwaited => AllAwaited'
    BY <1>0, <2>1, AwaitedQueue
  <2>10. ChannelFits' /\ LinkFits'
    BY <2>1, <2>5 DEF ChannelFits, LinkFits, NoChannel, world
  <2>11. QED
    BY <1>0, <2>1, <2>7, <2>8, <2>9, <2>10 DEF CohInv, life, Coherent
<1>11. CASE ForceScan(c)
  <2>1. /\ pc[c] = "force" /\ UNCHANGED <<world, object, life, cmd, res, call, scan>>
        /\ \/ pc' = [pc EXCEPT ![c] = "sending"]
           \/ pc' = [pc EXCEPT ![c] = "orphan"]
    BY <1>11 DEF ForceScan, Goto
  <2>2. pc'[c] \in {"sending", "orphan"} /\ \A p \in Procs \ {c} : pc'[p] = pc[p]
    BY <1>0, <2>1
  <2>3. (Watching => Watching') /\ (NoCard => NoCard')
    BY <1>a, <2>1, <2>2 DEF world
  <2>4. NeedsForce(c)'
    BY <1>0, <2>1 DEF ClientSettled, Forcing, NeedsForce, Succeeded, SCardError
  <2>5. ClientSettled(c)'
    BY <1>0, <2>1, <2>2, <2>3, <2>4
       DEF ClientSettled, Early, Talking, Forcing, Commanding, Exchanging, Reported, object
  <2>6. QED
    BY <1>0, <2>1, <2>2, <2>5, SettledStatus DEF world, object, life, AllAwaited
<1>12. ASSUME SendOnClosed(c) PROVE FALSE
  BY <1>12 DEF SendOnClosed
<1>13. QED
  BY <1>1, <1>2, <1>3, <1>4, <1>8, <1>9, <1>10, <1>11, <1>12 DEF Either

\* With every channel closed no status has been reported on one.
LEMMA ClosedMeans ==
    ASSUME CohInv, NoChannel
    PROVE  \A c \in Clients : ~Reported(c)
BY DEF CohInv, ClientSettled, LinkFits, NoChannel

\* A step of the monitor leaves the clients where they are.
LEMMA SettledMonitor ==
    ASSUME Base, CohInv,
           UNCHANGED <<slot, card, ctxDone, released, call>>,
           forceScanC' \in {forceScanC, "open"}, AllAwaited => AllAwaited',
           \A c \in Clients :
             /\ cmd'[c] = cmd[c] /\ res'[c] = res[c]
             /\ pc'[c] = pc[c] \/ (pc[c] = "sending" /\ pc'[c] \in {"orphan", "forced"}),
           \A h \in Monitors : MonitorSettled(h)', LinkFits',
           Coherent(status'), Coherent(published'),
           \/ conn' = conn /\ link' = link /\ status'.app = status.app
           \/ NoChannel /\ (conn' \in {conn, None} \/ \A c \in Clients : ~Early(c)),
           \A c \in Clients : Early(c)' => Watching' \/ NoCard
    PROVE  CohInv'
<1>1. ASSUME NEW c \in Clients PROVE ClientSettled(c)'
  <2>1. ClientSettled(c) /\ (NoChannel => ~Reported(c)) /\ (NoChannel => NoChannel')
    BY ClosedMeans DEF CohInv, NoChannel
  <2>2. NeedsForce(c) <=> NeedsForce(c)'
    BY DEF NeedsForce, Succeeded, SCardError
  <2>3. NoCard => NoCard'
    BY DEF NoCard
  <2>4. CASE pc'[c] = pc[c]
    <3>1. Early(c)' => Watching' \/ NoCard'
      BY <2>3
    <3>2. pc'[c] \in {"force", "sending"} => conn' = None
      BY <2>1, <2>4 DEF ClientSettled, Early
    <3>3. Reported(c)' => link' /\ res'[c].from = conn' /\ InfoFits(conn)' /\ card'[conn'].channel
      <4>1. Reported(c)' <=> Reported(c)
        BY <2>4 DEF Reported
      <4>2. QED
        BY <2>1, <4>1 DEF ClientSettled, InfoFits
    <3>4. QED
      BY <2>1, <2>2, <2>4, <3>1, <3>2, <3>3 DEF ClientSettled
  <2>5. CASE pc[c] = "sending" /\ pc'[c] \in {"orphan", "forced"}
    BY <2>1, <2>2, <2>5
       DEF ClientSettled, Early, Talking, Forcing, Commanding, Exchanging, Reported
  <2>6. QED
    BY <2>4, <2>5
<1>2. ChannelFits'
  <2>1. Resetting => Resetting'
    BY DEF Resetting
  <2>2. NoChannel => ChannelFits'
    BY DEF NoChannel, ChannelFits
  <2>3. QED
    BY <2>1, <2>2 DEF CohInv, ChannelFits, InfoFits
<1>3. QED
  BY <1>1, <1>2 DEF CohInv, Coherent

\* One monitor runs, and it may name its successor.
LEMMA OneSettledMonitor ==
    ASSUME Base, CohInv, NEW g \in Monitors, pc[g] # "idle", slot' = slot
    PROVE  /\ \A where : Goto(g, where) /\ MonitorSettled(g)' =>
                /\ \A h \in Monitors : MonitorSettled(h)'
                /\ \A c \in Clients : pc'[c] = pc[c]
           /\ Watch(g) /\ pc[g] \in Connecting /\ UNCHANGED <<conn, link>> =>
                /\ \A h \in Monitors : MonitorSettled(h)'
                /\ LinkFits'
                /\ \A c \in Clients : pc'[c] = pc[c]
           /\ StartDetection(g) =>
                /\ \A h \in Monitors : MonitorSettled(h)'
                /\ \A c \in Clients : pc'[c] = pc[c]
<1>0. /\ pc \in [Procs -> PCs] /\ Monitors \subseteq Procs /\ Clients \subseteq Procs
      /\ \A c \in Clients : c \notin Monitors
      /\ scan \in [Monitors -> ScanRecord]
      /\ \A h \in Monitors \ {g} : pc[h] = "idle"
  BY SettledTypes
<1>1. \A h \in Monitors : pc'[h] \in {"idle", "detect"} => MonitorSettled(h)'
  BY DEF MonitorSettled, Connecting, Exchanging, BeforeChannel, Reported
<1>2. ASSUME NEW where, Goto(g, where), MonitorSettled(g)'
      PROVE  /\ \A h \in Monitors : MonitorSettled(h)'
             /\ \A c \in Clients : pc'[c] = pc[c]
  <2>1. \A p \in Procs \ {g} : pc'[p] = pc[p]
    BY <1>0, <1>2 DEF Goto
  <2>2. QED
    BY <1>0, <1>1, <1>2, <2>1
<1>3. ASSUME NEW where \in {"poll", "detect"}, NEW next, HandOver(g, where, next)
      PROVE  \E h \in Monitors :
               /\ pc'[h] = where /\ scan'[h] = next
               /\ \A m \in Monitors \ {h} : pc'[m] = "idle"
               /\ \A c \in Clients : pc'[c] = pc[c]
  <2>1. PICK h \in Monitors :
          /\ pc[h] = "idle" /\ h # g
          /\ pc' = [pc EXCEPT ![g] = "idle", ![h] = where]
          /\ scan' = [scan EXCEPT ![g] = [active |-> None, known |-> {}], ![h] = next]
    BY <1>3 DEF HandOver
  <2>2. QED
    BY <1>0, <2>1
<1>4. ASSUME Watch(g), pc[g] \in Connecting, UNCHANGED <<conn, link>>
      PROVE  /\ \A h \in Monitors : MonitorSettled(h)'
             /\ LinkFits'
             /\ \A c \in Clients : pc'[c] = pc[c]
  <2>1. PICK h \in Monitors :
          /\ pc'[h] = "poll" /\ scan'[h] = [active |-> scan[g].active, known |-> {}]
          /\ \A m \in Monitors \ {h} : pc'[m] = "idle"
          /\ \A c \in Clients : pc'[c] = pc[c]
    BY <1>3, <1>4 DEF Watch
  <2>2. /\ link /\ conn \in Cards
        /\ scan[g].active \in Readers /\ slot[scan[g].active] = conn
    BY <1>4, ConnectingMeans
  <2>3. MonitorSettled(h)'
    BY <2>1, <2>2 DEF MonitorSettled, Connecting, Exchanging, BeforeChannel, Reported
  <2>4. LinkFits'
    BY <1>4, <2>1, <2>2 DEF LinkFits
  <2>5. QED
    BY <1>1, <2>1, <2>3, <2>4
<1>5. ASSUME StartDetection(g)
      PROVE  /\ \A h \in Monitors : MonitorSettled(h)'
             /\ \A c \in Clients : pc'[c] = pc[c]
  <2>1. PICK h \in Monitors :
          /\ pc'[h] = "detect"
          /\ \A m \in Monitors \ {h} : pc'[m] = "idle"
          /\ \A c \in Clients : pc'[c] = pc[c]
    BY <1>3, <1>5 DEF StartDetection
  <2>2. QED
    BY <1>1, <2>1
<1>6. QED
  BY <1>2, <1>4, <1>5

\* The monitor returns from a connection to watching its card.
LEMMA WatchingStaysSettled ==
    ASSUME Base, CohInv, NEW g \in Monitors, pc[g] \in Connecting, Watch(g),
           UNCHANGED <<world, conn, link, forceScanC, life, call>>,
           \A c \in Clients : cmd'[c] = cmd[c] /\ res'[c] = res[c],
           AllAwaited => AllAwaited',
           status'.app = status.app, Coherent(status'), Coherent(published')
    PROVE  CohInv'
<1>1. slot' = slot /\ pc[g] # "idle"
  BY DEF Connecting, Exchanging, world
<1>2. /\ \A h \in Monitors : MonitorSettled(h)'
      /\ LinkFits'
      /\ \A c \in Clients : pc'[c] = pc[c]
  BY <1>1, OneSettledMonitor
<1>3. \A c \in Clients : ~Early(c)'
  BY <1>2, ConnectingMeans DEF Early
<1>4. QED
  BY <1>1, <1>2, <1>3, SettledMonitor DEF life, world

\* The monitor goes on with its connection.
LEMMA ConnectionStaysSettled ==
    ASSUME Base, CohInv, NEW g \in Monitors, pc[g] \in Connecting,
           NEW where \in Connecting, Goto(g, where), MonitorSettled(g)',
           UNCHANGED <<world, conn, link, forceScanC, life, call, scan>>,
           \A c \in Clients : cmd'[c] = cmd[c] /\ res'[c] = res[c],
           AllAwaited => AllAwaited',
           status'.app = status.app \/ NoChannel, Coherent(status'), Coherent(published')
    PROVE  CohInv'
<1>1. slot' = slot /\ pc[g] # "idle" /\ pc \in [Procs -> PCs] /\ g \in Procs
  BY SettledTypes DEF Connecting, Exchanging, world
<1>2. /\ \A h \in Monitors : MonitorSettled(h)'
      /\ \A c \in Clients : pc'[c] = pc[c]
  BY <1>1, OneSettledMonitor
<1>3. \A c \in Clients : ~Early(c)'
  BY <1>2, ConnectingMeans DEF Early
<1>4. LinkFits'
  <2>1. pc'[g] = where
    BY <1>1 DEF Goto
  <2>2. QED
    BY <1>1, <2>1, ConnectingMeans DEF LinkFits
<1>5. QED
  BY <1>1, <1>2, <1>3, <1>4, SettledMonitor DEF life, world


\* Statuses that announce no usable card.
LEMMA TroubleIsCoherent ==
    ASSUME status \in Status, NEW x \in State \ Usable
    PROVE  /\ Publish(WithState(x)) =>
                /\ Coherent(status') /\ Coherent(published')
                /\ status'.app = status.app /\ status'.state = x /\ published'.state = x
           /\ Publish(Reset(x)) =>
                /\ Coherent(status') /\ Coherent(published')
                /\ status'.state = x /\ published'.state = x
BY DEF WithState, Reset, Publish, Coherent, Status

\* The monitor looks for a card, without a connection.
LEMMA LookingStaysSettled ==
    ASSUME Base, CohInv,
           UNCHANGED <<slot, card, ctxDone, released, call>>,
           forceScanC' \in {forceScanC, "open"}, AllAwaited => AllAwaited',
           \A c \in Clients :
             /\ cmd'[c] = cmd[c] /\ res'[c] = res[c]
             /\ pc'[c] = pc[c] \/ (pc[c] = "sending" /\ pc'[c] = "orphan"),
           \A h \in Monitors : MonitorSettled(h)',
           ~link', conn' \in {conn, None}, NoChannel,
           Coherent(status'), Coherent(published'),
           \A c \in Clients : Early(c) => NoCard
    PROVE  CohInv'
<1>1. LinkFits'
  BY DEF LinkFits
<1>2. \A c \in Clients : Early(c)' => NoCard
  BY DEF Early, Exchanging
<1>3. QED
  BY <1>1, <1>2, SettledMonitor

\* The monitor's detection of readers and cards.
LEMMA DetectionStaysSettled ==
    ASSUME OneSettledReader, Base, CohInv, NEW g \in Monitors,
           \/ Detect(g) \/ ConnectCard(g) \/ CardSelected(g)
           \/ AwaitReaders(g) \/ ReadersChanged(g)
    PROVE  CohInv'
<1>0. /\ pc \in [Procs -> PCs] /\ cmd \in [Procs -> Command \cup {None}]
      /\ res \in [Procs -> Reply \cup {None}] /\ status \in Status
      /\ txq \in Seq(Requests) /\ conn \in Cards \cup {None}
      /\ slot \in [Readers -> Cards \cup {None, Unplugged}] /\ Unplugged \notin Cards
      /\ scan \in [Monitors -> ScanRecord]
      /\ None \notin Cards \cup Op \cup Command \cup Reply \cup AppInfo \cup AppStatus
      /\ None \notin Procs
      /\ Monitors \subseteq Procs /\ Clients \subseteq Procs /\ \A c \in Clients : c \notin Monitors
      /\ Coherent(status) /\ Coherent(published) /\ MonitorSettled(g)
      /\ ~released
      /\ \A h \in Monitors \ {g} : pc[g] # "idle" => pc[h] = "idle"
  BY SettledTypes DEF CohInv
<1>1. /\ "connection-error" \in State \ Usable /\ "connection-error" \notin Callable
      /\ "internal-error" \in State \ Usable /\ "internal-error" \notin Callable
      /\ "waiting-for-reader" \in State \ Usable /\ "waiting-for-reader" \notin Callable
      /\ "waiting-for-card" \in State \ Usable /\ "waiting-for-card" \notin Callable
      /\ "not-keycard" \notin Callable /\ Usable \subseteq Callable
  BY DEF State, Usable, Callable
<1>2. ASSUME pc'[g] \in {"idle", "detect", "readers", "blocked", "connect"},
             pc'[g] \in {"readers", "blocked"} =>
               status'.state \notin Callable /\ published'.state \notin Callable,
             pc'[g] = "connect" => scan'[g].active \in Readers
      PROVE  MonitorSettled(g)'
  BY <1>2 DEF MonitorSettled, Connecting, Exchanging, BeforeChannel, Reported
<1>3. CASE Detect(g)
  <2>1. /\ pc[g] = "detect" /\ UNCHANGED <<slot, card, life, cmd, res, call>>
        /\ forceScanC' \in {forceScanC, "open"} /\ conn' \in {conn, None}
    BY <1>3 DEF Detect
  <2>2. /\ ~link /\ NoChannel
        /\ \A c \in Clients : Early(c) => NoCard
    BY <2>1, LookingMeans
  <2>3. AllAwaited => AllAwaited'
    <3>1. txq' = txq \/ txq' = Stale(txq)
      BY <1>3 DEF Detect
    <3>2. QED
      BY <1>0, <3>1, AwaitedQueue DEF AllAwaited
  <2>4. ~link'
    BY <1>3, <2>2 DEF Detect
  <2>5. CASE ListingFails
    <3>1. Publish(Reset("internal-error")) /\ Goto(g, "idle")
      BY <1>3, <2>5 DEF Detect
    <3>2. pc'[g] = "idle" /\ Coherent(status') /\ Coherent(published')
      BY <1>0, <1>1, <3>1, TroubleIsCoherent DEF Goto
    <3>3. /\ \A h \in Monitors : MonitorSettled(h)'
          /\ \A c \in Clients : pc'[c] = pc[c]
      BY <1>2, <2>1, <3>1, <3>2, OneSettledMonitor
    <3>4. QED
      BY <2>1, <2>2, <2>3, <2>4, <3>2, <3>3, LookingStaysSettled DEF life
  <2>6. CASE ~ListingFails /\ Listed = {}
    <3>1. Publish(Reset("waiting-for-reader")) /\ Goto(g, "readers")
      BY <1>3, <2>6 DEF Detect
    <3>2. /\ pc'[g] = "readers" /\ Coherent(status') /\ Coherent(published')
          /\ status'.state \notin Callable /\ published'.state \notin Callable
      BY <1>0, <1>1, <3>1, TroubleIsCoherent DEF Goto
    <3>3. /\ \A h \in Monitors : MonitorSettled(h)'
          /\ \A c \in Clients : pc'[c] = pc[c]
      BY <1>2, <2>1, <3>1, <3>2, OneSettledMonitor
    <3>4. QED
      BY <2>1, <2>2, <2>3, <2>4, <3>2, <3>3, LookingStaysSettled DEF life
  <2>7. CASE ~ListingFails /\ Listed # {}
    <3>1. PICK where \in {"readers", "connect"} :
            /\ where = "connect" <=> WithCard # {}
            /\ pc' = [p \in Procs |-> IF p = g THEN where
                                      ELSE IF pc[p] = "sending" THEN "orphan"
                                      ELSE pc[p]]
      BY <1>3, <2>7 DEF Detect
    <3>2. /\ pc'[g] = where
          /\ \A p \in Procs \ {g} :
               pc'[p] = pc[p] \/ (pc[p] = "sending" /\ pc'[p] = "orphan")
      BY <1>0, <3>1
    <3>3. /\ where = "readers" => status'.state \notin Callable /\ published'.state \notin Callable
          /\ where = "connect" => scan'[g].active \in Readers
          /\ Coherent(status') /\ Coherent(published')
      <4>1. CASE WithCard = {}
        <5>1. Publish(Reset("waiting-for-card")) /\ where = "readers"
          BY <1>3, <2>7, <3>1, <4>1 DEF Detect
        <5>2. QED
          BY <1>0, <1>1, <5>1, TroubleIsCoherent
      <4>2. CASE WithCard # {}
        <5>1. PICK r \in WithCard :
                /\ scan' = [scan EXCEPT ![g] = [active |-> r, known |-> Listed]]
                /\ UNCHANGED <<status, published>>
          BY <1>3, <2>7, <4>2 DEF Detect
        <5>2. scan'[g].active = r /\ r \in Readers
          BY <1>0, <5>1 DEF WithCard, Listed
        <5>3. QED
          BY <1>0, <3>1, <4>2, <5>1, <5>2
      <4>3. QED
        BY <4>1, <4>2
    <3>4. MonitorSettled(g)'
      BY <1>2, <3>2, <3>3
    <3>5. ASSUME NEW h \in Monitors \ {g} PROVE MonitorSettled(h)'
      <4>1. pc[h] = "idle"
        BY <1>0, <2>1
      <4>2. pc'[h] = "idle"
        BY <1>0, <3>2, <4>1
      <4>3. QED
        BY <4>2 DEF MonitorSettled, Connecting, Exchanging, BeforeChannel, Reported
    <3>6. \A c \in Clients : pc'[c] = pc[c] \/ (pc[c] = "sending" /\ pc'[c] = "orphan")
      BY <1>0, <3>2
    <3>7. QED
      BY <2>1, <2>2, <2>3, <2>4, <3>3, <3>4, <3>5, <3>6, LookingStaysSettled DEF life
  <2>8. QED
    BY <2>5, <2>6, <2>7
<1>4. CASE ConnectCard(g)
  <2>1. /\ pc[g] = "connect" /\ scan[g].active \in Readers
        /\ UNCHANGED <<world, forceScanC, txq, life, res, call, scan>>
    BY <1>0, <1>4 DEF ConnectCard, MonitorSettled
  <2>2. /\ ~link /\ NoChannel
        /\ \A c \in Clients : Early(c) => NoCard
    BY <2>1, LookingMeans
  <2>3. CASE /\ Publish(WithState("connection-error"))
             /\ Goto(g, "readers")
             /\ UNCHANGED <<conn, link, cmd>>
    <3>1. /\ pc'[g] = "readers" /\ Coherent(status') /\ Coherent(published')
          /\ status'.state \notin Callable /\ published'.state \notin Callable
      BY <1>0, <1>1, <2>3, TroubleIsCoherent DEF Goto
    <3>2. /\ \A h \in Monitors : MonitorSettled(h)'
          /\ \A c \in Clients : pc'[c] = pc[c]
      BY <1>2, <2>1, <2>3, <3>1, OneSettledMonitor DEF world
    <3>3. QED
      BY <2>1, <2>2, <2>3, <3>1, <3>2, LookingStaysSettled DEF life, world, AllAwaited
  <2>4. CASE /\ slot[scan[g].active] \in Cards
             /\ conn' = slot[scan[g].active]
             /\ link' = TRUE
             /\ Goto(g, "lock")
             /\ cmd' = [cmd EXCEPT ![g] = "select"]
             /\ UNCHANGED <<status, published>>
    <3>1. pc'[g] = "lock" /\ cmd'[g] = "select" /\ \A c \in Clients : cmd'[c] = cmd[c]
      BY <1>0, <2>4 DEF Goto
    <3>2. NoChannel'
      BY <2>1, <2>2 DEF NoChannel, world
    <3>3. MonitorSettled(g)'
      BY <2>1, <2>4, <3>1, <3>2
         DEF MonitorSettled, Connecting, Exchanging, BeforeChannel, Reported, world
    <3>4. /\ \A h \in Monitors : MonitorSettled(h)'
          /\ \A c \in Clients : pc'[c] = pc[c]
      BY <2>1, <2>4, <3>3, OneSettledMonitor DEF world
    <3>5. LinkFits'
      BY <2>1, <2>4, <3>1 DEF LinkFits, Connecting, Exchanging, world
    <3>6. ~NoCard
      BY <2>1, <2>4 DEF NoCard
    <3>7. \A c \in Clients : ~Early(c) /\ ~Early(c)'
      BY <2>2, <3>1, <3>4, <3>6 DEF Early
    <3>8. QED
      BY <1>0, <2>1, <2>2, <2>4, <3>1, <3>4, <3>5, <3>7, SettledMonitor DEF life, world, AllAwaited
  <2>5. QED
    BY <1>4, <2>3, <2>4 DEF ConnectCard
<1>5. CASE CardSelected(g)
  <2>1. /\ pc[g] = "got" /\ cmd[g] = "select"
        /\ UNCHANGED <<world, forceScanC, life, call, scan>>
        /\ res' = [res EXCEPT ![g] = None] /\ cmd' = [cmd EXCEPT ![g] = None]
    BY <1>5 DEF CardSelected, Unlock
  <2>2. /\ cmd'[g] = None /\ \A c \in Clients : cmd'[c] = cmd[c] /\ res'[c] = res[c]
    BY <1>0, <2>1
  <2>3. /\ NoChannel /\ pc[g] \in Connecting /\ res[g] # None /\ res[g].from = conn
        /\ res[g].k.init = card[conn].init
    BY <1>0, <2>1 DEF MonitorSettled, Connecting, Exchanging
  <2>4. /\ link /\ conn \in Cards
        /\ scan[g].active \in Readers /\ slot[scan[g].active] = conn
        /\ \A c \in Clients : ~Early(c)
    BY <2>3, ConnectingMeans
  <2>5. CASE /\ status'.state \notin Callable /\ published' = status'
             /\ Goto(g, "readers")
             /\ conn' = None /\ link' = FALSE /\ txq' = Stale(txq)
    <3>1. pc'[g] = "readers" /\ Coherent(status') /\ Coherent(published')
      BY <1>0, <1>1, <2>5 DEF Goto, Coherent
    <3>2. /\ \A h \in Monitors : MonitorSettled(h)'
          /\ \A c \in Clients : pc'[c] = pc[c]
      BY <1>2, <2>1, <2>5, <3>1, OneSettledMonitor DEF world
    <3>3. AllAwaited => AllAwaited'
      BY <1>0, <2>5, AwaitedQueue
    <3>4. QED
      BY <2>1, <2>2, <2>3, <2>4, <2>5, <3>1, <3>2, <3>3, LookingStaysSettled DEF life, world
  <2>6. CASE /\ Publish([status EXCEPT !.app = InfoOf(res[g]), !.state = "connecting-card"])
             /\ Goto(g, "keycard") /\ UNCHANGED <<conn, link, txq>>
    <3>1. pc'[g] = "keycard" /\ "keycard" \in Connecting
      BY <1>0, <2>6 DEF Goto, Connecting
    <3>2. /\ status'.app = InfoOf(res[g]) /\ status'.state = "connecting-card"
          /\ published' = status' /\ InfoOf(res[g]) \in AppInfo
      BY <1>0, <2>3, <2>6 DEF Status, InfoOf, AppInfo, Reply, CardState, Publish
    <3>3. status'.app # None /\ status'.app.card = conn /\ status'.app.init = card[conn].init
      BY <1>0, <2>3, <3>2 DEF InfoOf
    <3>4. "connecting-card" \notin Usable /\ NoChannel'
      BY <2>1, <2>3 DEF Usable, NoChannel, world
    <3>5. MonitorSettled(g)'
      BY <2>1, <2>4, <2>6, <3>1, <3>2, <3>3, <3>4
         DEF MonitorSettled, Connecting, Exchanging, BeforeChannel, Reported, world
    <3>6. Coherent(status') /\ Coherent(published')
      BY <3>2, <3>4 DEF Coherent
    <3>7. QED
      BY <2>1, <2>2, <2>3, <2>6, <3>1, <3>5, <3>6, ConnectionStaysSettled DEF AllAwaited
  <2>7. CASE Failure(res[g]) \/ sim = "select-applet"
    <3>1. /\ Publish(WithState("connection-error"))
          /\ Goto(g, "readers") /\ conn' = None /\ link' = FALSE /\ txq' = Stale(txq)
      BY <1>5, <2>7 DEF CardSelected
    <3>2. status'.state = "connection-error" /\ published' = status'
      BY <1>0, <1>1, <3>1, TroubleIsCoherent DEF Publish
    <3>3. QED
      BY <1>1, <2>5, <3>1, <3>2
  <2>8. CASE ~(Failure(res[g]) \/ sim = "select-applet")
    <3>1. LET info == InfoOf(res[g]) IN
            /\ Publish([status EXCEPT !.app = info,
                            !.state = IF info.installed THEN "connecting-card" ELSE "not-keycard"])
            /\ Goto(g, IF info.installed THEN "keycard" ELSE "readers")
            /\ IF info.installed
               THEN UNCHANGED <<conn, link, txq>>
               ELSE conn' = None /\ link' = FALSE /\ txq' = Stale(txq)
      BY <1>5, <2>8 DEF CardSelected
    <3>2. CASE InfoOf(res[g]).installed
      BY <2>6, <3>1, <3>2
    <3>3. CASE ~InfoOf(res[g]).installed
      <4>1. /\ status' = [status EXCEPT !.app = InfoOf(res[g]), !.state = "not-keycard"]
            /\ published' = status'
        BY <3>1, <3>3 DEF Publish
      <4>2. status'.state = "not-keycard"
        BY <1>0, <4>1 DEF Status
      <4>3. QED
        BY <1>1, <2>5, <3>1, <3>3, <4>1, <4>2
    <3>4. QED
      BY <3>2, <3>3
  <2>9. QED
    BY <2>7, <2>8
<1>6. CASE AwaitReaders(g) \/ ReadersChanged(g)
  <2>1. /\ pc[g] \in {"readers", "blocked"}
        /\ UNCHANGED <<world, object, life, cmd, res, call>>
        /\ \E where \in {"idle", "detect", "blocked"} : Goto(g, where)
    BY <1>6 DEF AwaitReaders, ReadersChanged
  <2>2. PICK where \in {"idle", "detect", "blocked"} : Goto(g, where)
    BY <2>1
  <2>3. /\ ~link /\ NoChannel
        /\ \A c \in Clients : Early(c) => NoCard
    BY <2>1, LookingMeans
  <2>4. /\ pc'[g] = where
        /\ status'.state \notin Callable /\ published'.state \notin Callable
    BY <1>0, <2>1, <2>2 DEF Goto, MonitorSettled, object
  <2>5. /\ \A h \in Monitors : MonitorSettled(h)'
        /\ \A c \in Clients : pc'[c] = pc[c]
    BY <1>2, <2>1, <2>2, <2>4, OneSettledMonitor DEF world
  <2>6. Coherent(status') /\ Coherent(published')
    BY <1>0, <2>1 DEF object
  <2>7. QED
    BY <2>1, <2>3, <2>5, <2>6, LookingStaysSettled DEF life, world, object, AllAwaited
<1>7. QED
  BY <1>3, <1>4, <1>5, <1>6

\* The monitor's connection to a keycard.
LEMMA KeycardStaysSettled ==
    ASSUME OneSettledReader, Base, CohInv, NEW g \in Monitors,
           ConnectKeycard(g) \/ Paired(g) \/ Reselected(g) \/ ChannelOpened(g)
    PROVE  CohInv'
<1>0. /\ pc \in [Procs -> PCs] /\ cmd \in [Procs -> Command \cup {None}]
      /\ res \in [Procs -> Reply \cup {None}] /\ status \in Status /\ txq \in Seq(Requests)
      /\ None \notin Cards \cup Op \cup Command \cup Reply \cup AppInfo \cup AppStatus
      /\ Monitors \subseteq Procs /\ Clients \subseteq Procs /\ \A c \in Clients : c \notin Monitors
      /\ Coherent(status) /\ Coherent(published) /\ MonitorSettled(g)
  BY SettledTypes DEF CohInv
<1>1. /\ "connection-error" \in State \ Usable /\ "empty-keycard" \in State \ Usable
      /\ "no-available-pairing-slots" \in State \ Usable /\ "pairing-error" \in State \ Usable
  BY DEF State, Usable
<1>2. ASSUME pc[g] \in Connecting, NEW x \in State \ Usable,
             GiveUp(g, x), txq' = txq,
             UNCHANGED <<world, conn, link, forceScanC, life, call>>,
             res' = [res EXCEPT ![g] = None]
       PROVE  CohInv'
  <2>1. /\ \A c \in Clients : cmd'[c] = cmd[c] /\ res'[c] = res[c]
        /\ status'.app = status.app /\ Coherent(status') /\ Coherent(published')
    BY <1>0, <1>2, TroubleIsCoherent DEF GiveUp
  <2>2. QED
    BY <1>2, <2>1, WatchingStaysSettled DEF GiveUp, AllAwaited
\* On the way to the channel, the monitor knows the card.
<1>3. ASSUME BeforeChannel(g), pc[g] \in Connecting,
             NEW command \in {"pair", "reselect", "open"},
             NEW where \in {"lock", "wait"}, where = "lock" => command # "open",
             cmd' = [cmd EXCEPT ![g] = command], Goto(g, where),
             txq' = txq \/ txq' = Append(txq, Request(g, command)),
             UNCHANGED <<world, conn, link, forceScanC, life, call, scan>>,
             \A c \in Clients : res'[c] = res[c],
             status'.app # None, status'.app.card = conn,
             status'.app.init = card[conn].init, status'.state = status.state,
             Coherent(published')
      PROVE  CohInv'
  <2>1. pc'[g] = where /\ cmd'[g] = command /\ \A c \in Clients : cmd'[c] = cmd[c]
    BY <1>0, <1>3 DEF Goto
  <2>2. /\ NoChannel /\ NoChannel' /\ status.state \notin Usable
        /\ link /\ slot[scan[g].active] = conn /\ scan[g].active \in Readers
    BY <1>0, <1>3 DEF MonitorSettled, NoChannel, world
  <2>3. MonitorSettled(g)'
    BY <1>3, <2>1, <2>2 DEF MonitorSettled, Connecting, Exchanging, BeforeChannel, Reported, world
  <2>4. AllAwaited => AllAwaited'
    BY <1>0, <1>3, AwaitedQueue, CommandNames DEF AllAwaited
  <2>5. where \in Connecting
    BY DEF Connecting, Exchanging
  <2>6. Coherent(status')
    BY <1>3, <2>2 DEF Coherent
  <2>7. QED
    BY <1>3, <2>1, <2>2, <2>3, <2>4, <2>5, <2>6, ConnectionStaysSettled
<1>4. ASSUME BeforeChannel(g)
      PROVE  /\ status.app # None /\ status.app.card = conn
             /\ status.app.init = card[conn].init
  BY <1>0, <1>4 DEF MonitorSettled
<1>5. CASE ConnectKeycard(g)
  <2>1. pc[g] \in Connecting /\ pc[g] = "keycard" /\ BeforeChannel(g)
    BY <1>5 DEF ConnectKeycard, Connecting, BeforeChannel
  <2>2. UNCHANGED <<world, conn, link, forceScanC, life, res, call>>
    BY <1>4, <1>5, <2>1 DEF ConnectKeycard
  <2>3. CASE ~status.app.init
    <3>1. Watch(g) /\ txq' = txq /\ cmd' = cmd /\ Publish(WithState("empty-keycard"))
      BY <1>4, <1>5, <2>1, <2>3 DEF ConnectKeycard
    <3>2. status'.app = status.app /\ Coherent(status') /\ Coherent(published')
      BY <1>0, <1>1, <3>1, TroubleIsCoherent
    <3>3. QED
      BY <2>1, <2>2, <3>1, <3>2, WatchingStaysSettled DEF AllAwaited
  <2>4. CASE status.app.init
    <3>1. PICK command \in {"open", "pair"} :
            /\ cmd' = [cmd EXCEPT ![g] = command]
            /\ txq' = Append(txq, Request(g, command))
            /\ Goto(g, "wait")
            /\ UNCHANGED <<status, published, scan>>
      BY <1>4, <1>5, <2>1, <2>4 DEF ConnectKeycard
    <3>2. QED
      BY <1>0, <1>3, <1>4, <2>1, <2>2, <3>1
  <2>5. QED
    BY <2>3, <2>4
<1>6. CASE Paired(g)
  <2>1. /\ pc[g] \in Connecting /\ BeforeChannel(g)
        /\ UNCHANGED <<world, conn, link, forceScanC, txq, life, call>>
        /\ res' = [res EXCEPT ![g] = None] /\ \A c \in Clients : res'[c] = res[c]
    BY <1>0, <1>6 DEF Paired, Connecting, Exchanging, BeforeChannel
  <2>2. CASE Failure(res[g])
    BY <1>1, <1>2, <1>6, <2>1, <2>2 DEF Paired
  <2>3. CASE ~Failure(res[g])
    <3>1. /\ cmd' = [cmd EXCEPT ![g] = "reselect"]
          /\ Goto(g, "lock")
          /\ UNCHANGED <<status, published, scan>>
      BY <1>6, <2>3 DEF Paired
    <3>2. QED
      BY <1>0, <1>3, <1>4, <2>1, <3>1
  <2>4. QED
    BY <2>2, <2>3
<1>7. CASE Reselected(g)
  <2>1. /\ pc[g] = "got" /\ cmd[g] = "reselect"
        /\ pc[g] \in Connecting /\ BeforeChannel(g)
        /\ UNCHANGED <<world, conn, link, forceScanC, life, call>>
        /\ res' = [res EXCEPT ![g] = None] /\ \A c \in Clients : res'[c] = res[c]
    BY <1>0, <1>7 DEF Reselected, Connecting, Exchanging, Unlock, BeforeChannel
  <2>2. CASE Failure(res[g])
    BY <1>1, <1>2, <1>7, <2>1, <2>2 DEF Reselected
  <2>3. CASE ~Failure(res[g])
    <3>1. /\ status' = [status EXCEPT !.app = InfoOf(res[g])]
          /\ cmd' = [cmd EXCEPT ![g] = "open"]
          /\ txq' = Append(txq, Request(g, "open"))
          /\ Goto(g, "wait")
          /\ UNCHANGED <<published, scan>>
      BY <1>7, <2>3 DEF Reselected
    <3>2. /\ status'.app = InfoOf(res[g]) /\ InfoOf(res[g]) \in AppInfo
          /\ status'.state = status.state
      BY <1>0, <2>3, <3>1 DEF Failure, Status, InfoOf, AppInfo, Reply, CardState
    <3>3. res[g].from = conn /\ res[g].k.init = card[conn].init
      BY <1>0, <2>1 DEF MonitorSettled
    <3>4. status'.app # None /\ status'.app.card = conn /\ status'.app.init = card[conn].init
      BY <1>0, <3>2, <3>3 DEF InfoOf
    <3>5. QED
      BY <1>0, <1>3, <2>1, <3>1, <3>2, <3>4
  <2>4. QED
    BY <2>2, <2>3
<1>8. CASE ChannelOpened(g)
  <2>1. /\ pc[g] \in Connecting
        /\ UNCHANGED <<world, conn, link, forceScanC, txq, life, call>>
        /\ res' = [res EXCEPT ![g] = None] /\ \A c \in Clients : res'[c] = res[c]
    BY <1>0, <1>8 DEF ChannelOpened, Connecting, Exchanging
  <2>2. CASE Failure(res[g]) \/ sim = "open-secure-channel"
    BY <1>1, <1>2, <1>8, <2>1, <2>2 DEF ChannelOpened
  <2>3. CASE ~(Failure(res[g]) \/ sim = "open-secure-channel")
    <3>1. /\ cmd' = [cmd EXCEPT ![g] = None]
          /\ Goto(g, "refresh")
          /\ UNCHANGED <<status, published, scan>>
      BY <1>8, <2>3 DEF ChannelOpened
    <3>2. /\ \A c \in Clients : cmd'[c] = cmd[c]
          /\ pc'[g] = "refresh" /\ "refresh" \in Connecting
      BY <1>0, <3>1 DEF Goto, Connecting
    <3>3. MonitorSettled(g)'
      BY <1>0, <2>1, <3>1, <3>2
         DEF MonitorSettled, Connecting, Exchanging, BeforeChannel, Reported, world
    <3>4. QED
      BY <1>0, <2>1, <3>1, <3>2, <3>3, ConnectionStaysSettled DEF AllAwaited, Coherent
  <2>4. QED
    BY <2>2, <2>3
<1>9. QED
  BY <1>5, <1>6, <1>7, <1>8

\* A monitor that watches its card: what a link still leads to is in the reader.
LEMMA WatchMeans ==
    ASSUME Base, CohInv, NEW g \in Monitors, pc[g] \in {"poll", "tick"}
    PROVE  /\ scan[g].active \in Readers
           /\ link => slot[scan[g].active] = conn /\ conn \in Cards
<1>1. \A h \in Monitors : pc[h] # "idle" => h = g
  BY SettledTypes
<1>2. QED
  BY <1>1 DEF CohInv, MonitorSettled, LinkFits, Connecting, Exchanging

\* Watching, and what interrupts it.
LEMMA WatchStaysSettled ==
    ASSUME OneSettledReader, Base, CohInv, NEW g \in Monitors,
           \/ Poll(g) \/ Tick(g) \/ TickClosed(g)
           \/ \E p \in Procs : Rendezvous(g, p)
    PROVE  CohInv'
<1>0. /\ pc \in [Procs -> PCs] /\ conn \in Cards \cup {None}
      /\ slot \in [Readers -> Cards \cup {None, Unplugged}] /\ Unplugged \notin Cards
      /\ None \notin Cards
      /\ Monitors \subseteq Procs /\ Clients \subseteq Procs /\ \A c \in Clients : c \notin Monitors
      /\ \A p \in Procs : p \in Clients \/ p \in Monitors
      /\ Coherent(status) /\ Coherent(published)
      /\ ~released /\ forceScanC # "closed"
      /\ \A h \in Monitors \ {g} : pc[g] # "idle" => pc[h] = "idle"
  BY SettledTypes DEF CohInv, Procs
<1>1. ASSUME pc[g] \in {"poll", "tick"}, ~link
      PROVE  NoChannel
  BY <1>1 DEF CohInv, ChannelFits, NoChannel
<1>2. CASE Poll(g) /\ StartDetection(g) /\ CardGone(g)
  <2>1. /\ pc[g] = "poll" /\ UNCHANGED <<world, object, life, cmd, res, call>>
        /\ slot[scan[g].active] \notin Cards /\ scan[g].active \in Readers
    BY <1>0, <1>2, WatchMeans DEF Poll, CardGone
  <2>2. ~link /\ NoChannel
    BY <1>1, <2>1, WatchMeans
  <2>3. NoCard
    BY <2>1 DEF NoCard, OneSettledReader
  <2>4. /\ \A h \in Monitors : MonitorSettled(h)'
        /\ \A c \in Clients : pc'[c] = pc[c]
    BY <1>2, <2>1, OneSettledMonitor DEF world
  <2>5. QED
    BY <1>0, <2>1, <2>2, <2>3, <2>4, LookingStaysSettled DEF life, world, object, AllAwaited, Coherent
<1>3. CASE (Poll(g) /\ Goto(g, "tick") /\ scan' = scan) \/ Tick(g)
  <2>1. /\ pc[g] \in {"poll", "tick"} /\ UNCHANGED <<world, object, life, cmd, res, call, scan>>
        /\ scan[g].active \in Readers
        /\ \E where \in {"poll", "tick"} : Goto(g, where)
    BY <1>3, WatchMeans DEF Poll, Tick
  <2>2. PICK where \in {"poll", "tick"} : Goto(g, where)
    BY <2>1
  <2>3. pc'[g] = where /\ \A p \in Procs \ {g} : pc'[p] = pc[p]
    BY <1>0, <2>2 DEF Goto
  <2>4. MonitorSettled(g)'
    BY <2>1, <2>3 DEF MonitorSettled, Connecting, Exchanging, BeforeChannel, Reported
  <2>5. /\ \A h \in Monitors : MonitorSettled(h)'
        /\ \A c \in Clients : pc'[c] = pc[c]
    BY <2>1, <2>2, <2>4, OneSettledMonitor DEF world
  <2>6. LinkFits'
    BY <2>1, <2>3, WatchMeans DEF LinkFits, world, object
  <2>7. Watching'
    BY <1>0, <2>1, <2>3 DEF Watching
  <2>8. QED
    BY <1>0, <2>1, <2>5, <2>6, <2>7, SettledMonitor
       DEF life, world, object, AllAwaited, Coherent
<1>4. ASSUME TickClosed(g) PROVE FALSE
  BY <1>0, <1>4 DEF TickClosed
<1>5. ASSUME NEW p \in Procs, Rendezvous(g, p) PROVE CohInv'
  <2>1. /\ pc[g] = "tick" /\ pc[p] = "sending"
        /\ UNCHANGED <<world, object, life, cmd, res, call>>
    BY <1>5 DEF Rendezvous, ScanForced
  <2>2. p \in Clients
    <3>1. \A h \in Monitors : pc[h] # "sending"
      BY DEF CohInv, MonitorSettled, Connecting, Exchanging
    <3>2. QED
      BY <1>0, <2>1, <3>1
  <2>3. PICK h \in Monitors :
          pc[h] = "idle" /\ pc' = [pc EXCEPT ![g] = "idle", ![h] = "detect", ![p] = "forced"]
    BY <1>5 DEF Rendezvous
  <2>4. /\ pc'[g] = "idle" /\ pc'[h] = "detect" /\ pc'[p] = "forced"
        /\ \A q \in Procs \ {g, h, p} : pc'[q] = pc[q]
    BY <1>0, <2>1, <2>2, <2>3
  <2>5. \A m \in Monitors : pc'[m] \in {"idle", "detect"}
    BY <1>0, <2>1, <2>2, <2>4
  <2>6. \A m \in Monitors : MonitorSettled(m)'
    BY <2>5 DEF MonitorSettled, Connecting, Exchanging, BeforeChannel, Reported
  <2>7. \A c \in Clients : c = p
    BY <2>2 DEF OneSettledReader
  \* The sender has dropped the connection.
  <2>8. ~link
    <3>1. conn = None
      BY <2>1, <2>2 DEF CohInv, ClientSettled
    <3>2. QED
      BY <1>0, <2>1, <3>1, WatchMeans
  <2>9. LinkFits'
    BY <2>1, <2>8 DEF LinkFits, object
  <2>10. \A c \in Clients : ~Early(c)'
    BY <2>4, <2>7 DEF Early, Exchanging
  <2>11. QED
    BY <1>0, <2>1, <2>4, <2>6, <2>7, <2>9, <2>10, SettledMonitor
       DEF life, world, object, AllAwaited, Coherent
<1>6. QED
  BY <1>0, <1>2, <1>3, <1>4, <1>5 DEF Poll

\* The monitor's steps.
LEMMA MonitorStaysSettled ==
    ASSUME OneSettledReader, Base, CohInv, NEW g \in Monitors, Monitor(g)
    PROVE  CohInv'
BY DetectionStaysSettled, KeycardStaysSettled, WatchStaysSettled DEF Monitor

\* What the monitor shares with a client.
LEMMA MonitorCommandStaysSettled ==
    ASSUME OneSettledReader, Base, CohInv, NEW g \in Monitors, Either(g)
    PROVE  CohInv'
<1>0. /\ pc \in [Procs -> PCs] /\ cmd \in [Procs -> Command \cup {None}]
      /\ res \in [Procs -> Reply \cup {None}] /\ status \in Status
      /\ None \notin Cards \cup Op \cup Command \cup Reply \cup AppInfo \cup AppStatus
      /\ txq \in Seq(Requests) /\ LockedWhenLocking
      /\ Monitors \subseteq Procs /\ Clients \subseteq Procs /\ \A c \in Clients : c \notin Monitors
      /\ g \notin Clients
      /\ Coherent(status) /\ Coherent(published) /\ MonitorSettled(g)
      /\ ~ctxDone
  BY SettledTypes DEF CohInv
<1>1. ASSUME pc[g] \in {"lock", "got", "refresh", "metadata"}
      PROVE  pc[g] \in Connecting
  BY <1>1 DEF Connecting, Exchanging
\* The monitor goes on to a command, or waits for its reply.
<1>2. ASSUME pc[g] \in Connecting, NEW where \in {"lock", "wait"}, Goto(g, where),
             UNCHANGED <<world, conn, link, status, published, forceScanC, life, res, call, scan>>,
             \/ pc[g] = "lock" /\ cmd' = cmd
             \/ \E command \in {"status", "getData"} : cmd' = [cmd EXCEPT ![g] = command],
             AllAwaited => AllAwaited'
      PROVE  CohInv'
  <2>1. /\ pc'[g] = where /\ \A c \in Clients : cmd'[c] = cmd[c]
        /\ \/ pc[g] = "lock" /\ cmd'[g] = cmd[g] /\ cmd[g] # "open"
           \/ cmd'[g] \in {"status", "getData"}
        /\ where \in Connecting
    BY <1>0, <1>2 DEF Goto, LockedWhenLocking, LockedCommand, Connecting, Exchanging
  <2>2. MonitorSettled(g)'
    <3>1. CASE pc[g] = "lock" /\ cmd'[g] = cmd[g] /\ cmd[g] # "open"
      BY <1>0, <1>2, <2>1, <3>1
         DEF MonitorSettled, Connecting, Exchanging, BeforeChannel, Reported, NoChannel, world
    <3>2. CASE cmd'[g] \in {"status", "getData"}
      BY <1>0, <1>2, <2>1, <3>2
         DEF MonitorSettled, Connecting, Exchanging, BeforeChannel, Reported, world
    <3>3. QED
      BY <2>1, <3>1, <3>2
  <2>3. QED
    BY <1>0, <1>2, <2>1, <2>2, ConnectionStaysSettled DEF Coherent
<1>3. CASE Lock(g)
  <2>1. pc[g] = "lock" /\ conn # None
    BY <1>0, <1>1, <1>3, ConnectingMeans DEF Lock
  <2>2. /\ Goto(g, "wait") /\ txq' = Append(txq, Request(g, cmd[g]))
        /\ UNCHANGED <<world, conn, link, status, published, forceScanC, life, cmd, res, call, scan>>
    BY <1>3, <2>1 DEF Lock
  <2>3. AllAwaited => AllAwaited'
    <3>1. cmd[g] \in Command
      BY <1>0, <2>1, CommandNames DEF LockedWhenLocking
    <3>2. QED
      BY <1>0, <2>2, <3>1, AwaitedQueue
  <2>4. QED
    BY <1>1, <1>2, <2>1, <2>2, <2>3
<1>4. ASSUME TransmitDone(g) \/ SendOnClosed(g) \/ ForceScan(g) PROVE FALSE
  BY <1>0, <1>4 DEF TransmitDone, SendOnClosed, ForceScan, MonitorSettled, Connecting, Exchanging
<1>5. ASSUME DropConnection(g) PROVE FALSE
  <2>1. pc[g] = "got" /\ NeedsForce(g)
    BY <1>5 DEF DropConnection
  <2>2. cmd[g] \notin Dropping /\ (cmd[g] \in Checked => ~SCardError(g))
    BY <1>0, <2>1 DEF MonitorSettled, Exchanging, Dropping, InitCommands, SCardError
  <2>3. QED
    BY <2>1, <2>2 DEF NeedsForce, Dropping
<1>6. CASE RefreshStatus(g)
  <2>1. /\ pc[g] \in Connecting /\ pc[g] = "refresh"
        /\ UNCHANGED <<world, conn, link, status, forceScanC, txq, life, res, call>>
    BY <1>1, <1>6 DEF RefreshStatus
  <2>2. CASE /\ Goto(g, "lock") /\ cmd' = [cmd EXCEPT ![g] = "status"]
             /\ UNCHANGED <<published, scan>>
    BY <1>2, <2>1, <2>2 DEF AllAwaited
  <2>3. CASE Watch(g) /\ UNCHANGED cmd /\ published' = status
    BY <1>0, <2>1, <2>3, WatchingStaysSettled DEF AllAwaited, Coherent
  <2>4. QED
    BY <1>0, <1>6, <2>2, <2>3 DEF RefreshStatus
<1>7. CASE StatusRefreshed(g)
  <2>1. /\ pc[g] \in Connecting /\ pc[g] = "got" /\ cmd[g] = "status"
        /\ UNCHANGED <<world, conn, link, forceScanC, txq, life, call>>
        /\ \A c \in Clients : cmd'[c] = cmd[c] /\ res'[c] = res[c]
        /\ AllAwaited => AllAwaited'
    BY <1>0, <1>1, <1>7 DEF StatusRefreshed, Unlock, AllAwaited
  <2>2. CASE Failure(res[g])
    <3>1. /\ Watch(g) /\ status' = [status EXCEPT !.appst = None, !.state = "connection-error"]
          /\ published' = status'
      BY <1>0, <1>7, <2>2 DEF StatusRefreshed
    <3>2. status'.app = status.app /\ status'.state = "connection-error"
      BY <1>0, <3>1 DEF Status
    <3>3. Coherent(status') /\ Coherent(published')
      BY <3>1, <3>2 DEF Coherent, Usable
    <3>4. QED
      BY <2>1, <3>1, <3>2, <3>3, WatchingStaysSettled
  <2>3. CASE ~Failure(res[g])
    <3>1. /\ Goto(g, "metadata") /\ UNCHANGED <<published, scan>>
          /\ status' = [status EXCEPT !.appst = AppStatusOf(res[g]), !.state = StateOfCard(res[g])]
      BY <1>0, <1>7, <2>3 DEF StatusRefreshed
    <3>2. /\ res[g].from = conn /\ InfoFits(conn)
          /\ res[g] \in Reply /\ AppStatusOf(res[g]) \in AppStatus
      BY <1>0, <2>1, <2>3
         DEF MonitorSettled, Reported, Failure, AppStatusOf, AppStatus, Reply, CardState
    <3>3. /\ status'.app = status.app /\ status'.appst = AppStatusOf(res[g])
          /\ status'.state = StateOfCard(res[g])
      BY <1>0, <3>1 DEF Status
    <3>4. /\ AppStatusOf(res[g]).pin = res[g].k.pin /\ AppStatusOf(res[g]).puk = res[g].k.puk
          /\ AppStatusOf(res[g]).card = res[g].from
          /\ res[g].k.pin \in Nat /\ res[g].k.puk \in Nat
      BY <3>2, KeycardAssumption DEF AppStatusOf, Reply, CardState
    <3>5. Coherent(status')
      BY <1>0, <3>2, <3>3, <3>4 DEF Coherent, Usable, StateOfCard, InfoFits
    <3>6. pc'[g] = "metadata" /\ "metadata" \in Connecting
      BY <1>0, <3>1 DEF Goto, Connecting
    <3>7. MonitorSettled(g)'
      BY <1>0, <2>1, <3>1, <3>6
         DEF MonitorSettled, Connecting, Exchanging, BeforeChannel, Reported, world
    <3>8. QED
      BY <1>0, <2>1, <3>1, <3>3, <3>5, <3>6, <3>7, ConnectionStaysSettled DEF Coherent
  <2>4. QED
    BY <2>2, <2>3
\* The metadata end the monitor's connection, read or not.
<1>8. ASSUME pc[g] \in Connecting, NEW s, NEW fine, MetadataDone(g, s, fine),
             s.app = status.app, Coherent(s),
             UNCHANGED <<world, conn, link, forceScanC, txq, life>>,
             \A c \in Clients : cmd'[c] = cmd[c] /\ res'[c] = res[c]
      PROVE  CohInv'
  <2>1. status' = s /\ published' = s /\ Watch(g) /\ call' = call
    BY <1>8 DEF MetadataDone
  <2>2. QED
    BY <1>8, <2>1, WatchingStaysSettled DEF AllAwaited
<1>9. LET s == WithState("connection-error") IN s.app = status.app /\ Coherent(s)
  BY <1>0 DEF WithState, Status, Coherent, Usable
<1>10. \A m : LET s == [status EXCEPT !.meta = m] IN s.app = status.app /\ Coherent(s)
  BY <1>0 DEF Status, Coherent
<1>11. CASE RefreshMetadata(g)
  <2>1. /\ pc[g] \in Connecting /\ pc[g] = "metadata"
        /\ UNCHANGED <<world, conn, link, forceScanC, txq, life, res>>
    BY <1>1, <1>11 DEF RefreshMetadata
  <2>2. CASE /\ Goto(g, "lock") /\ cmd' = [cmd EXCEPT ![g] = "getData"]
             /\ UNCHANGED <<status, published, call, scan>>
    BY <1>2, <2>1, <2>2 DEF AllAwaited
  <2>3. CASE MetadataDone(g, WithState("connection-error"), FALSE) /\ UNCHANGED cmd
    BY <1>8, <1>9, <2>1, <2>3
  <2>4. QED
    BY <1>11, <2>2, <2>3 DEF RefreshMetadata
<1>12. CASE MetadataRead(g)
  <2>1. \E s, fine : MetadataDone(g, s, fine) /\ s.app = status.app /\ Coherent(s)
    <3>1. CASE Failure(res[g])
      BY <1>9, <1>12, <3>1 DEF MetadataRead
    <3>2. CASE ~Failure(res[g])
      <4>1. \E m : MetadataDone(g, [status EXCEPT !.meta = m], TRUE)
        BY <1>12, <3>2 DEF MetadataRead
      <4>2. QED
        BY <1>10, <4>1
    <3>3. QED
      BY <3>1, <3>2
  <2>2. /\ UNCHANGED <<world, conn, link, forceScanC, txq, life>>
        /\ \A c \in Clients : cmd'[c] = cmd[c] /\ res'[c] = res[c]
    BY <1>0, <1>12 DEF MetadataRead, Unlock
  <2>3. pc[g] \in Connecting
    BY <1>0, <1>12 DEF MetadataRead, Returning, MonitorSettled, Connecting, Exchanging
  <2>4. QED
    BY <1>8, <2>1, <2>2, <2>3
<1>13. QED
  BY <1>3, <1>4, <1>5, <1>6, <1>7, <1>11, <1>12 DEF Either

\* What a reply on a good link says of the card.
LEMMA RepliesMean ==
    ASSUME Base, CohInv, conn \in Cards, link, NEW q \in Requests, NEW a \in Replies(q)
    PROVE  LET k == card[conn]
           IN /\ (a.out = "scard" => q.cmd \in Lost) /\ (a.card = k \/ a.card = After(k, q.cmd))
              /\ q.cmd # "open" /\ a.card.channel => k.channel /\ a.card.installed /\ a.card.init
              /\ q.cmd = "open" => a.card = k \/ (a.card.installed /\ a.card.init /\ k.init)
              /\ q.cmd \in {"select", "reselect", "status", "getData", "pair", "open"} =>
                   a.card.init = k.init
              /\ q.cmd = "status" => a.card = k /\ (a.out = "ok" => k.channel)
              /\ q.cmd = "reset" \/ (q.cmd \in InitCommands /\ a.out = "ok") => ~a.card.channel
<1> DEFINE k == card[conn]
<1>1. k \in CardState /\ q.cmd \in Command
  BY SettledTypes DEF Requests
<1>2. k.channel => k.installed /\ k.init
  BY DEF CohInv, ChannelFits
<1>3. \/ a.card = After(k, q.cmd) /\ a.out = Answer(k, q.cmd)
      \/ a.card = After(k, q.cmd) /\ a.out = "scard" /\ q.cmd \in Lost
      \/ a.card = k /\ a.out = "err" /\ q.cmd # "reset"
  BY DEF Replies
<1> HIDE DEF k
<1>4. CASE a.card = After(k, q.cmd) /\ a.out = Answer(k, q.cmd)
  BY <1>1, <1>2, <1>4, ChannelCards DEF k
<1>5. CASE a.card = After(k, q.cmd) /\ a.out = "scard" /\ q.cmd \in Lost
  BY <1>1, <1>2, <1>5, ChannelCards DEF k
<1>6. CASE a.card = k /\ a.out = "err" /\ q.cmd # "reset"
  BY <1>1, <1>2, <1>6 DEF k
<1>7. QED
  BY <1>3, <1>4, <1>5, <1>6

\* An exchange of a client.
LEMMA ClientExchangeStaysSettled ==
    ASSUME OneSettledReader, Base, CohInv, conn \in Cards,
           NEW q \in Requests, NEW c \in Clients, q.proc = c, pc[c] = "wait", cmd[c] = q.cmd,
           NEW a \in Replies(q), card' = [card EXCEPT ![conn] = a.card],
           pc' = [pc EXCEPT ![c] = "got"],
           res' = [res EXCEPT ![c] = [out |-> a.out, from |-> conn, k |-> a.card]],
           AllAwaited => AllAwaited',
           UNCHANGED <<slot, conn, link, status, published, forceScanC, life, cmd, call, scan>>
    PROVE  CohInv'
<1>0. /\ pc \in [Procs -> PCs] /\ res \in [Procs -> Reply \cup {None}]
      /\ card \in [Cards -> CardState]
      /\ None \notin Cards \cup Op \cup Command \cup Reply \cup AppInfo \cup AppStatus
      /\ c \in Procs /\ Monitors \subseteq Procs /\ c \notin Monitors
      /\ \A d \in Clients : d = c
      /\ ClientSettled(c) /\ \A g \in Monitors : MonitorSettled(g)
      /\ cmd[c] \in LockedCommand
  BY SettledTypes DEF CohInv, OneSettledReader, ClientCommands, Commanding
<1>1. /\ pc'[c] = "got" /\ \A p \in Procs \ {c} : pc'[p] = pc[p] /\ res'[p] = res[p]
      /\ res'[c] = [out |-> a.out, from |-> conn, k |-> a.card]
      /\ card'[conn] = a.card /\ \A k \in Cards \ {conn} : card'[k] = card[k]
  BY <1>0
<1>2. q.cmd # "open" /\ (q.cmd # "status" => Early(c))
  BY <1>0 DEF Early, Exchanging, LockedCommand
<1>3. LET k == card[conn]
      IN /\ link /\ a.out = "scard" => q.cmd \in Lost
         /\ a.card.channel => k.channel /\ a.card.installed /\ a.card.init
         /\ q.cmd = "status" => a.card = k /\ (link /\ a.out = "ok" => k.channel)
         /\ link /\ (q.cmd = "reset" \/ (q.cmd \in InitCommands /\ a.out = "ok")) => ~a.card.channel
         /\ ~link => a.out = "scard" /\ a.card = k
  <2>1. CASE link
    BY <1>2, <2>1, RepliesMean
  <2>2. CASE ~link
    <3>1. a.card = card[conn] /\ a.out = "scard"
      BY <2>2 DEF Replies
    <3>2. ~card[conn].channel
      BY <2>2 DEF CohInv, ChannelFits
    <3>3. QED
      BY <2>2, <3>1, <3>2
  <2>3. QED
    BY <2>1, <2>2
<1>4. \A k \in Cards : card'[k].channel =>
        k = conn /\ link /\ card[k].channel /\ a.card.channel
  BY <1>1, <1>3 DEF CohInv, ChannelFits
<1>5. ASSUME NEW g \in Monitors PROVE MonitorSettled(g)'
  <2>1. MonitorSettled(g) /\ pc'[g] = pc[g] /\ res'[g] = res[g]
    BY <1>0, <1>1
  <2>2. CASE pc[g] \in Connecting
    <3>1. q.cmd = "status"
      BY <1>2, <2>2, ConnectingMeans
    <3>2. card' = card
      BY <1>0, <1>3, <3>1
    <3>3. QED
      BY <2>1, <3>2 DEF MonitorSettled, BeforeChannel, NoChannel, Reported, InfoFits
  <2>3. CASE pc[g] \notin Connecting
    BY <2>1, <2>3 DEF MonitorSettled, BeforeChannel, Reported, Connecting, Exchanging
  <2>4. QED
    BY <2>2, <2>3
<1>6. ChannelFits'
  <2>1. ASSUME NEW k \in Cards, card'[k].channel PROVE Resetting' \/ InfoFits(k)
    <3>1. k = conn /\ link /\ card[k].channel /\ a.card.channel
      BY <1>4, <2>1
    <3>2. Resetting \/ InfoFits(k)
      BY <3>1 DEF CohInv, ChannelFits
    <3>3. ASSUME Resetting PROVE FALSE
      <4>1. call[c].op = "FactoryReset"
        BY <1>0, <3>3 DEF Resetting
      <4>2. q.cmd = "reset"
        BY <1>0, <4>1 DEF ClientSettled, Exchanging
      <4>3. QED
        BY <1>3, <3>1, <4>2
    <3>4. QED
      BY <3>2, <3>3
  <2>2. QED
    BY <1>1, <1>3, <1>4, <2>1 DEF ChannelFits, InfoFits
<1>7. ClientSettled(c)'
  <2>1. NeedsForce(c)' => NoChannel'
    <3>1. CASE ~link
      BY <1>4, <3>1 DEF NoChannel
    <3>2. CASE link
      <4>1. NeedsForce(c)' => q.cmd = "reset" \/ (q.cmd \in InitCommands /\ a.out = "ok")
        BY <1>1, <1>3, <3>2 DEF NeedsForce, Succeeded, SCardError, OneSettledReader
      <4>2. QED
        BY <1>3, <1>4, <3>2, <4>1 DEF NoChannel
    <3>3. QED
      BY <3>1, <3>2
  <2>2. Reported(c)' => link' /\ res'[c].from = conn' /\ InfoFits(conn)' /\ card'[conn'].channel
    <3>1. ASSUME Reported(c)'
          PROVE  link /\ q.cmd = "status" /\ a.out = "ok"
      BY <1>1, <1>3, <3>1 DEF Reported, Failure
    <3>2. ASSUME Reported(c)'
          PROVE  InfoFits(conn) /\ card[conn].channel /\ a.card = card[conn]
      <4>1. card[conn].channel /\ a.card = card[conn]
        BY <1>3, <3>1, <3>2
      <4>2. ~Resetting
        BY <1>0, <3>1, <3>2 DEF Resetting, ClientSettled, Exchanging
      <4>3. QED
        BY <4>1, <4>2 DEF CohInv, ChannelFits
    <3>3. QED
      BY <1>1, <3>1, <3>2 DEF InfoFits
  <2>3. Early(c)' => Watching' \/ NoCard'
    <3>1. Early(c)' => Early(c)
      BY DEF Early, Exchanging
    <3>2. (Watching => Watching') /\ (NoCard => NoCard')
      BY <1>0, <1>1 DEF Watching, NoCard
    <3>3. QED
      BY <1>0, <3>1, <3>2 DEF ClientSettled
  <2>4. QED
    BY <1>0, <1>1, <2>1, <2>2, <2>3
       DEF ClientSettled, Talking, Forcing, Commanding, Exchanging
<1>8. LinkFits'
  BY <1>0, <1>1 DEF CohInv, LinkFits
<1>9. QED
  BY <1>0, <1>5, <1>6, <1>7, <1>8 DEF CohInv, life, Coherent

\* An exchange of the monitor.
LEMMA MonitorExchangeStaysSettled ==
    ASSUME OneSettledReader, Base, CohInv, conn \in Cards,
           NEW q \in Requests, NEW g \in Monitors, q.proc = g, pc[g] = "wait", cmd[g] = q.cmd,
           NEW a \in Replies(q), card' = [card EXCEPT ![conn] = a.card],
           pc' = [pc EXCEPT ![g] = "got"],
           res' = [res EXCEPT ![g] = [out |-> a.out, from |-> conn, k |-> a.card]],
           AllAwaited => AllAwaited',
           UNCHANGED <<slot, conn, link, status, published, forceScanC, life, cmd, call, scan>>
    PROVE  CohInv'
<1>0. /\ pc \in [Procs -> PCs] /\ res \in [Procs -> Reply \cup {None}]
      /\ card \in [Cards -> CardState]
      /\ None \notin Cards \cup Op \cup Command \cup Reply \cup AppInfo \cup AppStatus
      /\ g \in Procs /\ Clients \subseteq Procs /\ \A c \in Clients : c # g
      /\ \A h \in Monitors \ {g} : pc[h] = "idle" /\ h \in Procs
      /\ MonitorSettled(g)
      /\ q.cmd \in {"select", "reselect", "status", "getData", "pair", "open"}
  BY SettledTypes DEF CohInv, MonitorSettled, Exchanging
<1>1. /\ pc'[g] = "got" /\ \A p \in Procs \ {g} : pc'[p] = pc[p] /\ res'[p] = res[p]
      /\ res'[g] = [out |-> a.out, from |-> conn, k |-> a.card]
      /\ card'[conn] = a.card /\ \A k \in Cards \ {conn} : card'[k] = card[k]
  BY <1>0
<1>2. pc[g] \in Connecting /\ "got" \in Connecting
  BY DEF Connecting, Exchanging
<1>3. /\ link /\ scan[g].active \in Readers /\ slot[scan[g].active] = conn
      /\ \A c \in Clients : ~Early(c)
      /\ ~Resetting
  BY <1>2, ConnectingMeans
<1>4. LET k == card[conn]
      IN /\ (a.out = "scard" => q.cmd \in Lost) /\ a.card.init = k.init
         /\ q.cmd # "open" /\ a.card.channel => k.channel /\ a.card.installed /\ a.card.init
         /\ q.cmd = "open" => a.card = k \/ (a.card.installed /\ a.card.init /\ k.init)
         /\ q.cmd = "status" => a.card = k /\ (a.out = "ok" => k.channel)
  BY <1>0, <1>3, RepliesMean
<1>5. NoChannel /\ q.cmd # "open" => NoChannel'
  BY <1>1, <1>4 DEF NoChannel
<1>6. MonitorSettled(g)'
  <2>1. Reported(g)' => InfoFits(conn)
    BY <1>1, <1>3, <1>4 DEF Reported, Failure, CohInv, ChannelFits
  <2>2. BeforeChannel(g)' => BeforeChannel(g) /\ q.cmd # "open"
    BY <1>1 DEF BeforeChannel, Exchanging
  <2>3. Reported(g)' => InfoFits(conn)'
    BY <2>1 DEF InfoFits
  <2>4. BeforeChannel(g)' =>
          /\ NoChannel' /\ status'.state \notin Usable
          /\ status'.app # None /\ status'.app.card = conn'
          /\ status'.app.init = card'[conn'].init
    BY <1>0, <1>1, <1>4, <1>5, <2>2 DEF MonitorSettled
  <2>5. q.cmd = "select" => NoChannel'
    BY <1>0, <1>5 DEF MonitorSettled, Exchanging
  <2>6. res'[g] # None /\ res'[g].out = a.out /\ res'[g].from = conn /\ res'[g].k.init = card'[conn].init
    <3>1. a.card \in CardState /\ a.out \in Outcome
      <4>1. card[conn] \in CardState /\ q.cmd \in Command
        BY <1>0 DEF Requests
      <4>2. "err" \in Outcome /\ "scard" \in Outcome
        BY DEF Outcome
      <4>3. QED
        BY <1>3, <4>1, <4>2, CardAnswers DEF Replies
    <3>2. res'[g] \in Reply
      BY <1>1, <3>1 DEF Reply
    <3>3. QED
      BY <1>0, <1>1, <3>2
  <2>7. cmd[g] \in Checked => a.out # "scard"
    BY <1>0, <1>4 DEF OneSettledReader
  <2>8. QED
    BY <1>0, <1>1, <1>2, <1>3, <1>4, <2>3, <2>4, <2>5, <2>6, <2>7
       DEF MonitorSettled, Connecting, Exchanging
<1>7. \A h \in Monitors : MonitorSettled(h)'
  BY <1>0, <1>1, <1>6 DEF MonitorSettled, Connecting, Exchanging, BeforeChannel, Reported
<1>8. LinkFits'
  BY <1>1, <1>2, <1>3 DEF LinkFits
<1>9. ChannelFits'
  <2>1. CASE q.cmd # "open"
    BY <1>1, <1>3, <1>4, <2>1 DEF CohInv, ChannelFits, InfoFits
  <2>2. CASE q.cmd = "open"
    <3>1. NoChannel /\ status.app # None /\ status.app.card = conn /\ status.app.init = card[conn].init
      BY <1>0, <2>2 DEF MonitorSettled, BeforeChannel
    <3>2. QED
      BY <1>1, <1>3, <1>4, <2>2, <3>1 DEF ChannelFits, InfoFits, NoChannel
  <2>3. QED
    BY <2>1, <2>2
<1>10. ASSUME NEW c \in Clients PROVE ClientSettled(c)'
  <2>1. ClientSettled(c) /\ pc'[c] = pc[c] /\ res'[c] = res[c] /\ ~Early(c)
    BY <1>0, <1>1, <1>3 DEF CohInv
  <2>2. ~Reported(c)
    <3>1. CASE q.cmd \in LockedCommand
      BY <1>0, <3>1, CommandNames, OneInside DEF Reported
    <3>2. CASE q.cmd \in {"pair", "open"}
      <4>1. NoChannel
        BY <1>0, <3>2 DEF MonitorSettled, BeforeChannel, Exchanging
      <4>2. QED
        BY <4>1, ClosedMeans
    <3>3. QED
      BY <1>0, <3>1, <3>2, CommandNames
  <2>3. ~(pc[c] = "got" /\ NeedsForce(c))
    <3>1. NeedsForce(c) => cmd[c] # "status"
      BY DEF NeedsForce, Checked, InitCommands
    <3>2. QED
      BY <2>1, <3>1 DEF Early, Exchanging
  <2>4. /\ Early(c)' <=> Early(c)
        /\ Reported(c)' <=> Reported(c)
        /\ NeedsForce(c)' <=> NeedsForce(c)
    BY <2>1 DEF Early, Reported, NeedsForce, Succeeded, SCardError
  <2>5. QED
    BY <2>1, <2>2, <2>3, <2>4 DEF ClientSettled
<1>11. QED
  BY <1>7, <1>8, <1>9, <1>10 DEF CohInv, life, Coherent

\* An exchange with the card.
LEMMA ExchangeStaysSettled ==
    ASSUME OneSettledReader, Base, CohInv, Exchange
    PROVE  CohInv' \/ Panic
<1>0. conn \in Cards \cup {None} /\ txq \in Seq(Requests) /\ AllAwaited
  BY SettledTypes DEF CohInv
<1>1. CASE conn = None
  BY <1>1 DEF Exchange
<1>2. CASE conn \in Cards
  <2> DEFINE q == Head(txq)
  <2>1. /\ txq # <<>> /\ 1 \in DOMAIN txq /\ q = txq[1]
        /\ q \in Requests
    BY <1>0, <1>2 DEF Exchange
  <2>2. conn # None
    BY <1>2, SettledTypes
  <2>3. q.proc # None
    BY <1>0, <2>1 DEF AllAwaited
  <2>4. /\ pc[q.proc] = "wait" /\ cmd[q.proc] = q.cmd
        /\ q.proc \in Clients \/ q.proc \in Monitors
    BY <2>1, <2>3 DEF Requests, Base, ControlInv, QueueMatchesWaiters, Procs
  <2>5. PICK a \in Replies(q) :
          /\ card' = [card EXCEPT ![conn] = a.card]
          /\ pc' = [pc EXCEPT ![q.proc] = "got"]
          /\ res' = [res EXCEPT ![q.proc] = [out |-> a.out, from |-> conn, k |-> a.card]]
    BY <2>2, <2>3 DEF Exchange, Goto
  <2>6. /\ txq' = Tail(txq)
        /\ UNCHANGED <<slot, conn, link, status, published, forceScanC, life, cmd, call, scan>>
    BY <2>2 DEF Exchange
  <2>7. AllAwaited => AllAwaited'
    BY <1>0, <2>1, <2>6, AwaitedQueue
  <2> HIDE DEF q
  <2>8. CASE q.proc \in Clients
    BY <1>2, <2>1, <2>4, <2>5, <2>6, <2>7, <2>8, ClientExchangeStaysSettled
  <2>9. CASE q.proc \in Monitors
    BY <1>2, <2>1, <2>4, <2>5, <2>6, <2>7, <2>9, MonitorExchangeStaysSettled
  <2>10. QED
    BY <2>4, <2>8, <2>9
<1>3. QED
  BY <1>0, <1>1, <1>2

\* The rest of the world: cards and readers are moved while everything waits,
\* the service starts, errors are simulated.
LEMMA WorldStaysSettled ==
    ASSUME OneSettledReader, Base, CohInv,
           User \/ Start \/ StopFailed \/ (\E e \in Faults \cup {None} : SimulateError(e)) \/ ReleaseContext
    PROVE  CohInv'
<1>0. /\ pc \in [Procs -> PCs] /\ Monitors \subseteq Procs /\ Clients \subseteq Procs
      /\ \A c \in Clients : c \notin Monitors
      /\ card \in [Cards -> CardState] /\ status \in Status
      /\ slot \in [Readers -> Cards \cup {None, Unplugged}]
      /\ Coherent(status) /\ Coherent(published) /\ ~ctxDone
  BY SettledTypes DEF CohInv
<1>1. ASSUME NEW c \in Clients, pc'[c] = "idle" PROVE ClientSettled(c)'
  BY <1>1 DEF ClientSettled, Early, Talking, Forcing, Commanding, Exchanging, Reported
<1>2. CASE User
  <2>1. PICK r \in Readers : \E content \in Cards \cup {None, Unplugged} :
          UserMay /\ Move(r, content)
    BY <1>2 DEF User, InsertCard, RemoveCard, UnplugReader, PlugReader
  <2>2. PICK content \in Cards \cup {None, Unplugged} : UserMay /\ Move(r, content)
    BY <2>1
  <2>3. /\ \A g \in Monitors : pc[g] \in {"idle", "poll", "tick", "blocked"}
        /\ \A c \in Clients : pc[c] = "idle"
    BY <2>2 DEF OneSettledReader, UserMay, Quiet, Waiting
  <2>4. /\ slot' = [slot EXCEPT ![r] = content]
        /\ card' = [c \in Cards |-> IF c \in {slot[r], content} THEN EndSession(card[c])
                                    ELSE card[c]]
        /\ link' = (link /\ conn # slot[r])
        /\ UNCHANGED <<conn, status, published, forceScanC, txq, life, locals>>
    BY <2>2 DEF Move
  <2>5. \A c \in Clients : ClientSettled(c)'
    BY <1>1, <2>3, <2>4 DEF locals
  <2>6. \A g \in Monitors : MonitorSettled(g)'
    BY <2>3, <2>4 DEF CohInv, MonitorSettled, Connecting, Exchanging, BeforeChannel, Reported, locals
  <2>7. ASSUME link' PROVE LinkFits'
    <3>1. PICK g \in Monitors : /\ pc[g] \in Connecting \cup {"poll", "tick"}
                               /\ slot[scan[g].active] = conn
      BY <2>4, <2>7 DEF CohInv, LinkFits
    <3>2. scan[g].active \in Readers /\ scan[g].active # r
      BY <2>4, <2>7, <3>1 DEF CohInv, MonitorSettled
    <3>3. slot'[scan[g].active] = conn
      BY <1>0, <2>4, <3>1, <3>2
    <3>4. QED
      BY <2>4, <2>7, <3>1, <3>3 DEF CohInv, LinkFits, locals
  <2>8. ChannelFits'
    <3>1. ASSUME NEW k \in Cards, card'[k].channel
          PROVE  card'[k] = card[k] /\ k # slot[r]
      <4>1. ~EndSession(card[k]).channel
        BY <1>0 DEF EndSession, CardState
      <4>2. QED
        BY <2>4, <3>1, <4>1
    <3>2. Resetting <=> Resetting'
      BY <2>4 DEF Resetting, locals
    <3>3. QED
      BY <2>4, <3>1, <3>2 DEF CohInv, ChannelFits, InfoFits
  <2>9. QED
    BY <1>0, <2>4, <2>5, <2>6, <2>7, <2>8 DEF CohInv, LinkFits, AllAwaited, Coherent, life
<1>3. CASE Start
  <2>1. \A p \in Procs : pc[p] = "idle"
    BY <1>3 DEF Start, Base, ControlInv, OffIsIdle
  <2>2. /\ \A c \in Clients : pc'[c] = "idle"
        /\ \A g \in Monitors : pc'[g] \in {"idle", "detect"}
    BY <1>0, <1>3, <2>1 DEF Start, Goto
  <2>3. /\ UNCHANGED <<world, conn, link, forceScanC, txq, ctxDone, released>>
        /\ Coherent(status') /\ Coherent(published')
    <3>1. "no-pcsc" \in State \ Usable
      BY DEF State, Usable
    <3>2. QED
      BY <1>0, <1>3, <3>1, TroubleIsCoherent DEF Start, Coherent
  <2>4. \A c \in Clients : ClientSettled(c)'
    BY <1>1, <2>2
  <2>5. \A g \in Monitors : MonitorSettled(g)'
    BY <2>2 DEF MonitorSettled, Connecting, Exchanging, BeforeChannel, Reported
  <2>6. ~link
    BY <1>0, <2>1 DEF CohInv, LinkFits, Connecting, Exchanging
  <2>7. LinkFits' /\ ChannelFits'
    BY <2>3, <2>6 DEF CohInv, LinkFits, ChannelFits, world
  <2>8. QED
    BY <2>3, <2>4, <2>5, <2>7 DEF CohInv, AllAwaited, world
<1>4. ASSUME StopFailed \/ ReleaseContext PROVE FALSE
  BY <1>0, <1>4 DEF StopFailed, ReleaseContext, OneSettledReader
<1>5. CASE \E e \in Faults \cup {None} : SimulateError(e)
  <2>1. UNCHANGED <<world, object, ctxDone, released, locals>>
    BY <1>5 DEF SimulateError
  <2>2. QED
    BY <2>1 DEF world, object, locals, CohInv, AllAwaited, Coherent, ClientSettled, MonitorSettled,
                LinkFits, ChannelFits, Early, Watching, NoCard, NoChannel, Resetting, InfoFits,
                Reported, NeedsForce, Succeeded, SCardError, BeforeChannel
<1>6. QED
  BY <1>2, <1>3, <1>4, <1>5

LEMMA CohInvKept == OneSettledReader /\ Base /\ CohInv /\ [Next]_vars => CohInv'
<1> SUFFICES ASSUME OneSettledReader, Base, CohInv, [Next]_vars
             PROVE  CohInv'
  OBVIOUS
<1>1. ASSUME UNCHANGED <<world, object, ctxDone, released, locals>>
      PROVE  CohInv'
  BY <1>1 DEF world, object, locals, CohInv, AllAwaited, Coherent, ClientSettled, MonitorSettled,
              LinkFits, ChannelFits, Early, Watching, NoCard, NoChannel, Resetting, InfoFits,
              Reported, NeedsForce, Succeeded, SCardError, BeforeChannel
<1>2. Panic => CohInv'
  BY <1>1 DEF Panic
<1>3. CASE Next
  <2>1. ASSUME NEW g \in Monitors, Monitor(g) PROVE CohInv'
    BY <2>1, MonitorStaysSettled
  <2>2. ASSUME NEW c \in Clients, Client(c) \/ Caller(c) PROVE CohInv'
    BY <1>2, <2>2, ClientStaysSettled
  <2>3. ASSUME NEW p \in Procs, Either(p) PROVE CohInv'
    BY <1>2, <2>3, ClientCommandStaysSettled, MonitorCommandStaysSettled DEF Procs
  <2>4. QED
    BY <1>2, <1>3, <2>1, <2>2, <2>3, ExchangeStaysSettled, WorldStaysSettled DEF Next
<1>4. CASE UNCHANGED vars
  BY <1>1, <1>4 DEF vars, life
<1>5. QED
  BY <1>3, <1>4

\* With one reader, one client that goes by the published status, and a user
\* who moves cards only when nothing is going on, a status that announces a
\* usable card is about one card throughout: the PIN and PUK counters that
\* updateApplicationStatus read (549-577) are those of the card that connectCard
\* selected (271), whatever is pulled, pushed in, initialized or reset meanwhile.
THEOREM AnnouncedCardsAreWhole ==
    ASSUME OneSettledReader
    PROVE  Spec => []ReadyIsCoherent
<1>1. Init => CohInv
  <2>1. ASSUME Init PROVE \A k \in Cards : ~card[k].channel
    BY <2>1 DEF Init, OneSettledReader
  <2>2. ASSUME Init PROVE LinkFits /\ ChannelFits
    BY <2>1, <2>2 DEF Init, LinkFits, ChannelFits
  <2>3. ASSUME Init PROVE Coherent(status) /\ Coherent(published) /\ AllAwaited
    BY <2>3 DEF Init, Coherent, Reset, Usable, AllAwaited
  <2>4. ASSUME Init, NEW c \in Clients PROVE ClientSettled(c)
    BY <2>4, ProcFacts
       DEF Init, ClientSettled, Early, Talking, Forcing, Commanding, Exchanging, Reported
  <2>5. ASSUME Init, NEW g \in Monitors PROVE MonitorSettled(g)
    BY <2>5, ProcFacts
       DEF Init, MonitorSettled, Connecting, Exchanging, BeforeChannel, Reported
  <2>6. ASSUME Init PROVE ~ctxDone /\ ~released /\ forceScanC # "closed"
    BY <2>6, SessionAssumption DEF Init
  <2>7. QED
    BY <2>2, <2>3, <2>4, <2>5, <2>6 DEF CohInv
<1>2. CohInv => ReadyIsCoherent
  BY DEF CohInv, Coherent, Usable, ReadyIsCoherent
<1>3. QED
  BY <1>1, <1>2, BaseHolds, CohInvKept, PTL DEF Spec
=============================================================================
