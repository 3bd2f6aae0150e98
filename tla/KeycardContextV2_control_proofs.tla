--------------------- MODULE KeycardContextV2_control_proofs ---------------------
(***************************************************************************)
(* The control of the session API, for any number of goroutines: who holds *)
(* cmdSetMutex, whose request is in transmitChannel, and which goroutine   *)
(* monitors the readers.  The invariant names these three together,        *)
(* because a reply must not wake a goroutine that is not waiting: it could *)
(* revive a monitor that has ended, or put a goroutine in a command that   *)
(* it does not hold the lock for.                                          *)
(***************************************************************************)
EXTENDS KeycardContextV2_proofs

\* Between asking for the lock and releasing it, a client is at a command of
\* an RPC.  Only the monitor sends "pair" and "open".
Commanding == {"lock", "wait", "got", "force", "sending", "orphan", "forced"}
ClientCommands == \A c \in Clients : pc[c] \in Commanding => cmd[c] \in LockedCommand

\* Before Start nothing runs.
OffIsIdle == service = "off" => \A p \in Procs : pc[p] = "idle"

ControlInv == /\ ClientCommands
              /\ QueueMatchesWaiters
              /\ MutexExact
              /\ AtMostOneMonitor
              /\ OffIsIdle

-----------------------------------------------------------------------------

\* The two kinds of goroutines.
LEMMA ProcFacts ==
    /\ Clients \subseteq Procs /\ Monitors \subseteq Procs
    /\ \A p \in Procs : p \notin Clients => p \in Monitors
    /\ \A p \in Clients : p \notin Monitors
    /\ None \notin Procs
  BY SessionAssumption DEF Procs

\* Which commands take the lock.
LEMMA CommandFacts ==
    /\ "pair" \notin LockedCommand /\ "open" \notin LockedCommand
    /\ "reset" \in LockedCommand
    /\ InitCommands \subseteq LockedCommand
    /\ Checked \subseteq LockedCommand
  BY DEF LockedCommand, Checked, InitCommands, Command

\* Goroutines that wait for a reply go on waiting for it.
WaitersStay == \A p \in Procs : pc[p] = "wait" => pc'[p] = "wait" /\ cmd'[p] = cmd[p]

\* The queue keeps its requests, except for the connection they are sealed for.
SameQueue == /\ DOMAIN txq' = DOMAIN txq
             /\ \A i \in DOMAIN txq : txq'[i].proc = txq[i].proc /\ txq'[i].cmd = txq[i].cmd

\* Who makes requests.
LEMMA QueueProcs ==
    ASSUME TypeInv
    PROVE  \A i \in DOMAIN txq : txq[i].proc \in Procs \cup {None}
<1>1. txq \in Seq(Requests)
  BY DEF TypeInv, TypeOK, ObjectTypeOK
<1>2. \A i \in DOMAIN txq : txq[i] \in Requests
  BY <1>1
<1>3. QED
  BY <1>2 DEF Requests

\* A step that leaves the queue and those who wait.
LEMMA QueueFrame ==
    ASSUME TypeInv, QueueMatchesWaiters, WaitersStay, SameQueue
    PROVE  QueueMatchesWaiters'
<1>1. \A i \in DOMAIN txq : txq[i].proc \in Procs \cup {None}
  BY QueueProcs
<1>2. QED
  BY <1>1 DEF QueueMatchesWaiters, WaitersStay, SameQueue

\* A request that is made.
LEMMA QueueAppend ==
    ASSUME TypeInv, QueueMatchesWaiters, NEW p \in Procs, NEW command \in Command,
           pc[p] # "wait",
           txq' = Append(txq, Request(p, command)),
           pc' = [pc EXCEPT ![p] = "wait"],
           cmd' = [cmd EXCEPT ![p] = command]
    PROVE  QueueMatchesWaiters'
<1> DEFINE n == Len(txq) + 1
<1>1. txq \in Seq(Requests) /\ Request(p, command) \in Requests
  BY RequestTypes DEF TypeInv, TypeOK, ObjectTypeOK
<1>2. /\ DOMAIN txq' = DOMAIN txq \cup {n} /\ n \notin DOMAIN txq
      /\ \A i \in DOMAIN txq : txq'[i] = txq[i]
      /\ txq'[n] = Request(p, command)
  BY <1>1
<1>3. /\ pc'[p] = "wait" /\ cmd'[p] = command
      /\ \A q \in Procs : q # p => pc'[q] = pc[q] /\ cmd'[q] = cmd[q]
  BY DEF TypeInv, TypeOK, LocalsTypeOK
<1>4. \A i \in DOMAIN txq : txq[i].proc # p
  <2>1. p # None
    BY ProcFacts
  <2>2. QED
    BY <2>1 DEF QueueMatchesWaiters
<1>5. \A i \in DOMAIN txq : txq[i].proc \in Procs \cup {None}
  BY QueueProcs
<1>6. txq'[n].proc = p /\ txq'[n].cmd = command
  BY <1>2 DEF Request
<1> HIDE DEF n
<1>7. SUFFICES ASSUME NEW i \in DOMAIN txq', txq'[i].proc # None
               PROVE  /\ pc'[txq'[i].proc] = "wait"
                      /\ cmd'[txq'[i].proc] = txq'[i].cmd
                      /\ \A j \in DOMAIN txq' : txq'[j].proc = txq'[i].proc => j = i
  BY DEF QueueMatchesWaiters
<1>8. CASE i = n
  BY <1>2, <1>3, <1>4, <1>6, <1>8
<1>9. CASE i \in DOMAIN txq
  <2>1. /\ pc[txq[i].proc] = "wait"
        /\ cmd[txq[i].proc] = txq[i].cmd
        /\ \A j \in DOMAIN txq : txq[j].proc = txq[i].proc => j = i
    BY <1>2, <1>7, <1>9 DEF QueueMatchesWaiters
  <2>2. QED
    BY <1>2, <1>3, <1>4, <1>5, <1>6, <1>7, <1>9, <2>1
<1>10. QED
  BY <1>2, <1>8, <1>9

\* No goroutine enters or leaves a locked command.
LEMMA MutexFrame ==
    ASSUME MutexExact, mutex' = mutex,
           \A p \in Procs : InCriticalSection(p)' <=> InCriticalSection(p)
    PROVE  MutexExact'
  BY DEF MutexExact

\* The holder of the lock releases it.
LEMMA MutexRelease ==
    ASSUME MutexExact, NEW p \in Procs, InCriticalSection(p), mutex' = None,
           ~InCriticalSection(p)',
           \A q \in Procs \ {p} : InCriticalSection(q)' => InCriticalSection(q)
    PROVE  MutexExact'
<1>1. mutex = p
  BY DEF MutexExact
<1>2. QED
  BY <1>1, ProcFacts DEF MutexExact

\* No monitor starts.
LEMMA MonitorFrame ==
    ASSUME AtMostOneMonitor, \A g \in Monitors : Active(g)' => Active(g)
    PROVE  AtMostOneMonitor'
  BY DEF AtMostOneMonitor

\* A monitor that starts another one ends.
LEMMA MonitorHandOver ==
    ASSUME AtMostOneMonitor, NEW g \in Monitors, Active(g), ~Active(g)',
           NEW h \in Monitors, \A m \in Monitors \ {g, h} : Active(m)' => Active(m)
    PROVE  AtMostOneMonitor'
  BY DEF AtMostOneMonitor

\* A monitor that ends as it starts the next.
LEMMA HandOverControl ==
    ASSUME TypeInv, AtMostOneMonitor, NEW g \in Monitors, Active(g),
           NEW where \in {"poll", "detect"}, NEW next, HandOver(g, where, next)
    PROVE  /\ AtMostOneMonitor'
           /\ pc'[g] = "idle"
           /\ \A p \in Clients : pc'[p] = pc[p]
           /\ \A p \in Procs : p # g => pc'[p] = pc[p] \/ (pc[p] = "idle" /\ pc'[p] = where)
<1>1. PICK h \in Monitors : /\ h # g /\ pc[h] = "idle"
                            /\ pc' = [pc EXCEPT ![g] = "idle", ![h] = where]
  BY DEF HandOver
<1>2. /\ pc'[g] = "idle" /\ pc'[h] = where
      /\ \A p \in Procs : p \notin {g, h} => pc'[p] = pc[p]
  BY <1>1, ProcFacts DEF TypeInv, TypeOK, LocalsTypeOK
<1>3. AtMostOneMonitor'
  BY <1>2, MonitorHandOver, ProcFacts DEF Active
<1>4. \A p \in Clients : p \notin {g, h} /\ p \in Procs
  BY <1>1, ProcFacts
<1>5. QED
  BY <1>1, <1>2, <1>3, <1>4

\* The monitor ends with a new watcher; a client just returns.
LEMMA MetadataDoneControl ==
    ASSUME TypeInv, AtMostOneMonitor, NEW p \in Procs, pc[p] # "idle", NEW s, NEW fine,
           MetadataDone(p, s, fine)
    PROVE  /\ AtMostOneMonitor'
           /\ pc'[p] = "idle"
           /\ \A q \in Clients : q # p => pc'[q] = pc[q]
           /\ \A q \in Procs : q # p => pc'[q] = pc[q] \/ (pc[q] = "idle" /\ pc'[q] = "poll")
<1>1. CASE p \in Monitors
  <2>1. HandOver(p, "poll", [active |-> scan[p].active, known |-> {}])
    BY <1>1 DEF MetadataDone, Watch
  <2>2. QED
    BY <1>1, <2>1, HandOverControl DEF Active
<1>2. CASE p \notin Monitors
  <2>1. pc' = [pc EXCEPT ![p] = "idle"]
    BY <1>2 DEF MetadataDone, Goto
  <2>2. pc'[p] = "idle" /\ \A q \in Procs : q # p => pc'[q] = pc[q]
    BY <2>1 DEF TypeInv, TypeOK, LocalsTypeOK
  <2>3. AtMostOneMonitor'
    BY <2>2, MonitorFrame, ProcFacts DEF Active
  <2>4. QED
    BY <2>2, <2>3, ProcFacts
<1>3. QED
  BY <1>1, <1>2

-----------------------------------------------------------------------------

\* The control invariant holds of every behaviour.
THEOREM Control == Spec => []ControlInv
<1>1. Init => ControlInv
  BY ProcFacts DEF Init, ControlInv, ClientCommands, QueueMatchesWaiters, MutexExact,
     InCriticalSection, AtMostOneMonitor, Active, OffIsIdle, Commanding
<1>2. TypeInv /\ ControlInv /\ [Next]_vars => ControlInv'
  <2> SUFFICES ASSUME TypeInv, ControlInv, [Next]_vars PROVE ControlInv'
    OBVIOUS
  <2> USE DEF ControlInv
  <2>0. /\ pc \in [Procs -> PCs] /\ cmd \in [Procs -> Command \cup {None}]
        /\ txq \in Seq(Requests) /\ LockedWhenLocking
    BY DEF TypeInv, TypeOK, LocalsTypeOK, ObjectTypeOK
  <2>1. CASE User
    <3>1. ClientCommands'
      BY <2>0, <2>1, ProcFacts, CommandNames DEF ClientCommands, Commanding, User, InsertCard, RemoveCard, UnplugReader, PlugReader, UserMay, Move, locals
    <3>2. QueueMatchesWaiters'
      <4>1. WaitersStay
        BY <2>0, <2>1, ProcFacts DEF WaitersStay, User, InsertCard, RemoveCard, UnplugReader, PlugReader, UserMay, Move, locals
      <4>2. SameQueue
        BY <2>0, <2>1 DEF SameQueue, User, InsertCard, RemoveCard, UnplugReader, PlugReader, UserMay, Move, object
      <4>3. QED
        BY <4>1, <4>2, QueueFrame
    <3>3. MutexExact'
      BY <2>0, <2>1, ProcFacts, CommandNames, CommandFacts DEF MutexExact, InCriticalSection, User, InsertCard, RemoveCard, UnplugReader, PlugReader, UserMay, Move, locals, object
    <3>4. AtMostOneMonitor'
      BY <2>0, <2>1, ProcFacts DEF AtMostOneMonitor, Active, User, InsertCard, RemoveCard, UnplugReader, PlugReader, UserMay, Move, locals
    <3>5. OffIsIdle'
      BY <2>0, <2>1, ProcFacts DEF OffIsIdle, User, InsertCard, RemoveCard, UnplugReader, PlugReader, UserMay, Move, locals, life
    <3>6. QED
      BY <3>1, <3>2, <3>3, <3>4, <3>5
  <2>2. CASE Start
    <3>1. \A p \in Procs : pc[p] = "idle"
      BY <2>0, <2>2 DEF Start, OffIsIdle
    <3>2. UNCHANGED <<mutex, txq, cmd>> /\ service' # "off"
      BY <2>0, <2>2 DEF Start
    <3>3. \/ UNCHANGED pc
          \/ \E g \in Monitors : pc' = [pc EXCEPT ![g] = "detect"]
      BY <2>0, <2>2 DEF Start, Goto
    <3>4. /\ \A p \in Procs : pc'[p] \in {"idle", "detect"}
          /\ \A p \in Clients : pc'[p] = "idle"
          /\ \A g, h \in Monitors : pc'[g] # "idle" /\ pc'[h] # "idle" => g = h
      BY <2>0, <3>1, <3>3, ProcFacts
    <3>5. QueueMatchesWaiters'
      BY <3>1, <3>2, QueueFrame DEF WaitersStay, SameQueue
    <3>6. MutexExact'
      BY <3>1, <3>2, <3>4, MutexFrame DEF InCriticalSection
    <3>7. ClientCommands' /\ AtMostOneMonitor' /\ OffIsIdle'
      BY <3>2, <3>4 DEF ClientCommands, Commanding, AtMostOneMonitor, Active, OffIsIdle
    <3>8. QED
      BY <3>5, <3>6, <3>7
  <2>3. CASE StopFailed
    <3>1. ClientCommands'
      BY <2>0, <2>3, ProcFacts, CommandNames DEF ClientCommands, Commanding, StopFailed, locals
    <3>2. QueueMatchesWaiters'
      <4>1. WaitersStay
        BY <2>0, <2>3, ProcFacts DEF WaitersStay, StopFailed, locals
      <4>2. SameQueue
        BY <2>0, <2>3 DEF SameQueue, StopFailed, object
      <4>3. QED
        BY <4>1, <4>2, QueueFrame
    <3>3. MutexExact'
      BY <2>0, <2>3, ProcFacts, CommandNames, CommandFacts DEF MutexExact, InCriticalSection, StopFailed, locals, object
    <3>4. AtMostOneMonitor'
      BY <2>0, <2>3, ProcFacts DEF AtMostOneMonitor, Active, StopFailed, locals
    <3>5. OffIsIdle'
      BY <2>0, <2>3, ProcFacts DEF OffIsIdle, StopFailed, locals, life
    <3>6. QED
      BY <3>1, <3>2, <3>3, <3>4, <3>5
  <2>4. ASSUME NEW e \in Faults \cup {None}, SimulateError(e) PROVE ControlInv'
    <3>1. ClientCommands'
      BY <2>0, <2>4, ProcFacts, CommandNames DEF ClientCommands, Commanding, SimulateError, locals
    <3>2. QueueMatchesWaiters'
      <4>1. WaitersStay
        BY <2>0, <2>4, ProcFacts DEF WaitersStay, SimulateError, locals
      <4>2. SameQueue
        BY <2>0, <2>4 DEF SameQueue, SimulateError, object
      <4>3. QED
        BY <4>1, <4>2, QueueFrame
    <3>3. MutexExact'
      BY <2>0, <2>4, ProcFacts, CommandNames, CommandFacts DEF MutexExact, InCriticalSection, SimulateError, locals, object
    <3>4. AtMostOneMonitor'
      BY <2>0, <2>4, ProcFacts DEF AtMostOneMonitor, Active, SimulateError, locals
    <3>5. OffIsIdle'
      BY <2>0, <2>4, ProcFacts DEF OffIsIdle, SimulateError, locals, life
    <3>6. QED
      BY <3>1, <3>2, <3>3, <3>4, <3>5
  <2>5. CASE Exchange
    <3>1. CASE conn = None
      BY <2>0, <2>5, <3>1 DEF Exchange, Panic, object, life, locals, ClientCommands, QueueMatchesWaiters,
         MutexExact, InCriticalSection, AtMostOneMonitor, Active, OffIsIdle
    <3>2. CASE conn # None
      <4> DEFINE q == txq[1]
      <4>1. /\ txq # <<>> /\ txq' = Tail(txq) /\ service # "off"
            /\ UNCHANGED <<mutex, service, cmd>>
            /\ \/ Head(txq).proc = None /\ UNCHANGED pc
               \/ Head(txq).proc # None /\ pc' = [pc EXCEPT ![Head(txq).proc] = "got"]
        BY <2>0, <2>5, <3>2 DEF Exchange, Goto, life
      <4>2. /\ 1 \in DOMAIN txq /\ Head(txq) = q
            /\ \A i \in DOMAIN txq : txq[i] \in Requests
            /\ \A i \in DOMAIN txq' : i + 1 \in DOMAIN txq /\ i + 1 # 1 /\ txq'[i] = txq[i + 1]
            /\ DOMAIN txq' \subseteq Nat
        BY <2>0, <4>1
      <4>3. \A i \in DOMAIN txq : txq[i].proc \in Procs \cup {None}
        BY <4>2 DEF Requests
      <4>4. q.proc # None => q.proc \in Procs /\ pc[q.proc] = "wait"
        BY <4>2, <4>3 DEF QueueMatchesWaiters
      <4>5. \A p \in Procs :
              pc'[p] = pc[p] \/ (p = q.proc /\ pc[p] = "wait" /\ pc'[p] = "got")
        BY <2>0, <4>1, <4>2, <4>4
      <4> HIDE DEF q
      <4>6. QueueMatchesWaiters'
        <5>1. SUFFICES ASSUME NEW i \in DOMAIN txq', txq'[i].proc # None
                       PROVE  /\ pc'[txq'[i].proc] = "wait"
                              /\ cmd'[txq'[i].proc] = txq'[i].cmd
                              /\ \A j \in DOMAIN txq' : txq'[j].proc = txq'[i].proc => j = i
          BY DEF QueueMatchesWaiters
        <5>2. /\ pc[txq[i + 1].proc] = "wait"
              /\ cmd[txq[i + 1].proc] = txq[i + 1].cmd
              /\ \A j \in DOMAIN txq : txq[j].proc = txq[i + 1].proc => j = i + 1
          BY <4>2, <5>1 DEF QueueMatchesWaiters
        <5>3. txq[i + 1].proc # q.proc /\ txq[i + 1].proc \in Procs
          BY <4>2, <4>3, <5>1, <5>2 DEF q
        <5>4. pc'[txq[i + 1].proc] = "wait"
          BY <4>5, <5>2, <5>3
        <5>5. \A j \in DOMAIN txq' : txq'[j].proc = txq'[i].proc => j = i
          BY <4>2, <5>2
        <5>6. QED
          BY <4>1, <4>2, <5>2, <5>4, <5>5
      <4>7. MutexExact'
        BY <4>1, <4>5, MutexFrame DEF InCriticalSection
      <4>8. ClientCommands' /\ OffIsIdle'
        BY <4>1, <4>5, ProcFacts DEF ClientCommands, Commanding, OffIsIdle
      <4>9. AtMostOneMonitor'
        BY <4>5, MonitorFrame, ProcFacts DEF Active
      <4>10. QED
        BY <4>6, <4>7, <4>8, <4>9
    <3>3. QED
      BY <3>1, <3>2
  <2>6. CASE ReleaseContext
    <3>1. ClientCommands'
      BY <2>0, <2>6, ProcFacts, CommandNames DEF ClientCommands, Commanding, ReleaseContext, locals
    <3>2. QueueMatchesWaiters'
      <4>1. WaitersStay
        BY <2>0, <2>6, ProcFacts DEF WaitersStay, ReleaseContext, locals
      <4>2. SameQueue
        BY <2>0, <2>6 DEF SameQueue, ReleaseContext, object
      <4>3. QED
        BY <4>1, <4>2, QueueFrame
    <3>3. MutexExact'
      BY <2>0, <2>6, ProcFacts, CommandNames, CommandFacts DEF MutexExact, InCriticalSection, ReleaseContext, locals, object
    <3>4. AtMostOneMonitor'
      BY <2>0, <2>6, ProcFacts DEF AtMostOneMonitor, Active, ReleaseContext, locals
    <3>5. OffIsIdle'
      BY <2>0, <2>6, ProcFacts DEF OffIsIdle, ReleaseContext, locals, life
    <3>6. QED
      BY <3>1, <3>2, <3>3, <3>4, <3>5
  <2>7. ASSUME NEW g \in Monitors, Detect(g) PROVE ControlInv'
    <3>1. ClientCommands'
      BY <2>0, <2>7, ProcFacts, CommandNames DEF ClientCommands, Commanding, Detect, Goto, locals
    <3>2. QueueMatchesWaiters'
      <4>1. WaitersStay
        BY <2>0, <2>7, ProcFacts DEF WaitersStay, Detect, Goto, locals
      <4>2. SameQueue
        BY <2>0, <2>7, StaleRequests DEF SameQueue, Detect, Goto, object
      <4>3. QED
        BY <4>1, <4>2, QueueFrame
    <3>3. MutexExact'
      BY <2>0, <2>7, ProcFacts, CommandNames, CommandFacts DEF MutexExact, InCriticalSection, Detect, Goto, locals, object
    <3>4. AtMostOneMonitor'
      BY <2>0, <2>7, ProcFacts DEF AtMostOneMonitor, Active, Detect, Goto, locals
    <3>5. OffIsIdle'
      BY <2>0, <2>7, ProcFacts DEF OffIsIdle, Detect, Goto, locals, life
    <3>6. QED
      BY <3>1, <3>2, <3>3, <3>4, <3>5
  <2>8. ASSUME NEW g \in Monitors, ConnectCard(g) PROVE ControlInv'
    <3>1. ClientCommands'
      BY <2>0, <2>8, ProcFacts, CommandNames DEF ClientCommands, Commanding, ConnectCard, Goto, locals
    <3>2. QueueMatchesWaiters'
      <4>1. WaitersStay
        BY <2>0, <2>8, ProcFacts DEF WaitersStay, ConnectCard, Goto, locals
      <4>2. SameQueue
        BY <2>0, <2>8 DEF SameQueue, ConnectCard, Goto, object
      <4>3. QED
        BY <4>1, <4>2, QueueFrame
    <3>3. MutexExact'
      BY <2>0, <2>8, ProcFacts, CommandNames, CommandFacts DEF MutexExact, InCriticalSection, ConnectCard, Goto, locals, object
    <3>4. AtMostOneMonitor'
      BY <2>0, <2>8, ProcFacts DEF AtMostOneMonitor, Active, ConnectCard, Goto, locals
    <3>5. OffIsIdle'
      BY <2>0, <2>8, ProcFacts DEF OffIsIdle, ConnectCard, Goto, locals, life
    <3>6. QED
      BY <3>1, <3>2, <3>3, <3>4, <3>5
  <2>9. ASSUME NEW g \in Monitors, CardSelected(g) PROVE ControlInv'
    <3>1. ClientCommands'
      BY <2>0, <2>9, ProcFacts, CommandNames DEF ClientCommands, Commanding, CardSelected, Goto, Unlock, locals
    <3>2. QueueMatchesWaiters'
      <4>1. WaitersStay
        BY <2>0, <2>9, ProcFacts DEF WaitersStay, CardSelected, Goto, Unlock, locals
      <4>2. SameQueue
        BY <2>0, <2>9, StaleRequests DEF SameQueue, CardSelected, Goto, Unlock, object
      <4>3. QED
        BY <4>1, <4>2, QueueFrame
    <3>3. MutexExact'
      BY <2>0, <2>9, ProcFacts, CommandNames, CommandFacts DEF MutexExact, InCriticalSection, CardSelected, Goto, Unlock, locals, object
    <3>4. AtMostOneMonitor'
      BY <2>0, <2>9, ProcFacts DEF AtMostOneMonitor, Active, CardSelected, Goto, Unlock, locals
    <3>5. OffIsIdle'
      BY <2>0, <2>9, ProcFacts DEF OffIsIdle, CardSelected, Goto, Unlock, locals, life
    <3>6. QED
      BY <3>1, <3>2, <3>3, <3>4, <3>5
  <2>10. ASSUME NEW g \in Monitors, AwaitReaders(g) PROVE ControlInv'
    <3>1. ClientCommands'
      BY <2>0, <2>10, ProcFacts, CommandNames DEF ClientCommands, Commanding, AwaitReaders, Goto, locals
    <3>2. QueueMatchesWaiters'
      <4>1. WaitersStay
        BY <2>0, <2>10, ProcFacts DEF WaitersStay, AwaitReaders, Goto, locals
      <4>2. SameQueue
        BY <2>0, <2>10 DEF SameQueue, AwaitReaders, Goto, object
      <4>3. QED
        BY <4>1, <4>2, QueueFrame
    <3>3. MutexExact'
      BY <2>0, <2>10, ProcFacts, CommandNames, CommandFacts DEF MutexExact, InCriticalSection, AwaitReaders, Goto, locals, object
    <3>4. AtMostOneMonitor'
      BY <2>0, <2>10, ProcFacts DEF AtMostOneMonitor, Active, AwaitReaders, Goto, locals
    <3>5. OffIsIdle'
      BY <2>0, <2>10, ProcFacts DEF OffIsIdle, AwaitReaders, Goto, locals, life
    <3>6. QED
      BY <3>1, <3>2, <3>3, <3>4, <3>5
  <2>11. ASSUME NEW g \in Monitors, ReadersChanged(g) PROVE ControlInv'
    <3>1. ClientCommands'
      BY <2>0, <2>11, ProcFacts, CommandNames DEF ClientCommands, Commanding, ReadersChanged, Goto, locals
    <3>2. QueueMatchesWaiters'
      <4>1. WaitersStay
        BY <2>0, <2>11, ProcFacts DEF WaitersStay, ReadersChanged, Goto, locals
      <4>2. SameQueue
        BY <2>0, <2>11 DEF SameQueue, ReadersChanged, Goto, object
      <4>3. QED
        BY <4>1, <4>2, QueueFrame
    <3>3. MutexExact'
      BY <2>0, <2>11, ProcFacts, CommandNames, CommandFacts DEF MutexExact, InCriticalSection, ReadersChanged, Goto, locals, object
    <3>4. AtMostOneMonitor'
      BY <2>0, <2>11, ProcFacts DEF AtMostOneMonitor, Active, ReadersChanged, Goto, locals
    <3>5. OffIsIdle'
      BY <2>0, <2>11, ProcFacts DEF OffIsIdle, ReadersChanged, Goto, locals, life
    <3>6. QED
      BY <3>1, <3>2, <3>3, <3>4, <3>5
  <2>12. ASSUME NEW g \in Monitors, ConnectKeycard(g) PROVE ControlInv'
    <3>1. ClientCommands'
      BY <2>0, <2>12, ProcFacts, CommandNames DEF ClientCommands, Commanding, ConnectKeycard, Goto, Watch, HandOver, Panic, locals
    <3>2. QueueMatchesWaiters'
      <4>1. CASE UNCHANGED <<txq, cmd>>
        <5>1. pc[g] = "keycard"
          BY <2>0, <2>12 DEF ConnectKeycard
        <5>2. WaitersStay
          BY <2>0, <2>12, <4>1, <5>1, ProcFacts DEF WaitersStay, ConnectKeycard, Panic, Goto, Watch,
             HandOver, locals
        <5>3. QED
          BY <4>1, <5>2, QueueFrame DEF SameQueue
      <4>2. CASE \E command \in {"open", "pair"} :
                   /\ cmd' = [cmd EXCEPT ![g] = command]
                   /\ txq' = Append(txq, Request(g, command))
                   /\ pc' = [pc EXCEPT ![g] = "wait"]
        <5>1. PICK command \in {"open", "pair"} :
                 /\ cmd' = [cmd EXCEPT ![g] = command]
                 /\ txq' = Append(txq, Request(g, command))
                 /\ pc' = [pc EXCEPT ![g] = "wait"]
          BY <4>2
        <5>2. pc[g] # "wait" /\ g \in Procs /\ command \in Command
          BY <2>12, <5>1, CommandNames, ProcFacts DEF ConnectKeycard
        <5>3. QED
          BY <2>0, <5>1, <5>2, QueueAppend
      <4>3. QED
        BY <2>0, <2>12, <4>1, <4>2 DEF ConnectKeycard, Panic, Goto, object, locals
    <3>3. MutexExact'
      BY <2>0, <2>12, ProcFacts, CommandNames, CommandFacts DEF MutexExact, InCriticalSection, ConnectKeycard, Goto, Watch, HandOver, Panic, locals, object
    <3>4. AtMostOneMonitor'
      BY <2>0, <2>12, ProcFacts DEF AtMostOneMonitor, Active, ConnectKeycard, Goto, Watch, HandOver, Panic, locals
    <3>5. OffIsIdle'
      BY <2>0, <2>12, ProcFacts DEF OffIsIdle, ConnectKeycard, Goto, Watch, HandOver, Panic, locals, life
    <3>6. QED
      BY <3>1, <3>2, <3>3, <3>4, <3>5
  <2>13. ASSUME NEW g \in Monitors, Paired(g) PROVE ControlInv'
    <3>1. ClientCommands'
      BY <2>0, <2>13, ProcFacts, CommandNames DEF ClientCommands, Commanding, Paired, GiveUp, Goto, Watch, HandOver, locals
    <3>2. QueueMatchesWaiters'
      <4>1. WaitersStay
        BY <2>0, <2>13, ProcFacts DEF WaitersStay, Paired, GiveUp, Goto, Watch, HandOver, locals
      <4>2. SameQueue
        BY <2>0, <2>13 DEF SameQueue, Paired, GiveUp, Goto, Watch, HandOver, object
      <4>3. QED
        BY <4>1, <4>2, QueueFrame
    <3>3. MutexExact'
      BY <2>0, <2>13, ProcFacts, CommandNames, CommandFacts DEF MutexExact, InCriticalSection, Paired, GiveUp, Goto, Watch, HandOver, locals, object
    <3>4. AtMostOneMonitor'
      BY <2>0, <2>13, ProcFacts DEF AtMostOneMonitor, Active, Paired, GiveUp, Goto, Watch, HandOver, locals
    <3>5. OffIsIdle'
      BY <2>0, <2>13, ProcFacts DEF OffIsIdle, Paired, GiveUp, Goto, Watch, HandOver, locals, life
    <3>6. QED
      BY <3>1, <3>2, <3>3, <3>4, <3>5
  <2>14. ASSUME NEW g \in Monitors, Reselected(g) PROVE ControlInv'
    <3>1. ClientCommands'
      BY <2>0, <2>14, ProcFacts, CommandNames DEF ClientCommands, Commanding, Reselected, GiveUp, Goto, Watch, HandOver, Unlock, locals
    <3>2. QueueMatchesWaiters'
      <4>1. CASE Failure(res[g])
        <5>1. WaitersStay
          BY <2>0, <2>14, <4>1, ProcFacts DEF WaitersStay, Reselected, GiveUp, Watch, HandOver
        <5>2. QED
          BY <2>0, <2>14, <4>1, <5>1, QueueFrame DEF SameQueue, Reselected
      <4>2. CASE ~Failure(res[g])
        BY <2>0, <2>14, <4>2, QueueAppend, CommandNames, ProcFacts DEF Reselected, Goto
      <4>3. QED
        BY <4>1, <4>2
    <3>3. MutexExact'
      BY <2>0, <2>14, ProcFacts, CommandNames, CommandFacts DEF MutexExact, InCriticalSection, Reselected, GiveUp, Goto, Watch, HandOver, Unlock, locals, object
    <3>4. AtMostOneMonitor'
      BY <2>0, <2>14, ProcFacts DEF AtMostOneMonitor, Active, Reselected, GiveUp, Goto, Watch, HandOver, Unlock, locals
    <3>5. OffIsIdle'
      BY <2>0, <2>14, ProcFacts DEF OffIsIdle, Reselected, GiveUp, Goto, Watch, HandOver, Unlock, locals, life
    <3>6. QED
      BY <3>1, <3>2, <3>3, <3>4, <3>5
  <2>15. ASSUME NEW g \in Monitors, ChannelOpened(g) PROVE ControlInv'
    <3>1. ClientCommands'
      BY <2>0, <2>15, ProcFacts, CommandNames DEF ClientCommands, Commanding, ChannelOpened, GiveUp, Goto, Watch, HandOver, locals
    <3>2. QueueMatchesWaiters'
      <4>1. WaitersStay
        BY <2>0, <2>15, ProcFacts DEF WaitersStay, ChannelOpened, GiveUp, Goto, Watch, HandOver, locals
      <4>2. SameQueue
        BY <2>0, <2>15 DEF SameQueue, ChannelOpened, GiveUp, Goto, Watch, HandOver, object
      <4>3. QED
        BY <4>1, <4>2, QueueFrame
    <3>3. MutexExact'
      BY <2>0, <2>15, ProcFacts, CommandNames, CommandFacts DEF MutexExact, InCriticalSection, ChannelOpened, GiveUp, Goto, Watch, HandOver, locals, object
    <3>4. AtMostOneMonitor'
      BY <2>0, <2>15, ProcFacts DEF AtMostOneMonitor, Active, ChannelOpened, GiveUp, Goto, Watch, HandOver, locals
    <3>5. OffIsIdle'
      BY <2>0, <2>15, ProcFacts DEF OffIsIdle, ChannelOpened, GiveUp, Goto, Watch, HandOver, locals, life
    <3>6. QED
      BY <3>1, <3>2, <3>3, <3>4, <3>5
  <2>16. ASSUME NEW g \in Monitors, Poll(g) PROVE ControlInv'
    <3>1. ClientCommands'
      BY <2>0, <2>16, ProcFacts, CommandNames DEF ClientCommands, Commanding, Poll, Goto, StartDetection, HandOver, locals
    <3>2. QueueMatchesWaiters'
      <4>1. WaitersStay
        BY <2>0, <2>16, ProcFacts DEF WaitersStay, Poll, Goto, StartDetection, HandOver, locals
      <4>2. SameQueue
        BY <2>0, <2>16 DEF SameQueue, Poll, Goto, StartDetection, HandOver, object
      <4>3. QED
        BY <4>1, <4>2, QueueFrame
    <3>3. MutexExact'
      BY <2>0, <2>16, ProcFacts, CommandNames, CommandFacts DEF MutexExact, InCriticalSection, Poll, Goto, StartDetection, HandOver, locals, object
    <3>4. AtMostOneMonitor'
      BY <2>0, <2>16, ProcFacts DEF AtMostOneMonitor, Active, Poll, Goto, StartDetection, HandOver, locals
    <3>5. OffIsIdle'
      BY <2>0, <2>16, ProcFacts DEF OffIsIdle, Poll, Goto, StartDetection, HandOver, locals, life
    <3>6. QED
      BY <3>1, <3>2, <3>3, <3>4, <3>5
  <2>17. ASSUME NEW g \in Monitors, Tick(g) PROVE ControlInv'
    <3>1. ClientCommands'
      BY <2>0, <2>17, ProcFacts, CommandNames DEF ClientCommands, Commanding, Tick, Goto, locals
    <3>2. QueueMatchesWaiters'
      <4>1. WaitersStay
        BY <2>0, <2>17, ProcFacts DEF WaitersStay, Tick, Goto, locals
      <4>2. SameQueue
        BY <2>0, <2>17 DEF SameQueue, Tick, Goto, object
      <4>3. QED
        BY <4>1, <4>2, QueueFrame
    <3>3. MutexExact'
      BY <2>0, <2>17, ProcFacts, CommandNames, CommandFacts DEF MutexExact, InCriticalSection, Tick, Goto, locals, object
    <3>4. AtMostOneMonitor'
      BY <2>0, <2>17, ProcFacts DEF AtMostOneMonitor, Active, Tick, Goto, locals
    <3>5. OffIsIdle'
      BY <2>0, <2>17, ProcFacts DEF OffIsIdle, Tick, Goto, locals, life
    <3>6. QED
      BY <3>1, <3>2, <3>3, <3>4, <3>5
  <2>18. ASSUME NEW g \in Monitors, TickClosed(g) PROVE ControlInv'
    <3>1. ClientCommands'
      BY <2>0, <2>18, ProcFacts, CommandNames DEF ClientCommands, Commanding, TickClosed, Goto, locals
    <3>2. QueueMatchesWaiters'
      <4>1. WaitersStay
        BY <2>0, <2>18, ProcFacts DEF WaitersStay, TickClosed, Goto, locals
      <4>2. SameQueue
        BY <2>0, <2>18 DEF SameQueue, TickClosed, Goto, object
      <4>3. QED
        BY <4>1, <4>2, QueueFrame
    <3>3. MutexExact'
      BY <2>0, <2>18, ProcFacts, CommandNames, CommandFacts DEF MutexExact, InCriticalSection, TickClosed, Goto, locals, object
    <3>4. AtMostOneMonitor'
      BY <2>0, <2>18, ProcFacts DEF AtMostOneMonitor, Active, TickClosed, Goto, locals
    <3>5. OffIsIdle'
      BY <2>0, <2>18, ProcFacts DEF OffIsIdle, TickClosed, Goto, locals, life
    <3>6. QED
      BY <3>1, <3>2, <3>3, <3>4, <3>5
  <2>19. ASSUME NEW g \in Monitors, NEW p \in Procs, Rendezvous(g, p) PROVE ControlInv'
    <3>1. ClientCommands'
      BY <2>0, <2>19, ProcFacts, CommandNames DEF ClientCommands, Commanding, Rendezvous, ScanForced, locals
    <3>2. QueueMatchesWaiters'
      <4>1. WaitersStay
        BY <2>0, <2>19, ProcFacts DEF WaitersStay, Rendezvous, ScanForced, locals
      <4>2. SameQueue
        BY <2>0, <2>19 DEF SameQueue, Rendezvous, ScanForced, object
      <4>3. QED
        BY <4>1, <4>2, QueueFrame
    <3>3. MutexExact'
      BY <2>0, <2>19, ProcFacts, CommandNames, CommandFacts DEF MutexExact, InCriticalSection, Rendezvous, ScanForced, locals, object
    <3>4. AtMostOneMonitor'
      BY <2>0, <2>19, ProcFacts DEF AtMostOneMonitor, Active, Rendezvous, ScanForced, locals
    <3>5. OffIsIdle'
      BY <2>0, <2>19, ProcFacts DEF OffIsIdle, Rendezvous, ScanForced, locals, life
    <3>6. QED
      BY <3>1, <3>2, <3>3, <3>4, <3>5
  <2>20. ASSUME NEW c \in Clients, Stop(c) PROVE ControlInv'
    <3>1. ClientCommands'
      BY <2>0, <2>20, ProcFacts, CommandNames DEF ClientCommands, Commanding, Stop, MayCall, Panic, Goto, locals
    <3>2. QueueMatchesWaiters'
      <4>1. WaitersStay
        BY <2>0, <2>20, ProcFacts DEF WaitersStay, Stop, MayCall, Panic, Goto, locals
      <4>2. SameQueue
        BY <2>0, <2>20 DEF SameQueue, Stop, MayCall, Panic, Goto, object
      <4>3. QED
        BY <4>1, <4>2, QueueFrame
    <3>3. MutexExact'
      BY <2>0, <2>20, ProcFacts, CommandNames, CommandFacts DEF MutexExact, InCriticalSection, Stop, MayCall, Panic, Goto, locals, object
    <3>4. AtMostOneMonitor'
      BY <2>0, <2>20, ProcFacts DEF AtMostOneMonitor, Active, Stop, MayCall, Panic, Goto, locals
    <3>5. OffIsIdle'
      BY <2>0, <2>20, ProcFacts DEF OffIsIdle, Stop, MayCall, Panic, Goto, locals, life
    <3>6. QED
      BY <3>1, <3>2, <3>3, <3>4, <3>5
  <2>21. ASSUME NEW c \in Clients, NEW op \in Op, Call(c, op) PROVE ControlInv'
    <3>1. ClientCommands'
      BY <2>0, <2>21, ProcFacts, CommandNames DEF ClientCommands, Commanding, Call, MayCall, Panic, Goto, locals
    <3>2. QueueMatchesWaiters'
      <4>1. WaitersStay
        BY <2>0, <2>21, ProcFacts DEF WaitersStay, Call, MayCall, Panic, Goto, locals
      <4>2. SameQueue
        BY <2>0, <2>21 DEF SameQueue, Call, MayCall, Panic, Goto, object
      <4>3. QED
        BY <4>1, <4>2, QueueFrame
    <3>3. MutexExact'
      BY <2>0, <2>21, ProcFacts, CommandNames, CommandFacts DEF MutexExact, InCriticalSection, Call, MayCall, Panic, Goto, locals, object
    <3>4. AtMostOneMonitor'
      BY <2>0, <2>21, ProcFacts DEF AtMostOneMonitor, Active, Call, MayCall, Panic, Goto, locals
    <3>5. OffIsIdle'
      BY <2>0, <2>21, ProcFacts DEF OffIsIdle, Call, MayCall, Panic, Goto, locals, life
    <3>6. QED
      BY <3>1, <3>2, <3>3, <3>4, <3>5
  <2>22. ASSUME NEW c \in Clients, CommandDone(c) PROVE ControlInv'
    <3>1. ClientCommands'
      BY <2>0, <2>22, ProcFacts, CommandNames DEF ClientCommands, Commanding, CommandDone, Returning, Unlock, Goto, Epilogue, NextExport, Succeeded, locals
    <3>2. QueueMatchesWaiters'
      <4>1. WaitersStay
        BY <2>0, <2>22, ProcFacts DEF WaitersStay, CommandDone, Returning, Unlock, Goto, Epilogue, NextExport, Succeeded, locals
      <4>2. SameQueue
        BY <2>0, <2>22 DEF SameQueue, CommandDone, Returning, Unlock, Goto, Epilogue, NextExport, Succeeded, object
      <4>3. QED
        BY <4>1, <4>2, QueueFrame
    <3>3. MutexExact'
      <4>1. Epilogue(c) \in {"refresh", "load", "metadata", "lock", "idle"}
        BY DEF Epilogue
      <4>2. InCriticalSection(c)
        BY <2>0, <2>22, ProcFacts DEF CommandDone, Returning, ClientCommands, Commanding, InCriticalSection
      <4>3. mutex' = None /\ pc' = [pc EXCEPT ![c] = Epilogue(c)]
        BY <2>0, <2>22 DEF CommandDone, Unlock, Goto
      <4>4. pc'[c] = Epilogue(c) /\ \A q \in Procs \ {c} : pc'[q] = pc[q] /\ cmd'[q] = cmd[q]
        BY <2>0, <2>22, <4>3, ProcFacts DEF CommandDone
      <4>5. ~InCriticalSection(c)' /\ \A q \in Procs \ {c} : InCriticalSection(q)' => InCriticalSection(q)
        BY <4>1, <4>4 DEF InCriticalSection
      <4>6. QED
        BY <4>2, <4>3, <4>5, MutexRelease, ProcFacts
    <3>4. AtMostOneMonitor'
      BY <2>0, <2>22, ProcFacts DEF AtMostOneMonitor, Active, CommandDone, Returning, Unlock, Goto, Epilogue, NextExport, Succeeded, locals
    <3>5. OffIsIdle'
      BY <2>0, <2>22, ProcFacts DEF OffIsIdle, CommandDone, Returning, Unlock, Goto, Epilogue, NextExport, Succeeded, locals, life
    <3>6. QED
      BY <3>1, <3>2, <3>3, <3>4, <3>5
  <2>23. ASSUME NEW c \in Clients, OnAuthorizeInteractions(c) PROVE ControlInv'
    <3>1. ClientCommands'
      BY <2>0, <2>23, ProcFacts, CommandNames DEF ClientCommands, Commanding, OnAuthorizeInteractions, Goto, locals
    <3>2. QueueMatchesWaiters'
      <4>1. WaitersStay
        BY <2>0, <2>23, ProcFacts DEF WaitersStay, OnAuthorizeInteractions, Goto, locals
      <4>2. SameQueue
        BY <2>0, <2>23 DEF SameQueue, OnAuthorizeInteractions, Goto, object
      <4>3. QED
        BY <4>1, <4>2, QueueFrame
    <3>3. MutexExact'
      BY <2>0, <2>23, ProcFacts, CommandNames, CommandFacts DEF MutexExact, InCriticalSection, OnAuthorizeInteractions, Goto, locals, object
    <3>4. AtMostOneMonitor'
      BY <2>0, <2>23, ProcFacts DEF AtMostOneMonitor, Active, OnAuthorizeInteractions, Goto, locals
    <3>5. OffIsIdle'
      BY <2>0, <2>23, ProcFacts DEF OffIsIdle, OnAuthorizeInteractions, Goto, locals, life
    <3>6. QED
      BY <3>1, <3>2, <3>3, <3>4, <3>5
  <2>24. ASSUME NEW c \in Clients, MnemonicLoaded(c) PROVE ControlInv'
    <3>1. ClientCommands'
      BY <2>0, <2>24, ProcFacts, CommandNames DEF ClientCommands, Commanding, MnemonicLoaded, Panic, Goto, locals
    <3>2. QueueMatchesWaiters'
      <4>1. WaitersStay
        BY <2>0, <2>24, ProcFacts DEF WaitersStay, MnemonicLoaded, Panic, Goto, locals
      <4>2. SameQueue
        BY <2>0, <2>24 DEF SameQueue, MnemonicLoaded, Panic, Goto, object
      <4>3. QED
        BY <4>1, <4>2, QueueFrame
    <3>3. MutexExact'
      BY <2>0, <2>24, ProcFacts, CommandNames, CommandFacts DEF MutexExact, InCriticalSection, MnemonicLoaded, Panic, Goto, locals, object
    <3>4. AtMostOneMonitor'
      BY <2>0, <2>24, ProcFacts DEF AtMostOneMonitor, Active, MnemonicLoaded, Panic, Goto, locals
    <3>5. OffIsIdle'
      BY <2>0, <2>24, ProcFacts DEF OffIsIdle, MnemonicLoaded, Panic, Goto, locals, life
    <3>6. QED
      BY <3>1, <3>2, <3>3, <3>4, <3>5
  <2>25. ASSUME NEW c \in Clients, CancelContext(c) PROVE ControlInv'
    <3>1. ClientCommands'
      BY <2>0, <2>25, ProcFacts, CommandNames DEF ClientCommands, Commanding, CancelContext, locals
    <3>2. QueueMatchesWaiters'
      <4>1. WaitersStay
        BY <2>0, <2>25, ProcFacts DEF WaitersStay, CancelContext, locals
      <4>2. SameQueue
        BY <2>0, <2>25 DEF SameQueue, CancelContext, object
      <4>3. QED
        BY <4>1, <4>2, QueueFrame
    <3>3. MutexExact'
      BY <2>0, <2>25, ProcFacts, CommandNames, CommandFacts DEF MutexExact, InCriticalSection, CancelContext, locals, object
    <3>4. AtMostOneMonitor'
      BY <2>0, <2>25, ProcFacts DEF AtMostOneMonitor, Active, CancelContext, locals
    <3>5. OffIsIdle'
      BY <2>0, <2>25, ProcFacts DEF OffIsIdle, CancelContext, locals, life
    <3>6. QED
      BY <3>1, <3>2, <3>3, <3>4, <3>5
  <2>26. ASSUME NEW c \in Clients, Shutdown(c) PROVE ControlInv'
    <3>1. ClientCommands'
      BY <2>0, <2>26, ProcFacts, CommandNames DEF ClientCommands, Commanding, Shutdown, Goto, locals
    <3>2. QueueMatchesWaiters'
      <4>1. WaitersStay
        BY <2>0, <2>26, ProcFacts DEF WaitersStay, Shutdown, Goto, locals
      <4>2. SameQueue
        BY <2>0, <2>26 DEF SameQueue, Shutdown, Goto, object
      <4>3. QED
        BY <4>1, <4>2, QueueFrame
    <3>3. MutexExact'
      BY <2>0, <2>26, ProcFacts, CommandNames, CommandFacts DEF MutexExact, InCriticalSection, Shutdown, Goto, locals, object
    <3>4. AtMostOneMonitor'
      BY <2>0, <2>26, ProcFacts DEF AtMostOneMonitor, Active, Shutdown, Goto, locals
    <3>5. OffIsIdle'
      BY <2>0, <2>26, ProcFacts DEF OffIsIdle, Shutdown, Goto, locals, life
    <3>6. QED
      BY <3>1, <3>2, <3>3, <3>4, <3>5
  <2>27. ASSUME NEW p \in Procs, Lock(p) PROVE ControlInv'
    <3>1. ClientCommands'
      BY <2>0, <2>27, ProcFacts, CommandNames DEF ClientCommands, Commanding, Lock, Panic, Goto, locals
    <3>2. QueueMatchesWaiters'
      <4>1. CASE conn = None
        BY <2>0, <2>27, <4>1, QueueFrame DEF Lock, Panic, object, locals, WaitersStay, SameQueue
      <4>2. CASE conn # None
        <5>1. /\ pc' = [pc EXCEPT ![p] = "wait"] /\ UNCHANGED cmd
              /\ txq' = Append(txq, Request(p, cmd[p])) /\ pc[p] = "lock"
          BY <2>0, <2>27, <4>2 DEF Lock, Goto
        <5>2. cmd[p] \in Command /\ cmd' = [cmd EXCEPT ![p] = cmd[p]]
          BY <2>0, <5>1, CommandNames DEF LockedWhenLocking
        <5>3. QED
          BY <5>1, <5>2, QueueAppend
      <4>3. QED
        BY <4>1, <4>2
    <3>3. MutexExact'
      <4>1. CASE conn = None
        BY <2>0, <2>27, <4>1 DEF Lock, Panic, object, locals, MutexExact, InCriticalSection
      <4>2. CASE conn # None
        <5>1. /\ pc' = [pc EXCEPT ![p] = "wait"] /\ UNCHANGED cmd
              /\ mutex = None /\ mutex' = p /\ pc[p] = "lock"
          BY <2>0, <2>27, <4>2 DEF Lock, Goto
        <5>2. cmd[p] \in LockedCommand
          BY <5>1, <2>0 DEF LockedWhenLocking
        <5>3. \A q \in Procs : ~InCriticalSection(q)
          BY <5>1, ProcFacts DEF MutexExact
        <5>4. \A q \in Procs \ {p} : pc'[q] = pc[q]
          BY <2>0, <5>1
        <5>5. pc'[p] = "wait"
          BY <2>0, <5>1
        <5>6. QED
          BY <5>1, <5>2, <5>3, <5>4, <5>5 DEF MutexExact, InCriticalSection
      <4>3. QED
        BY <4>1, <4>2
    <3>4. AtMostOneMonitor'
      BY <2>0, <2>27, ProcFacts DEF AtMostOneMonitor, Active, Lock, Panic, Goto, locals
    <3>5. OffIsIdle'
      BY <2>0, <2>27, ProcFacts DEF OffIsIdle, Lock, Panic, Goto, locals, life
    <3>6. QED
      BY <3>1, <3>2, <3>3, <3>4, <3>5
  <2>28. ASSUME NEW p \in Procs, TransmitDone(p) PROVE ControlInv'
    <3>1. ClientCommands'
      BY <2>0, <2>28, ProcFacts, CommandNames DEF ClientCommands, Commanding, TransmitDone, Goto, locals
    <3>2. QueueMatchesWaiters'
      <4>1. /\ pc[p] = "wait" /\ pc' = [pc EXCEPT ![p] = "got"] /\ UNCHANGED cmd
            /\ txq' = [i \in DOMAIN txq |-> IF txq[i].proc = p THEN [txq[i] EXCEPT !.proc = None]
                                           ELSE txq[i]]
        BY <2>0, <2>28 DEF TransmitDone, Goto
      <4>2. \A i \in DOMAIN txq : txq[i] \in Requests
        BY <2>0
      <4>3. /\ DOMAIN txq' = DOMAIN txq
            /\ \A i \in DOMAIN txq :
                 (txq[i].proc # p /\ txq'[i] = txq[i]) \/ txq'[i].proc = None
        BY <4>1, <4>2 DEF Requests
      <4>4. \A q \in Procs : q # p => pc'[q] = pc[q]
        BY <2>0, <4>1
      <4>5. \A i \in DOMAIN txq : txq[i].proc \in Procs \cup {None}
        BY <4>2 DEF Requests
      <4>6. QED
        BY <4>1, <4>3, <4>4, <4>5 DEF QueueMatchesWaiters
    <3>3. MutexExact'
      BY <2>0, <2>28, ProcFacts, CommandNames, CommandFacts DEF MutexExact, InCriticalSection, TransmitDone, Goto, locals, object
    <3>4. AtMostOneMonitor'
      BY <2>0, <2>28, ProcFacts DEF AtMostOneMonitor, Active, TransmitDone, Goto, locals
    <3>5. OffIsIdle'
      BY <2>0, <2>28, ProcFacts DEF OffIsIdle, TransmitDone, Goto, locals, life
    <3>6. QED
      BY <3>1, <3>2, <3>3, <3>4, <3>5
  <2>29. ASSUME NEW p \in Procs, RefreshStatus(p) PROVE ControlInv'
    <3>1. ClientCommands'
      BY <2>0, <2>29, ProcFacts, CommandNames DEF ClientCommands, Commanding, RefreshStatus, Goto, Watch, HandOver, locals
    <3>2. QueueMatchesWaiters'
      <4>1. WaitersStay
        BY <2>0, <2>29, ProcFacts DEF WaitersStay, RefreshStatus, Goto, Watch, HandOver, locals
      <4>2. SameQueue
        BY <2>0, <2>29 DEF SameQueue, RefreshStatus, Goto, Watch, HandOver, object
      <4>3. QED
        BY <4>1, <4>2, QueueFrame
    <3>3. MutexExact'
      BY <2>0, <2>29, ProcFacts, CommandNames, CommandFacts DEF MutexExact, InCriticalSection, RefreshStatus, Goto, Watch, HandOver, locals, object
    <3>4. AtMostOneMonitor'
      BY <2>0, <2>29, ProcFacts DEF AtMostOneMonitor, Active, RefreshStatus, Goto, Watch, HandOver, locals
    <3>5. OffIsIdle'
      BY <2>0, <2>29, ProcFacts DEF OffIsIdle, RefreshStatus, Goto, Watch, HandOver, locals, life
    <3>6. QED
      BY <3>1, <3>2, <3>3, <3>4, <3>5
  <2>30. ASSUME NEW p \in Procs, StatusRefreshed(p) PROVE ControlInv'
    <3>1. ClientCommands'
      BY <2>0, <2>30, ProcFacts, CommandNames DEF ClientCommands, Commanding, StatusRefreshed, Unlock, Goto, Watch, HandOver, locals
    <3>2. QueueMatchesWaiters'
      <4>1. WaitersStay
        BY <2>0, <2>30, ProcFacts DEF WaitersStay, StatusRefreshed, Unlock, Goto, Watch, HandOver, locals
      <4>2. SameQueue
        BY <2>0, <2>30 DEF SameQueue, StatusRefreshed, Unlock, Goto, Watch, HandOver, object
      <4>3. QED
        BY <4>1, <4>2, QueueFrame
    <3>3. MutexExact'
      BY <2>0, <2>30, ProcFacts, CommandNames, CommandFacts DEF MutexExact, InCriticalSection, StatusRefreshed, Unlock, Goto, Watch, HandOver, locals, object
    <3>4. AtMostOneMonitor'
      BY <2>0, <2>30, ProcFacts DEF AtMostOneMonitor, Active, StatusRefreshed, Unlock, Goto, Watch, HandOver, locals
    <3>5. OffIsIdle'
      BY <2>0, <2>30, ProcFacts DEF OffIsIdle, StatusRefreshed, Unlock, Goto, Watch, HandOver, locals, life
    <3>6. QED
      BY <3>1, <3>2, <3>3, <3>4, <3>5
  <2>31. ASSUME NEW p \in Procs, RefreshMetadata(p) PROVE ControlInv'
    <3>1. ClientCommands'
      BY <2>0, <2>31, ProcFacts, CommandNames DEF ClientCommands, Commanding, RefreshMetadata, MetadataDone, Goto, Watch, HandOver, locals
    <3>2. QueueMatchesWaiters'
      <4>1. WaitersStay
        BY <2>0, <2>31, ProcFacts DEF WaitersStay, RefreshMetadata, MetadataDone, Goto, Watch, HandOver, locals
      <4>2. SameQueue
        BY <2>0, <2>31 DEF SameQueue, RefreshMetadata, MetadataDone, Goto, Watch, HandOver, object
      <4>3. QED
        BY <4>1, <4>2, QueueFrame
    <3>3. MutexExact'
      BY <2>0, <2>31, ProcFacts, CommandNames, CommandFacts DEF MutexExact, InCriticalSection, RefreshMetadata, MetadataDone, Goto, Watch, HandOver, locals, object
    <3>4. AtMostOneMonitor'
      BY <2>0, <2>31, ProcFacts DEF AtMostOneMonitor, Active, RefreshMetadata, MetadataDone, Goto, Watch, HandOver, locals
    <3>5. OffIsIdle'
      BY <2>0, <2>31, ProcFacts DEF OffIsIdle, RefreshMetadata, MetadataDone, Goto, Watch, HandOver, locals, life
    <3>6. QED
      BY <3>1, <3>2, <3>3, <3>4, <3>5
  <2>32. ASSUME NEW p \in Procs, MetadataRead(p) PROVE ControlInv'
    <3>1. /\ InCriticalSection(p) /\ Active(p) /\ pc[p] # "wait"
          /\ mutex' = None /\ cmd' = [cmd EXCEPT ![p] = None]
          /\ UNCHANGED <<txq, service>>
      BY <2>0, <2>32, CommandNames DEF MetadataRead, Returning, InCriticalSection, Active, Unlock, life
    <3>2. PICK s, fine : MetadataDone(p, s, fine)
      BY <2>0, <2>32 DEF MetadataRead
    <3>3. /\ AtMostOneMonitor'
          /\ pc'[p] = "idle"
          /\ \A q \in Clients : q # p => pc'[q] = pc[q]
          /\ \A q \in Procs : q # p => pc'[q] = pc[q] \/ (pc[q] = "idle" /\ pc'[q] = "poll")
      BY <3>1, <3>2, MetadataDoneControl DEF Active
    <3>4. \A q \in Procs : q # p => cmd'[q] = cmd[q]
      BY <2>0, <3>1
    <3>5. ClientCommands' /\ OffIsIdle'
      BY <3>1, <3>3, <3>4, ProcFacts DEF ClientCommands, Commanding, OffIsIdle, Active
    <3>6. QueueMatchesWaiters'
      BY <3>1, <3>3, <3>4, QueueFrame DEF WaitersStay, SameQueue
    <3>7. MutexExact'
      BY <3>1, <3>3, <3>4, MutexRelease DEF InCriticalSection
    <3>8. QED
      BY <3>3, <3>5, <3>6, <3>7
  <2>33. ASSUME NEW p \in Procs, DropConnection(p) PROVE ControlInv'
    <3>1. ClientCommands'
      BY <2>0, <2>33, ProcFacts, CommandNames DEF ClientCommands, Commanding, DropConnection, Goto, locals
    <3>2. QueueMatchesWaiters'
      <4>1. WaitersStay
        BY <2>0, <2>33, ProcFacts DEF WaitersStay, DropConnection, Goto, locals
      <4>2. SameQueue
        BY <2>0, <2>33, StaleRequests DEF SameQueue, DropConnection, Goto, object
      <4>3. QED
        BY <4>1, <4>2, QueueFrame
    <3>3. MutexExact'
      <4>1. cmd[p] \in LockedCommand
        BY <2>0, <2>33, CommandFacts DEF DropConnection, NeedsForce
      <4>2. pc[p] = "got" /\ pc' = [pc EXCEPT ![p] = "force"] /\ UNCHANGED <<cmd, mutex>>
        BY <2>0, <2>33 DEF DropConnection, Goto
      <4>3. \A q \in Procs : InCriticalSection(q)' <=> InCriticalSection(q)
        BY <2>0, <4>1, <4>2 DEF InCriticalSection
      <4>4. QED
        BY <4>2, <4>3, MutexFrame
    <3>4. AtMostOneMonitor'
      BY <2>0, <2>33, ProcFacts DEF AtMostOneMonitor, Active, DropConnection, Goto, locals
    <3>5. OffIsIdle'
      BY <2>0, <2>33, ProcFacts DEF OffIsIdle, DropConnection, Goto, locals, life
    <3>6. QED
      BY <3>1, <3>2, <3>3, <3>4, <3>5
  <2>34. ASSUME NEW p \in Procs, ForceScan(p) PROVE ControlInv'
    <3>1. ClientCommands'
      BY <2>0, <2>34, ProcFacts, CommandNames DEF ClientCommands, Commanding, ForceScan, Panic, Goto, locals
    <3>2. QueueMatchesWaiters'
      <4>1. WaitersStay
        BY <2>0, <2>34, ProcFacts DEF WaitersStay, ForceScan, Panic, Goto, locals
      <4>2. SameQueue
        BY <2>0, <2>34 DEF SameQueue, ForceScan, Panic, Goto, object
      <4>3. QED
        BY <4>1, <4>2, QueueFrame
    <3>3. MutexExact'
      BY <2>0, <2>34, ProcFacts, CommandNames, CommandFacts DEF MutexExact, InCriticalSection, ForceScan, Panic, Goto, locals, object
    <3>4. AtMostOneMonitor'
      BY <2>0, <2>34, ProcFacts DEF AtMostOneMonitor, Active, ForceScan, Panic, Goto, locals
    <3>5. OffIsIdle'
      BY <2>0, <2>34, ProcFacts DEF OffIsIdle, ForceScan, Panic, Goto, locals, life
    <3>6. QED
      BY <3>1, <3>2, <3>3, <3>4, <3>5
  <2>35. ASSUME NEW p \in Procs, SendOnClosed(p) PROVE ControlInv'
    <3>1. ClientCommands'
      BY <2>0, <2>35, ProcFacts, CommandNames DEF ClientCommands, Commanding, SendOnClosed, Panic, locals
    <3>2. QueueMatchesWaiters'
      <4>1. WaitersStay
        BY <2>0, <2>35, ProcFacts DEF WaitersStay, SendOnClosed, Panic, locals
      <4>2. SameQueue
        BY <2>0, <2>35 DEF SameQueue, SendOnClosed, Panic, object
      <4>3. QED
        BY <4>1, <4>2, QueueFrame
    <3>3. MutexExact'
      BY <2>0, <2>35, ProcFacts, CommandNames, CommandFacts DEF MutexExact, InCriticalSection, SendOnClosed, Panic, locals, object
    <3>4. AtMostOneMonitor'
      BY <2>0, <2>35, ProcFacts DEF AtMostOneMonitor, Active, SendOnClosed, Panic, locals
    <3>5. OffIsIdle'
      BY <2>0, <2>35, ProcFacts DEF OffIsIdle, SendOnClosed, Panic, locals, life
    <3>6. QED
      BY <3>1, <3>2, <3>3, <3>4, <3>5
  <2>36. CASE UNCHANGED vars
    BY <2>36 DEF vars, world, object, life, locals, ClientCommands, QueueMatchesWaiters, MutexExact,
       InCriticalSection, AtMostOneMonitor, Active, OffIsIdle
  <2>37. QED
    BY <2>1, <2>2, <2>3, <2>4, <2>5, <2>6, <2>7, <2>8, <2>9, <2>10, <2>11, <2>12, <2>13, <2>14, <2>15, <2>16, <2>17, <2>18, <2>19, <2>20, <2>21, <2>22, <2>23, <2>24, <2>25, <2>26, <2>27, <2>28, <2>29, <2>30, <2>31, <2>32, <2>33, <2>34, <2>35, <2>36
    DEF Next, Monitor, Caller, Either, Client
<1>3. QED
  BY <1>1, <1>2, Typing, PTL DEF Spec

\* No two goroutines ever detect or watch at the same time
\* (keycard_context_v2.go 166-187, 295-337: each hands over to one successor).
THEOREM OneMonitor == Spec => []AtMostOneMonitor
<1>1. ControlInv => AtMostOneMonitor
  BY DEF ControlInv
<1>2. QED
  BY <1>1, Control, PTL

\* cmdSetMutex is held by exactly the goroutine that is inside a locked
\* command, on every path (the Lock / defer Unlock pairs of
\* keycard_context_v2.go).
THEOREM LockDiscipline == Spec => []MutexExact
<1>1. ControlInv => MutexExact
  BY DEF ControlInv
<1>2. QED
  BY <1>1, Control, PTL

\* A queued request is waited for by its maker, at that command and only once
\* (keycard_context_v2.go 70-83, 134-164).
THEOREM Delivery == Spec => []QueueMatchesWaiters
<1>1. ControlInv => QueueMatchesWaiters
  BY DEF ControlInv
<1>2. QED
  BY <1>1, Control, PTL
=============================================================================
