-------------------------- MODULE SignalServer_proofs --------------------------
(***************************************************************************)
(* Theorems about SignalServer, for any number of publishers, connections, *)
(* changes and troubles, and for a Stop at any moment.                     *)
(***************************************************************************)
EXTENDS SignalServer, FiniteSetTheorems, SequenceTheorems, TLAPS

-----------------------------------------------------------------------------
\* Types.  That the number of signals is bounded takes counting: each one, and
\* each publisher that has yet to send its own, stands for a change.

Publisher == [pc : {"idle", "changed", "lock", "loop"}, data : 0..MaxChanges,
              todo : SUBSET Connections, on : Connections \cup {None}]

Pending == {p \in Publishers : pub[p].pc \in {"changed", "lock"}}
EachSentOnce == IsFiniteSet(Pending) /\ Cardinality(Pending) + Len(sent) = status

PublisherFits(p) ==
    /\ pub[p].pc # "idle" => status >= 1
    /\ pub[p].pc \in {"lock", "loop"} => pub[p].data >= 1
    /\ pub[p].pc # "loop" => pub[p].on = None /\ pub[p].todo = {}

TypeInv ==
    /\ TypeOK
    /\ EachSentOnce
    /\ \A p \in Publishers : PublisherFits(p)

\* The bounds, and the publishers' records as the actions change them.
LEMMA Bounds ==
    /\ MaxChanges \in Nat /\ MaxTroubles \in Nat
    /\ None \notin Publishers /\ None \notin Connections
BY SignalServerAssumption

\* The records of a publisher, changed as the actions change them.
LEMMA PublisherRecords ==
    /\ Idle \in Publisher
    /\ \A x \in Publisher :
         /\ [x EXCEPT !.pc = "changed"] \in Publisher
         /\ \A d \in 0..MaxChanges : [x EXCEPT !.pc = "lock", !.data = d] \in Publisher
         /\ \A T \in SUBSET Connections : [x EXCEPT !.pc = "loop", !.todo = T] \in Publisher
         /\ \A c \in Connections : [x EXCEPT !.on = c, !.todo = @ \ {c}] \in Publisher
         /\ [x EXCEPT !.on = None] \in Publisher
<1>1. Idle \in Publisher
  BY Bounds DEF Publisher, Idle
<1>2. ASSUME NEW x \in Publisher
      PROVE  /\ [x EXCEPT !.pc = "changed"] \in Publisher
             /\ \A d \in 0..MaxChanges : [x EXCEPT !.pc = "lock", !.data = d] \in Publisher
             /\ \A T \in SUBSET Connections : [x EXCEPT !.pc = "loop", !.todo = T] \in Publisher
             /\ [x EXCEPT !.on = None] \in Publisher
  BY DEF Publisher
<1>3. ASSUME NEW x \in Publisher, NEW c \in Connections
      PROVE  [x EXCEPT !.on = c, !.todo = @ \ {c}] \in Publisher
  BY DEF Publisher
<1>4. QED
  BY <1>1, <1>2, <1>3

\* Nothing of a step of the server or of a peer concerns the publishers.
LEMMA ServerStep ==
    ASSUME \/ Listen \/ BeginStop \/ StopLoopDone \/ Shutdown
           \/ \E c \in Connections : signals(c) \/ StopOne(c) \/ Trouble(c)
    PROVE  UNCHANGED <<connectionsLock, pub, status, sent, got>>
BY DEF Listen, BeginStop, StopLoopDone, Shutdown, signals, StopOne, Trouble, net, log

\* A step changes one publisher.
LEMMA PublisherTyped ==
    ASSUME TypeInv, Next
    PROVE  pub' \in [Publishers -> Publisher]
<1>0. pub \in [Publishers -> Publisher] /\ status \in 0..MaxChanges
      /\ connections \subseteq Connections
  BY DEF TypeInv, TypeOK, Publisher
<1>1. ASSUME NEW p \in Publishers, Change(p) \/ Marshal(p)
      PROVE  \E x \in Publisher : pub' = [pub EXCEPT ![p] = x]
  BY <1>0, <1>1, PublisherRecords DEF Change, Marshal
<1>2. ASSUME NEW p \in Publishers, Enter(p) \/ Leave(p)
      PROVE  \E x \in Publisher : pub' = [pub EXCEPT ![p] = x]
  BY <1>0, <1>2, PublisherRecords DEF Enter, Leave
<1>3. ASSUME NEW p \in Publishers, Accepted(p) \/ Failed(p)
      PROVE  \E x \in Publisher : pub' = [pub EXCEPT ![p] = x]
  BY <1>0, <1>3, PublisherRecords DEF Accepted, Failed
<1>4. ASSUME NEW p \in Publishers, NEW c \in Connections, BeginWrite(p, c)
      PROVE  \E x \in Publisher : pub' = [pub EXCEPT ![p] = x]
  BY <1>0, <1>4, PublisherRecords DEF BeginWrite
<1>5. QED
  BY <1>0, <1>1, <1>2, <1>3, <1>4, ServerStep DEF Next, Publish

\* Each change of the status is on its way or sent, and only once.
LEMMA SentOnce ==
    ASSUME TypeInv, Next
    PROVE  EachSentOnce'
<1>0. /\ pub \in [Publishers -> Publisher] /\ status \in Nat
      /\ sent \in Seq(1..MaxChanges)
      /\ IsFiniteSet(Pending) /\ Cardinality(Pending) + Len(sent) = status
  BY Bounds DEF TypeInv, TypeOK, Publisher, EachSentOnce
<1>1. Cardinality(Pending) \in Nat /\ Len(sent) \in Nat
  BY <1>0, FS_CardinalityType, LenProperties
<1>2. ASSUME UNCHANGED <<sent, status>>, Pending' = Pending
      PROVE  EachSentOnce'
  BY <1>0, <1>2 DEF EachSentOnce
<1>3. ASSUME NEW p \in Publishers, Change(p) PROVE EachSentOnce'
  <2>1. Pending' = Pending \cup {p} /\ p \notin Pending
    BY <1>0, <1>3 DEF Pending, Change, Publisher
  <2>2. IsFiniteSet(Pending') /\ Cardinality(Pending') = Cardinality(Pending) + 1
    BY <1>0, <2>1, FS_AddElement
  <2>3. status' = status + 1 /\ sent' = sent
    BY <1>3 DEF Change, log
  <2>4. QED
    BY <1>0, <1>1, <2>2, <2>3 DEF EachSentOnce
<1>4. ASSUME NEW p \in Publishers, Enter(p) PROVE EachSentOnce'
  <2>1. Pending' = Pending \ {p} /\ p \in Pending
    BY <1>0, <1>4 DEF Pending, Enter, Publisher
  <2>2. IsFiniteSet(Pending') /\ Cardinality(Pending') = Cardinality(Pending) - 1
    BY <1>0, <2>1, FS_RemoveElement
  <2>3. pub[p].data \in 1..MaxChanges
    BY <1>0, <1>4, Bounds DEF TypeInv, PublisherFits, Enter, Publisher
  <2>4. status' = status /\ Len(sent') = Len(sent) + 1
    BY <1>0, <1>4, <2>3 DEF Enter
  <2>5. QED
    BY <1>0, <1>1, <2>2, <2>4 DEF EachSentOnce
<1>5. ASSUME NEW p \in Publishers, Publish(p), ~Enter(p) PROVE EachSentOnce'
  <2>1. UNCHANGED <<sent, status>>
    BY <1>5 DEF Publish, Marshal, Accepted, Failed, Leave, BeginWrite, log
  <2>2. Pending' = Pending
    <3>1. CASE Marshal(p)
      BY <1>0, <3>1 DEF Marshal, Pending, Publisher
    <3>2. CASE Accepted(p) \/ Failed(p)
      <4>1. \A q \in Publishers : pub'[q].pc = pub[q].pc
        BY <1>0, <3>2 DEF Accepted, Failed, Publisher
      <4>2. QED
        BY <4>1 DEF Pending
    <3>3. CASE Leave(p)
      BY <1>0, <3>3 DEF Leave, Pending, Publisher, Idle
    <3>4. CASE \E c \in Connections : BeginWrite(p, c)
      <4>1. \A q \in Publishers : pub'[q].pc = pub[q].pc
        BY <1>0, <3>4 DEF BeginWrite, Publisher
      <4>2. QED
        BY <4>1 DEF Pending
    <3>5. QED
      BY <1>5, <3>1, <3>2, <3>3, <3>4 DEF Publish
  <2>3. QED
    BY <1>2, <2>1, <2>2
<1>6. ASSUME UNCHANGED <<pub, status, sent>> PROVE EachSentOnce'
  BY <1>2, <1>6 DEF Pending
<1>7. QED
  BY <1>3, <1>4, <1>5, <1>6, ServerStep DEF Next

\* A publisher has what its position says.
LEMMA PublishersFit ==
    ASSUME TypeInv, Next, NEW q \in Publishers
    PROVE  PublisherFits(q)'
<1>0. /\ pub \in [Publishers -> Publisher] /\ status \in Nat /\ PublisherFits(q)
  BY Bounds DEF TypeInv, TypeOK, Publisher
<1>1. ASSUME NEW p \in Publishers, Change(p) PROVE PublisherFits(q)'
  BY <1>0, <1>1 DEF Change, PublisherFits, Publisher
<1>2. ASSUME NEW p \in Publishers, Marshal(p) PROVE PublisherFits(q)'
  BY <1>0, <1>2 DEF Marshal, PublisherFits, Publisher
<1>3. ASSUME NEW p \in Publishers, Enter(p) PROVE PublisherFits(q)'
  BY <1>0, <1>3 DEF Enter, PublisherFits, Publisher
<1>4. ASSUME NEW p \in Publishers, Leave(p) PROVE PublisherFits(q)'
  BY <1>0, <1>4 DEF Leave, PublisherFits, Publisher, Idle
<1>5. ASSUME NEW p \in Publishers, Accepted(p) \/ Failed(p) PROVE PublisherFits(q)'
  <2>1. status' = status /\ pub' = [pub EXCEPT ![p].on = None]
    BY <1>5 DEF Accepted, Failed
  <2>2. QED
    BY <1>0, <2>1 DEF PublisherFits, Publisher
<1>6. ASSUME NEW p \in Publishers, NEW c \in Connections, BeginWrite(p, c) PROVE PublisherFits(q)'
  BY <1>0, <1>6 DEF BeginWrite, PublisherFits, Publisher
<1>7. ASSUME UNCHANGED <<pub, status>> PROVE PublisherFits(q)'
  BY <1>0, <1>7 DEF PublisherFits
<1>8. QED
  BY <1>1, <1>2, <1>3, <1>4, <1>5, <1>6, <1>7, ServerStep DEF Next, Publish

\* The parts above, for every action.
LEMMA TypeInvKept == TypeInv /\ [Next]_vars => TypeInv'
<1> SUFFICES ASSUME TypeInv, [Next]_vars PROVE TypeInv'
  OBVIOUS
<1>1. CASE UNCHANGED vars
  BY <1>1 DEF TypeInv, TypeOK, EachSentOnce, Pending, PublisherFits, vars, net, log
<1>2. CASE Next
  <2>0. TypeOK /\ EachSentOnce
    BY DEF TypeInv
  <2>1. pub' \in [Publishers -> Publisher] /\ EachSentOnce' /\ \A p \in Publishers : PublisherFits(p)'
    BY <1>2, PublisherTyped, SentOnce, PublishersFit
  <2>2. ASSUME Listen \/ BeginStop \/ StopLoopDone \/ Shutdown PROVE TypeOK'
    BY <2>0, <2>2 DEF TypeOK, Listen, BeginStop, StopLoopDone, Shutdown, net, log
  <2>3. ASSUME NEW c \in Connections, signals(c) PROVE TypeOK'
    <3>1. Len(sent) \in 0..MaxChanges
      <4>1. Cardinality(Pending) \in Nat /\ Len(sent) \in Nat /\ status \in 0..MaxChanges
        BY <2>0, FS_CardinalityType, LenProperties DEF EachSentOnce, TypeOK
      <4>2. QED
        BY <2>0, <4>1, Bounds DEF EachSentOnce
    <3>2. joined' \in [Connections -> 0..MaxChanges]
      BY <2>0, <2>3, <3>1 DEF TypeOK, signals
    <3>3. /\ conn' \in [Connections -> {"new", "open", "closed"}]
          /\ connections' \subseteq Connections
          /\ \A d \in connections' : conn'[d] = "open"
      BY <2>0, <2>3 DEF TypeOK, signals
    <3>4. QED
      BY <2>0, <2>3, <3>2, <3>3 DEF TypeOK, signals
  <2>4. ASSUME NEW c \in Connections, StopOne(c) PROVE TypeOK'
    BY <2>0, <2>4 DEF TypeOK, StopOne, log
  <2>5. ASSUME NEW c \in Connections, Trouble(c) PROVE TypeOK'
    <3>1. troubles' \in 0..MaxTroubles
      BY <2>0, <2>5, Bounds DEF TypeOK, Trouble
    <3>2. QED
      BY <2>0, <2>5, <3>1 DEF TypeOK, Trouble, log
  <2>6. ASSUME NEW p \in Publishers, Change(p) PROVE TypeOK'
    <3>1. status' \in 0..MaxChanges
      BY <2>0, <2>6, Bounds DEF TypeOK, Change
    <3>2. QED
      BY <2>0, <2>1, <2>6, <3>1 DEF TypeOK, Change, Publisher, net, log
  <2>7. ASSUME NEW p \in Publishers, Enter(p) PROVE TypeOK'
    <3>1. pub[p].data \in 1..MaxChanges
      BY <2>0, <2>7, Bounds DEF TypeInv, TypeOK, PublisherFits, Enter
    <3>2. sent' \in Seq(1..MaxChanges)
      BY <2>0, <2>7, <3>1 DEF TypeOK, Enter
    <3>3. QED
      BY <2>0, <2>1, <2>7, <3>2 DEF TypeOK, Enter, Publisher, net
  <2>8. ASSUME NEW p \in Publishers, Accepted(p) PROVE TypeOK'
    <3>1. pub[p].data \in 1..MaxChanges /\ pub[p].on \in Connections
      BY <2>0, <2>8, Bounds DEF TypeInv, TypeOK, PublisherFits, Accepted
    <3>2. got' \in [Connections -> Seq(1..MaxChanges)]
      BY <2>0, <2>8, <3>1 DEF TypeOK, Accepted
    <3>3. QED
      BY <2>0, <2>1, <2>8, <3>2 DEF TypeOK, Accepted, Publisher, net
  <2>9. ASSUME NEW p \in Publishers, Failed(p) PROVE TypeOK'
    <3>1. pub[p].on \in Connections
      BY <2>0, <2>9 DEF TypeOK, Failed
    <3>2. QED
      BY <2>0, <2>1, <2>9, <3>1 DEF TypeOK, Failed, deleteConnection, Publisher, log
  <2>10. ASSUME NEW p \in Publishers, Marshal(p) \/ Leave(p) \/ \E c \in Connections : BeginWrite(p, c)
         PROVE  TypeOK'
    BY <2>0, <2>1, <2>10 DEF TypeOK, Marshal, Leave, BeginWrite, NoLock, Publisher, net, log
  <2>11. TypeOK'
    BY <1>2, <2>2, <2>3, <2>4, <2>5, <2>6, <2>7, <2>8, <2>9, <2>10 DEF Next, Publish
  <2>12. QED
    BY <2>1, <2>11 DEF TypeInv
<1>3. QED
  BY <1>1, <1>2

\* Nobody publishes at first.
LEMMA TypeInvInitially == Init => TypeInv
<1> SUFFICES ASSUME Init PROVE TypeInv
  OBVIOUS
<1>1. TypeOK
  <2>1. pub \in [Publishers -> Publisher]
    BY PublisherRecords DEF Init
  <2>2. <<>> \in Seq(1..MaxChanges) /\ 0 \in 0..MaxChanges /\ 0 \in 0..MaxTroubles
    BY Bounds, EmptySeq
  <2>3. /\ sent \in Seq(1..MaxChanges) /\ got \in [Connections -> Seq(1..MaxChanges)]
        /\ joined \in [Connections -> 0..MaxChanges]
    BY <2>2 DEF Init
  <2>4. QED
    BY <2>1, <2>2, <2>3 DEF Init, TypeOK, Publisher
<1>2. EachSentOnce
  <2>1. Pending = {} /\ Len(sent) = 0 /\ status = 0
    BY EmptySeq DEF Init, Pending, Idle
  <2>2. QED
    BY <2>1, FS_EmptySet DEF EachSentOnce
<1>3. \A p \in Publishers : PublisherFits(p)
  BY DEF Init, PublisherFits, Idle
<1>4. QED
  BY <1>1, <1>2, <1>3 DEF TypeInv

\* Every variable keeps its type: the map holds open connections only, whoever
\* removes one (server.go:67-79, 126-133), and no more signals are sent than
\* the status has changes (signals.go:31-49).
THEOREM TypeCorrect == Spec => []TypeOK
<1>1. TypeInv => TypeOK
  BY DEF TypeInv
<1>2. QED
  BY <1>1, TypeInvInitially, TypeInvKept, PTL DEF Spec

-----------------------------------------------------------------------------
\* What the connections get.

\* The lock is held by the one publisher that is at the connections; until it
\* lets go of it, its signal is the last one that was sent.
LockFits(p) ==
    /\ pub[p].pc = "loop" <=> connectionsLock = p
    /\ pub[p].pc = "loop" => /\ Len(sent) >= 1 /\ pub[p].data = sent[Len(sent)]
                            /\ pub[p].on \notin pub[p].todo

\* A connection has got the signals that follow its registration.
Follows(c) ==
    /\ joined[c] + Len(got[c]) <= Len(sent)
    /\ \A i \in 1..Len(got[c]) : got[c][i] = sent[joined[c] + i]

Waits(p, c) == pub[p].on = c \/ c \in pub[p].todo

\* An open connection is in the map, and lacks at most the signal that the
\* holder of the lock has yet to write to it.
ConnectionFits(c) ==
    /\ conn[c] = "open" <=> c \in connections
    /\ conn[c] = "new" => got[c] = <<>>
    /\ Follows(c)
    /\ c \in connections =>
         joined[c] + Len(got[c]) =
           IF \E p \in Publishers : Waits(p, c) THEN Len(sent) - 1 ELSE Len(sent)

OrderInv ==
    /\ TypeInv
    /\ \A p \in Publishers : LockFits(p)
    /\ \A c \in Connections : ConnectionFits(c)

\* A publisher inside signalHandler has the lock, and no other.
LEMMA LockKept ==
    ASSUME OrderInv, Next, NEW q \in Publishers
    PROVE  LockFits(q)'
<1>0. /\ pub \in [Publishers -> Publisher] /\ sent \in Seq(1..MaxChanges)
      /\ \A p \in Publishers : LockFits(p) /\ PublisherFits(p)
      /\ None \notin Publishers /\ None \notin Connections /\ connections \subseteq Connections
  BY Bounds DEF OrderInv, TypeInv, TypeOK, Publisher
<1>1. ASSUME NEW p \in Publishers, Change(p) PROVE LockFits(q)'
  BY <1>0, <1>1 DEF Change, LockFits, Publisher, log
<1>2. ASSUME NEW p \in Publishers, Marshal(p) PROVE LockFits(q)'
  BY <1>0, <1>2 DEF Marshal, LockFits, Publisher, log
<1>3. ASSUME NEW p \in Publishers, Enter(p) PROVE LockFits(q)'
  <2>1. pub[p].data \in 1..MaxChanges
    BY <1>0, <1>3, Bounds DEF PublisherFits, Publisher, Enter
  <2>2. Len(sent') = Len(sent) + 1 /\ sent'[Len(sent')] = pub[p].data /\ Len(sent) \in Nat
    BY <1>0, <1>3, <2>1 DEF Enter
  <2>3. CASE q = p
    <3>1. /\ pub'[p].pc = "loop" /\ pub'[p].data = pub[p].data
          /\ pub'[p].on = pub[p].on /\ pub'[p].todo = connections /\ connectionsLock' = p
      BY <1>0, <1>3 DEF Enter, Publisher
    <3>2. pub[p].on = None
      BY <1>0, <1>3 DEF Enter, PublisherFits
    <3>3. QED
      BY <1>0, <2>2, <2>3, <3>1, <3>2 DEF LockFits
  <2>4. CASE q # p
    BY <1>0, <1>3, <2>4 DEF Enter, MayEnter, Unlocked, LockFits, Publisher
  <2>5. QED
    BY <2>3, <2>4
<1>4. ASSUME NEW p \in Publishers, Accepted(p) \/ Failed(p) PROVE LockFits(q)'
  <2>1. UNCHANGED <<sent, connectionsLock>> /\ pub' = [pub EXCEPT ![p].on = None]
    BY <1>4 DEF Accepted, Failed, log
  <2>2. QED
    BY <1>0, <2>1 DEF LockFits, Publisher
<1>5. ASSUME NEW p \in Publishers, NEW c \in Connections, BeginWrite(p, c) PROVE LockFits(q)'
  BY <1>0, <1>5 DEF BeginWrite, LockFits, Publisher, log
<1>6. ASSUME NEW p \in Publishers, Leave(p) PROVE LockFits(q)'
  <2>1. connectionsLock = p /\ connectionsLock' = None /\ sent' = sent
    BY <1>0, <1>6 DEF Leave, NoLock, LockFits, log
  <2>2. pub'[q].pc # "loop"
    BY <1>0, <1>6, <2>1 DEF Leave, Idle, LockFits, Publisher
  <2>3. QED
    BY <1>0, <2>1, <2>2 DEF LockFits
<1>7. ASSUME UNCHANGED <<pub, connectionsLock, sent>> PROVE LockFits(q)'
  BY <1>0, <1>7 DEF LockFits
<1>8. QED
  BY <1>1, <1>2, <1>3, <1>4, <1>5, <1>6, <1>7, ServerStep DEF Next, Publish

\* What a connection has got, and what it is still to get.
LEMMA ConnectionKept ==
    ASSUME OrderInv, Next, NEW c \in Connections
    PROVE  ConnectionFits(c)'
<1> DEFINE Waiting == \E p \in Publishers : Waits(p, c)
<1>0. /\ pub \in [Publishers -> Publisher] /\ sent \in Seq(1..MaxChanges)
      /\ got \in [Connections -> Seq(1..MaxChanges)] /\ joined \in [Connections -> Nat]
      /\ conn \in [Connections -> {"new", "open", "closed"}]
      /\ \A p \in Publishers : LockFits(p) /\ PublisherFits(p)
      /\ None \notin Publishers /\ None \notin Connections /\ connections \subseteq Connections
      /\ ConnectionFits(c)
  BY Bounds DEF OrderInv, TypeInv, TypeOK, Publisher
<1>1. /\ Len(sent) \in Nat /\ Len(got[c]) \in Nat /\ joined[c] \in Nat
  BY <1>0, LenProperties
\* Only the holder of the lock has something to write.
<1>2. \A p \in Publishers : Waits(p, c) => connectionsLock = p
  BY <1>0 DEF Waits, PublisherFits, LockFits
<1>3. ASSUME UNCHANGED <<connections, sent, joined[c], got[c], conn[c]>>,
             Waiting' <=> Waiting
      PROVE  ConnectionFits(c)'
  BY <1>0, <1>3 DEF ConnectionFits, Follows
\* A connection that was closed and removed lacks what it lacks.
<1>4. ASSUME c \notin connections', conn'[c] = "closed", UNCHANGED <<sent, joined[c], got[c]>>
      PROVE  ConnectionFits(c)'
  BY <1>0, <1>4 DEF ConnectionFits, Follows
<1>5. ASSUME Listen \/ BeginStop \/ StopLoopDone \/ Shutdown \/ (\E d \in Connections : Trouble(d))
      PROVE  ConnectionFits(c)'
  <2>1. UNCHANGED <<connections, sent, joined, got, conn, pub>>
    BY <1>5 DEF Listen, BeginStop, StopLoopDone, Shutdown, Trouble, net, log
  <2>2. QED
    BY <1>3, <2>1 DEF Waits
<1>6. ASSUME NEW d \in Connections, signals(d) PROVE ConnectionFits(c)'
  <2>1. ~Waiting /\ ~Waiting'
    BY <1>0, <1>2, <1>6 DEF signals, Unlocked, Waits
  <2>2. CASE d # c
    <3>1. /\ conn'[c] = conn[c] /\ (c \in connections' <=> c \in connections)
          /\ UNCHANGED <<sent, joined[c], got[c]>>
      BY <1>0, <1>6, <2>2 DEF signals
    <3>2. QED
      BY <1>0, <2>1, <3>1 DEF ConnectionFits, Follows
  <2>3. CASE d = c /\ conn'[c] = "open"
    <3>1. got[c] = <<>> /\ got' = got /\ sent' = sent
      BY <1>0, <1>6, <2>3 DEF signals, ConnectionFits
    <3>2. c \in connections' /\ joined'[c] = Len(sent)
      BY <1>0, <1>6, <2>3 DEF signals
    <3>3. Len(<<>>) = 0
      BY EmptySeq
    <3>4. QED
      BY <1>1, <2>1, <2>3, <3>1, <3>2, <3>3 DEF ConnectionFits, Follows
  <2>4. CASE d = c /\ conn'[c] # "open"
    <3>1. /\ conn'[c] = "closed" /\ UNCHANGED <<connections, sent, joined, got>>
          /\ c \notin connections
      BY <1>0, <1>6, <2>4 DEF signals, ConnectionFits
    <3>2. QED
      BY <1>4, <3>1
  <2>5. QED
    BY <2>2, <2>3, <2>4
<1>7. ASSUME NEW d \in Connections, StopOne(d) PROVE ConnectionFits(c)'
  <2>1. UNCHANGED <<sent, joined, got, pub>>
    BY <1>7 DEF StopOne, log
  <2>2. CASE d = c
    BY <1>0, <1>4, <1>7, <2>1, <2>2 DEF StopOne
  <2>3. CASE d # c
    <3>1. conn'[c] = conn[c] /\ (c \in connections' <=> c \in connections)
      BY <1>0, <1>7, <2>3 DEF StopOne
    <3>2. QED
      BY <1>0, <2>1, <3>1 DEF ConnectionFits, Follows, Waits
  <2>4. QED
    BY <2>2, <2>3
<1>8. ASSUME NEW p \in Publishers, Change(p) \/ Marshal(p) PROVE ConnectionFits(c)'
  <2>1. UNCHANGED <<connections, sent, joined, got, conn>>
    BY <1>8 DEF Change, Marshal, net, log
  <2>2. \A q \in Publishers : pub'[q].on = pub[q].on /\ pub'[q].todo = pub[q].todo
    <3>1. CASE Change(p)
      BY <1>0, <3>1 DEF Change, Publisher
    <3>2. CASE Marshal(p)
      BY <1>0, <3>2 DEF Marshal, Publisher
    <3>3. QED
      BY <1>8, <3>1, <3>2
  <2>3. QED
    BY <1>3, <2>1, <2>2 DEF Waits
<1>9. ASSUME NEW p \in Publishers, Enter(p) PROVE ConnectionFits(c)'
  <2>1. ~Waiting
    BY <1>0, <1>2, <1>9 DEF Enter, MayEnter, Unlocked
  <2>2. /\ UNCHANGED <<connections, joined, got, conn>>
        /\ pub'[p].todo = connections
    BY <1>0, <1>9 DEF Enter, net, Publisher
  <2>3. pub[p].data \in 1..MaxChanges
    BY <1>0, <1>9, Bounds DEF PublisherFits, Publisher, Enter
  <2>4. Len(sent') = Len(sent) + 1 /\ \A i \in 1..Len(sent) : sent'[i] = sent[i]
    BY <1>0, <1>9, <2>3 DEF Enter
  <2>5. Follows(c)'
    <3>1. Follows(c)
      BY <1>0 DEF ConnectionFits
    <3>2. \A i \in 1..Len(got[c]) : joined[c] + i \in 1..Len(sent)
      BY <1>1, <3>1 DEF Follows
    <3>3. joined'[c] + Len(got'[c]) <= Len(sent')
      BY <1>1, <2>2, <2>4, <3>1 DEF Follows
    <3>4. \A i \in 1..Len(got'[c]) : got'[c][i] = sent'[joined'[c] + i]
      BY <2>2, <2>4, <3>1, <3>2 DEF Follows
    <3>5. QED
      BY <3>3, <3>4 DEF Follows
  <2>6. c \in connections => joined[c] + Len(got[c]) = Len(sent)
    BY <1>0, <2>1 DEF ConnectionFits
  <2>7. c \in connections => Waiting'
    BY <2>2 DEF Waits
  <2>8. QED
    BY <1>0, <1>1, <2>2, <2>4, <2>5, <2>6, <2>7 DEF ConnectionFits
<1>10. ASSUME NEW p \in Publishers, NEW d \in Connections, BeginWrite(p, d)
       PROVE  ConnectionFits(c)'
  <2>1. UNCHANGED <<connections, sent, joined, got, conn>>
    BY <1>10 DEF BeginWrite, net, log
  <2>2. \A q \in Publishers : Waits(q, c)' <=> Waits(q, c)
    BY <1>0, <1>10 DEF BeginWrite, Waits, Publisher
  <2>3. QED
    BY <1>3, <2>1, <2>2
<1>11. ASSUME NEW p \in Publishers, Accepted(p) PROVE ConnectionFits(c)'
  <2>1. /\ UNCHANGED <<connections, sent, joined, conn>>
        /\ pub[p].on \in Connections /\ conn[pub[p].on] = "open"
        /\ got' = [got EXCEPT ![pub[p].on] = Append(@, pub[p].data)]
        /\ pub' = [pub EXCEPT ![p].on = None]
    BY <1>0, <1>11 DEF Accepted, net, Publisher
  <2>2. /\ connectionsLock = p /\ pub[p].data = sent[Len(sent)] /\ Len(sent) >= 1
        /\ pub[p].on \notin pub[p].todo /\ pub[p].data \in 1..MaxChanges
    BY <1>0, <2>1, Bounds DEF LockFits, PublisherFits, Publisher
  <2>3. CASE pub[p].on = c
    <3>1. Waiting /\ c \in connections
      BY <1>0, <2>1, <2>3 DEF Waits, ConnectionFits
    <3>2. joined[c] + Len(got[c]) = Len(sent) - 1
      BY <1>0, <3>1 DEF ConnectionFits
    <3>3. /\ Len(got'[c]) = Len(got[c]) + 1 /\ got'[c][Len(got'[c])] = sent[Len(sent)]
          /\ \A i \in 1..Len(got[c]) : got'[c][i] = got[c][i]
      BY <1>0, <2>1, <2>2, <2>3
    <3>4. Follows(c)'
      <4>1. \A i \in 1..Len(got[c]) : got[c][i] = sent[joined[c] + i]
        BY <1>0 DEF ConnectionFits, Follows
      <4>2. \A i \in 1..Len(got'[c]) : i \in 1..Len(got[c]) \/ i = Len(got'[c])
        BY <1>1, <3>3
      <4>3. joined[c] + Len(got'[c]) = Len(sent)
        BY <1>1, <3>2, <3>3
      <4>4. ASSUME NEW i \in 1..Len(got'[c]) PROVE got'[c][i] = sent'[joined'[c] + i]
        <5>1. CASE i \in 1..Len(got[c])
          BY <2>1, <3>3, <4>1, <5>1
        <5>2. CASE i = Len(got'[c])
          BY <2>1, <3>3, <4>3, <5>2
        <5>3. QED
          BY <4>2, <5>1, <5>2
      <4>5. joined'[c] + Len(got'[c]) <= Len(sent')
        BY <1>1, <2>1, <4>3
      <4>6. QED
        BY <4>4, <4>5 DEF Follows
    <3>5. ~Waiting'
      <4>1. ASSUME NEW q \in Publishers PROVE ~Waits(q, c)'
        <5>1. CASE q = p
          BY <1>0, <2>1, <2>2, <2>3, <5>1 DEF Waits, Publisher
        <5>2. CASE q # p
          BY <1>0, <1>2, <2>1, <2>2, <5>2 DEF Waits
        <5>3. QED
          BY <5>1, <5>2
      <4>2. QED
        BY <4>1
    <3>6. QED
      BY <1>0, <1>1, <2>1, <2>3, <3>1, <3>2, <3>3, <3>4, <3>5 DEF ConnectionFits
  <2>4. CASE pub[p].on # c
    <3>1. got'[c] = got[c]
      BY <1>0, <2>1, <2>4
    <3>2. \A q \in Publishers : Waits(q, c)' <=> Waits(q, c)
      BY <1>0, <2>1, <2>4 DEF Waits, Publisher
    <3>3. QED
      BY <1>3, <2>1, <3>1, <3>2
  <2>5. QED
    BY <2>3, <2>4
<1>12. ASSUME NEW p \in Publishers, Failed(p) PROVE ConnectionFits(c)'
  <2>1. /\ UNCHANGED <<sent, joined, got>> /\ pub[p].on \in Connections
        /\ conn' = [conn EXCEPT ![pub[p].on] = "closed"]
        /\ connections' = connections \ {pub[p].on}
        /\ pub' = [pub EXCEPT ![p].on = None]
    BY <1>0, <1>12 DEF Failed, deleteConnection, log, Publisher
  <2>2. CASE pub[p].on = c
    BY <1>0, <1>4, <2>1, <2>2
  <2>3. CASE pub[p].on # c
    <3>1. conn'[c] = conn[c] /\ (c \in connections' <=> c \in connections)
      BY <1>0, <2>1, <2>3
    <3>2. \A q \in Publishers : Waits(q, c)' <=> Waits(q, c)
      BY <1>0, <2>1, <2>3 DEF Waits, Publisher
    <3>3. QED
      BY <1>0, <2>1, <3>1, <3>2 DEF ConnectionFits, Follows
  <2>4. QED
    BY <2>2, <2>3
<1>13. ASSUME NEW p \in Publishers, Leave(p) PROVE ConnectionFits(c)'
  <2>1. UNCHANGED <<connections, sent, joined, got, conn>> /\ pub' = [pub EXCEPT ![p] = Idle]
    BY <1>13 DEF Leave, net, log
  <2>2. connectionsLock = p
    BY <1>0, <1>13 DEF Leave, LockFits
  <2>3. ~Waiting'
    <3>1. ASSUME NEW q \in Publishers PROVE ~Waits(q, c)'
      <4>1. CASE q = p
        BY <1>0, <2>1, <4>1 DEF Waits, Idle
      <4>2. CASE q # p
        BY <1>0, <1>2, <2>1, <2>2, <4>2 DEF Waits
      <4>3. QED
        BY <4>1, <4>2
    <3>2. QED
      BY <3>1
  <2>4. c \in connections => ~Waiting
    <3>1. ~Waits(p, c) \/ c \notin connections
      BY <1>0, <1>13 DEF Leave, Waits
    <3>2. QED
      BY <1>2, <2>2, <3>1
  <2>5. QED
    BY <1>0, <2>1, <2>3, <2>4 DEF ConnectionFits, Follows
<1>14. QED
  BY <1>5, <1>6, <1>7, <1>8, <1>9, <1>10, <1>11, <1>12, <1>13 DEF Next, Publish

\* The parts above.
LEMMA OrderInvKept == OrderInv /\ [Next]_vars => OrderInv'
<1> SUFFICES ASSUME OrderInv, [Next]_vars PROVE OrderInv'
  OBVIOUS
<1>1. TypeInv'
  BY TypeInvKept DEF OrderInv
<1>2. CASE Next
  BY <1>1, <1>2, LockKept, ConnectionKept DEF OrderInv
<1>3. CASE UNCHANGED vars
  <2>1. UNCHANGED <<connections, connectionsLock, conn, pub, sent, joined, got>>
    BY <1>3 DEF vars, net, log
  <2>2. \A p \in Publishers : LockFits(p)'
    BY <2>1 DEF OrderInv, LockFits
  <2>3. \A c \in Connections : ConnectionFits(c)'
    BY <2>1 DEF OrderInv, ConnectionFits, Follows, Waits
  <2>4. QED
    BY <1>1, <2>2, <2>3 DEF OrderInv
<1>4. QED
  BY <1>2, <1>3

\* Nothing is sent at first.
LEMMA OrderInvInitially == Init => OrderInv
<1> SUFFICES ASSUME Init PROVE OrderInv
  OBVIOUS
<1>1. \A p \in Publishers : LockFits(p)
  BY Bounds DEF Init, LockFits, Idle
<1>2. ASSUME NEW c \in Connections PROVE ConnectionFits(c)
  <2>1. Len(<<>>) = 0
    BY EmptySeq
  <2>2. \A p \in Publishers : ~Waits(p, c)
    BY Bounds DEF Init, Waits, Idle
  <2>3. QED
    BY <2>1, <2>2 DEF Init, ConnectionFits, Follows
<1>3. QED
  BY <1>1, <1>2, TypeInvInitially DEF OrderInv

\* A sequence that agrees with another one from a place on is a part of it.
LEMMA PartOf ==
    ASSUME NEW S, NEW s \in Seq(S), NEW t \in Seq(S), NEW j \in Nat,
           j + Len(t) <= Len(s), \A i \in 1..Len(t) : t[i] = s[j + i]
    PROVE  t = SubSeq(s, j + 1, j + Len(t))
<1>1. Len(s) \in Nat /\ Len(t) \in Nat /\ j + 1 \in Int /\ j + Len(t) \in Int
  BY LenProperties
<1>2. \A i \in (j + 1)..(j + Len(t)) : s[i] \in S
  <2>1. \A i \in (j + 1)..(j + Len(t)) : i \in 1..Len(s)
    BY <1>1
  <2>2. QED
    BY <2>1, ElementOfSeq
<1> DEFINE u == SubSeq(s, j + 1, j + Len(t))
<1>3. /\ u \in Seq(S)
      /\ Len(u) = IF j + 1 <= j + Len(t) THEN j + Len(t) - (j + 1) + 1 ELSE 0
      /\ \A i \in 1..(j + Len(t) - (j + 1) + 1) : u[i] = s[j + 1 + i - 1]
  BY <1>1, <1>2, SubSeqProperties
<1> HIDE DEF u
<1>4. j + Len(t) - (j + 1) + 1 = Len(t)
  BY <1>1
<1>5. Len(u) = Len(t)
  BY <1>1, <1>3
<1>6. ASSUME NEW i \in 1..Len(t) PROVE t[i] = u[i]
  <2>1. j + 1 + i - 1 = j + i
    BY <1>1
  <2>2. QED
    BY <1>3, <1>4, <2>1
<1>7. t = u
  BY <1>3, <1>5, <1>6, SeqEqual
<1>8. QED
  BY <1>7 DEF u

\* Connections get every signal from their registration on, in the one order
\* in which they were sent, and never from two goroutines at once, or they are
\* dropped: it is enough that signalHandler and the handler of /signals take
\* connectionsLock (server.go:55-79, 144-162), though Stop, which closes the
\* connections of the same map, does not (server.go:126-133).
THEOREM SignalsInOrder == Spec => []NoGaps
<1>1. OrderInv => NoGaps
  <2> SUFFICES ASSUME OrderInv, NEW c \in Connections
               PROVE  LET upTo == joined[c] + Len(got[c]) IN
                      /\ Cardinality(Writing(c)) <= 1
                      /\ upTo <= Len(sent) /\ got[c] = SubSeq(sent, joined[c] + 1, upTo)
                      /\ c \in connections /\ ~Awaited(c) => upTo = Len(sent)
    BY DEF NoGaps
  <2>0. /\ sent \in Seq(1..MaxChanges) /\ got[c] \in Seq(1..MaxChanges) /\ joined[c] \in Nat
        /\ \A p \in Publishers : LockFits(p) /\ PublisherFits(p)
        /\ ConnectionFits(c)
    BY Bounds DEF OrderInv, TypeInv, TypeOK
  <2>1. Cardinality(Writing(c)) <= 1
    <3>1. \A p \in Writing(c) : connectionsLock = p
      BY <2>0, Bounds DEF Writing, PublisherFits, LockFits
    <3>2. CASE Writing(c) = {}
      BY <3>2, FS_EmptySet
    <3>3. CASE Writing(c) # {}
      <4>1. Writing(c) = {connectionsLock}
        BY <3>1, <3>3
      <4>2. Cardinality(Writing(c)) = 1
        BY <4>1, FS_Singleton
      <4>3. QED
        BY <4>2
    <3>4. QED
      BY <3>2, <3>3
  <2>2. Follows(c)
    BY <2>0 DEF ConnectionFits
  <2>3. got[c] = SubSeq(sent, joined[c] + 1, joined[c] + Len(got[c]))
    BY <2>0, <2>2, PartOf DEF Follows
  <2>4. c \in connections /\ ~Awaited(c) => joined[c] + Len(got[c]) = Len(sent)
    <3>1. ~Awaited(c) => \A p \in Publishers : ~Waits(p, c)
      BY <2>0 DEF Awaited, Waits, PublisherFits
    <3>2. QED
      BY <2>0, <3>1 DEF ConnectionFits
  <2>5. QED
    BY <2>1, <2>2, <2>3, <2>4 DEF Follows
<1>2. QED
  BY <1>1, OrderInvInitially, OrderInvKept, PTL DEF Spec

=============================================================================
