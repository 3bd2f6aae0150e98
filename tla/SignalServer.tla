----------------------------- MODULE SignalServer -----------------------------
(***************************************************************************)
(* From a change of the status to the clients that hear of it: Send        *)
(* (signal/), and the session server that hands every signal to its        *)
(* websocket connections (cmd/status-keycard-server/server).               *)
(*                                                                         *)
(* A publisher is the goroutine of a monitor or of an RPC.  It changes the *)
(* status, which the publishers share, and then calls Send: the status is  *)
(* marshalled as it is at that moment, and the handler writes it to one    *)
(* connection after the other under connectionsLock.  A peer reads, hangs  *)
(* (its buffers are full, and a write waits for it), or is gone.           *)
(*                                                                         *)
(* A connection is made once; a client that comes back makes another.      *)
(* Bounds: MaxChanges of the status, MaxTroubles of the peers; one Stop.   *)
(***************************************************************************)
EXTENDS Naturals, Sequences, FiniteSets

CONSTANTS
    Publishers, Connections, None,
    Quiet,       \* Stop is called when nothing is being published
    MaxChanges, MaxTroubles

ASSUME SignalServerAssumption ==
    /\ None \notin Publishers \cup Connections
    /\ Quiet \in BOOLEAN
    /\ {MaxChanges, MaxTroubles} \subseteq Nat

VARIABLES
    server,           \* s.server is nil, set, or its listener listens
    connections, connectionsLock,
    conn,             \* the network's view of each connection
    peer,             \* what the other end does
    pub,              \* the publishers: where each is, and its signal
    stopping,         \* how far Stop is
    status,           \* the number of changes of the status so far
    sent,             \* the signals in the order the handler took them
    joined, got,      \* per connection: what was sent before it, and what it got
    troubles

Idle == [pc |-> "idle", data |-> 0, todo |-> {}, on |-> None]

net  == <<conn, peer>>
log  == <<sent, joined, got>>
vars == <<server, connections, connectionsLock, net, pub, stopping, status, log, troubles>>

TypeOK ==
    /\ server \in {"nil", "set", "listening"}
    /\ connections \subseteq Connections
    /\ \A c \in connections : conn[c] = "open"
    /\ connectionsLock \in Publishers \cup {None}
    /\ conn \in [Connections -> {"new", "open", "closed"}]
    /\ peer \in [Connections -> {"reading", "hung", "gone"}]
    /\ pub \in [Publishers -> [pc : {"idle", "changed", "lock", "loop"}, data : 0..MaxChanges,
                               todo : SUBSET Connections, on : Connections \cup {None}]]
    /\ stopping \in {"no", "closing", "shutting", "done"}
    /\ status \in 0..MaxChanges
    /\ sent \in Seq(1..MaxChanges)
    /\ joined \in [Connections -> 0..MaxChanges]
    /\ got \in [Connections -> Seq(1..MaxChanges)]
    /\ troubles \in 0..MaxTroubles

Init ==
    /\ server = "nil"
    /\ connections = {} /\ connectionsLock = None
    /\ conn = [c \in Connections |-> "new"] /\ peer = [c \in Connections |-> "reading"]
    /\ pub = [p \in Publishers |-> Idle]
    /\ stopping = "no" /\ status = 0
    /\ sent = <<>> /\ joined = [c \in Connections |-> 0] /\ got = [c \in Connections |-> <<>>]
    /\ troubles = 0

Unlocked == connectionsLock = None

-----------------------------------------------------------------------------
\* The server.

\* When net.Listen fails the server is set all the same.
Listen ==
    /\ server = "nil" /\ server' \in {"set", "listening"}
    /\ UNCHANGED <<connections, connectionsLock, net, pub, stopping, status, log, troubles>>

\* The handler of /signals, under the lock.  A connection whose upgrade fails
\* is not registered.
signals(c) ==
    /\ conn[c] = "new" /\ server = "listening" /\ Unlocked
    /\ \/ /\ conn' = [conn EXCEPT ![c] = "open"]
          /\ connections' = connections \cup {c}
          /\ joined' = [joined EXCEPT ![c] = Len(sent)]
       \/ conn' = [conn EXCEPT ![c] = "closed"] /\ UNCHANGED <<connections, joined>>
    /\ UNCHANGED <<server, connectionsLock, peer, pub, stopping, status, sent, got, troubles>>

\* Stop closes the connections without taking the lock.
Undisturbed == Unlocked /\ \A p \in Publishers : pub[p] = Idle
BeginStop ==
    /\ stopping = "no" /\ server = "listening"
    /\ Quiet => Undisturbed
    /\ stopping' = "closing"
    /\ UNCHANGED <<server, connections, connectionsLock, net, pub, status, log, troubles>>

StopOne(c) ==
    /\ stopping = "closing" /\ c \in connections
    /\ conn' = [conn EXCEPT ![c] = "closed"] /\ connections' = connections \ {c}
    /\ UNCHANGED <<server, connectionsLock, peer, pub, stopping, status, log, troubles>>

\* The listener is open until Shutdown has closed it.
StopLoopDone ==
    /\ stopping = "closing" /\ connections = {}
    /\ stopping' = "shutting"
    /\ UNCHANGED <<server, connections, connectionsLock, net, pub, status, log, troubles>>

Shutdown ==
    /\ stopping = "shutting"
    /\ stopping' = "done" /\ server' = "nil"
    /\ UNCHANGED <<connections, connectionsLock, net, pub, status, log, troubles>>

-----------------------------------------------------------------------------
\* A publisher.

Change(p) ==
    /\ pub[p].pc = "idle" /\ status < MaxChanges
    /\ status' = status + 1
    /\ pub' = [pub EXCEPT ![p].pc = "changed"]
    /\ UNCHANGED <<server, connections, connectionsLock, net, stopping, log, troubles>>

Marshal(p) ==
    /\ pub[p].pc = "changed"
    /\ pub' = [pub EXCEPT ![p].pc = "lock", ![p].data = status]
    /\ UNCHANGED <<server, connections, connectionsLock, net, stopping, status, log, troubles>>

\* Mutant: the handler does not wait for the lock.
MayEnterAnyhow == TRUE
MayEnter       == Unlocked

Enter(p) ==
    /\ pub[p].pc = "lock" /\ MayEnter
    /\ connectionsLock' = p
    /\ pub' = [pub EXCEPT ![p].pc = "loop", ![p].todo = connections]
    /\ sent' = Append(sent, pub[p].data)
    /\ UNCHANGED <<server, connections, net, stopping, status, joined, got, troubles>>

BeginWrite(p, c) ==
    /\ pub[p].pc = "loop" /\ pub[p].on = None /\ c \in pub[p].todo \cap connections
    /\ pub' = [pub EXCEPT ![p].on = c, ![p].todo = @ \ {c}]
    /\ UNCHANGED <<server, connections, connectionsLock, net, stopping, status, log, troubles>>

\* A peer that is gone may still be written to once more.
Accepted(p) ==
    LET c == pub[p].on IN
    /\ c # None /\ conn[c] = "open" /\ peer[c] # "hung"
    /\ got' = [got EXCEPT ![c] = Append(@, pub[p].data)]
    /\ pub' = [pub EXCEPT ![p].on = None]
    /\ UNCHANGED <<server, connections, connectionsLock, net, stopping, status, sent, joined, troubles>>

\* A write to a peer that hangs fails when its deadline has passed.
\* Mutants: no deadline is set; a connection that fails is kept, or closed only.
NoDeadline(c) == conn[c] = "closed" \/ peer[c] = "gone"
MayFail(c)    == conn[c] = "closed" \/ peer[c] # "reading"

KeepConnection(c)   == UNCHANGED <<conn, connections>>
CloseOnly(c)        == conn' = [conn EXCEPT ![c] = "closed"] /\ UNCHANGED connections
deleteConnection(c) ==
    conn' = [conn EXCEPT ![c] = "closed"] /\ connections' = connections \ {c}

Failed(p) ==
    LET c == pub[p].on IN
    /\ c # None /\ MayFail(c)
    /\ deleteConnection(c)
    /\ pub' = [pub EXCEPT ![p].on = None]
    /\ UNCHANGED <<server, connectionsLock, peer, stopping, status, log, troubles>>

\* Mutant: the lock is not released.
KeepLock == connectionsLock
NoLock   == None

Leave(p) ==
    /\ pub[p].pc = "loop" /\ pub[p].on = None /\ pub[p].todo \cap connections = {}
    /\ connectionsLock' = NoLock
    /\ pub' = [pub EXCEPT ![p] = Idle]
    /\ UNCHANGED <<server, connections, net, stopping, status, log, troubles>>

Publish(p) ==
    \/ Marshal(p) \/ Enter(p) \/ Accepted(p) \/ Failed(p) \/ Leave(p)
    \/ \E c \in Connections : BeginWrite(p, c)

\* A peer stops reading, reads again, or goes.
Trouble(c) ==
    /\ conn[c] = "open" /\ troubles < MaxTroubles /\ troubles' = troubles + 1
    /\ \E s \in {"reading", "hung", "gone"} :
          s # peer[c] /\ peer[c] # "gone" /\ peer' = [peer EXCEPT ![c] = s]
    /\ UNCHANGED <<server, connections, connectionsLock, conn, pub, stopping, status, log>>

Next ==
    \/ Listen \/ BeginStop \/ StopLoopDone \/ Shutdown
    \/ \E c \in Connections : signals(c) \/ StopOne(c) \/ Trouble(c)
    \/ \E p \in Publishers : Change(p) \/ Publish(p)

Spec == Init /\ [][Next]_vars

\* Goroutines run; a mutex that is released again and again is granted in the end.
FairSpec ==
    Spec /\ \A p \in Publishers : WF_vars(Publish(p)) /\ SF_vars(Enter(p))

-----------------------------------------------------------------------------
\* Properties.

Writing(c) == {p \in Publishers : pub[p].on = c}
Awaited(c) == \E p \in Publishers : pub[p].on = c \/ (pub[p].pc = "loop" /\ c \in pub[p].todo)

\* Whatever connection fails, hangs, comes or goes: no two goroutines write to
\* a connection at once (a websocket does not allow it), every connection gets
\* the signals from its registration on in the one order they were sent, and
\* one that has missed a signal is dropped (server.go:55-79).
NoGaps ==
    \A c \in Connections :
        LET upTo == joined[c] + Len(got[c]) IN
        /\ Cardinality(Writing(c)) <= 1
        /\ upTo <= Len(sent) /\ got[c] = SubSeq(sent, joined[c] + 1, upTo)
        /\ c \in connections /\ ~Awaited(c) => upTo = Len(sent)

\* A goroutine that publishes comes back from it, whatever the peers do: a
\* peer that hangs delays the monitor and the RPCs, and does not stop them.
PublishReturns == \A p \in Publishers : pub[p].pc # "idle" ~> pub[p].pc = "idle"

\* When nothing is on its way any more, the last signal a client got shows the
\* status as it is (api/README.md:54, "current status of the session").
LastIsCurrent ==
    (\A p \in Publishers : pub[p] = Idle) =>
        \A c \in connections : got[c] # <<>> => got[c][Len(got[c])] = status

\* Stop goes through the map of connections only while no one else does
\* (server.go:126 against 67 and 160).
StopIsAlone == stopping = "closing" => Unlocked

\* No connection outlives Stop.
StopClosesAll == stopping = "done" => connections = {}
=============================================================================
