--------------------------- MODULE KeycardContextV2 ---------------------------
(***************************************************************************)
(* The session API: internal.KeycardContextV2 behind the RPC service of    *)
(* pkg/session.  One goroutine (the monitor) detects readers and cards,    *)
(* connects to a keycard and then watches its reader; one goroutine        *)
(* exchanges APDUs with the card; every RPC runs on the goroutine of its   *)
(* client.  They share the connection, the status and cmdSetMutex.         *)
(*                                                                         *)
(* A monitor goroutine ends by starting another one, so monitors are drawn *)
(* from the set Monitors and more than one could be running.               *)
(*                                                                         *)
(* Abstractions: a command is one exchange with the card; parsing and key  *)
(* derivation are dropped; the user moves cards at most MaxMoves times and *)
(* clients make at most MaxCalls calls; transmitChannel (10 slots) never   *)
(* fills, as there are fewer processes than slots.                         *)
(***************************************************************************)
EXTENDS Keycard, FiniteSets, Sequences

CONSTANTS
    Readers, Cards,      \* the hardware
    Clients, Monitors,   \* the goroutines
    None,                \* Go's nil
    Unplugged,           \* the slot of a reader that is not attached
    Ops,                 \* the RPCs the clients make
    Faults,              \* the errors that occur or are simulated
    Lost,                \* the commands whose answer can get lost
    CardTypes,           \* the states in which cards are first met
    StartSlots,          \* where the cards may be when the service starts
    ResetRenewsUID,      \* a factory reset gives the card a new InstanceUID
    Polite,              \* clients go by the published status, without haste
    Settled,             \* the user waits for the monitor before moving a card
    MaxMoves, MaxCalls

Procs == Clients \cup Monitors

Op == {"Initialize", "FactoryReset", "GetMetadata", "VerifyPIN", "ChangePIN",
       "ChangePUK", "UnblockPIN", "GenerateMnemonic", "LoadMnemonic",
       "StoreMetadata", "ExportLoginKeys", "ExportRecoverKeys", "Stop"}

Fault == {"no-pcsc", "list-readers", "get-status-change", "card-connect",
          "select-applet", "open-secure-channel"}

State == {"unknown", "no-pcsc", "internal-error", "waiting-for-reader",
          "waiting-for-card", "connecting-card", "connection-error",
          "not-keycard", "empty-keycard", "no-available-pairing-slots",
          "pairing-error", "blocked-pin", "blocked-puk", "ready",
          "authorized", "factory-resetting"}

\* AppInfo and AppStatus remember which card they were read from.
AppInfo   == [card : Cards, installed : BOOLEAN, init : BOOLEAN]
AppStatus == [card : Cards, pin : 0..MaxPIN, puk : 0..MaxPUK, keys : BOOLEAN]
Status    == [state : State,
              app   : AppInfo \cup {None},
              appst : AppStatus \cup {None},
              meta  : Cards \cup {None}]

Reply == [out : Outcome, from : Cards, k : CardState]

ASSUME SessionAssumption ==
    /\ Clients \cap Monitors = {}
    /\ None \notin Procs \cup Cards \cup Readers \cup Op \cup Command \cup Fault
    /\ None \notin {"open", "closed"}
    /\ None \notin Reply \cup AppInfo \cup AppStatus
    /\ Unplugged # None
    /\ Unplugged \notin Cards
    /\ Ops \subseteq Op
    /\ Faults \subseteq Fault
    /\ Lost \subseteq Command
    /\ CardTypes \subseteq CardState
    /\ StartSlots \subseteq [Readers -> Cards \cup {None, Unplugged}]
    /\ {ResetRenewsUID, Polite, Settled} \subseteq BOOLEAN
    /\ {MaxMoves, MaxCalls} \subseteq Nat

VARIABLES
    slot,        \* what is in each reader: a card, None or Unplugged
    card,        \* the state of each card
    dirty,       \* a reader changed since the monitor listed them
    stored,      \* cards with an entry in the pairings file
    moves,       \* moves of the user so far
    torn,        \* per card: slots taken by a Pair whose answer nobody got
    conn,        \* kc.card and kc.cmdSet: the card they were made for
    link,        \* the PC/SC handle of kc.card is still valid
    status,      \* kc.status
    published,   \* the last status sent with status-changed
    forceScanC,  \* None, "open" or "closed"
    mutex,       \* holder of cmdSetMutex
    txq,         \* transmitChannel
    service,     \* life of the service: "off", "running", "failed", "stopped"
    ctxDone,     \* the Go context is done
    released,    \* cardCtx was released
    sim,         \* simulated error
    panicked,    \* a goroutine panicked: the process is gone
    pc,          \* where each goroutine is; "idle" if it is not running
    cmd,         \* the card command a goroutine is at
    res,         \* the reply to that command
    call,        \* per client: its RPC, its outcome, exports left, calls made
    scan         \* per monitor: the active reader, the readers it listed

world == <<slot, card, dirty, moves, torn>>
object == <<conn, link, status, published, forceScanC, mutex, txq, stored>>
life == <<service, ctxDone, released, sim, panicked>>
locals == <<pc, cmd, res, call, scan>>
vars == <<world, object, life, locals>>

LockedCommand == Command \ {"pair", "open"}

NoReply == None
Failure(r) == r = None \/ r.out # "ok"
Succeeded(p) == res[p] # None /\ res[p].out = "ok"
SCardError(p) == res[p] # None /\ res[p].out = "scard"

-----------------------------------------------------------------------------
(* Status *)

Reset(state) == [state |-> state, app |-> None, appst |-> None, meta |-> None]
WithState(state) == [status EXCEPT !.state = state]

InfoOf(r) == [card |-> r.from, installed |-> r.k.installed, init |-> r.k.init]
AppStatusOf(r) ==
    [card |-> r.from, pin |-> r.k.pin, puk |-> r.k.puk, keys |-> r.k.keys]

Publish(s) == status' = s /\ published' = s

\* resetCardConnection: requests already handed over keep their old cmdSet.
Stale(q) == [i \in DOMAIN q |-> [q[i] EXCEPT !.fresh = FALSE]]

Connected == conn # None
KeycardInitialized == Connected /\ status.state # "empty-keycard"
KeycardReady == KeycardInitialized /\ status.state \in {"ready", "authorized"}
KeycardAuthorized == KeycardInitialized /\ status.state = "authorized"

-----------------------------------------------------------------------------
Init ==
    /\ slot \in StartSlots
    /\ card \in [Cards -> CardTypes]
    /\ dirty = FALSE
    /\ moves = 0
    /\ torn = [c \in Cards |-> 0]
    /\ stored = {}
    /\ conn = None
    /\ link = FALSE
    /\ status = Reset("unknown")
    /\ published = Reset("unknown")
    /\ forceScanC = None
    /\ mutex = None
    /\ txq = <<>>
    /\ service = "off"
    /\ ctxDone = FALSE
    /\ released = FALSE
    /\ sim = None
    /\ panicked = FALSE
    /\ pc = [p \in Procs |-> "idle"]
    /\ cmd = [p \in Procs |-> None]
    /\ res = [p \in Procs |-> None]
    /\ call = [c \in Clients |-> [op |-> None, good |-> FALSE, left |-> 0, made |-> 0]]
    /\ scan = [g \in Monitors |-> [active |-> None, known |-> {}]]

-----------------------------------------------------------------------------
(* The user. *)

Active(g) == pc[g] # "idle"
Waiting(g) == pc[g] \in {"idle", "poll", "tick", "blocked"}
Quiet == /\ \A g \in Monitors : Waiting(g)
         /\ \A c \in Clients : pc[c] = "idle"
UserMay == moves < MaxMoves /\ (Settled => Quiet)

Move(r, content) ==
    /\ slot' = [slot EXCEPT ![r] = content]
    /\ card' = [c \in Cards |-> IF c \in {slot[r], content} THEN EndSession(card[c])
                                ELSE card[c]]
    /\ link' = (link /\ conn # slot[r])
    /\ dirty' = TRUE
    /\ moves' = moves + 1
    /\ UNCHANGED <<torn, conn, status, published, forceScanC, mutex, txq, stored, life, locals>>

InsertCard(r, c) ==
    /\ UserMay
    /\ slot[r] = None
    /\ \A q \in Readers : slot[q] # c
    /\ Move(r, c)

RemoveCard(r) == UserMay /\ slot[r] \in Cards /\ Move(r, None)
UnplugReader(r) == UserMay /\ slot[r] # Unplugged /\ Move(r, Unplugged)
PlugReader(r) == UserMay /\ slot[r] = Unplugged /\ Move(r, None)

User == \E r \in Readers :
           \/ \E c \in Cards : InsertCard(r, c)
           \/ RemoveCard(r)
           \/ UnplugReader(r)
           \/ PlugReader(r)

-----------------------------------------------------------------------------
(* Goroutines *)

Goto(p, where) == pc' = [pc EXCEPT ![p] = where]

\* A goroutine that starts another monitor and returns.
HandOver(g, where, next) ==
    \E h \in Monitors :
        /\ pc[h] = "idle" /\ h # g
        /\ pc' = [pc EXCEPT ![g] = "idle", ![h] = where]
        /\ scan' = [scan EXCEPT ![g] = [active |-> None, known |-> {}], ![h] = next]

NotScanning == [active |-> None, known |-> {}]

\* KeycardService.Start, with NewKeycardContextV2 and KeycardContextV2.Start.
Start ==
    /\ service = "off"
    /\ UNCHANGED <<world, conn, link, forceScanC, mutex, txq, stored,
                   ctxDone, released, sim, panicked, cmd, res, call, scan>>
    /\ \/ /\ "no-pcsc" \in Faults
          /\ Publish(WithState("no-pcsc"))
          /\ service' = "failed"
          /\ UNCHANGED pc
       \/ /\ sim # "no-pcsc"
          /\ service' = "running"
          /\ \E g \in Monitors : Goto(g, "detect")
          /\ UNCHANGED <<status, published>>

SimulateError(e) ==
    /\ service # "stopped"
    /\ sim # e
    /\ sim' = e
    /\ UNCHANGED <<world, object, service, ctxDone, released, panicked, locals>>

Panic == panicked' = TRUE /\ UNCHANGED <<world, object, service,
                                         ctxDone, released, sim, locals>>

-----------------------------------------------------------------------------
(* Exchanges with the card: Transmit and cardCommunicationRoutine. *)

Request(p, command) == [proc |-> p, cmd |-> command, fresh |-> TRUE]

\* The body of a command between taking cmdSetMutex and waiting for the reply.
Lock(p) ==
    /\ pc[p] = "lock"
    /\ mutex = None
    /\ IF conn = None
       THEN Panic                                   \* kc.cmdSet is nil
       ELSE /\ mutex' = p
            /\ txq' = Append(txq, Request(p, cmd[p]))
            /\ Goto(p, "wait")
            /\ UNCHANGED <<world, conn, link, status, published, forceScanC, stored,
                           life, cmd, res, call, scan>>

\* Somebody else also waits for a reply on the secure channel.
Overlapped(q) == \E p \in Procs : p # q /\ pc[p] = "wait"

\* What a request can come back with: an exchange sealed for another
\* connection, or garbled by an overlapping one, is refused by the card; an
\* answer that gets lost is an error of the PC/SC layer, as a dead link is, but
\* the card has carried the command out.
Replies(q) ==
    LET k       == card[conn]
        plain   == SelectCommands \cup {"reset"}
        done    == [card |-> After(k, q.cmd), out |-> Answer(k, q.cmd), done |-> Accepts(k, q.cmd)]
        fail(o) == [card |-> k, out |-> o, done |-> FALSE]
    IN IF ~link THEN {fail("scard")}
       ELSE IF ~q.fresh /\ q.cmd \notin plain THEN {fail("err")}
       ELSE {done} \cup (IF q.cmd \in Lost THEN {[done EXCEPT !.out = "scard"]} ELSE {})
                   \cup (IF Overlapped(q.proc) /\ q.cmd \notin plain THEN {fail("err")} ELSE {})

\* A Pair that was carried out and that no goroutine heard of; a reset gives the
\* slots back.
TornBy(q, a) ==
    CASE q.cmd = "pair" /\ a.done /\ (a.out = "scard" \/ q.proc = None)
              -> [torn EXCEPT ![conn] = @ + 1]
      [] q.cmd = "reset" /\ a.done -> [torn EXCEPT ![conn] = 0]
      [] OTHER -> torn

\* cardCommunicationRoutine: one request, sent to whatever kc.card is now.
Exchange ==
    /\ service # "off" /\ ~released
    /\ txq # <<>>
    /\ LET q == Head(txq)
       IN IF conn = None
          THEN Panic                                \* kc.card is nil
          ELSE \E a \in Replies(q) :
                 /\ card' = [card EXCEPT ![conn] = a.card]
                 /\ torn' = TornBy(q, a)
                 /\ stored' = IF q.cmd = "reset" /\ a.done /\ ResetRenewsUID
                              THEN stored \ {conn} ELSE stored
                 /\ txq' = Tail(txq)
                 /\ IF q.proc = None
                    THEN UNCHANGED <<pc, res>>      \* nobody reads the response
                    ELSE /\ Goto(q.proc, "got")
                         /\ res' = [res EXCEPT ![q.proc] =
                                      [out |-> a.out, from |-> conn, k |-> a.card]]
                 /\ UNCHANGED <<slot, dirty, moves, conn, link, status, published,
                                forceScanC, mutex, life, cmd, call, scan>>

\* Mutant: the request that was given up is still answered.
TransmitForgotten(p) ==
    /\ pc[p] = "wait"
    /\ ctxDone
    /\ Goto(p, "got")
    /\ res' = [res EXCEPT ![p] = None]
    /\ UNCHANGED <<world, object, life, cmd, call, scan>>

\* Transmit gives up when the context is done; the request stays queued.
TransmitDone(p) ==
    /\ pc[p] = "wait"
    /\ ctxDone
    /\ Goto(p, "got")
    /\ res' = [res EXCEPT ![p] = None]
    /\ txq' = [i \in DOMAIN txq |-> IF txq[i].proc = p THEN [txq[i] EXCEPT !.proc = None]
                                    ELSE txq[i]]
    /\ UNCHANGED <<world, conn, link, status, published, forceScanC, mutex, stored,
                   life, cmd, call, scan>>

\* cardCommunicationRoutine leaves its loop and releases cardCtx.
ReleaseContext ==
    /\ ctxDone /\ ~released
    /\ released' = TRUE
    /\ UNCHANGED <<world, object, service, ctxDone, sim, panicked, locals>>

-----------------------------------------------------------------------------
(* Detect mode: detectionRoutine, getCurrentReadersState, connectCard. *)

Listed == {r \in Readers : slot[r] # Unplugged}
WithCard == {r \in Listed : slot[r] # None}

\* getCurrentReadersState returns an error.
ListingFails == \/ released
                \/ sim = "list-readers"
                \/ sim = "get-status-change" /\ Listed # {}

\* Up to the point where connectCard has found a card or has none to connect.
Detect(g) ==
    /\ pc[g] = "detect"
    /\ UNCHANGED <<slot, card, moves, torn, mutex, stored, life, cmd, res, call>>
    /\ \/ /\ ListingFails
          /\ Publish(Reset("internal-error"))
          /\ Goto(g, "idle")
          /\ scan' = [scan EXCEPT ![g] = NotScanning]
          /\ UNCHANGED <<dirty, conn, link, forceScanC, txq>>
       \/ /\ ~ListingFails
          /\ Listed = {}
          /\ Publish(Reset("waiting-for-reader"))
          /\ dirty' = FALSE
          /\ Goto(g, "readers")
          /\ scan' = [scan EXCEPT ![g] = NotScanning]
          /\ UNCHANGED <<conn, link, forceScanC, txq>>
       \/ /\ ~ListingFails
          /\ Listed # {}
          /\ dirty' = FALSE
          \* A new channel, then resetCardConnection.
          /\ forceScanC' = "open"
          /\ conn' = None
          /\ link' = FALSE
          /\ txq' = Stale(txq)
          /\ \E where \in {"readers", "connect"} :
               /\ where = "connect" <=> WithCard # {}
               /\ pc' = [p \in Procs |-> IF p = g THEN where
                                         ELSE IF pc[p] = "sending" THEN "orphan"
                                         ELSE pc[p]]
          /\ IF WithCard = {}
             THEN /\ scan' = [scan EXCEPT ![g] = [active |-> None, known |-> Listed]]
                  /\ Publish(Reset("waiting-for-card"))
             ELSE /\ \E r \in WithCard :
                        scan' = [scan EXCEPT ![g] = [active |-> r, known |-> Listed]]
                  /\ UNCHANGED <<status, published>>

\* cardCtx.Connect, on what is in the reader by now.
ConnectCard(g) ==
    /\ pc[g] = "connect"
    /\ UNCHANGED <<world, forceScanC, mutex, stored, txq, life, res, call, scan>>
    /\ LET c == slot[scan[g].active]
       IN IF released \/ c \notin Cards \/ sim = "card-connect"
          THEN /\ Publish(WithState("connection-error"))
               /\ Goto(g, "readers")
               /\ UNCHANGED <<conn, link, cmd>>
          ELSE /\ conn' = c
               /\ link' = TRUE
               /\ Goto(g, "lock")
               /\ cmd' = [cmd EXCEPT ![g] = "select"]
               /\ UNCHANGED <<status, published>>

\* Mutant: a failed command returns without releasing cmdSetMutex.
UnlockOnSuccess(g) ==
    /\ mutex' = IF Failure(res[g]) THEN mutex ELSE None
    /\ res' = [res EXCEPT ![g] = None]

\* A locked command of g ends: cmdSetMutex is released.
Unlock(g) == mutex' = None /\ res' = [res EXCEPT ![g] = None]

\* connectCard after its selectApplet.
CardSelected(g) ==
    /\ pc[g] = "got" /\ cmd[g] = "select"
    /\ Unlock(g)
    /\ cmd' = [cmd EXCEPT ![g] = None]
    /\ UNCHANGED <<world, forceScanC, stored, life, call, scan>>
    /\ LET fails == Failure(res[g]) \/ sim = "select-applet"
           info  == InfoOf(res[g])
           keycard == IF fails THEN FALSE ELSE info.installed
       IN /\ Publish(IF fails THEN WithState("connection-error")
                     ELSE [status EXCEPT !.app = info,
                             !.state = IF keycard THEN "connecting-card" ELSE "not-keycard"])
          /\ Goto(g, IF keycard THEN "keycard" ELSE "readers")
          /\ IF keycard
             THEN UNCHANGED <<conn, link, txq>>
             ELSE conn' = None /\ link' = FALSE /\ txq' = Stale(txq)

\* The GetStatusChange at the end of detectionRoutine.  It fails, and ends the
\* monitoring, when a reader it is given is no longer attached.
AwaitReaders(g) ==
    /\ pc[g] = "readers"
    /\ UNCHANGED <<world, object, life, cmd, res, call>>
    /\ \/ /\ \/ released
             \/ \E r \in scan[g].known : slot[r] = Unplugged
          /\ Goto(g, "idle")
          /\ scan' = [scan EXCEPT ![g] = NotScanning]
       \/ /\ ~released
          /\ \A r \in scan[g].known : slot[r] # Unplugged
          /\ Goto(g, IF dirty THEN "detect" ELSE "blocked")
          /\ scan' = IF dirty THEN [scan EXCEPT ![g] = NotScanning] ELSE scan

ReadersChanged(g) ==
    /\ pc[g] = "blocked"
    /\ dirty \/ released
    /\ Goto(g, IF released THEN "idle" ELSE "detect")
    /\ scan' = [scan EXCEPT ![g] = NotScanning]
    /\ UNCHANGED <<world, object, life, cmd, res, call>>

-----------------------------------------------------------------------------
(* connectKeycard, and the switch to watch mode that follows it. *)

\* connectKeycard returns: watchActiveReader is started.
Watch(g) == HandOver(g, "poll", [active |-> scan[g].active, known |-> {}])

ConnectKeycard(g) ==
    /\ pc[g] = "keycard"
    /\ IF status.app = None
       THEN Panic                                   \* appInfo is nil
       ELSE /\ UNCHANGED <<world, conn, link, forceScanC, mutex, stored, life, res, call>>
            /\ IF ~status.app.init
               THEN /\ Publish(WithState("empty-keycard"))
                    /\ Watch(g)
                    /\ UNCHANGED <<txq, cmd>>
               ELSE \* Pair and OpenSecureChannel do not take cmdSetMutex
                    LET command == IF status.app.card \in stored THEN "open" ELSE "pair"
                    IN /\ cmd' = [cmd EXCEPT ![g] = command]
                       /\ txq' = Append(txq, Request(g, command))
                       /\ Goto(g, "wait")
                       /\ UNCHANGED <<status, published, scan>>

\* Mutant: an error return without publishStatus.
GiveUpSilently(g, state) ==
    /\ status' = WithState(state)
    /\ UNCHANGED published
    /\ cmd' = [cmd EXCEPT ![g] = None]
    /\ Watch(g)

\* connectKeycard fails with the given state.
GiveUp(g, state) ==
    /\ Publish(WithState(state))
    /\ cmd' = [cmd EXCEPT ![g] = None]
    /\ Watch(g)

\* Mutant: the new pairing is used without being written to the store.
ForgetPairing(r) == UNCHANGED stored
StorePairing(r) == stored' = stored \cup {r.from}

Paired(g) ==
    /\ pc[g] = "got" /\ cmd[g] = "pair"
    /\ res' = [res EXCEPT ![g] = None]
    /\ UNCHANGED <<world, conn, link, forceScanC, mutex, txq, life, call>>
    /\ IF Failure(res[g])
       THEN /\ GiveUp(g, IF res[g] # None /\ res[g].out = "noslots"
                         THEN "no-available-pairing-slots" ELSE "pairing-error")
            /\ UNCHANGED stored
       ELSE /\ StorePairing(res[g])
            /\ cmd' = [cmd EXCEPT ![g] = "reselect"]
            /\ Goto(g, "lock")
            /\ UNCHANGED <<status, published, scan>>

Reselected(g) ==
    /\ pc[g] = "got" /\ cmd[g] = "reselect"
    /\ Unlock(g)
    /\ UNCHANGED <<world, conn, link, forceScanC, stored, life, call>>
    /\ IF Failure(res[g])
       THEN GiveUp(g, "connection-error") /\ UNCHANGED txq
       ELSE /\ status' = [status EXCEPT !.app = InfoOf(res[g])]
            /\ cmd' = [cmd EXCEPT ![g] = "open"]
            /\ txq' = Append(txq, Request(g, "open"))
            /\ Goto(g, "wait")
            /\ UNCHANGED <<published, scan>>

ChannelOpened(g) ==
    /\ pc[g] = "got" /\ cmd[g] = "open"
    /\ res' = [res EXCEPT ![g] = None]
    /\ UNCHANGED <<world, conn, link, forceScanC, mutex, txq, stored, life, call>>
    /\ IF Failure(res[g]) \/ sim = "open-secure-channel"
       THEN GiveUp(g, "connection-error")
       ELSE /\ cmd' = [cmd EXCEPT ![g] = None]
            /\ Goto(g, "refresh")
            /\ UNCHANGED <<status, published, scan>>

-----------------------------------------------------------------------------
(* updateApplicationStatus and updateMetadata, of the monitor and of RPCs. *)

\* The guard of updateApplicationStatus; its error is published as well.
RefreshStatus(p) ==
    /\ pc[p] = "refresh"
    /\ UNCHANGED <<world, conn, link, status, forceScanC, mutex, txq, stored, life, res, call>>
    /\ \/ /\ KeycardInitialized
          /\ Goto(p, "lock")
          /\ cmd' = [cmd EXCEPT ![p] = "status"]
          /\ UNCHANGED <<published, scan>>
       \/ /\ ~KeycardInitialized
          /\ UNCHANGED cmd
          /\ \/ p \in Clients /\ Goto(p, "authorize") /\ UNCHANGED <<published, scan>>
             \/ p \in Monitors /\ Watch(p) /\ published' = status

\* Mutant: the PIN counter is not looked at.
StateByPUK(r) == IF r.k.puk = 0 THEN "blocked-puk" ELSE "ready"
StateOfCard(r) ==
    IF r.k.puk = 0 THEN "blocked-puk" ELSE IF r.k.pin = 0 THEN "blocked-pin" ELSE "ready"

StatusRefreshed(p) ==
    /\ pc[p] = "got" /\ cmd[p] = "status"
    /\ Unlock(p)
    /\ cmd' = [cmd EXCEPT ![p] = None]
    /\ UNCHANGED <<world, conn, link, forceScanC, txq, stored, life, call>>
    /\ status' = IF Failure(res[p])
                 THEN [status EXCEPT !.appst = None, !.state = "connection-error"]
                 ELSE [status EXCEPT !.appst = AppStatusOf(res[p]),
                                     !.state = StateOfCard(res[p])]
    /\ \/ /\ p \in Clients
          /\ Goto(p, "authorize")
          /\ UNCHANGED <<published, scan>>
       \/ /\ p \in Monitors
          /\ IF Failure(res[p])
             THEN Watch(p) /\ published' = status'
             ELSE Goto(p, "metadata") /\ UNCHANGED <<published, scan>>

\* updateMetadata has failed or succeeded with the given status.  The monitor
\* publishes in both cases, StoreMetadata only on success.
MetadataDone(p, s, fine) ==
    /\ status' = s
    /\ IF p \in Monitors
       THEN published' = s /\ Watch(p) /\ UNCHANGED call
       ELSE /\ published' = IF fine THEN s ELSE published
            /\ Goto(p, "idle")
            /\ call' = [call EXCEPT ![p] = [@ EXCEPT !.op = None, !.good = FALSE, !.left = 0]]
            /\ UNCHANGED scan

\* The guard of the GetMetadata that updateMetadata calls.
RefreshMetadata(p) ==
    /\ pc[p] = "metadata"
    /\ UNCHANGED <<world, conn, link, forceScanC, mutex, txq, stored, life, res>>
    /\ \/ /\ KeycardInitialized
          /\ Goto(p, "lock")
          /\ cmd' = [cmd EXCEPT ![p] = "getData"]
          /\ UNCHANGED <<status, published, call, scan>>
       \/ /\ ~KeycardInitialized
          /\ MetadataDone(p, WithState("connection-error"), FALSE)
          /\ UNCHANGED cmd

-----------------------------------------------------------------------------
(* Watch mode: watchActiveReader. *)

\* Back to detect mode: startDetectionLoop.
StartDetection(g) == HandOver(g, "detect", NotScanning)

\* Is the card still in the reader?  Only "empty" and "unknown" are noticed.
\* Mutant: only the loss of the reader is.
ReaderGone(g) == slot[scan[g].active] = Unplugged
CardGone(g) == slot[scan[g].active] \in {None, Unplugged}

\* One pass of the loop.
Poll(g) ==
    /\ pc[g] = "poll"
    /\ UNCHANGED <<world, object, life, cmd, res, call>>
    /\ \/ /\ released
          /\ Goto(g, "idle")
          /\ scan' = [scan EXCEPT ![g] = NotScanning]
       \/ /\ ~released
          /\ CardGone(g)
          /\ StartDetection(g)
       \/ /\ ~released
          /\ ~CardGone(g)
          /\ Goto(g, "tick")
          /\ UNCHANGED scan

\* Mutant: the end of the pause restarts the detection.
TickRescans(g) ==
    /\ pc[g] = "tick"
    /\ StartDetection(g)
    /\ UNCHANGED <<world, object, life, cmd, res, call>>

\* The pause between two passes is over, or cut short by the context.
Tick(g) ==
    /\ pc[g] = "tick"
    /\ Goto(g, "poll")
    /\ UNCHANGED <<world, object, life, cmd, res, call, scan>>

\* The pause ends because forceScanC was closed.
TickClosed(g) ==
    /\ pc[g] = "tick"
    /\ forceScanC = "closed"
    /\ Goto(g, "idle")
    /\ scan' = [scan EXCEPT ![g] = NotScanning]
    /\ UNCHANGED <<world, object, life, cmd, res, call>>

ScanForced(g, p) ==
    /\ pc[g] = "tick"
    /\ forceScanC = "open"
    /\ pc[p] = "sending"

\* Mutant: the watcher starts a detection and goes on watching.
RendezvousGoesOn(g, p) ==
    /\ ScanForced(g, p)
    /\ \E h \in Monitors :
         /\ pc[h] = "idle"
         /\ pc' = [pc EXCEPT ![g] = "poll", ![h] = "detect", ![p] = "forced"]
    /\ UNCHANGED <<world, object, life, cmd, res, call, scan>>

\* Mutant: the test of ok is the wrong way round.
RendezvousStops(g, p) ==
    /\ ScanForced(g, p)
    /\ pc' = [pc EXCEPT ![g] = "idle", ![p] = "forced"]
    /\ scan' = [scan EXCEPT ![g] = NotScanning]
    /\ UNCHANGED <<world, object, life, cmd, res, call>>

\* The pause ends because p sends on forceScanC.
Rendezvous(g, p) ==
    /\ ScanForced(g, p)
    /\ \E h \in Monitors :
         /\ pc[h] = "idle"
         /\ pc' = [pc EXCEPT ![g] = "idle", ![h] = "detect", ![p] = "forced"]
         /\ scan' = [scan EXCEPT ![g] = NotScanning, ![h] = NotScanning]
    /\ UNCHANGED <<world, object, life, cmd, res, call>>

-----------------------------------------------------------------------------
(* The RPCs of KeycardService. *)

CardCommands(op) ==
    CASE op = "Initialize"       -> InitCommands
      [] op = "FactoryReset"     -> {"reset"}
      [] op = "GetMetadata"      -> {"getData"}
      [] op = "VerifyPIN"        -> {"verifyGood", "verifyBad"}
      [] op = "ChangePIN"        -> {"changePIN"}
      [] op = "ChangePUK"        -> {"changePUK"}
      [] op = "UnblockPIN"       -> {"unblockGood", "unblockBad"}
      [] op = "GenerateMnemonic" -> {"generate"}
      [] op = "LoadMnemonic"     -> {"loadSeed"}
      [] op = "StoreMetadata"    -> {"storeData"}
      [] OTHER                   -> {"export"}

Exports(op) ==
    IF op = "ExportLoginKeys" THEN 2 ELSE IF op = "ExportRecoverKeys" THEN 6 ELSE 0

\* The guard of each RPC: what it checks before it takes cmdSetMutex.
Permitted(op) ==
    CASE op \in {"Initialize", "FactoryReset"} -> Connected
      [] op = "GetMetadata" -> KeycardInitialized
      [] op \in {"VerifyPIN", "GenerateMnemonic"} -> KeycardReady
      [] op = "UnblockPIN" -> KeycardInitialized /\ status.state = "blocked-pin"
      [] op \in {"ExportLoginKeys", "ExportRecoverKeys"} ->
            KeycardAuthorized /\ (status.appst = None \/ status.appst.keys)
      [] OTHER -> KeycardAuthorized

\* A client that goes by the published status, once the monitor is at rest.
Sensible(op) ==
    LET s == published.state
    IN /\ \A g \in Monitors : Waiting(g)
       /\ CASE op = "Initialize" -> s = "empty-keycard"
            [] op = "FactoryReset" -> s \in {"blocked-puk", "pairing-error",
                                             "no-available-pairing-slots", "ready"}
            [] op \in {"GetMetadata", "VerifyPIN", "GenerateMnemonic"} ->
                   s \in {"ready", "authorized"}
            [] op = "UnblockPIN" -> s = "blocked-pin"
            [] OTHER -> s = "authorized"

MayCall(c, op) ==
    /\ op \in Ops
    /\ service = "running"
    /\ pc[c] = "idle"
    /\ call[c].made < MaxCalls

\* An RPC up to the point where it takes cmdSetMutex.
Call(c, op) ==
    /\ MayCall(c, op)
    /\ op # "Stop"
    /\ Permitted(op)
    /\ Polite => Sensible(op)
    /\ IF op \in {"ExportLoginKeys", "ExportRecoverKeys"} /\ status.appst = None
       THEN Panic                                   \* status.AppStatus is nil
       ELSE /\ \E command \in CardCommands(op) : cmd' = [cmd EXCEPT ![c] = command]
            /\ call' = [call EXCEPT ![c] = [op |-> op, good |-> FALSE, left |-> Exports(op),
                                            made |-> @.made + 1]]
            /\ Goto(c, "lock")
            /\ IF op = "FactoryReset"
               THEN Publish(Reset("factory-resetting"))
               ELSE UNCHANGED <<status, published>>
            /\ UNCHANGED <<world, conn, link, forceScanC, mutex, txq, stored,
                           life, res, scan>>

\* The commands whose PC/SC errors make the caller drop the connection.
Checked == LockedCommand \ {"select", "reselect", "status"}

NeedsForce(p) ==
    \/ cmd[p] = "reset"
    \/ cmd[p] \in InitCommands /\ Succeeded(p)
    \/ cmd[p] \in Checked /\ SCardError(p)

\* resetCardConnection under cmdSetMutex, before forceScan.
DropConnection(p) ==
    /\ pc[p] = "got"
    /\ NeedsForce(p)
    /\ conn' = None
    /\ link' = FALSE
    /\ txq' = Stale(txq)
    /\ Goto(p, "force")
    /\ UNCHANGED <<world, status, published, forceScanC, mutex, stored, life,
                   cmd, res, call, scan>>

\* forceScan: the send blocks until a watcher receives, on the channel of now.
ForceScan(p) ==
    /\ pc[p] = "force"
    /\ IF forceScanC = "closed"
       THEN Panic                                   \* send on a closed channel
       ELSE /\ Goto(p, IF forceScanC = "open" THEN "sending" ELSE "orphan")
            /\ UNCHANGED <<world, object, life, cmd, res, call, scan>>

SendOnClosed(p) == pc[p] = "sending" /\ forceScanC = "closed" /\ Panic

Returning(p) == pc[p] = "forced" \/ (pc[p] = "got" /\ ~NeedsForce(p))

MetadataRead(p) ==
    /\ Returning(p)
    /\ cmd[p] = "getData"
    /\ p \in Clients => call[p].op = "StoreMetadata"
    /\ Unlock(p)
    /\ cmd' = [cmd EXCEPT ![p] = None]
    /\ UNCHANGED <<world, conn, link, forceScanC, txq, stored, life>>
    /\ IF Failure(res[p])
       THEN MetadataDone(p, WithState("connection-error"), FALSE)
       ELSE MetadataDone(p, [status EXCEPT !.meta = IF res[p].k.data THEN res[p].from ELSE None],
                         TRUE)

\* Mutant: unblocking the PIN is not taken for verifying it.
OnlyVerifying == {"VerifyPIN"}
Authorizing == {"VerifyPIN", "UnblockPIN"}
Interacting == Authorizing \cup {"ChangePIN", "ChangePUK"}

\* Mutant: the list of keys to export has no end.
EndlessExport(c) == Succeeded(c) /\ cmd[c] = "export"
NextExport(c) == Succeeded(c) /\ cmd[c] = "export" /\ call[c].left > 1

\* Where an RPC goes on after its card command and the release of cmdSetMutex.
Epilogue(c) ==
    LET op == call[c].op
    IN CASE op \in Interacting                        -> "refresh"
         [] op = "LoadMnemonic"  /\ Succeeded(c)      -> "load"
         [] op = "StoreMetadata" /\ Succeeded(c)      -> "metadata"
         [] NextExport(c)                             -> "lock"
         [] OTHER                                     -> "idle"

CommandDone(c) ==
    /\ Returning(c)
    /\ cmd[c] # "status"
    /\ cmd[c] = "getData" => call[c].op = "GetMetadata"
    /\ Unlock(c)
    /\ Goto(c, Epilogue(c))
    /\ cmd' = [cmd EXCEPT ![c] = IF NextExport(c) THEN @ ELSE None]
    /\ call' = CASE Epilogue(c) = "idle" -> [call EXCEPT ![c].op = None, ![c].left = 0]
                 [] Epilogue(c) = "lock" -> [call EXCEPT ![c].left = @ - 1]
                 [] OTHER -> [call EXCEPT ![c].good = Succeeded(c)]
    /\ UNCHANGED <<world, conn, link, status, published, forceScanC, txq, stored,
                   life, scan>>

CallOver(c) == [call EXCEPT ![c] = [@ EXCEPT !.op = None, !.good = FALSE, !.left = 0]]

\* onAuthorizeInteractions after updateApplicationStatus.
OnAuthorizeInteractions(c) ==
    /\ pc[c] = "authorize"
    /\ Publish(IF status.state = "ready" /\ call[c].good /\ call[c].op \in Authorizing
               THEN WithState("authorized") ELSE status)
    /\ Goto(c, "idle")
    /\ call' = CallOver(c)
    /\ UNCHANGED <<world, conn, link, forceScanC, mutex, txq, stored, life, cmd, res, scan>>

\* The deferred function of LoadMnemonic.
MnemonicLoaded(c) ==
    /\ pc[c] = "load"
    /\ IF status.app = None \/ status.appst = None
       THEN Panic
       ELSE /\ Publish([status EXCEPT !.appst = [@ EXCEPT !.keys = TRUE]])
            /\ Goto(c, "idle")
            /\ call' = CallOver(c)
            /\ UNCHANGED <<world, conn, link, forceScanC, mutex, txq, stored,
                           life, cmd, res, scan>>

-----------------------------------------------------------------------------
(* KeycardService.Stop: close forceScanC, cancel cardCtx, end the context. *)

StopFailed ==
    /\ "Stop" \in Ops
    /\ service = "failed"
    /\ service' = "stopped"
    /\ UNCHANGED <<world, object, ctxDone, released, sim, panicked, locals>>

Stop(c) ==
    /\ MayCall(c, "Stop")
    /\ IF forceScanC = "closed"
       THEN Panic                                   \* close of a closed channel
       ELSE /\ forceScanC' = IF forceScanC = "open" THEN "closed" ELSE None
            /\ Goto(c, "cancel")
            /\ call' = [call EXCEPT ![c].op = "Stop", ![c].made = @ + 1]
            /\ UNCHANGED <<world, conn, link, status, published, mutex, txq, stored,
                           life, cmd, res, scan>>

\* Cancel only reaches a GetStatusChange that is blocked at that moment.
CancelContext(c) ==
    /\ pc[c] = "cancel"
    /\ pc' = [p \in Procs |-> IF p = c THEN "shutdown"
                              ELSE IF pc[p] = "blocked" THEN "idle" ELSE pc[p]]
    /\ scan' = [g \in Monitors |-> IF pc[g] = "blocked" THEN NotScanning ELSE scan[g]]
    /\ UNCHANGED <<world, object, life, cmd, res, call>>

Shutdown(c) ==
    /\ pc[c] = "shutdown"
    /\ ctxDone' = TRUE
    /\ service' = "stopped"
    /\ Goto(c, "idle")
    /\ call' = CallOver(c)
    /\ UNCHANGED <<world, object, released, sim, panicked, cmd, res, scan>>

-----------------------------------------------------------------------------
(* The whole system. *)

Monitor(g) ==
    \/ Detect(g) \/ ConnectCard(g) \/ CardSelected(g) \/ AwaitReaders(g)
    \/ ReadersChanged(g) \/ ConnectKeycard(g) \/ Paired(g) \/ Reselected(g)
    \/ ChannelOpened(g) \/ Poll(g) \/ Tick(g) \/ TickClosed(g)
    \/ \E p \in Procs : Rendezvous(g, p)

Caller(c) ==
    \/ CommandDone(c) \/ OnAuthorizeInteractions(c) \/ MnemonicLoaded(c)
    \/ CancelContext(c) \/ Shutdown(c)

Either(p) ==
    \/ Lock(p) \/ TransmitDone(p) \/ RefreshStatus(p) \/ StatusRefreshed(p)
    \/ RefreshMetadata(p) \/ MetadataRead(p) \/ DropConnection(p) \/ ForceScan(p)
    \/ SendOnClosed(p)

Client(c) == Stop(c) \/ \E op \in Op : Call(c, op)

Next ==
    /\ ~panicked
    /\ \/ User
       \/ Start
       \/ StopFailed
       \/ \E e \in Faults \cup {None} : SimulateError(e)
       \/ Exchange
       \/ ReleaseContext
       \/ \E g \in Monitors : Monitor(g)
       \/ \E c \in Clients : Client(c) \/ Caller(c)
       \/ \E p \in Procs : Either(p)

Spec == Init /\ [][Next]_vars

-----------------------------------------------------------------------------
(* Type invariant. *)

PCs == {"idle", "lock", "wait", "got", "force", "sending", "orphan", "forced",
        "refresh", "metadata", "authorize", "load", "cancel", "shutdown", "detect",
        "connect", "keycard", "readers", "blocked", "poll", "tick"}

Requests == [proc : Procs \cup {None}, cmd : Command, fresh : BOOLEAN]
CallRecord == [op : Op \cup {None}, good : BOOLEAN, left : 0..6, made : 0..MaxCalls]
ScanRecord == [active : Readers \cup {None}, known : SUBSET Readers]

WorldTypeOK ==
    /\ slot \in [Readers -> Cards \cup {None, Unplugged}]
    /\ card \in [Cards -> CardState]
    /\ dirty \in BOOLEAN
    /\ moves \in 0..MaxMoves
    /\ torn \in [Cards -> Nat]

ObjectTypeOK ==
    /\ conn \in Cards \cup {None}
    /\ link \in BOOLEAN
    /\ status \in Status
    /\ published \in Status
    /\ forceScanC \in {None, "open", "closed"}
    /\ mutex \in Procs \cup {None}
    /\ txq \in Seq(Requests)
    /\ stored \subseteq Cards

LifeTypeOK ==
    /\ service \in {"off", "running", "failed", "stopped"}
    /\ ctxDone \in BOOLEAN
    /\ released \in BOOLEAN
    /\ sim \in Faults \cup {None}
    /\ panicked \in BOOLEAN

LocalsTypeOK ==
    /\ pc \in [Procs -> PCs]
    /\ cmd \in [Procs -> Command \cup {None}]
    /\ res \in [Procs -> Reply \cup {None}]
    /\ call \in [Clients -> CallRecord]
    /\ scan \in [Monitors -> ScanRecord]

TypeOK == WorldTypeOK /\ ObjectTypeOK /\ LifeTypeOK /\ LocalsTypeOK

-----------------------------------------------------------------------------
(* Safety. *)

\* A goroutine holding cmdSetMutex: between the Lock of a command and the
\* Unlock that its deferred call does.
InCriticalSection(p) ==
    \/ pc[p] \in {"force", "sending", "orphan", "forced"}
    \/ pc[p] \in {"wait", "got"} /\ cmd[p] \in LockedCommand

\* cmdSetMutex is held exactly by the one goroutine that is inside a locked
\* command: no path through an error, a dropped connection, a forced scan or
\* the end of the context leaves it locked or unlocks it twice
\* (keycard_context_v2.go: every Lock / defer Unlock pair).
MutexExact == \A p \in Procs : InCriticalSection(p) <=> mutex = p

\* A request in transmitChannel is still waited for by the goroutine that made
\* it, which is at that very command and has no other request there: a reply
\* never reaches a goroutine that has given up and gone on to another command
\* (Transmit 70-83, cardCommunicationRoutine 134-164).
QueueMatchesWaiters ==
    \A i \in DOMAIN txq : txq[i].proc # None =>
        /\ pc[txq[i].proc] = "wait"
        /\ cmd[txq[i].proc] = txq[i].cmd
        /\ \A j \in DOMAIN txq : txq[j].proc = txq[i].proc => j = i

\* There is never a second goroutine detecting or watching, although each one
\* starts its successor from three places (detectionRoutine, the forceScanC
\* case and the end of watchActiveReader).
AtMostOneMonitor ==
    \A g, h \in Monitors : Active(g) /\ Active(h) => g = h

\* A card gives away one of its pairing slots to the service, and one more only
\* for each Pair that it carried out and whose answer nobody got: because the
\* transmission failed (v2.go:157-161), or because the context ended and Transmit
\* had given up (70-83).  However often the card is removed, reconnected or reset,
\* connectKeycard stores a pairing before it does anything else with it
\* (389-410), and asks for none when it has one.
PairsOnce == \A c \in Cards : MaxSlots - card[c].slots <= 1 + torn[c]

Calling(op) == \E c \in Clients : call[c].op = op

\* Nothing is going on inside the service but the monitor's waiting.
AtRest == /\ service = "running" /\ ~panicked
          /\ Quiet
          /\ \E g \in Monitors : Active(g)

\* Once everything has settled, the last status-changed signal carried the
\* status that GetStatus returns: no handler changes the status after its
\* last publishStatus (README.md:23 "notify the client on any change").
RestIsPublished == AtRest => published = status

\* A status that announces a usable card describes one card only: what was
\* selected is the card whose PIN and PUK were read, by other commands, possibly
\* with a card swapped in between (connectCard 271, updateApplicationStatus 549-577).
ReadyIsCoherent ==
    published.state \in {"ready", "authorized"} =>
        /\ published.app # None /\ published.app.init
        /\ published.appst # None
        /\ published.appst.pin > 0 /\ published.appst.puk > 0
        /\ published.appst.card = published.app.card

\* No goroutine of the service panics.
NoPanic == ~panicked

\* keycard_context_v2.go:61-62: "cmdSetMutex is needed to ensure that the last
\* response in secure channel is parsed before attempting to send a new
\* request".
SecureChannelSerialized ==
    \A p, q \in Procs : pc[p] = "wait" /\ pc[q] = "wait" => p = q

\* keycard_context_v2_state.go:64-65: "Authorized - the keycard is authorized
\* (PIN verified)", at a moment when no call is under way.
AuthorizedMeansVerified ==
    AtRest /\ link /\ status.state = "authorized" => card[conn].verified

\* keycard_context_v2_state.go:59-62: "Ready ... The PIN has not been
\* verified, so only unauthenticated commands can be executed", at a moment
\* when no call is under way.
ReadyMeansNotVerified ==
    AtRest /\ link /\ status.state = "ready" => ~card[conn].verified

\* README.md:23 "track the state of reader+card": the metadata of a card that is
\* announced for use, if there are any, are that card's.
MetadataIsOfTheCard ==
    published.state \in {"ready", "authorized"} =>
        published.meta = None \/ (published.app # None /\ published.meta = published.app.card)

\* api/README.md:56 "From this moment, until Stop is called, the keycard
\* service will take care of watching readers/cards".
MonitorSurvives ==
    service = "running" /\ ~panicked /\ ~Calling("Stop") =>
        \E g \in Monitors : Active(g)

\* api/README.md, "Initialize a new Keycard": the status of an empty keycard
\* has AppStatus: null.
EmptyHasNoAppStatus == published.state = "empty-keycard" => published.appst = None

\* keycard_context_v2_state.go:16-18: "InternalError ... Should never happen".
NeverInternalError == published.state # "internal-error"

-----------------------------------------------------------------------------
(* Liveness.  A goroutine that can run eventually runs; one that asks for    *)
(* cmdSetMutex again and again gets it (sync.Mutex is starvation free); a    *)
(* watcher whose select finds a sender waiting takes it, as its timer has    *)
(* only just been armed.  Users and clients need not do anything, except     *)
(* start the service.                                                        *)

Fairness ==
    /\ WF_vars(~panicked /\ Start)
    /\ WF_vars(~panicked /\ Exchange)
    /\ WF_vars(~panicked /\ ReleaseContext)
    /\ \A g \in Monitors : WF_vars(~panicked /\ Monitor(g))
    /\ \A c \in Clients : WF_vars(~panicked /\ Caller(c))
    /\ \A p \in Procs : /\ WF_vars(~panicked /\ Either(p))
                         /\ SF_vars(~panicked /\ Lock(p))
                         /\ SF_vars(~panicked /\ \E g \in Monitors : Rendezvous(g, p))

FairSpec == Spec /\ Fairness

\* Every RPC returns (api/README.md "Service will return a readable error if
\* the keycard is not in the proper state for the command").
CallsReturn == \A c \in Clients : pc[c] # "idle" ~> pc[c] = "idle"

\* A call made while no reader is announced comes back (api/README.md "Service
\* will return a readable error if the keycard is not in the proper state for
\* the command").
CallWithoutReaderReturns ==
    \A c \in Clients :
        published.state = "waiting-for-reader" /\ pc[c] = "lock" ~> pc[c] = "idle"

\* What a call that the card accepted leads to, through the monitor, the
\* automatic pairing and the refreshes of the status (api/README.md "Examples"):
\*  - Initialize with the default pairing password makes the card ready by
\*    itself; with another password it cannot be paired automatically;
\*  - FactoryReset ends with an empty keycard;
\*  - verifying the PIN, or unblocking it with the PUK, with authorization.
CommandsLeadOn ==
    \A c \in Clients :
        /\ pc[c] = "force" /\ cmd[c] = "initDefault" ~> published.state = "ready"
        /\ pc[c] = "force" /\ cmd[c] = "initCustom" ~> published.state = "pairing-error"
        /\ call[c].op = "FactoryReset" ~> published.state = "empty-keycard"
        /\ pc[c] = "lock" /\ cmd[c] \in {"verifyGood", "unblockGood"}
               ~> published.state = "authorized"

\* When the user has stopped, the absence of cards or of readers is announced
\* (README.md:23 "track the state of reader+card and notify the client on any
\* change").
AbsenceIsAnnounced ==
    <>[](/\ Listed = {} => published.state = "waiting-for-reader"
         /\ Listed # {} /\ WithCard = {} => published.state = "waiting-for-card")

\* When the user has stopped, the card whose data is announced is one that is
\* in a reader (README.md:23).
CardIsTracked ==
    <>[](published.app # None => \E r \in Readers : slot[r] = published.app.card)
=============================================================================
