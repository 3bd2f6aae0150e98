# A formal model of status-keycard-go

status-keycard-go gives the Status desktop application an API to Keycards,
smart cards that hold keys. It has two APIs, of which a process uses one: the
*flow API* (`pkg/flow`), where every job is a flow that pauses to ask the
client for something, and the *session API* (`pkg/session` over
`internal/keycard_context_v2.go`), where a service watches the readers and
answers RPCs. A C library exports both, a second library mocks the flow API for
tests of clients, and a server offers the session API over HTTP. This directory
holds TLA+ models of all of them, the TLC runs that check them on small
instances, and TLAPS proofs for every value of the
constants. Paths below are relative to `src/`.

## 1. Inventory

| part | state | operations | who calls it |
|---|---|---|---|
| `KeycardContextV2` (`internal/keycard_context_v2.go`, `_state.go`, `readers_states.go`) | `card`, `cmdSet`, `status`, `forceScanC`, `cmdSetMutex`, `transmitChannel`, simulated error, Go context, PC/SC context | `Start`, `Stop`, 12 card commands, `SimulateError`; internally the detection routine, the watcher, the card communication routine | the RPC service; its own goroutines |
| session service (`pkg/session`) | one `KeycardContextV2` | `Start`, `Stop`, one RPC per card command | HTTP server or exported C function, one goroutine per request |
| `KeycardFlow` control (`pkg/flow/flow.go`) | `state`, `params`, `wakeUp` | `Start`, `Resume`, `Cancel`; `runFlow`, `connect`, `pause*` | threads of the client; one goroutine per flow |
| `KeycardFlow` commands (`flow.go`, `commands.go`) | `cardInfo`, `params`, `knownCA` | 14 flow types made of about 20 commands | `connectedFlow` |
| V1 `KeycardContext` (`internal/keycard_context.go`) | PC/SC handle, `connected`, `command` channels | `StartKeycardContext`, `Stop`, card commands | `KeycardFlow` |
| pairing store (`pkg/pairing`) | map in memory, JSON file | `NewStore`, `Store`, `Get`, `Delete` | both APIs |
| signals (`signal`) | the callback, or the handler of the server | `Send` | both APIs |
| exported library (`shared`) | `globalFlow`, `globalRPCServer`; the process-wide `KeycardService` | `KeycardInitFlow`, `KeycardStartFlow`, `KeycardResumeFlow`, `KeycardCancelFlow`, `KeycardInitializeRPC`, `KeycardCallRPC`, `ResetAPI` | threads of the application |
| mocked library (`shared-mocked`, `pkg/flow/mocked`) | `state`, type and parameters of the flow, reader state, inserted and registered keycards, two files | `Start`, `Resume`, `Cancel`, five functions that play the reader and the cards; internally `runFlow` and a handler per flow type | tests of the application |
| session server (`cmd/status-keycard-server`) | `server`, `connections`, `connectionsLock` | `Listen`, `Stop`, `/signals`, `/rpc`, `signalHandler` | its peers; every goroutine that sends a signal |

How they interact. In the session API one goroutine, the *monitor*, detects
readers and cards, connects (select, pair, open the secure channel, read the
status and the metadata) and then watches the reader, at each change of mode by
starting another goroutine and returning. One goroutine exchanges APDUs with the
card. Every RPC runs on its own goroutine. They share the connection and the
status without a lock, the secure channel under `cmdSetMutex` (mostly), and
talk over `transmitChannel` and `forceScanC`. In the flow API the client's
threads and the goroutine of the flow share `state` and `params` without a
lock and meet on the unbuffered `wakeUp`; the flow and its V1 context meet on
`connected` and `command`. A signal is sent by whichever goroutine changed
something, and in the server that goroutine writes to every connection itself,
under one lock. Both APIs keep their pairings in one file, each object with a
map of its own that it read when it was made. The card and the user are outside: a card may be
moved between any two steps, and a card keeps its own state.

What is hard here: those interleavings; a card that is removed, swapped or
loses its answer in the middle of a command; goroutines that replace each
other; a service that is stopped while it works; restarts of a flow that must
not repeat what a card has refused; a pairing slot that is used up before the
pairing is on disk; a reset or a stop while something still runs; a file that is
rewritten in place; a mock that must behave as what it stands for. `PROJECT.json` lists each hazard at its line.

## 2. Modules

| module | models | properties checked in |
|---|---|---|
| `Keycard` | the card and the keycard-go library, one exchange per command (external) | – |
| `KeycardContextV2` | the session API: monitor, communication routine, RPCs, `Stop`, simulated errors | `MCKeycardContextV2` |
| `KeycardContextV2_proofs` | type correctness, proved | – |
| `KeycardContextV2_control_proofs` | lock, queue and monitor discipline, proved | – |
| `KeycardContextV2_safety_proofs` | pairings, announcements, what is announced of a card, and the absence of panics, proved | – |
| `FlowProtocol` | what any flow promises its client: works, asks, goes on, ends once (abstract) | implemented by the next and by `MockedFlow` |
| `FlowControl` | the flow API as a protocol: every read and write of `state`, every rendezvous, contexts that live and die | `MCFlowControl` |
| `FlowCommands` | what the flows do with the card: commands, restarts, card information, parameters, pairing store | `MCFlowCommands` |
| `MockedFlow` | the mocked library: all handlers, the goroutines of `runFlow`, the reader it plays, what it stores | `MCMockedFlow` |
| `Library` | the exported functions, the exclusion of the two APIs, lives of the session service, the pairings file | `MCLibrary` |
| `SignalServer` | `Send` and the server: from a change of the status to the websockets | `MCSignalServer` |
| `FlowControl_proofs`, `FlowCommands_proofs`, `MockedFlow_proofs`, `Library_proofs`, `SignalServer_proofs` | the invariants of the module each is named after, proved (section 4) | – |

`KeycardContextV2` and `FlowCommands` extend `Keycard`. `FlowControl` and
`FlowCommands` are two views of one object: the first has every race and an
abstract body of `connectedFlow` (it asks, restarts or ends), the second has
every command and a client that only answers while the flow waits. What
`FlowControl` assumes of the body, that it asks finitely often and restarts
finitely often while nothing happens, is what `EndsOrWaits` of `FlowCommands`
checks.

### KeycardContextV2

`pc[p]` says where a goroutine is. A monitor walks `detect` → `connect` →
(`lock`, `wait`, `got` for each exchange) → `keycard` → `refresh` → `metadata`
→ `poll` ⇄ `tick`; without a card it stops at `readers`/`blocked`. A client
walks `lock` → `wait` → `got` → (`force`, `sending`, `forced` if the command
makes the service scan again) → `refresh`/`authorize`/`load`/`metadata`. One
action is the code between two points where another goroutine's step can
matter: the guard of a command, taking `cmdSetMutex`, the exchange, what
follows the reply, the send on `forceScanC`. `conn` stands for `kc.card` and
`kc.cmdSet`, `link` for the validity of the PC/SC handle, `published` for the
last `status-changed` signal. `AppInfo`, `AppStatus` and `Metadata` remember
which card they were read from, so that mixtures can be stated. An exchange
fails with a PC/SC error on a dead link, or when the card carried out the command
and its answer is lost (`keycard_context_v2.go:157-161`), for the commands in
`Lost`; `torn` counts the pairing slots that went to a Pair nobody heard of,
because its answer was lost or its `Transmit` had given up. A dereference
of nil, a send on a closed channel and a double close set `panicked`.

### FlowControl

`run[r].pc` is the position of a `runFlow` goroutine down to the single
statements of `pause`, `pauseAndWaitWithStatus` and `connect`; `call[c].pc` is
that of a thread inside `Start`, `Resume` or `Cancel` (the check, the write and
the send are three steps); `ctx[k].pc` is that of a V1 context. `asked` and
`lastSignal` are what the client has been told.

### FlowCommands

The Go functions call each other to go on; in the model the steps left are the
sequence `f.todo`, named after the functions of `commands.go`. A return of
`restartError` is `Restarted`, a pause is `Asks` or `Swap`, any other return
that ends the flow is `Ends`. `Issue` is one exchange: answered, refused, lost
with or without effect, or impossible because the card is gone. The pairing
store is `mem` and `file`; `Crash` keeps only `file`. Four variables only count, for
the properties: `entered` the PINs the client gave, `burnt` the tries the cards
counted down, `unheard` those of them whose verdict was lost, `torn` the pairings
a card made and the file does not have.

### FlowProtocol

Two variables: `phase` (idle, working, asking, cancelled) and `heard`, what the
client was told last. It is not a model of code: it says what `README.md`, section
"Flow API", and the exported functions promise. A flow that works asks, asks for
a card, or ends with one result; a question is answered by the client, a
request for a card by a card; a cancelled flow says nothing more; and a flow that
works or was cancelled does not stay so. `FlowControl` implements all of it for
a client that calls when the flow listens (`PhaseBar` takes a run as over once
it has sent its result), `MockedFlow` implements its safety part for a client
that waits for answers (a goroutine under way is `working`). There the client's
view has to fit the state: the mapping shows a result that is told in a state
other than Idle, or a question in one other than Paused, as a pair of phase and
`heard` that the protocol does not have. One handler of the mock, `ChangePIN`,
sends its result and does not set the state; it alone is excepted, by name
(`Resulted`), and `v_mock_result` shows what it costs.

### MockedFlow

`state`, `type`, `params`, `reader`, `inserted`, `cards` and `paired` are the
fields of `MockedKeycardFlow` and its stores; `saved` is what is on disk. Each
call that may make progress starts a goroutine (`starting`), which handles the
flow once and then stores the cards (`storing`). The handlers, one file each in
the code, are functions from the card and the parameters to the card they
leave, the state they set and the signal they send; `Checked` is the ladder of
PIN and PUK questions that most of them share. `RegisterKeycard` takes a card of
one of the seven kinds or one that the caller supplies (`Custom`), refuses a
custom kind without a card, after it has reset the flow, and may fail to write the
cards. `calm` says which client this
behaviour has.

### Library

A flow and a session context are objects that run, stop, and while they run
pair with cards; `call[t].pc` is between the check of the globals by an exported
function and its use of them, and inside `KeycardService.Start`. `Store` is two
steps: the file is emptied, the file is written. `Crash` keeps `file` as it
is, and `lost` counts the pairings that are gone with it.

### SignalServer

`pub[p].pc` takes a goroutine from a change of the status through `Marshal`,
`Enter` (`connectionsLock`), one `BeginWrite` with `Accepted` or `Failed` for each
connection, and `Leave`. `conn` is the connection as the network sees it, `peer`
what the other end does: read, hang with full buffers, be gone. `Stop` is three
steps that do not take the lock. `sent`, `joined` and `got` record who was to
get what.

## 3. Runs

Twelve runs, each listed in `PROJECT.json` with its properties; every property
of a passing run has a mutant of the code that violates it there.

| run | what it shows |
|---|---|
| `session_control` | `MutexExact`, `QueueMatchesWaiters`, `AtMostOneMonitor`: two clients, every RPC including Stop, every simulated error, one move of the user. |
| `session_user` | `ReadyIsCoherent`, `PairsOnce`, `RestIsPublished`, `AbsenceIsAnnounced`: a client that goes by the status, two cards (empty, or set up and with metadata), four moves between calls, and the answers of Pair, VerifyPIN and FactoryReset may get lost. |
| `session_calm` | `NoPanic`, `CallsReturn`, and `CommandsLeadOn`, the documented results of Initialize, FactoryReset, VerifyPIN and UnblockPIN: one client, five calls, a card that stays. |
| `flow_free` | `OneFlow`, `NoSilentEnd`, `LeaksOnlyByCancel`: one thread, four calls at any moment, two events. |
| `flow_patient` | `WaitsAreAnnounced`, `IdleWhenDone`, `WorksOrAsks` and `ImplementsProtocol`: a client that calls only when the flow listens, five calls, three moves. That a cancelled flow ends is the last part of `FlowProtocol`. |
| `flow_cards` | what was checked on one card holds of the card that is changed (`InstanceRespected`, `LoadIsAllowed`, `PairsGenuine`), no PIN of whose refusal the flow heard is tried again (`PinTriesAreEntered`), slots and results are right (`SlotsAccounted`, `ResultsAreTrue`): two flows, two cards, three answers, every fault. |
| `flow_ends` | `EndsOrWaits`: every flow type, six kinds of card, every fault, a client that answers. |
| `mock` | `ImplementsProtocol` and `CallsAreAnswered` for a calm client; `TriesAreAsked` (no secret is tried twice when a card is inserted), `TriesAreEarned` (tries come back only for a right secret), `RestIsSaved` (what is in memory is on disk): all flow types the mock handles, calm and hasty clients, the seven kinds of card and one the client supplies, a write that fails in a flow or at a registration. |
| `library` | `OneAPI`, `NoOrphans`, `SlotsAccounted`: one thread of a tidy client, twelve calls, three faults (no PC/SC, a write that fails, a crash). |
| `server` | `NoGaps`, `PublishReturns`: two goroutines that publish three changes to two connections, one of which gets into trouble. |
| `v_panic`, `v_monitor` | the code does not do what its documents or its own checks say (section 6). |

Bounds, and why they are enough. Two monitors are all that can be needed, since
one ends as it starts the next; a third could only run if `AtMostOneMonitor`
failed, which a second one shows. Two clients give every pair of concurrent
RPCs, and a third would find the lock in the same states. One or two moves
give removal, insertion, replacement and unplugging inside any operation;
`session_user` has four, for a full swap and its return. One attempt per
counter (`MaxPIN = 1`) reaches every zero; `flow_cards` and `mock` have two PIN
attempts, so that a retry short of zero exists. Two or three pairing slots
separate "one slot taken" from "one too many". A flow that restarts does so from
scratch, so that two faults in a row show what one more would. Five calls and
three moves in `flow_patient` are a flow that is asked, answered, cancelled and
followed by another, with a card that comes, goes and comes. Four calls of the
mock are a flow and three answers, enough to use up the tries and ask for the
PUK; its client without manners has two, after which the state is one that
another call finds again. Twelve calls of `library` are both APIs one after the
other with a reset between them, a crash, and a start again; two objects are one
in use and one that is still ending. Three changes by two publishers are one
publisher overtaken by the other and back. The bound on calls only ends runs:
the state after a call is again one from which the first was made. Deadlock is
not checked, because the service may be stopped or simply have nothing left to
do when the bounds are used up; that nobody hangs while something is to be done
is what the liveness properties state.

`RestIsPublished` is checked with a client whose `StoreMetadata` cannot fail (and
proved without that call), and `NoPanic` without moves of the user, for the
reasons in section 6; `ResultsAreTrue` states the free slots
of the flows that remove their own pairing, not of `UnpairOthers`.

### Fairness

Session API: weak fairness for every goroutine (Go's scheduler runs what can
run) and for the exchange with the card; strong fairness for taking
`cmdSetMutex`, as `sync.Mutex` hands the lock to a waiter that has starved for a
millisecond; strong fairness for the rendezvous on `forceScanC`, because a
watcher arms a fresh 500 ms timer before each `select`, which finds a sender that
is already waiting. Clients and users have no fairness: they may stop at any
time. Flow API: weak fairness for goroutines and for threads inside a call; a
flow's commands are fair as one action; in `flow_ends` the client answers, since
a flow that nobody answers waits by design. Mock: weak fairness for its
goroutines, none for the client. Server: weak fairness for a goroutine that
publishes, and strong fairness for taking `connectionsLock`, a `sync.Mutex` as
well. Peers may hang for ever; that a write to one fails is `SetWriteDeadline`.

### Assumptions about what is outside the source

The card does what `Keycard.tla` says (one exchange per command, an error
status when the session has not got far enough). No other application holds the
card exclusively. A wake-up of `GetStatusChange` is not lost while it is blocked.
Of several readers with a card any may be the one that is connected, where
`ReaderWithCardIndex` takes the first of the list: the order of the list is
PC/SC's. Which answers can get lost is the parameter `Lost`: in `session_user` those of
Pair (a slot is taken and nothing stored), VerifyPIN and FactoryReset, each of
which changes the card and makes the caller drop the connection; in the other two
session runs none, since `session_control` asks nothing of the cards and
`session_calm` is about a link that holds. `transmitChannel` has ten slots and each goroutine uses one.
`Plausible` (`FlowCommands`): a card that the flow API first meets is in no
session, is initialized only if the applet is installed, and a pairing with it
takes one of its slots. `ResetRenewsUID`: a factory reset gives the card another InstanceUID, as
reinstalling the applet does; in `FlowCommands` a card keeps its UID. Writing
the pairings file is atomic in `FlowCommands` and `KeycardContextV2`, and in the
latter it succeeds; the file in two steps, and the service in more than one life,
are `Library`'s. There the client is *tidy* in the run: one thread, which resets
the API or makes another flow when what it started has ended, and waits for what
it has stopped; `v_reset`, `v_exclusion` and `v_stop_start` show what happens to
one that is not. The calm client of the mock waits for the answer to each call,
starts flows with the reader plugged and unplugs it when it has the result; a
handler of the mock is one step. In the server the signal handler is set before
anything is sent, and `Stop` is called when nothing is being published: the
repository's own `main` never calls it, and `v_server_map` and `v_signals` show
the rest.

## 4. Proofs

Every theorem holds for any number of goroutines, threads, contexts, cards,
readers and connections and for any bound on calls and faults. The only
assumptions are the `ASSUME`s of the modules, which say what kind of thing the
constants are and that their names do not collide (TLC evaluates them in every
run), and the hypotheses that a theorem states itself:

| hypothesis | of | why |
|---|---|---|
| `OneCaller` | `OneFlowAtATime` and what follows from `Patient` | the client calls from one thread. The flow API takes no lock: `v_flow_twice` starts two flows from two. |
| `Patient` | `WaitsAnnounced`, `IdleAgain`, `PatienceNeverPanics`, `KeepsProtocol` of `FlowControl` | the client calls when the flow listens, as the runs' client does; `v_flow_answer`, `v_flow_stuck`, `v_flow_panic` show the others. |
| `Tidy` | all of `Library` but its types | the client of section 3; `v_reset`, `v_exclusion`, `v_stop_start` show the others. Any number of threads. |
| `k.slots = MaxSlots` for each card type | `CardsArePairedOnce` | `PairsOnce` counts the slots that this service takes; a card with the pairings of others would only shift the count. |
| `"StoreMetadata" \notin Ops` | `RestsPublished` | a `StoreMetadata` whose refresh fails changes the status and returns without publishing it (`v_publish`). |
| `OneCalmClient` | `CalmClientsNeverPanic` | the client of `session_calm`: one, going by the published status, no Stop, a card that stays and answers that arrive. Without it the guards are stale when `cmdSetMutex` is taken (`v_panic`) or a `forceScan` is lost (`v_hang`). Simulated errors are unrestricted. |
| `OneSettledReader` | `AnnouncedCardsAreWhole` | the client and the user of `session_user`: one client going by the published status, one reader, no Stop, and cards that are moved while nothing is going on; cards come without power. Of the commands that drop the connection on a PC/SC error only FactoryReset may lose its answer (as may Pair and the rest of connecting): after another one the channel stays open on a card whose connection was dropped, and the invariant has no place for that yet; `session_user` checks VerifyPIN as well. Any number of cards and moves, and simulated errors are unrestricted. A card that is swapped while its status is being read is announced with the counters of the other (`v_metadata` says how to see it). TLC refutes `ReadyIsCoherent` when the client stops going by the published status, when a second client calls at the same time (a reset drops the status under the other's refresh) or when cards move at any moment; that there is one reader is a need of this proof only, so far: with two readers and four moves TLC finds no counterexample. |
| slots taken `<=` (1 if `k.paired`, else 0), for each card type | `SlotsAreAccounted` | `SlotsAccounted` counts pairings made by this program from the beginning; a card that comes with the pairings of others has fewer slots and would only shift the count. The cards of `flow_cards` satisfy it. |

**Session API** (`KeycardContextV2_proofs`, `KeycardContextV2_control_proofs`, `KeycardContextV2_safety_proofs`).

* `TypeCorrect`: `[]TypeOK`. `TypeOK` alone is not inductive: a request is only known
  to be one the card understands because of the command its goroutine is at.
  `TypeInv` adds that a goroutine asking for the lock is at a command that
  needs it. One step for each action; lemmas say what the helpers (`Goto`,
  `HandOver`, `GiveUp`, `MetadataDone`) do to types, and `CardAnswers` that a
  card stays a card whatever it is asked.
* `Control`: `[]ControlInv`, from which `OneMonitor` (`AtMostOneMonitor`),
  `LockDiscipline` (`MutexExact`) and `Delivery` (`QueueMatchesWaiters`) follow.
  None of the three is inductive by itself. A reply sets the goroutine it is for
  to `got`: were that goroutine not waiting, the reply could revive a monitor
  that has ended (two monitors) or put a goroutine inside a command it does not
  hold the lock for. So the queue discipline is needed for the other two, and
  it in turn needs that a goroutine appends a request only when it has none
  queued, which for locked commands is the lock. `ClientCommands` and
  `OffIsIdle` complete the invariant: only the monitor sends the two commands
  that go without the lock, and nothing runs before `Start`.
* `CardsArePairedOnce` (`PairsOnce`) from `PairInv`: a card lacks at most the slots
  that are `torn` and one more, and that one only if it is in the store or a
  monitor holds the reply that puts it there (`SlotsFit`); and a monitor that asks
  for a pairing asks for it of a card that is not in the store. For the latter the
  card that was selected must still be the connected one from the select over the
  lookup to the request (`HeedFits`). A pairing nobody hears of, because its answer
  is lost or Stop made the `Transmit` give up, adds one to both sides.
* `RestsPublished` (`RestIsPublished`) from `DebtInv`: if what was published last
  is not the status, some goroutine is on its way to publishing it.
* `CalmClientsNeverPanic` (`NoPanic`) from `CalmInv`: while the client uses the
  connection the monitor waits, so that what the guards of its call found is still so
  at every dereference (`ClientCalm`); while the monitor works, the client is idle
  or in the `forceScan` of a reset or an initialization; the monitor has a
  connection and an AppInfo wherever it uses them (`MonitorCalm`), and every
  connection is to a card that answers, so that no PC/SC error drops it.
* `AnnouncedCardsAreWhole` (`ReadyIsCoherent`) from `CohInv`. The counters come with a
  status that the card answers on an open channel, and the application info from
  the selection before it; the property needs them to be of one card although the
  selection is long over when an RPC refreshes the status. `ChannelFits` bridges that:
  only a card that the link is to has an open channel, it is initialized, and the
  application info of the status is its own, except between the beginning and the
  end of a reset. It holds because a channel is opened only by a monitor that has just read
  that info with no channel open anywhere (`BeforeChannel`), because a card that is moved
  loses its channel, and because whatever else changes the info does so with all channels
  closed. `LinkFits` says that the card of the link is in the reader of the monitor,
  so that a watcher that sees the reader empty knows the channel gone, and `ClientSettled`
  that a client with a command under way either has the monitor watching or finds no
  card in the reader, so that the monitor cannot connect anew underneath it.

**Flow control** (`FlowControl_proofs`). A chain of invariants, each on top of the one before.

* `TypeInv` = types and `ContextOwned`: what a run refers to is a context that is
  not free, no other run refers to it, and a run has one exactly at the places
  where it uses one. Without it the reuse of a context could give a run two.
  `TypeCorrect` and, from `ContextInv`, `ContextsAreStopped` (`LeaksOnlyByCancel`).
* `EndInv` adds `CancelReaches`: while the state is Cancelling every run alive has
  been told so, which is what lets `Exit` read it and still have announced its
  end. `EndsAreAnnounced` (`NoSilentEnd`), for any number of threads.
* `AloneInv`, with `OneCaller`: two live runs are the same run, Idle means that
  there is none, and a thread inside `Start` found Idle. `OneFlowAtATime` (`OneFlow`).
* `PatientInv`, with `Patient` as well: what the state, `asked` and the last signal
  are at each position of the run (`RunFits`), what a call inside `Resume` or
  `Cancel` may count on (`CallFits`), and that an answer sent finds its receiver
  (`AnswersArrive`). `WaitsAnnounced`, `IdleAgain`, `PatienceNeverPanics`.
* `KeepsProtocol`: under the same hypotheses every step is a step of
  `FlowProtocol` or leaves `PhaseBar` and `HeardBar` alone; `PatientInv` says from
  which phase each step starts. This is `Protocol!Safety`; the progress part of
  `ImplementsProtocol` stays with TLC.

**Flow commands** (`FlowCommands_proofs`).

* `FlowInv`, the invariant of all seven theorems, says what a flow knows at each
  step of its type: which steps can be left (`OfType`), which card information
  is already read, that the link is to the card that was selected, that what is
  known of the card is still true while it has not been pulled (`InfoFits`),
  that a flow about to pair has no pairing in memory and, with a known CA, may
  trust the card (`PairFits`), and that memory has what the file has (`MemFits`).
  The proof is by the steps of `f.todo`; a restart or a swap brings the flow back
  to the beginning, where nothing is known, which is why no card can inherit
  what was checked on another.
* `TypeCorrect`, `LoadsAreAllowed` (`LoadIsAllowed`) and `ReportsAreTrue`
  (`ResultsAreTrue`) follow from it alone. `TriesAreEntered` (`PinTriesAreEntered`) adds
  `PinInv`: tries burnt plus PINs still in the parameters are at most the PINs entered
  plus the verdicts unheard, so each refusal that was heard must have dropped one.
  A verdict that got lost leaves the PIN where it is (`commands.go:263`), and the
  restart sends it again: one entry can then cost two tries, which is why
  `unheard` is in the property. `SlotsAreAccounted` (`SlotsAccounted`) adds
  `SlotInv`: a card lacks at most the slots that were torn, and one for the
  pairing that the file has or that is being stored. `OnlyTheInsistedCard`
  (`InstanceRespected`) and `OnlyGenuineCardsPair` (`PairsGenuine`) are action properties
  of the steps from a state with `FlowInv`.

**Mock** (`MockedFlow_proofs`).

* `TypeInv` adds to the types that the goroutines are at most `MaxRuns` and that a
  card with keys has an instance: the handlers that load keys need it to leave
  a card behind. `TypeCorrect`; `TriesAreWorthIt` (`TriesAreEarned`), handler by handler.
* `NothingIsLost` (`RestIsSaved`) from `SaveInv`: memory and disk agree unless a
  goroutine is under way that will store, or a write failed.
* `CalmFits`, for a calm client: one goroutine at a time, and while one stores the
  card is still there; a try that a goroutine is about to use up has a call that
  pays for it (`Budget`); and what the client was told is what the state says
  (`ToldFits`), for every handler but that of `ChangePIN`. `TriesAreCalls` (`TriesAreAsked`), `CalmNeverPanics`, and
  `KeepsProtocol` (`ImplementsProtocol`).

**Library** (`Library_proofs`). `TypeCorrect`, and under `Tidy` the invariant
`TidyInv`: the globals agree with each other and with what runs, at most one
object runs or can be set to run (`APIFits`); what a thread inside a call has
checked is still so, which needs that it is the only one inside (`CallsFit`);
each object that can pair knows every pairing that was made and not lost, and
so does the file except while it is being written (`SlotsFit`). From it
`OneAPIAtATime` (`OneAPI`), `NothingLeftBehind` (`NoOrphans`) and `CardsPairOnce`
(`SlotsAccounted`). The counting of pairings over lives
needs the exclusion of the APIs: two objects at once would each store over the
other, as `v_stop_start` does.

**Server** (`SignalServer_proofs`). `TypeInv` (types, and each change of the status is
sent at most once) and `OrderInv`: the publisher that holds `connectionsLock` is
the one that writes, its signal is the last one sent, and each connection in
the map has got everything since it was registered but for the signal the holder has
yet to write to it. `TypeCorrect`, `SignalsInOrder` (`NoGaps`); neither needs a
client that behaves.

Only model-checked is liveness, which is out of the prover's reach: `CallsReturn`,
`CommandsLeadOn`, `AbsenceIsAnnounced`, `EndsOrWaits`, `WorksOrAsks`,
`CallsAreAnswered`, `PublishReturns` and the progress of `FlowProtocol`.

## 5. Not modelled

* JSON, logging, the C callback, HTTP and the websocket protocol: conversions and
  transport without state of their own.
* Key values, names, paths and mnemonics, and with them the keys and wallets
  the mock reports. That two keys of one `ExportRecoverKeys` reply may come from
  two cards (`keycard_context_v2.go:883`) can therefore not be stated.
* Request validation in the session service (a request that is refused changes
  nothing), and parameters of a flow with the wrong JSON type.
* A command that is several APDUs is one exchange, except the factory reset of
  the flow API.
* A card whose pairings were removed by another program while this one still
  has them stored; an error that a card answers to every select, with which a
  flow would restart for ever (`commands.go:35`).
* A pairings file that fails to be written in the session model, and one that
  fails to be opened for writing and so keeps what it had (`Library` has the
  failure after the file was emptied, which loses more).
* In the mock: races inside one handler, and in the run the flow types it has
  no handler for, which neither end nor ask anything. The handler of `LoadAccount`
  returns in silence when a pairing cannot be stored
  (`mocked_flow_load_account.go:95`, `128`), so `CallsAreAnswered` says nothing once a
  write has failed.
* In the flow API, the client that insists on a reset of a card that has lost its
  applet (`keycard_context.go:467`): the model has the steps, but no property says when the
  request for the reset may be dropped.
* `pkg/utils`, the constants and the examples: pure functions.

## 6. Where the code departs from its own words

Two disagreements are kept as runs that TLC must find violated:

* `v_panic` (`NoPanic`): the guards of the session's commands run before
  `cmdSetMutex` is taken. In the run the card is removed during Pair, the guard of
  FactoryReset passes, the monitor resets the connection, and `cmdSet` is nil when it
  is used.
* `v_monitor` (`MonitorSurvives`): a reader without a card that is unplugged between
  the listing of the readers and the call of `GetStatusChange` makes it fail, and the monitoring ends although the service
  was not stopped.

Others met on the way have their property in the module and a configuration
with its name, so that the counterexample can be had with
`tlc -config <name>.cfg <module>`; they are not among the runs. A configuration that
refutes more than one names the others in a comment. Session
(`MCKeycardContextV2`): `v_serial` (pairing and opening the channel overlap a
locked command), `v_authorized` and `v_ready` (the announced authorization is not
the card's), `v_empty` (an empty card announced with the AppStatus of another),
`v_internal` (Stop makes a detection publish InternalError), `v_publish` (a failed
StoreMetadata leaves its state unpublished), `v_hang` (a call blocks in `forceScan`
when the reader is gone), `v_swap` (a card swapped between two polls goes
unnoticed), `v_metadata` (a new card announced with the metadata of the one before: `VerifyPIN`
meets the error of a card that was swapped between two polls, the connection is made anew, and
its `onAuthorizeInteractions` publishes the status before the monitor has come to
`updateMetadata`; with cards moved at any time also
`ReadyIsCoherent`). Flow (`MCFlowControl`): `v_flow_panic` (resuming a flow when the card it asked for
is inserted, as `README.md:16` says, panics in `connect`), `v_flow_answer` (signals
are sent before the state is written, so the client's next call is refused),
`v_flow_hang` (a call never returns when the card arrives first), `v_flow_stuck` (a
Cancel that races with the end or with a pause leaves a state that is not Idle or
not Paused, and a cancelled flow asks for a card), `v_flow_twice` (two Starts at once).
Flow (`MCFlowCommands`): `v_flow_slots` (UnpairOthers reports the slots of
before), `v_flow_nil` (a failed export of the master key is dereferenced before
the error is looked at). Mock (`MCMockedFlow`): `v_mock_panic` (the card is removed
as soon as the mock has asked something, and `runFlow` dereferences it),
`v_mock_result` (after the result of ChangePIN the next Start is refused). Library
(`MCLibrary`): `v_started` (a Start that failed leaves a context, and the next is
"already started"), `v_exclusion` (two threads pass the checks together), `v_reset` (a reset forgets a flow or a session that runs on),
`v_stop_start` (Stop does not wait for the goroutines, and a pairing of the stopped
context is lost to the next). Server (`MCSignalServer`): `v_signals` (of two
signals the older status is written last, and a connection that is
registered while `Stop` works outlives it), `v_server_map` (`Stop` walks the map of
connections without the lock).

## 7. Plan

Done: models of the session API, of the control and the commands of the flow
API, of the mock, the exported library, the pairings file and the server; the
abstract flow and its refinement by the control and by the mock; types and all
safety invariants and action properties of the runs proved. Left, in order of
importance:

1. `SessionStatus`, an abstract life of the announced status that
   `KeycardContextV2` implements.
2. The step from `FlowCommands` to `FlowProtocol`, whose crashes and connection
   phase need a mapping of their own.
3. `AnnouncedCardsAreWhole` for several readers, where a command can overlap the
   monitor's connection to the card of another reader.
