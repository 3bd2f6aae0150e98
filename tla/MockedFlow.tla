------------------------------ MODULE MockedFlow ------------------------------
(***************************************************************************)
(* The mocked library (shared-mocked, pkg/flow/mocked): a second           *)
(* implementation of the flow API, without a reader, that clients are      *)
(* tested against.  A test registers keycards, plugs the reader and        *)
(* inserts them, and drives flows as it would drive the real ones.         *)
(*                                                                         *)
(* There is no goroutine per flow: every call that may make progress       *)
(* starts one, which looks at the reader, handles the flow once and stores *)
(* the cards.  Several can be under way.  Handling is one step here, up to *)
(* the signal; storing is another, and the client, who is called back by   *)
(* the signal, can act in between.                                         *)
(*                                                                         *)
(* A secret of the wrong length counts as none; the exported keys and the  *)
(* wallets of a card are left out.  All registered cards have the instance *)
(* UID of the mock, so that one pairing serves them all, and the helper of *)
(* a card that the client supplies has the keys of the mock.               *)
(*                                                                         *)
(* A calm client waits for the answer before it calls again; it starts     *)
(* a flow with the reader plugged, unplugs it when it has the result and   *)
(* drops no flow.  Another client does as it likes.                        *)
(*                                                                         *)
(* Bounds: MaxCalls calls of the flow API, MaxHasty by a client that is    *)
(* not calm, MaxEvents other calls, MaxRuns goroutines at once and         *)
(* MaxFaults failed writes.                                                *)
(***************************************************************************)
EXTENDS Integers

CONSTANTS
    Slots,           \* the indices cards are registered under
    PINs, PUKs,      \* well-formed secrets
    DefaultPIN, DefaultPUK,
    None,
    Flows,           \* the flow types the client starts
    Opening,         \* the parameters it starts them with
    Answers,         \* the parameters it resumes them with
    Kinds,           \* the kinds of cards it registers
    Custom,          \* the cards it supplies itself
    Events,          \* what it does to the reader and the cards
    Manners,         \* the values calm can have
    MaxPIN, MaxPUK, MaxCalls, MaxHasty, MaxEvents, MaxRuns, MaxFaults

Ladders  == {"RecoverAccount", "Login", "ExportPublic"}
FlowType == Ladders \cup {"GetAppInfo", "LoadAccount", "ChangePIN", "ChangePUK",
                          "StoreMetadata", "GetMetadata", "Other"}
Flag     == {"FactoryReset", "Overwrite", "ResolveAddr", "CardName"}
Params   == [pin : PINs \cup {None}, newPIN : PINs \cup {None},
             puk : PUKs \cup {None}, newPUK : PUKs \cup {None},
             mnemonic : {None, "short", "right"}, has : SUBSET Flag]
NoParams == [pin |-> None, newPIN |-> None, puk |-> None, newPUK |-> None,
             mnemonic |-> None, has |-> {}]

\* MockedKeycard: alien for NotStatusKeycard, full when no pairing slot is free.
Card  == [alien : BOOLEAN, uid : BOOLEAN, key : BOOLEAN, full : BOOLEAN, meta : BOOLEAN,
          pinTries : 0..MaxPIN, pukTries : 0..MaxPUK,
          pin : PINs \cup {None}, puk : PUKs \cup {None}]
Blank == [alien |-> FALSE, uid |-> FALSE, key |-> FALSE, full |-> TRUE, meta |-> FALSE,
          pinTries |-> 0, pukTries |-> 0, pin |-> None, puk |-> None]
Made  == [alien |-> FALSE, uid |-> TRUE, key |-> TRUE, full |-> FALSE, meta |-> TRUE,
          pinTries |-> MaxPIN, pukTries |-> MaxPUK, pin |-> DefaultPIN, puk |-> DefaultPUK]

Kind == {"NotStatusKeycard", "EmptyKeycard", "MaxPairingSlotsReached",
         "MaxPINRetriesReached", "MaxPUKRetriesReached", "KeycardWithMnemonicOnly",
         "KeycardWithMnemonicAndMetadata", "Custom", "CustomMissing"}

Signal == {"flow-result", "insert-card", "SwapCard", "EnterPIN", "EnterPUK",
           "EnterNewPIN", "EnterNewPUK", "EnterMnemonic", "EnterName"}
Event  == {"plug", "unplug", "insert", "remove", "register", "restart"}

ASSUME MockedFlowAssumption ==
    /\ None \notin PINs \cup PUKs \cup Slots \cup Card \cup Signal
    /\ DefaultPIN \in PINs /\ DefaultPUK \in PUKs
    /\ Flows \subseteq FlowType /\ Kinds \subseteq Kind /\ Events \subseteq Event
    /\ Opening \cup Answers \subseteq Params
    /\ \A c \in Custom : c \in Card /\ (c.key => c.uid)
    /\ Manners \subseteq BOOLEAN
    /\ {MaxPIN, MaxPUK} \subseteq Nat \ {0}
    /\ {MaxCalls, MaxHasty, MaxEvents, MaxRuns, MaxFaults} \subseteq Nat
    /\ MaxHasty <= MaxCalls

VARIABLES
    state, type, params,   \* of MockedKeycardFlow
    reader,                \* currentReaderState
    inserted,              \* the index of insertedKeycard, or None
    cards,                 \* registeredKeycards
    paired,                \* the mock's instance UID is in the pairing store
    saved,                 \* the cards and the pairing on disk
    starting, storing,     \* goroutines before the handler, and after it
    told,                  \* the last signal since Start or Resume
    panicked,
    calm,                  \* the client is calm
    calls, events, faults, \* what has been used of the bounds
    burnt                  \* tries that wrong secrets have cost

flow   == <<state, type, params>>
device == <<reader, inserted>>
runs   == <<starting, storing>>
bounds == <<calls, events, faults>>
vars   == <<flow, device, cards, paired, saved, runs, told, panicked, calm, bounds, burnt>>

TypeOK ==
    /\ state \in {"Idle", "Running", "Paused"}
    /\ type \in FlowType /\ params \in Params
    /\ reader \in {"NoReader", "NoKeycard", "KeycardInserted"}
    /\ inserted \in Slots \cup {None}
    /\ inserted # None => cards[inserted] # None
    /\ reader = "KeycardInserted" => inserted # None
    /\ cards \in [Slots -> Card \cup {None}]
    /\ paired \in BOOLEAN
    /\ saved \in [cards : [Slots -> Card \cup {None}], paired : BOOLEAN]
    /\ starting \in 0..MaxRuns /\ storing \in 0..MaxRuns
    /\ told \in Signal \cup {None}
    /\ panicked \in BOOLEAN /\ calm \in Manners
    /\ calls \in 0..MaxCalls /\ events \in 0..MaxEvents /\ faults \in 0..MaxFaults
    /\ burnt \in Nat

Init ==
    /\ state = "Idle" /\ type = "GetAppInfo" /\ params = NoParams
    /\ reader = "NoReader" /\ inserted = None
    /\ cards = [s \in Slots |-> None] /\ paired = FALSE
    /\ saved = [cards |-> cards, paired |-> FALSE]
    /\ starting = 0 /\ storing = 0
    /\ told = None /\ panicked = FALSE /\ calm \in Manners
    /\ calls = 0 /\ events = 0 /\ faults = 0 /\ burnt = 0

-----------------------------------------------------------------------------
\* The handlers, as functions of the inserted card and the parameters: the
\* card they leave, the state they set and the signal they send.

Has(flag) == flag \in params.has

Pauses(c, signal) == [card |-> c, state |-> "Paused", signal |-> signal]
\* Mutant: the result is sent and the state forgotten, in every handler.
EndsForgetful(c)  == [card |-> c, state |-> state, signal |-> "flow-result"]
Ends(c)           == [card |-> c, state |-> "Idle", signal |-> "flow-result"]

NewPINGiven == params.pin # None /\ params.pin = params.newPIN

\* A wrong PIN or PUK costs a try, and what is asked for next depends on the
\* tries that are left.
Checked(c) ==
    LET PUKLeft == [c EXCEPT !.pukTries = @ - 1]
        PINLeft == [c EXCEPT !.pinTries = @ - 1]
    IN CASE c.pukTries = 0 -> Pauses(c, "SwapCard")
         [] c.pukTries > 0 /\ c.pinTries = 0 ->
              IF params.puk = None THEN Pauses(c, "EnterPUK")
              ELSE IF ~NewPINGiven THEN Pauses(c, "EnterNewPIN")
              ELSE IF params.puk = c.puk THEN Pauses(c, "EnterPIN")
              ELSE Pauses(PUKLeft, IF PUKLeft.pukTries = 0 THEN "SwapCard" ELSE "EnterPUK")
         [] c.pukTries > 0 /\ c.pinTries > 0 ->
              IF params.newPIN = None /\ params.pin \notin {None, c.pin}
              THEN Pauses(PINLeft, IF PINLeft.pinTries = 0 THEN "EnterPUK" ELSE "EnterPIN")
              ELSE Pauses(c, "EnterPIN")

PINRight(c) == c.pinTries > 0 /\ params.pin # None /\ params.pin = c.pin
\* Mutant: the PUK is not compared.
PUKGiven(c) == c.pinTries = 0 /\ c.pukTries > 0 /\ params.puk # None /\ NewPINGiven
PUKRight(c) == /\ c.pinTries = 0 /\ c.pukTries > 0
               /\ params.puk # None /\ params.puk = c.puk /\ NewPINGiven
Unlocked(c) == PINRight(c) \/ PUKRight(c)

Renewed(c) == [c EXCEPT !.pinTries = MaxPIN, !.pukTries = MaxPUK, !.pin = params.pin]

GetAppInfo(c) ==
    IF ~(c.uid /\ c.key) THEN Pauses(c, "SwapCard")
    ELSE IF Has("FactoryReset") THEN Ends(Blank)
    ELSE IF params.pin # None /\ params.pin = c.pin THEN Ends(c)
    ELSE Pauses(c, "EnterPIN")

\* The result of a change of PIN leaves the state as it is.
ChangePIN(c) ==
    LET ladder == Checked(c)
        d      == ladder.card
    IN IF ~c.uid /\ ~c.key THEN Pauses(c, "EnterNewPIN")
       ELSE IF c.full THEN Pauses(c, "SwapCard")
       ELSE IF params.newPIN = None
            THEN IF PINRight(d) THEN Pauses(Renewed(d), "EnterNewPIN") ELSE ladder
       ELSE IF (Has("Overwrite") /\ NewPINGiven) \/ PUKRight(d)
            THEN [Ends(Renewed(d)) EXCEPT !.state = state]
       ELSE ladder

ChangePUK(c) ==
    LET ladder == Checked(c)
        d      == ladder.card
    IN IF ~c.uid /\ ~c.key THEN Pauses(c, "EnterNewPIN")
       ELSE IF c.full THEN Pauses(c, "SwapCard")
       ELSE IF ~Unlocked(d) THEN ladder
       ELSE IF params.newPUK = None THEN Pauses(Renewed(d), "EnterNewPUK")
       ELSE IF Has("Overwrite") /\ params.puk = params.newPUK
            THEN Ends([d EXCEPT !.pinTries = MaxPIN, !.pukTries = MaxPUK, !.puk = params.puk])
       ELSE ladder

\* handleExportPublicFlow, handleLoginFlow and handleRecoverAccountFlow differ
\* in the keys they report.
ExportKeys(c) ==
    LET ladder == Checked(c)
    IN IF ~(c.uid /\ c.key) THEN Pauses(c, "SwapCard")
       ELSE IF Unlocked(ladder.card) THEN Ends(Renewed(ladder.card)) ELSE ladder

GetMetadata(c) ==
    IF ~(c.uid /\ c.key) THEN Ends(c)
    ELSE IF ~Has("ResolveAddr") THEN Ends(c)
    ELSE IF c.full THEN Pauses(c, "SwapCard")
    ELSE ExportKeys(c)

StoreMetadata(c) ==
    IF params.pin = None \/ params.pin # c.pin THEN Pauses(c, "EnterPIN")
    ELSE IF ~Has("CardName") THEN Pauses(c, "EnterName")
    ELSE Ends([c EXCEPT !.meta = TRUE])

\* The keys are taken from the helper, which has those of the mock.
LoadAccount(c) ==
    LET d    == IF Has("FactoryReset") THEN Blank ELSE c
        half == [d EXCEPT !.uid = TRUE]
        full == [d EXCEPT !.uid = TRUE, !.key = TRUE, !.full = FALSE,
                          !.pin = params.pin, !.puk = params.newPUK,
                          !.pinTries = MaxPIN, !.pukTries = MaxPUK]
    IN IF d.uid /\ d.key THEN Pauses(d, "SwapCard")
       ELSE IF ~NewPINGiven \/ params.newPUK = None THEN Pauses(d, "EnterNewPIN")
       ELSE IF Has("Overwrite") /\ params.mnemonic = None THEN Pauses(half, "EnterMnemonic")
       ELSE IF params.mnemonic = "right" THEN Ends(full)
       ELSE Pauses(d, "EnterNewPIN")

\* The mock knows no other flow: it neither ends nor asks.
Handled(c) ==
    IF type = "Other" THEN [card |-> c, state |-> state, signal |-> told]
    ELSE IF c.alien THEN Pauses(c, "SwapCard")
    ELSE CASE type = "GetAppInfo"    -> GetAppInfo(c)
           [] type = "ChangePIN"     -> ChangePIN(c)
           [] type = "ChangePUK"     -> ChangePUK(c)
           [] type \in Ladders       -> ExportKeys(c)
           [] type = "GetMetadata"   -> GetMetadata(c)
           [] type = "StoreMetadata" -> StoreMetadata(c)
           [] type = "LoadAccount"   -> LoadAccount(c)

\* LoadAccount stores the pairing itself before it answers, and says nothing
\* when that fails.
StoresPairing(done) ==
    type = "LoadAccount" /\ done.card.uid /\ done.signal \in {"EnterMnemonic", "flow-result"}

-----------------------------------------------------------------------------
\* The goroutines: runFlow.

Cost(c, d) == (c.pinTries + c.pukTries) - (d.pinTries + d.pukTries)

\* A file that cannot be written.
WriteFails == faults < MaxFaults /\ faults' = faults + 1

\* Mutant: a client whose card is missing is not told so.
NoCardUntold == IF reader = "NoReader" THEN "flow-result" ELSE told
NoCardSignal == IF reader = "NoReader" THEN "flow-result" ELSE "insert-card"

\* Without a card the flow is answered, and its state is left alone.
AnswerNoCard ==
    /\ starting > 0 /\ reader # "KeycardInserted"
    /\ starting' = starting - 1
    /\ told' = NoCardSignal
    /\ UNCHANGED <<flow, device, cards, paired, saved, storing, panicked, calm, bounds, burnt>>

Handle ==
    /\ starting > 0 /\ reader = "KeycardInserted"
    /\ starting' = starting - 1 /\ storing' = storing + 1
    /\ LET c    == cards[inserted]
           done == Handled(c)
       IN /\ cards' = [cards EXCEPT ![inserted] = done.card]
          /\ burnt' = IF done.state = "Paused" /\ c.key /\ done.card.key /\ Cost(c, done.card) > 0
                      THEN burnt + Cost(c, done.card) ELSE burnt
          /\ paired' = (paired \/ StoresPairing(done))
          /\ \/ /\ state' = done.state /\ told' = done.signal
                /\ saved' = IF StoresPairing(done) THEN [saved EXCEPT !.paired = TRUE] ELSE saved
                /\ UNCHANGED faults
             \/ StoresPairing(done) /\ WriteFails /\ UNCHANGED <<state, told, saved>>
    /\ UNCHANGED <<type, params, device, panicked, calm, calls, events>>

\* Mutant: the cards are stored only with a new pairing.
StoreNewCard ==
    /\ storing > 0 /\ inserted # None
    /\ storing' = storing - 1
    /\ paired' = (paired \/ cards[inserted].uid)
    /\ saved' = IF paired' = paired THEN saved ELSE [cards |-> cards, paired |-> TRUE]
    /\ UNCHANGED <<flow, device, cards, starting, told, panicked, calm, bounds, burnt>>

\* The end of runFlow: a card that was removed meanwhile is dereferenced.
StoreCards ==
    /\ storing > 0
    /\ storing' = storing - 1
    /\ IF inserted = None
       THEN panicked' = TRUE /\ UNCHANGED <<paired, saved, faults>>
       ELSE /\ paired' = (paired \/ cards[inserted].uid)
            /\ \/ saved' = [cards |-> cards, paired |-> paired'] /\ UNCHANGED faults
               \/ WriteFails /\ \/ saved' = [saved EXCEPT !.cards = cards]
                                \/ saved' = [saved EXCEPT !.paired = paired']
            /\ UNCHANGED panicked
    /\ UNCHANGED <<flow, device, cards, starting, told, calm, calls, events, burnt>>

-----------------------------------------------------------------------------
\* The client: the exported functions.  Calls that are refused change nothing.

Quiet == starting = 0 /\ storing = 0

Call ==
    /\ calm => state = "Idle" \/ told # None
    /\ calls < (IF calm THEN MaxCalls ELSE MaxHasty)
    /\ calls' = calls + 1 /\ UNCHANGED <<events, faults, calm>>
Occurs == events < MaxEvents /\ events' = events + 1 /\ UNCHANGED <<calls, calm>>
Happens == Occurs /\ UNCHANGED faults
Spawn  == starting + storing < MaxRuns /\ starting' = starting + 1

Start(t, p) ==
    /\ Call /\ state = "Idle" /\ (calm => reader # "NoReader")
    /\ state' = "Running" /\ type' = t /\ params' = p
    /\ Spawn /\ told' = None
    /\ UNCHANGED <<device, cards, paired, saved, storing, panicked, burnt>>

Merged(p) == [k \in DOMAIN p |-> IF k = "has" THEN params.has \cup p.has
                                 ELSE IF p[k] = None THEN params[k] ELSE p[k]]

\* The flow stays Paused until the goroutine has handled it.
Resume(p) ==
    /\ Call /\ state = "Paused"
    /\ params' = Merged(p)
    /\ Spawn /\ told' = None
    /\ UNCHANGED <<state, type, device, cards, paired, saved, storing, panicked, burnt>>

Cancel ==
    /\ Call /\ state # "Idle"
    /\ state' = "Idle" /\ params' = NoParams
    /\ UNCHANGED <<type, device, cards, paired, saved, runs, told, panicked, burnt>>

Device(r, i) == reader' = r /\ inserted' = i
\* Mutant: the flow is run again whatever it is doing.
AlwaysRerun(b) == Spawn
RerunIf(b) == IF b THEN Spawn ELSE UNCHANGED starting

ReaderPluggedIn ==
    /\ "plug" \in Events /\ Happens
    /\ Device("NoKeycard", inserted) /\ RerunIf(state = "Running")
    /\ UNCHANGED <<flow, cards, paired, saved, storing, told, panicked, burnt>>

\* The flow is run again even when it is not running.
ReaderUnplugged ==
    /\ "unplug" \in Events /\ Happens
    /\ calm => state = "Idle" /\ told = "flow-result"
    /\ Device("NoReader", inserted) /\ Spawn
    /\ UNCHANGED <<flow, cards, paired, saved, storing, told, panicked, burnt>>

KeycardInserted(i) ==
    /\ "insert" \in Events /\ Happens /\ cards[i] # None
    /\ Device("KeycardInserted", i) /\ RerunIf(state = "Running")
    /\ UNCHANGED <<flow, cards, paired, saved, storing, told, panicked, burnt>>

\* Mutant: the reader is not told.
CardForgotten ==
    /\ "remove" \in Events /\ Happens
    /\ Device(reader, None) /\ RerunIf(state = "Running")
    /\ UNCHANGED <<flow, cards, paired, saved, storing, told, panicked, burnt>>

KeycardRemoved ==
    /\ "remove" \in Events /\ Happens
    /\ Device("NoKeycard", None) /\ RerunIf(state = "Running")
    /\ UNCHANGED <<flow, cards, paired, saved, storing, told, panicked, burnt>>

Known(kind) ==
    CASE kind = "NotStatusKeycard"       -> [Made EXCEPT !.alien = TRUE]
      [] kind = "EmptyKeycard"           -> Blank
      [] kind = "MaxPairingSlotsReached" -> [Made EXCEPT !.full = TRUE]
      [] kind = "MaxPINRetriesReached"   -> [Made EXCEPT !.pinTries = 0]
      [] kind = "MaxPUKRetriesReached"   -> [Made EXCEPT !.pukTries = 0]
      [] kind = "KeycardWithMnemonicOnly" -> [Made EXCEPT !.meta = FALSE]
      [] kind = "KeycardWithMnemonicAndMetadata" -> Made

\* The cards that can be registered as one of a kind.
Registered(kind) ==
    CASE kind = "Custom"        -> Custom
      [] kind = "CustomMissing" -> {}
      [] OTHER                  -> {Known(kind)}

\* The flow is stopped first, whatever becomes of the registration.
RegisterKeycard(i, r, kind) ==
    /\ "register" \in Events /\ Occurs /\ (calm => state = "Idle")
    /\ state' = "Idle" /\ params' = NoParams
    /\ \/ kind = "CustomMissing" /\ UNCHANGED <<device, cards, saved, faults>>
       \/ \E c \in Registered(kind) :
             /\ cards' = [cards EXCEPT ![i] = c]
             /\ Device(r, i)
             /\ \/ saved' = [saved EXCEPT !.cards = cards'] /\ UNCHANGED faults
                \/ WriteFails /\ UNCHANGED saved
    /\ UNCHANGED <<type, paired, runs, told, panicked, burnt>>

\* The process ends, and NewMockedFlow reads what it left.
Restart ==
    /\ "restart" \in Events /\ Happens /\ (calm => Quiet /\ state = "Idle")
    /\ state' = "Idle" /\ type' = "GetAppInfo" /\ params' = NoParams
    /\ Device("NoReader", None)
    /\ cards' = saved.cards /\ paired' = saved.paired
    /\ starting' = 0 /\ storing' = 0
    /\ UNCHANGED <<saved, told, panicked, burnt>>

FlowCall ==
    \/ \E t \in Flows, p \in Opening : Start(t, p)
    \/ \E p \in Answers : Resume(p)
    \/ Cancel

DeviceCall ==
    \/ ReaderPluggedIn \/ ReaderUnplugged \/ KeycardRemoved
    \/ \E i \in Slots : KeycardInserted(i)
    \/ \E i \in Slots, r \in {"NoReader", "NoKeycard", "KeycardInserted"}, kind \in Kinds :
          RegisterKeycard(i, r, kind)

Client == (calm => Quiet) /\ (FlowCall \/ DeviceCall)

RunFlow == AnswerNoCard \/ Handle \/ StoreCards

Next == ~panicked /\ (Client \/ RunFlow \/ Restart)

Spec == Init /\ [][Next]_vars

\* A goroutine that has been started is run.
FairSpec == Spec /\ WF_vars(~panicked /\ (AnswerNoCard \/ Handle)) /\ WF_vars(~panicked /\ StoreCards)

-----------------------------------------------------------------------------
\* Properties.

\* Once the goroutines are done, what is on disk is what the mock has in memory,
\* so that a restart loses nothing: runFlow stores the cards after every
\* handler, whichever way it returned (mocked_flow.go:233).
RestIsSaved ==
    Quiet /\ ~panicked /\ faults = 0 => saved = [cards |-> cards, paired |-> paired]

\* Every try a card counts down is one call of a calm client: the mock handles
\* a flow again when a card is inserted, and tries no secret twice
\* (mocked_flow.go:128).
TriesAreAsked == calm => burnt <= calls

\* The tries of a card that is set up go up only for its PIN or its PUK.  Only
\* ChangePIN with Overwrite, which checks neither, and the flows and
\* registrations that start from a new card give them without.
TriesAreEarned ==
    [][\A i \in Slots :
         LET c == cards[i]  d == cards'[i]
         IN /\ c # None /\ c # d /\ storing' > storing
            /\ c.key /\ d.key /\ (d.pinTries > c.pinTries \/ d.pukTries > c.pukTries)
            => \/ c.pinTries > 0 /\ params.pin = c.pin
               \/ c.pukTries > 0 /\ params.puk = c.puk
               \/ type = "ChangePIN" /\ Has("Overwrite")
               \/ type = "LoadAccount" /\ Has("FactoryReset")]_vars

\* When the mock has given a result another flow can be started: a client
\* refutes it with ChangePIN, or without a reader (mocked_flow.go:55).
ResultMeansIdle == starting = 0 /\ told = "flow-result" => state = "Idle"

\* The mock never dies: a client that does not wait refutes it, when it removes
\* the card as soon as it is asked something (mocked_flow.go:223).
NoPanic == ~panicked

\* Whatever a calm client starts or resumes is answered, unless a file could
\* not be written.
CallsAreAnswered == calm /\ starting > 0 ~> told # None \/ faults > 0

-----------------------------------------------------------------------------
\* The abstract flow: a goroutine that is on its way works, and so does a flow
\* that has said nothing yet.  A flow that asks can be resumed, so it is Paused;
\* one that says that it is done is Idle, so that another can be started.  What is
\* said in any other state is shown as the result of a flow that goes on, which
\* the protocol does not have.  The one handler known to leave the state as it was
\* is that of ChangePIN (see ResultMeansIdle): it has ended when it has said so,
\* and what it does when it is resumed or run again is shown as another flow.
\* A hasty client's flow is not shown.

Resulted == type = "ChangePIN" /\ told = "flow-result" /\ starting = 0
PhaseBar == IF ~calm \/ state = "Idle" \/ Resulted THEN "idle"
            ELSE IF starting > 0 \/ told = None THEN "working" ELSE "asking"
HeardBar == CASE PhaseBar = "asking"  -> IF told = "insert-card" THEN "card"
                                         ELSE IF state = "Paused" /\ told # "flow-result"
                                         THEN "question" ELSE "result"
              [] PhaseBar = "working" -> "nothing"
              [] PhaseBar = "idle"    -> IF calm /\ told = "flow-result" THEN "result"
                                         ELSE "nothing"

Protocol == INSTANCE FlowProtocol WITH phase <- PhaseBar, heard <- HeardBar

\* For a calm client the mock implements the same abstract flow as the library
\* it stands for: the flow works, asks or ends as that one would, and a card
\* that is moved neither answers a question nor repeats a result.
ImplementsProtocol == Protocol!Safety
=============================================================================
