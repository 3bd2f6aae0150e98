---------------------------- MODULE FlowCommands ----------------------------
(***************************************************************************)
(* What a flow does between the connection to a card and its result: the   *)
(* body of connectedFlow with the commands of pkg/flow/commands.go, the    *)
(* card information and parameters they work on, and the pairing store.    *)
(*                                                                         *)
(* One flow runs at a time and the client answers while the flow waits;    *)
(* the races of Start, Resume and Cancel are the subject of FlowControl.   *)
(* Between two commands the card can be moved and the process can die, and *)
(* the answer to any command can be lost with the command carried out.     *)
(*                                                                         *)
(* The code's functions call each other to go on: here the steps that are  *)
(* left form the sequence todo.  A PIN or a PUK is named after the card    *)
(* that takes it, or Wrong; a card keeps its instance UID for life.        *)
(*                                                                         *)
(* Bounds: MaxFlows flows, MaxReplies answers of the client, and MaxFaults *)
(* moves of the card, lost answers, failed saves and crashes together.     *)
(***************************************************************************)
EXTENDS Keycard, Integers, Sequences

CONSTANTS
    Cards, None,
    Wrong, Malformed,  \* a secret that fits no card, one that no card would try
    Fake,              \* cards that are not certified by a known CA
    CardTypes,         \* the states in which cards are first met
    Flows,             \* the flow types the client starts
    StartParams,       \* the parameters it starts them with
    KnownCA,           \* NewFlowWithCA was used
    Mishaps,           \* the faults that occur
    Cooperative,       \* the client answers with what is asked for
    MaxFlows, MaxReplies, MaxFaults

FlowType == {"GetAppInfo", "RecoverAccount", "LoadAccount", "Login", "ExportPublic",
             "Sign", "ChangePIN", "ChangePUK", "ChangePairing", "UnpairThis",
             "UnpairOthers", "DeleteAccountAndUnpair", "StoreMetadata", "GetMetadata"}

\* Parameters of which only the presence matters, or that are true when set.
Key == {"NewPIN", "NewPUK", "NewPairing", "Mnemonic", "BIP44Path", "TXHash",
        "CardName", "WalletPaths", "FactoryReset", "Overwrite", "ExportMaster",
        "ResolveAddr"}
Secret  == Cards \cup {None, Wrong, Malformed}
Params  == [pin : Secret, puk : Secret,
            pairing  : {"none", "right", "wrong"},
            instance : Cards \cup {None},   \* InstanceUID, if the client insists
            key      : Cards \cup {None},   \* KeyUID, likewise
            skip     : Cards \cup {None},   \* SkipAuthUID
            has      : SUBSET Key]
NoParams == [pin |-> None, puk |-> None, pairing |-> "none", instance |-> None,
             key |-> None, skip |-> None, has |-> {}]

\* A card that is met is in no session, and a pairing takes one of its slots.
Plausible(k) ==
    /\ EndSession(k) = k
    /\ k.init => k.installed
    /\ k.paired => k.init /\ k.slots < MaxSlots

ASSUME FlowCommandsAssumption ==
    /\ None \notin Cards
    /\ {Wrong, Malformed} \cap (Cards \cup {None}) = {} /\ Wrong # Malformed
    /\ Fake \subseteq Cards
    /\ CardTypes \subseteq CardState
    /\ \A k \in CardTypes : Plausible(k)
    /\ Flows \subseteq FlowType
    /\ StartParams \subseteq Params
    /\ {KnownCA, Cooperative} \subseteq BOOLEAN
    /\ Mishaps \subseteq {"move", "lost", "save", "crash"}
    /\ {MaxFlows, MaxReplies, MaxFaults} \subseteq Nat

\* The steps of a flow, named after the functions of commands.go.
ExportSteps == {"export", "exportMaster", "exportBIP44"}
ChangeSteps == {"changePIN", "changePUK", "changePairing"}
Step == {"factoryReset", "deleteApplet", "resetAgain", "deleteAgain", "installApplet",
         "select", "requireKeys", "requireNoKeys", "openSC", "getStatus", "verifyAuthenticity", "pair", "store",
         "initCard", "authenticate", "unblockPIN", "loadKeys", "sign", "storeMetadata",
         "getMetadata", "unpairCurrent", "unpairOther", "removeKey"}
          \cup ExportSteps \cup ChangeSteps

\* openSC and the flows that call it with giveup do not pair.
Giveup == {"GetAppInfo", "UnpairThis", "UnpairOthers", "DeleteAccountAndUnpair"}

\* The flow functions: the steps they take, one after the other.
Session == <<"openSC", "authenticate">>
ExportKeysFlow(keys) == <<"requireKeys">> \o Session \o [i \in 1..keys |-> "export"]
ExportPublicFlow     == <<"requireKeys">> \o Session \o <<"exportMaster", "exportBIP44">>
LoadKeysFlow         == <<"requireNoKeys">> \o Session \o <<"loadKeys">>
SignFlow             == <<"requireKeys">> \o Session \o <<"sign">>
ChangeFlow(step)     == Session \o <<step>>
UnpairThisFlow       == Session \o <<"unpairCurrent">>
UnpairOthersFlow     == Session \o [i \in 1..(MaxSlots - 1) |-> "unpairOther"]
DeleteUnpairFlow     == Session \o <<"removeKey", "unpairCurrent">>
StoreMetadataFlow    == Session \o <<"storeMetadata">>

\* The switch of connectedFlow.
Program(type) ==
    CASE type = "GetAppInfo"             -> Session
      [] type = "RecoverAccount"         -> ExportKeysFlow(6)
      [] type = "Login"                  -> ExportKeysFlow(2)
      [] type = "ExportPublic"           -> ExportPublicFlow
      [] type = "LoadAccount"            -> LoadKeysFlow
      [] type = "Sign"                   -> SignFlow
      [] type = "ChangePIN"              -> ChangeFlow("changePIN")
      [] type = "ChangePUK"              -> ChangeFlow("changePUK")
      [] type = "ChangePairing"          -> ChangeFlow("changePairing")
      [] type = "UnpairThis"             -> UnpairThisFlow
      [] type = "UnpairOthers"           -> UnpairOthersFlow
      [] type = "DeleteAccountAndUnpair" -> DeleteUnpairFlow
      [] type = "StoreMetadata"          -> StoreMetadataFlow
      [] type = "GetMetadata"            -> <<"getMetadata">>

\* KeycardFlow.cardInfo; before select, free and the retries are -1.
Info == [card : Cards \cup {None}, keys : BOOLEAN, free : -1..MaxSlots,
         pin : -1..MaxPIN, puk : -1..MaxPUK]
NoInfo == [card |-> None, keys |-> FALSE, free |-> -1, pin |-> -1, puk |-> -1]

Signal == {"SwapCard", "EnterPairing", "EnterPIN", "EnterPUK", "EnterNewPair",
           "EnterNewPIN", "EnterNewPUK", "EnterTXHash", "EnterPath", "EnterMnemonic",
           "EnterName", "EnterWallets"}

VARIABLES
    f,         \* the flow: where it is, and the fields of KeycardFlow
    slot,      \* the card in the reader, or None
    valid,     \* the handle of the connected card still works
    card,      \* the state of each card
    mem, file, \* the pairing store, in memory and on disk
    flows, replies, faults,  \* what has been used of the bounds
    entered,   \* PINs the client has given
    burnt,     \* wrong PINs a card has counted
    unheard,   \* those of them whose verdict was lost on the way
    torn       \* per card, pairings made that the program never learnt of

\* A pairing that is stored is the last one made with the card, or an old one.
Entry == {"none", "current", "old"}

FlowObject ==
    [at     : {"idle", "connect", "body", "paused", "panic"},
     type   : FlowType \cup {None},
     todo   : Seq(Step),
     signal : Signal \cup {None},           \* what the client was asked for
     then   : {"retry", "restart"},         \* how a Resume goes on
     result : {"none", "ok", "error", "giveup", "unpaired", "authenticity"},
     link   : Cards \cup {None},            \* the card of the keycard context
     info   : Info,
     params : Params]

store  == <<mem, file>>
bounds == <<flows, replies, faults>>
ghosts == <<entered, burnt, unheard, torn>>
vars   == <<f, slot, valid, card, store, bounds, ghosts>>

TypeOK ==
    /\ f \in FlowObject
    /\ slot \in Cards \cup {None}
    /\ valid \in BOOLEAN
    /\ card \in [Cards -> CardState]
    /\ {mem, file} \subseteq [Cards -> Entry]
    /\ flows \in 0..MaxFlows /\ replies \in 0..MaxReplies /\ faults \in 0..MaxFaults
    /\ {entered, burnt, unheard} \subseteq Nat
    /\ torn \in [Cards -> Nat]

IdleFlow == [at |-> "idle", type |-> None, todo |-> <<>>, signal |-> None,
             then |-> "retry", result |-> "none", link |-> None, info |-> NoInfo,
             params |-> NoParams]

Init ==
    /\ f = IdleFlow
    /\ slot \in Cards \cup {None} /\ valid = FALSE
    /\ card \in [Cards -> CardTypes]
    /\ mem = [c \in Cards |-> IF card[c].paired THEN "current" ELSE "none"]
    /\ file = mem
    /\ flows = 0 /\ replies = 0 /\ faults = 0
    /\ entered = 0 /\ burnt = 0 /\ unheard = 0 /\ torn = [c \in Cards |-> 0]

-----------------------------------------------------------------------------
\* How a function of commands.go returns, as functions of the flow object.

Done(x)        == [x EXCEPT !.todo = Tail(@)]
Do(x, step)    == [x EXCEPT !.todo = <<step>> \o Tail(@)]
Restarted(x)   == [x EXCEPT !.at = "connect", !.todo = <<>>, !.link = None,
                            !.info = NoInfo, !.signal = None, !.then = "retry"]
Ends(r)        == [IdleFlow EXCEPT !.result = r]
Asks(x, sig)   == [x EXCEPT !.at = "paused", !.signal = sig, !.then = "retry"]
Swap(x)        == [x EXCEPT !.at = "paused", !.signal = "SwapCard", !.then = "restart"]

\* getAppInfoFlow turns a giveup into the result of a card that is not paired.
GivesUp(x) == Ends(IF x.type = "GetAppInfo" THEN "unpaired" ELSE "giveup")

Has(k)     == k \in f.params.has
Drop(x, k) == [x EXCEPT !.params.has = @ \ k]

-----------------------------------------------------------------------------
\* One command.  Those that Keycard does not describe are unpairing, removing
\* the key, changing the pairing secret, and the commands of the factory reset
\* fallback, which need no secret.

TheCard == card[f.link]

\* The password is the default one unless the client gave another.
PairRight == IF f.params.pairing = "none" THEN TheCard.default
             ELSE f.params.pairing = "right"

Obeys(k, command) ==
    CASE command \in {"delete", "install"} -> TRUE
      [] command = "identify" -> k.installed
      [] command \in {"unpair", "unpairOther", "removeKey", "changePairing"} -> k.verified
      [] command = "open" -> mem[f.link] = "current" /\ Accepts(k, "open")
      [] command = "pair" -> PairRight /\ k.init /\ k.slots > 0
      [] OTHER -> Accepts(k, command)

Replaced(k, command) ==
    CASE command = "delete"  -> [EmptyCard EXCEPT !.installed = FALSE]
      [] command = "install" -> EmptyCard
      [] command = "unpair"  -> EndSession([k EXCEPT !.slots = @ + 1, !.paired = FALSE])
      [] command = "unpairOther" ->
            [k EXCEPT !.slots = IF @ + 1 < MaxSlots THEN @ + 1 ELSE @]
      [] command = "removeKey" -> [k EXCEPT !.keys = FALSE]
      [] command = "changePairing" -> [k EXCEPT !.default = FALSE]
      [] command = "identify" -> k
      [] OTHER -> Effect(k, command)

Succeeds(k, command) ==
    /\ Obeys(k, command)
    /\ command \in {"verifyGood", "verifyBad", "unblockGood", "unblockBad"} =>
          Verdict(k, command) = "ok"

\* The command is carried out and answered; or its answer is lost, and the
\* card may have carried it out; or the card is gone.  A PC/SC error restarts
\* the flow unless the code says otherwise (noAnswer).
Carried(command) ==
    card' = [card EXCEPT ![f.link] =
               IF Obeys(@, command) THEN Replaced(@, command) ELSE @]

Counted(command) ==
    burnt' = IF command = "verifyBad" /\ Obeys(TheCard, command) /\ TheCard.pin > 0
             THEN burnt + 1 ELSE burnt

Issue(command, answered, refused, noAnswer) ==
    \/ /\ valid
       /\ Carried(command) /\ Counted(command)
       /\ f' = IF Succeeds(TheCard, command) THEN answered ELSE refused
       /\ UNCHANGED <<faults, entered, unheard, torn>>
    \/ /\ valid /\ "lost" \in Mishaps /\ faults < MaxFaults
       /\ faults' = faults + 1
       /\ \/ Carried(command) /\ Counted(command)
             /\ unheard' = unheard + (burnt' - burnt)
             /\ torn' = IF command = "pair" /\ Succeeds(TheCard, command)
                        THEN [torn EXCEPT ![f.link] = @ + 1] ELSE torn
          \/ UNCHANGED <<card, burnt, unheard, torn>>
       /\ f' = noAnswer /\ UNCHANGED entered
    \/ ~valid /\ f' = noAnswer /\ UNCHANGED <<card, faults, ghosts>>

\* The usual case: a PC/SC error restarts the flow.
Exchange(command, answered, refused) ==
    Issue(command, answered, refused, Restarted(f))

At(step) == f.at = "body" /\ f.todo # <<>> /\ Head(f.todo) = step

\* A command that changes nothing but the card and the flow.
others == <<slot, valid, store, flows, replies>>
Simply(command, answered) ==
    Exchange(command, answered, Ends("error")) /\ UNCHANGED others

\* A step that does not talk to the card.
Becomes(x) == f' = x /\ UNCHANGED <<slot, valid, card, store, bounds, ghosts>>

-----------------------------------------------------------------------------
\* connectedFlow.

Connect ==
    /\ f.at = "connect" /\ slot # None
    /\ f' = [f EXCEPT !.at = "body", !.link = slot,
                      !.todo = <<"factoryReset", "select">> \o Program(f.type)]
    /\ valid' = TRUE
    /\ card' = [card EXCEPT ![slot] = EndSession(@)]
    /\ UNCHANGED <<slot, store, bounds, ghosts>>

\* The applet's own reset; a card that refuses it has the applet deleted and
\* installed anew.  The parameter is dropped once that has succeeded.
ResetAgain == Restarted(f)    \* Mutant: the parameter is kept.
AfterReset == Restarted(Drop(f, {"FactoryReset"}))

FactoryReset(step, fallback) ==
    /\ At(step)
    /\ IF Has("FactoryReset")
       THEN /\ Issue("reset", AfterReset, Do(f, fallback), Do(f, fallback))
            /\ UNCHANGED others
       ELSE Becomes(Done(f))

\* When the deletion fails the reset is tried once more; when its preparation
\* does (the ISD may be locked with other keys), the flow ends or restarts.
DeleteApplet ==
    /\ At("deleteApplet")
    /\ \/ \E x \in {Do(f, "resetAgain"), Restarted(f)} :
             Issue("delete", Do(f, "installApplet"), x, x) /\ UNCHANGED others
       \/ valid /\ \E x \in {Do(f, "resetAgain"), Ends("error")} : Becomes(x)

\* A step that the ISD refuses ends the flow.
Manage(step, command, answered) ==
    /\ At(step)
    /\ \/ Simply(command, answered)
       \/ valid /\ Becomes(Ends("error"))

DeleteAgain   == Manage("deleteAgain", "delete", Do(f, "installApplet"))
InstallApplet == Manage("installApplet", "install", AfterReset)

\* Mutant: the required instance UID is not compared.
SelectAny ==
    LET k == TheCard
        g == [f EXCEPT !.info = [NoInfo EXCEPT !.card = f.link, !.keys = k.keys,
                                               !.free = k.slots]]
        fits == k.installed /\ (f.params.key = None \/ (f.params.key = f.link /\ k.keys))
    IN At("select") /\ Exchange("select", IF fits THEN Done(g) ELSE Swap(g), Restarted(f))
         /\ UNCHANGED others

SelectKeycard ==
    LET k == TheCard
        g == [f EXCEPT !.info = [NoInfo EXCEPT !.card = f.link, !.keys = k.keys,
                                               !.free = k.slots]]
        fits == /\ k.installed
                /\ f.params.instance \in {None, f.link}
                /\ f.params.key = None \/ (f.params.key = f.link /\ k.keys)
    IN At("select") /\ Exchange("select", IF fits THEN Done(g) ELSE Swap(g), Restarted(f))
         /\ UNCHANGED others

RequireKeys ==
    At("requireKeys") /\ Becomes(IF f.info.keys THEN Done(f) ELSE Swap(f))

\* Mutant: the parameter is not looked at, only the card.
RequireAnything == At("requireNoKeys") /\ Becomes(Done(f))
RequireNoKeys ==
    /\ At("requireNoKeys")
    /\ Becomes(IF ~f.info.keys \/ Has("Overwrite") THEN Done(f) ELSE Swap(f))

-----------------------------------------------------------------------------
\* openSC and pair.

NoStoredPairing(x) == Do(x, "verifyAuthenticity")

\* A pairing that does not open a secure channel is deleted, in memory only.
OpenSC ==
    /\ At("openSC")
    /\ \/ /\ ~TheCard.init /\ f.type \notin Giveup
          /\ Becomes(Do(f, "initCard"))
       \/ /\ TheCard.init \/ f.type \in Giveup
          /\ mem[f.link] = "none"
          /\ Becomes(NoStoredPairing(f))
       \/ /\ TheCard.init \/ f.type \in Giveup
          /\ mem[f.link] # "none"
          /\ Exchange("open", Do(f, "getStatus"), NoStoredPairing(f))
          /\ mem' = IF valid /\ f'.at = "body" /\ Head(f'.todo) = "verifyAuthenticity"
                    THEN [mem EXCEPT ![f.link] = "none"] ELSE mem
          /\ UNCHANGED <<slot, valid, file, flows, replies>>

GetStatus ==
    /\ At("getStatus")
    /\ LET g == [f EXCEPT !.info.pin = TheCard.pin, !.info.puk = TheCard.puk]
       IN Exchange("status", Done(g), Restarted(f))
    /\ UNCHANGED others

\* Mutant: nobody asks the card for its certificate.
TrustAll ==
    At("verifyAuthenticity")
      /\ Becomes(IF f.type \in Giveup THEN GivesUp(f) ELSE Do(f, "pair"))

VerifyAuthenticity ==
    /\ At("verifyAuthenticity")
    /\ LET genuine == IF f.type \in Giveup THEN GivesUp(f) ELSE Do(f, "pair")
           fake    == Ends("authenticity")
       IN IF ~KnownCA \/ f.params.skip = f.link
          THEN Becomes(genuine)
          ELSE /\ Issue("identify", IF f.link \in Fake THEN fake ELSE genuine, fake, fake)
               /\ UNCHANGED others

\* A pairing that the card has made outdates the one the file has for it.
Pair ==
    /\ At("pair")
    /\ IF f.info.free = 0 THEN Becomes(Swap(f))
       ELSE /\ Exchange("pair", Do(f, "store"),
                        Asks([f EXCEPT !.params.pairing = "none"], "EnterPairing"))
            /\ file' = IF card'[f.link].slots # TheCard.slots /\ file[f.link] = "current"
                       THEN [file EXCEPT ![f.link] = "old"] ELSE file
            /\ UNCHANGED <<slot, valid, mem, flows, replies>>

\* Mutant: the file is not written.
StoreInMemory ==
    /\ At("store")
    /\ mem' = [mem EXCEPT ![f.link] = "current"]
    /\ f' = Do(f, "openSC")
    /\ UNCHANGED <<slot, valid, card, file, bounds, ghosts>>

\* pairings.Store saves the whole map; when that fails, so does the flow.
StorePairing ==
    /\ At("store")
    /\ mem' = [mem EXCEPT ![f.link] = "current"]
    /\ \/ file' = mem' /\ f' = Do(f, "openSC") /\ UNCHANGED <<faults, torn>>
       \/ /\ "save" \in Mishaps /\ faults < MaxFaults
          /\ faults' = faults + 1
          /\ torn' = [torn EXCEPT ![f.link] = @ + 1]
          /\ f' = Ends("error") /\ UNCHANGED file
    /\ UNCHANGED <<slot, valid, card, flows, replies, entered, burnt, unheard>>

\* A card that was initialised is met again, with the new PIN as the PIN.
InitCard ==
    /\ At("initCard")
    /\ IF ~Has("NewPIN") THEN Becomes(Asks(f, "EnterNewPIN"))
       ELSE IF ~Has("NewPUK") THEN Becomes(Asks(f, "EnterNewPUK"))
       ELSE LET g == [f EXCEPT !.params.pin = f.link, !.params.pairing = "right"]
            IN Simply(IF Has("NewPairing") THEN "initCustom" ELSE "initDefault",
                      Restarted(Drop(g, {"NewPIN", "NewPUK", "NewPairing"})))

-----------------------------------------------------------------------------
\* authenticate and unblockPIN.

Verify(secret) == CASE secret = f.link    -> "verifyGood"
                    [] secret = Malformed -> "malformed"
                    [] OTHER              -> "verifyBad"
Unblock(secret) == CASE secret = f.link    -> "unblockGood"
                     [] secret = Malformed -> "malformed"
                     [] OTHER              -> "unblockBad"

\* Mutant: a wrong PIN is kept.
AuthenticateAgain ==
    /\ At("authenticate")
    /\ IF f.info.pin = 0 THEN Becomes(Do(f, "unblockPIN"))
       ELSE IF f.params.pin = None THEN Becomes(Asks(f, "EnterPIN"))
       ELSE LET g == [f EXCEPT !.info.pin = Decrement(TheCard.pin)]
            IN /\ Exchange(Verify(f.params.pin), Done([f EXCEPT !.info.pin = MaxPIN]),
                           IF g.info.pin = 0 THEN Do(g, "unblockPIN") ELSE g)
               /\ UNCHANGED others

\* A wrong PIN is dropped from the parameters, so that it is not tried again.
\* One that the card refuses to try is kept; the answer of the client replaces it.
Authenticate ==
    /\ At("authenticate")
    /\ IF f.info.pin = 0 THEN Becomes(Do(f, "unblockPIN"))
       ELSE IF f.params.pin = None THEN Becomes(Asks(f, "EnterPIN"))
       ELSE LET g == [f EXCEPT !.info.pin = Decrement(TheCard.pin), !.params.pin = None]
                wrong == IF g.info.pin = 0 THEN Do(g, "unblockPIN") ELSE Asks(g, "EnterPIN")
            IN /\ Exchange(Verify(f.params.pin), Done([f EXCEPT !.info.pin = MaxPIN]),
                           IF f.params.pin = Malformed THEN Asks(f, "EnterPIN") ELSE wrong)
               /\ UNCHANGED others

\* A successful unblock leaves the card authenticated.
UnblockPIN ==
    /\ At("unblockPIN")
    /\ IF f.info.puk = 0 THEN Becomes(Swap(f))
       ELSE IF f.params.puk = None THEN Becomes(Asks(f, "EnterPUK"))
       ELSE IF ~Has("NewPIN") THEN Becomes(Asks(f, "EnterNewPIN"))
       ELSE LET ok == [Drop(f, {"NewPIN"}) EXCEPT
                         !.info.pin = MaxPIN, !.info.puk = MaxPUK,
                         !.params.pin = f.link, !.params.puk = None]
                g  == [f EXCEPT !.info.puk = Decrement(TheCard.puk), !.params.puk = None]
                wrong == IF g.info.puk = 0 THEN Swap(g) ELSE Asks(g, "EnterPUK")
            IN /\ Exchange(Unblock(f.params.puk), Done(ok),
                           IF f.params.puk = Malformed THEN Ends("error") ELSE wrong)
               /\ UNCHANGED others

-----------------------------------------------------------------------------
\* What the flows are for.

\* Without a mnemonic the card makes one up, and the client picks.
LoadKeys ==
    /\ At("loadKeys")
    /\ IF Has("Mnemonic")
       THEN Simply("loadSeed", Done([f EXCEPT !.info.keys = TRUE]))
       ELSE Simply("generate", Asks(f, "EnterMnemonic"))

\* changePIN, changePUK and changePairing.
Change(step, key, signal) ==
    /\ At(step)
    /\ IF Has(key) THEN Simply(step, Done(f)) ELSE Becomes(Asks(f, signal))

Sign ==
    /\ At("sign")
    /\ IF ~Has("BIP44Path") THEN Becomes(Asks(f, "EnterPath"))
       ELSE IF ~Has("TXHash") THEN Becomes(Asks(f, "EnterTXHash"))
       ELSE Simply("export", Done(f))

StoreMetadata ==
    /\ At("storeMetadata")
    /\ IF ~Has("CardName") THEN Becomes(Asks(f, "EnterName"))
       ELSE IF ~Has("WalletPaths") THEN Becomes(Asks(f, "EnterWallets"))
       ELSE Simply("storeData", Done(f))

\* getMetadataFlow goes on to resolve the addresses of the wallets.
GetMetadata ==
    /\ At("getMetadata")
    /\ Simply("getData",
              IF ~Has("ResolveAddr") THEN Done(f)
              ELSE IF ~f.info.keys THEN Ends("error")
              ELSE [f EXCEPT !.todo = Session \o <<"exportMaster", "export">>])

Export == At("export") /\ Simply("export", Done(f))

\* The address is read from the key pair before the error is looked at.
ExportMaster ==
    /\ At("exportMaster")
    /\ IF Has("ExportMaster")
       THEN LET panic == [f EXCEPT !.at = "panic"]
            IN Issue("export", Done(f), panic, panic) /\ UNCHANGED others
       ELSE Becomes(Done(f))

ExportBIP44 ==
    /\ At("exportBIP44")
    /\ IF Has("BIP44Path") THEN Simply("export", Done(f)) ELSE Becomes(Asks(f, "EnterPath"))

\* Mutant: the free slot is not counted.
UnpairUncounted == At("unpairCurrent") /\ Simply("unpair", Done(f))
UnpairCurrent ==
    At("unpairCurrent") /\ Simply("unpair", Done([f EXCEPT !.info.free = @ + 1]))

UnpairOther == At("unpairOther") /\ Simply("unpairOther", Done(f))

\* Mutants: cardInfo keeps the key UID; the slot is counted here as well.
RemoveKeyOnly == At("removeKey") /\ Simply("removeKey", Done(f))
RemoveKeyCounts ==
    /\ At("removeKey")
    /\ Simply("removeKey", Done([f EXCEPT !.info.keys = FALSE, !.info.free = @ + 1]))
RemoveKey == At("removeKey") /\ Simply("removeKey", Done([f EXCEPT !.info.keys = FALSE]))

Finish == f.at = "body" /\ f.todo = <<>> /\ Becomes(Ends("ok"))

FlowStep ==
    \/ Connect \/ FactoryReset("factoryReset", "deleteApplet")
    \/ FactoryReset("resetAgain", "deleteAgain")
    \/ DeleteApplet \/ DeleteAgain \/ InstallApplet \/ SelectKeycard
    \/ RequireKeys \/ RequireNoKeys \/ OpenSC \/ GetStatus \/ VerifyAuthenticity
    \/ Pair \/ StorePairing \/ InitCard \/ Authenticate \/ UnblockPIN \/ LoadKeys
    \/ Change("changePIN", "NewPIN", "EnterNewPIN")
    \/ Change("changePUK", "NewPUK", "EnterNewPUK")
    \/ Change("changePairing", "NewPairing", "EnterNewPair")
    \/ Sign \/ StoreMetadata \/ GetMetadata \/ Export \/ ExportMaster \/ ExportBIP44
    \/ UnpairCurrent \/ UnpairOther \/ RemoveKey \/ Finish

-----------------------------------------------------------------------------
\* The client and the user.

GivenPINs(p) == (IF p.pin = None THEN 0 ELSE 1) + (IF "NewPIN" \in p.has THEN 1 ELSE 0)

Start(type, p) ==
    /\ f.at = "idle" /\ flows < MaxFlows
    /\ flows' = flows + 1 /\ entered' = entered + GivenPINs(p)
    /\ f' = [IdleFlow EXCEPT !.at = "connect", !.type = type, !.params = p]
    /\ UNCHANGED <<slot, valid, card, store, replies, faults, burnt, unheard, torn>>

Given(k) == [f.params EXCEPT !.has = @ \cup {k}]

\* What the client may answer: the value that was asked for, right or wrong.
Secrets  == IF Cooperative THEN {f.link} ELSE Cards \cup {Wrong, Malformed}
Pairings == IF Cooperative THEN {"right"} ELSE {"right", "wrong"}

Answers(signal) ==
    CASE signal = "SwapCard"      -> {f.params}
      [] signal = "EnterPairing"  -> {[f.params EXCEPT !.pairing = p] : p \in Pairings}
      [] signal = "EnterPIN"      -> {[f.params EXCEPT !.pin = p] : p \in Secrets}
      [] signal = "EnterPUK"      -> {[f.params EXCEPT !.puk = p] : p \in Secrets}
      [] signal = "EnterNewPair"  -> {Given("NewPairing")}
      [] signal = "EnterNewPIN"   -> {Given("NewPIN")}
      [] signal = "EnterNewPUK"   -> {Given("NewPUK")}
      [] signal = "EnterTXHash"   -> {Given("TXHash")}
      [] signal = "EnterPath"     -> {Given("BIP44Path")}
      [] signal = "EnterMnemonic" -> {Given("Mnemonic")}
      [] signal = "EnterName"     -> {Given("CardName")}
      [] signal = "EnterWallets"  -> {Given("WalletPaths")}

Resume(p) ==
    /\ f.at = "paused"
    /\ IF Cooperative THEN UNCHANGED replies
                      ELSE replies < MaxReplies /\ replies' = replies + 1
    /\ entered' = IF f.signal \in {"EnterPIN", "EnterNewPIN"} THEN entered + 1 ELSE entered
    /\ f' = LET g == [f EXCEPT !.params = p, !.signal = None, !.at = "body"]
            IN IF f.then = "retry" THEN g ELSE Restarted(g)
    /\ UNCHANGED <<slot, valid, card, store, flows, faults, burnt, unheard, torn>>

\* A cancelled flow sends no result.
Cancel ==
    /\ f.at = "paused" /\ ~Cooperative
    /\ Becomes(Ends("none"))

Fault(kind) == kind \in Mishaps /\ faults < MaxFaults /\ faults' = faults + 1

MoveCard ==
    /\ Fault("move")
    /\ slot' \in (Cards \cup {None}) \ {slot} /\ valid' = FALSE
    /\ card' = [c \in Cards |-> EndSession(card[c])]
    /\ UNCHANGED <<f, store, flows, replies, ghosts>>

\* The process dies and starts again: only the file is left.  A pairing that
\* was made and not yet stored is lost.
Crash ==
    /\ f.at # "panic" /\ Fault("crash")
    /\ f' = IdleFlow /\ valid' = FALSE /\ mem' = file
    /\ torn' = IF At("store") THEN [torn EXCEPT ![f.link] = @ + 1] ELSE torn
    /\ UNCHANGED <<slot, card, file, flows, replies, entered, burnt, unheard>>

Next ==
    \/ FlowStep
    \/ \E type \in Flows, p \in StartParams : Start(type, p)
    \/ f.at = "paused" /\ \E p \in Answers(f.signal) : Resume(p)
    \/ Cancel \/ MoveCard \/ Crash

Spec == Init /\ [][Next]_vars

\* The flow's goroutine runs on, and in a cooperative client the user answers.
Fairness ==
    /\ WF_vars(FlowStep)
    /\ Cooperative => WF_vars(f.at = "paused" /\ \E p \in Answers(f.signal) : Resume(p))

FairSpec == Spec /\ Fairness

-----------------------------------------------------------------------------
\* Properties.

\* The attempts cards have counted down, and the PINs the flow still holds, were
\* entered by the client: no restart and no retry tries a PIN again of which the
\* flow has heard that a card refuses it (commands.go:267).  A PIN whose verdict
\* is lost is kept and tried again (commands.go:263): each lost verdict can cost
\* one attempt more than the client entered.
PinTriesAreEntered == burnt + GivenPINs(f.params) <= entered + unheard

\* When the client insists on one card, no other card is changed, whatever is
\* inserted while the flow runs (commands.go:47).  A factory reset is done
\* before the card is looked at (flow.go:246), and is left out here.
InstanceRespected ==
    [][\A c \in Cards :
          EndSession(card'[c]) # EndSession(card[c]) /\ ~Has("FactoryReset")
            => f.params.instance \in {None, c}]_vars

\* A flow about to load keys holds a card without keys, or may overwrite them,
\* though it has been restarted and cards have been exchanged (flow.go:187).
LoadIsAllowed == At("loadKeys") /\ valid /\ TheCard.keys => Has("Overwrite")

\* With known certificate authorities, no pairing is made with a card that is
\* not certified, unless the client exempts that card (commands.go:136).
PairsGenuine ==
    [][\A c \in Cards : KnownCA /\ card'[c].slots < card[c].slots
          => c \notin Fake \/ f.params.skip = c]_vars

\* Whatever is interrupted, a card has one slot taken by this program, and one
\* more for each pairing that was made and could not be recorded: pairings are
\* saved before they are used, and stale ones are replaced (commands.go:150).
SlotsAccounted ==
    \A c \in Cards : MaxSlots - card[c].slots <= 1 + torn[c]

Reporting == f.at = "body" /\ f.todo = <<>> /\ valid

\* A result reports the card as it is, after any restart: the free slots of a
\* flow that removes its own pairing (flow.go:517, flow.go:565), and the key UID
\* of the keys now on the card (flow.go:557, commands.go:465).
ResultsAreTrue ==
    Reporting =>
        /\ f.info.keys = TheCard.keys
        /\ f.type \in {"UnpairThis", "DeleteAccountAndUnpair"} => f.info.free = TheCard.slots

\* The same of the flow that removes the other pairings (flow.go:541).
ReportsOtherSlots ==
    Reporting /\ f.type = "UnpairOthers" => f.info.free = TheCard.slots

\* With a client that answers, a flow ends or waits for another card: restarts
\* and retries do not go on for ever.
EndsOrWaits ==
    f.at # "idle" ~> \/ f.at \in {"idle", "panic"}
                     \/ f.at = "connect" /\ slot = None
                     \/ f.signal = "SwapCard"

\* An error while a key is exported ends or restarts the flow: flow.go:396 and
\* flow.go:609 check for it.
NoNilDereference == f.at # "panic"
=============================================================================
