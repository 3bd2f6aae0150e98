-------------------------- MODULE FlowCommands_proofs --------------------------
(***************************************************************************)
(* Theorems of FlowCommands, for every number of cards, flows, replies and *)
(* faults, every set of mishaps, any client and any cards to begin with.   *)
(*                                                                         *)
(* One invariant, FlowInv, ties together what the flow remembers of a card *)
(* and what the card is:                                                   *)
(*   FlowFits  the steps that are left are steps of this flow, in an order *)
(*             that has looked at the card first (Ahead, then Met);        *)
(*   InfoFits  while the connection holds, cardInfo is true of the card;   *)
(*   PairFits  a flow about to pair has no pairing in memory, and a card   *)
(*             it may trust;                                               *)
(*   MemFits   the store in memory has every pairing of the file that the  *)
(*             card honours;                                               *)
(*   CardsFit  a session needs a pairing, a pairing a slot.                *)
(* PinInv and SlotInv count PINs and slots relative to it.  An action      *)
(* keeps all three (Kept), which is one lemma for each action, most of     *)
(* them by a lemma for its kind: a step that only moves the flow on        *)
(* (CalmStep, CalmNear), a command that leaves keys and slots alone        *)
(* (GentleStep, GentleNear), and any other command (CommandStep).          *)
(***************************************************************************)
EXTENDS FlowCommands, SequenceTheorems, TLAPS

-----------------------------------------------------------------------------
\* The flow object.

\* What the assumptions say of the constants, in one place.
LEMMA Constants ==
    /\ MaxPIN \in Nat /\ MaxPUK \in Nat /\ MaxSlots \in Nat
    /\ MaxFlows \in Nat /\ MaxReplies \in Nat /\ MaxFaults \in Nat
    /\ None \notin Cards /\ StartParams \subseteq Params /\ Flows \subseteq FlowType
    /\ CardTypes \subseteq CardState /\ \A k \in CardTypes : Plausible(k)
BY FlowCommandsAssumption, KeycardAssumption

\* Before select the card information has its type as well.
LEMMA NoInfoTyped == NoInfo \in Info
BY Constants DEF NoInfo, Info

\* A flow that was never started has no parameters.
LEMMA NoParamsTyped == NoParams \in Params
BY DEF NoParams, Params, Secret

\* A flow that has ended, with any result, is a flow object.
LEMMA IdleTyped ==
    \A r \in {"none", "ok", "error", "giveup", "unpaired", "authenticity"} : Ends(r) \in FlowObject
<1>1. <<>> \in Seq(Step)
  OBVIOUS
<1>2. QED
  BY <1>1, NoInfoTyped, NoParamsTyped DEF Ends, IdleFlow, FlowObject

\* The fields of the flow object, so that a step is named once.
LEMMA Fields ==
    ASSUME NEW x \in FlowObject
    PROVE  /\ x.at \in {"idle", "connect", "body", "paused", "panic"}
           /\ x.type \in FlowType \cup {None} /\ x.todo \in Seq(Step)
           /\ x.signal \in Signal \cup {None} /\ x.then \in {"retry", "restart"}
           /\ x.link \in Cards \cup {None} /\ x.info \in Info /\ x.params \in Params
BY DEF FlowObject

\* A restart keeps the flow and its parameters, and forgets the rest.
LEMMA RestartedFields ==
    ASSUME NEW x \in FlowObject
    PROVE  /\ Restarted(x) \in FlowObject
           /\ Restarted(x).at = "connect" /\ Restarted(x).type = x.type
           /\ Restarted(x).info = NoInfo /\ Restarted(x).params = x.params
           /\ Restarted(x).todo = <<>>
<1>1. <<>> \in Seq(Step)
  OBVIOUS
<1>2. Restarted(x) \in FlowObject
  BY <1>1, NoInfoTyped DEF Restarted, FlowObject
<1>3. QED
  BY <1>2 DEF Restarted, FlowObject

\* A pause that is retried keeps where the flow is and what it knows.
LEMMA PausedFields ==
    ASSUME NEW x \in FlowObject, NEW sig \in Signal
    PROVE  /\ Asks(x, sig) \in FlowObject
           /\ Asks(x, sig).at = "paused" /\ Asks(x, sig).then = "retry" /\ Asks(x, sig).signal = sig
           /\ Asks(x, sig).type = x.type /\ Asks(x, sig).todo = x.todo /\ Asks(x, sig).link = x.link
           /\ Asks(x, sig).info = x.info /\ Asks(x, sig).params = x.params
<1>1. Asks(x, sig) \in FlowObject
  BY DEF Asks, FlowObject
<1>2. QED
  BY <1>1 DEF Asks, FlowObject

\* So does a pause for another card, after which the flow restarts.
LEMMA SwapFields ==
    ASSUME NEW x \in FlowObject
    PROVE  /\ Swap(x) \in FlowObject
           /\ Swap(x).at = "paused" /\ Swap(x).then = "restart" /\ Swap(x).signal = "SwapCard"
           /\ Swap(x).type = x.type /\ Swap(x).todo = x.todo /\ Swap(x).link = x.link
           /\ Swap(x).info = x.info /\ Swap(x).params = x.params
<1>1. Swap(x) \in FlowObject
  BY DEF Swap, FlowObject, Signal
<1>2. QED
  BY <1>1 DEF Swap, FlowObject

\* A step that is done leaves the others.
LEMMA DoneFields ==
    ASSUME NEW x \in FlowObject, x.todo # <<>>
    PROVE  /\ Done(x) \in FlowObject /\ Done(x).todo = Tail(x.todo)
           /\ Done(x).at = x.at /\ Done(x).type = x.type /\ Done(x).link = x.link
           /\ Done(x).then = x.then /\ Done(x).info = x.info /\ Done(x).params = x.params
           /\ Done(x).signal = x.signal
<1>1. Tail(x.todo) \in Seq(Step)
  BY Fields
<1>2. QED
  BY <1>1 DEF Done, FlowObject

\* A step that calls another is replaced by it.
LEMMA DoFields ==
    ASSUME NEW x \in FlowObject, x.todo # <<>>, NEW s \in Step
    PROVE  /\ Do(x, s) \in FlowObject /\ Do(x, s).todo = <<s>> \o Tail(x.todo)
           /\ Do(x, s).at = x.at /\ Do(x, s).type = x.type /\ Do(x, s).link = x.link
           /\ Do(x, s).then = x.then /\ Do(x, s).info = x.info /\ Do(x, s).params = x.params
           /\ Do(x, s).signal = x.signal
<1>1. <<s>> \o Tail(x.todo) \in Seq(Step)
  BY Fields
<1>2. QED
  BY <1>1 DEF Do, FlowObject

\* How a sequence of steps goes on.
LEMMA StepSequences ==
    ASSUME NEW q \in Seq(Step), q # <<>>
    PROVE  /\ Len(q) \in Nat /\ Len(q) >= 1 /\ Head(q) = q[1] /\ Head(q) \in Step
           /\ Tail(q) \in Seq(Step) /\ Len(Tail(q)) = Len(q) - 1
           /\ \A i \in 1..(Len(q) - 1) : Tail(q)[i] = q[i + 1]
           /\ \A s \in Step : /\ Len(<<s>> \o Tail(q)) = Len(q)
                              /\ (<<s>> \o Tail(q))[1] = s
                              /\ \A i \in 2..Len(q) : (<<s>> \o Tail(q))[i] = q[i]
<1>1. /\ Len(q) \in Nat /\ Len(q) >= 1 /\ Head(q) = q[1] /\ Head(q) \in Step
      /\ Tail(q) \in Seq(Step) /\ Len(Tail(q)) = Len(q) - 1
      /\ \A i \in 1..(Len(q) - 1) : Tail(q)[i] = q[i + 1]
  OBVIOUS
<1>2. ASSUME NEW s \in Step
      PROVE  /\ Len(<<s>> \o Tail(q)) = Len(q)
             /\ (<<s>> \o Tail(q))[1] = s
             /\ \A i \in 2..Len(q) : (<<s>> \o Tail(q))[i] = q[i]
  <2>1. Len(<<s>> \o Tail(q)) = Len(q) /\ (<<s>> \o Tail(q))[1] = s
    BY <1>1
  <2>2. ASSUME NEW i \in 2..Len(q) PROVE (<<s>> \o Tail(q))[i] = q[i]
    <3>1. (<<s>> \o Tail(q))[i] = Tail(q)[i - 1]
      BY <1>1
    <3>2. QED
      BY <1>1, <3>1
  <2>3. QED
    BY <2>1, <2>2
<1>3. QED
  BY <1>1, <1>2

-----------------------------------------------------------------------------
\* The flows as sequences of steps.

ResetStep == {"factoryReset", "deleteApplet", "resetAgain", "deleteAgain", "installApplet"}
Inner     == {"getStatus", "verifyAuthenticity", "pair", "store", "initCard", "unblockPIN"}
Usual     == Step \ (ResetStep \cup Inner \cup {"select"})

\* Which flows take the steps that matter.
OfType(type, s) ==
    /\ s = "unpairCurrent" => type \in {"UnpairThis", "DeleteAccountAndUnpair"}
    /\ s = "unpairOther" => type = "UnpairOthers"
    /\ s = "loadKeys" => type = "LoadAccount"
    /\ s \in {"pair", "store", "initCard"} => type \notin Giveup

UsualOf(type) == {s \in Usual : OfType(type, s)}

\* Two sequences of steps after each other are a sequence of steps.
LEMMA Concatenated ==
    ASSUME NEW S, NEW q \in Seq(S), NEW r \in Seq(S)
    PROVE  q \o r \in Seq(S)
OBVIOUS

\* A step that is repeated, never if the number is not positive.
LEMMA Repeated ==
    ASSUME NEW S, NEW s \in S, NEW n \in Int
    PROVE  [i \in 1..n |-> s] \in Seq(S)
<1>1. CASE n \in Nat
  BY <1>1
<1>2. CASE n \notin Nat
  <2>1. 1..n = 1..0
    BY <1>2
  <2>2. QED
    BY <2>1
<1>3. QED
  BY <1>1, <1>2

\* The two steps every flow needs belong to every flow.
LEMMA SessionUsual == ASSUME NEW type \in FlowType PROVE Session \in Seq(UsualOf(type))
<1>1. {"openSC", "authenticate"} \subseteq UsualOf(type)
  BY DEF UsualOf, Usual, Step, ResetStep, Inner, OfType, ExportSteps, ChangeSteps
<1>2. QED
  BY <1>1 DEF Session

\* The switch, case by case.
LEMMA Programs ==
    /\ Program("GetAppInfo") = Session
    /\ Program("RecoverAccount") = ExportKeysFlow(6)
    /\ Program("Login") = ExportKeysFlow(2)
    /\ Program("ExportPublic") = ExportPublicFlow
    /\ Program("LoadAccount") = LoadKeysFlow
    /\ Program("Sign") = SignFlow
    /\ Program("ChangePIN") = ChangeFlow("changePIN")
    /\ Program("ChangePUK") = ChangeFlow("changePUK")
    /\ Program("ChangePairing") = ChangeFlow("changePairing")
    /\ Program("UnpairThis") = UnpairThisFlow
    /\ Program("UnpairOthers") = UnpairOthersFlow
    /\ Program("DeleteAccountAndUnpair") = DeleteUnpairFlow
    /\ Program("StoreMetadata") = StoreMetadataFlow
    /\ Program("GetMetadata") = <<"getMetadata">>
<1>1. Program("GetAppInfo") = Session
  BY DEF Program
<1>2. Program("RecoverAccount") = ExportKeysFlow(6)
  BY DEF Program
<1>3. Program("Login") = ExportKeysFlow(2)
  BY DEF Program
<1>4. Program("ExportPublic") = ExportPublicFlow
  BY DEF Program
<1>5. Program("LoadAccount") = LoadKeysFlow
  BY DEF Program
<1>6. Program("Sign") = SignFlow
  BY DEF Program
<1>7. Program("ChangePIN") = ChangeFlow("changePIN")
  BY DEF Program
<1>8. Program("ChangePUK") = ChangeFlow("changePUK")
  BY DEF Program
<1>9. Program("ChangePairing") = ChangeFlow("changePairing")
  BY DEF Program
<1>10. Program("UnpairThis") = UnpairThisFlow
  BY DEF Program
<1>11. Program("UnpairOthers") = UnpairOthersFlow
  BY DEF Program
<1>12. Program("DeleteAccountAndUnpair") = DeleteUnpairFlow
  BY DEF Program
<1>13. Program("StoreMetadata") = StoreMetadataFlow
  BY DEF Program
<1>14. Program("GetMetadata") = <<"getMetadata">>
  BY DEF Program
<1>15. QED
  BY <1>1, <1>2, <1>3, <1>4, <1>5, <1>6, <1>7, <1>8, <1>9, <1>10, <1>11, <1>12, <1>13, <1>14

\* The steps of connectedFlow's switch are usual ones, each of a flow that may
\* take it.
LEMMA ProgramsUsual == ASSUME NEW type \in FlowType PROVE Program(type) \in Seq(UsualOf(type))
<1> DEFINE S == UsualOf(type)
<1>1. {"requireKeys", "requireNoKeys", "openSC", "authenticate", "sign", "storeMetadata", "getMetadata",
       "removeKey", "export", "exportMaster", "exportBIP44", "changePIN", "changePUK",
       "changePairing"} \subseteq S
  BY DEF UsualOf, Usual, Step, ResetStep, Inner, OfType, ExportSteps, ChangeSteps
<1>2. /\ type \in {"UnpairThis", "DeleteAccountAndUnpair"} => "unpairCurrent" \in S
      /\ type = "UnpairOthers" => "unpairOther" \in S
      /\ type = "LoadAccount" => "loadKeys" \in S
  BY DEF UsualOf, Usual, Step, ResetStep, Inner, OfType, ExportSteps, ChangeSteps
<1>3. Session \in Seq(S)
  BY SessionUsual
<1>4. \A s \in S : <<s>> \in Seq(S)
  OBVIOUS
<1> HIDE DEF S
<1>5. \A s \in S : s = "export" => \A n \in Int : [i \in 1..n |-> s] \in Seq(S)
  BY Repeated
<1>6. \A s \in S, n \in Int : [i \in 1..n |-> s] \in Seq(S)
  BY Repeated
<1>7. \A s \in S : Session \o <<s>> \in Seq(S)
  BY <1>3, <1>4, Concatenated
<1>8. CASE type \in {"RecoverAccount", "Login"}
  <2>1. \A n \in Int : ExportKeysFlow(n) \in Seq(S)
    <3>1. "export" \in S /\ "requireKeys" \in S
      BY <1>1
    <3>2. <<"requireKeys">> \o Session \in Seq(S)
      BY <1>3, <1>4, <3>1, Concatenated
    <3>3. \A n \in Int : [i \in 1..n |-> "export"] \in Seq(S)
      BY <1>5, <3>1
    <3>4. QED
      BY <3>2, <3>3, Concatenated DEF ExportKeysFlow
  <2>2. QED
    BY <1>8, <2>1, Programs DEF S
<1>9. CASE type = "ExportPublic"
  <2>1. <<"requireKeys">> \in Seq(S) /\ <<"exportMaster", "exportBIP44">> \in Seq(S)
    BY <1>1
  <2>2. <<"requireKeys">> \o Session \in Seq(S)
    BY <1>3, <2>1, Concatenated
  <2>3. ExportPublicFlow \in Seq(S)
    BY <2>1, <2>2, Concatenated DEF ExportPublicFlow
  <2>4. QED
    BY <1>9, <2>3, Programs DEF S
<1>10. CASE type = "LoadAccount"
  <2>1. <<"requireNoKeys">> \in Seq(S) /\ <<"loadKeys">> \in Seq(S)
    BY <1>1, <1>2, <1>10
  <2>2. <<"requireNoKeys">> \o Session \in Seq(S)
    BY <1>3, <2>1, Concatenated
  <2>3. LoadKeysFlow \in Seq(S)
    BY <2>1, <2>2, Concatenated DEF LoadKeysFlow
  <2>4. QED
    BY <1>10, <2>3, Programs DEF S
<1>11. CASE type = "Sign"
  <2>1. <<"requireKeys">> \in Seq(S) /\ <<"sign">> \in Seq(S)
    BY <1>1
  <2>2. <<"requireKeys">> \o Session \in Seq(S)
    BY <1>3, <2>1, Concatenated
  <2>3. SignFlow \in Seq(S)
    BY <2>1, <2>2, Concatenated DEF SignFlow
  <2>4. QED
    BY <1>11, <2>3, Programs DEF S
<1>12. CASE type = "UnpairOthers"
  <2>1. "unpairOther" \in S /\ MaxSlots - 1 \in Int
    BY <1>2, <1>12, Constants
  <2>2. [i \in 1..(MaxSlots - 1) |-> "unpairOther"] \in Seq(S)
    BY <2>1, Repeated
  <2>3. UnpairOthersFlow \in Seq(S)
    BY <1>3, <2>2, Concatenated DEF UnpairOthersFlow
  <2>4. QED
    BY <1>12, <2>3, Programs DEF S
<1>13. CASE type = "DeleteAccountAndUnpair"
  <2>1. <<"removeKey", "unpairCurrent">> \in Seq(S)
    BY <1>1, <1>2, <1>13
  <2>2. DeleteUnpairFlow \in Seq(S)
    BY <1>3, <2>1, Concatenated DEF DeleteUnpairFlow
  <2>3. QED
    BY <1>13, <2>2, Programs DEF S
<1>14. CASE type \in {"GetAppInfo", "ChangePIN", "ChangePUK", "ChangePairing", "UnpairThis",
                      "StoreMetadata", "GetMetadata"}
  <2>1. \A s \in {"changePIN", "changePUK", "changePairing"} : ChangeFlow(s) \in Seq(S)
    BY <1>1, <1>7 DEF ChangeFlow
  <2>2. StoreMetadataFlow \in Seq(S) /\ <<"getMetadata">> \in Seq(S)
    BY <1>1, <1>4, <1>7 DEF StoreMetadataFlow
  <2>3. type = "UnpairThis" => UnpairThisFlow \in Seq(S)
    BY <1>2, <1>7 DEF UnpairThisFlow
  <2>4. QED
    BY <1>3, <1>14, <2>1, <2>2, <2>3, Programs DEF S
<1>15. QED
  BY <1>8, <1>9, <1>10, <1>11, <1>12, <1>13, <1>14 DEF FlowType

\* The keys are loaded at the end, and after the card was looked at.
LEMMA LoadProgram ==
    ASSUME NEW P, P = Program("LoadAccount")
    PROVE  Len(P) = 4 /\ P[1] = "requireNoKeys" /\ P[2] = "openSC" /\ P[3] = "authenticate"
<1>1. P = <<"requireNoKeys">> \o <<"openSC", "authenticate">> \o <<"loadKeys">>
  BY Programs DEF LoadKeysFlow, Session
<1>2. QED
  BY <1>1

-----------------------------------------------------------------------------
\* Where a flow is.

\* The flow is at its steps, or goes on with them when it is answered.
Live(x) == x.at = "body" \/ (x.at = "paused" /\ x.then = "retry")

Rest(x, n) == \A i \in n..Len(x.todo) :
    /\ x.todo[i] \in Usual /\ OfType(x.type, x.todo[i])
    /\ x.todo[i] = "loadKeys" => i = Len(x.todo)

\* Keys may be loaded, by what the flow knows of the card.
Permitted(x) == ~x.info.keys \/ "Overwrite" \in x.params.has

\* The card is yet to be looked at: with the step after n, the flow is its own.
Looks(x, n) ==
    /\ Len(x.todo) >= n /\ x.todo[n] = "select" /\ Rest(x, n + 1)
    /\ x.type = "LoadAccount" => Len(x.todo) > n /\ x.todo[n + 1] = "requireNoKeys"

Ahead(x) ==
    /\ x.info.card = None
    /\ \/ Looks(x, 1)
       \/ /\ Looks(x, 2) /\ x.todo[1] \in ResetStep
          /\ x.todo[1] # "factoryReset" => "FactoryReset" \in x.params.has

\* The card has been looked at, and is one that the client accepts.
Met(x) ==
    /\ x.info.card = x.link
    /\ x.params.instance \in {None, x.link}
    /\ Rest(x, 2)
    /\ x.todo # <<>> =>
         /\ x.todo[1] \in Usual \cup Inner /\ OfType(x.type, x.todo[1])
         /\ x.todo[1] = "loadKeys" => Len(x.todo) = 1
         /\ x.type = "LoadAccount" => x.todo[1] = "requireNoKeys" \/ Permitted(x)

FlowFits(x) ==
    /\ x \in FlowObject
    /\ x.at # "idle" => x.type \in FlowType
    /\ x.at = "connect" => x.info = NoInfo
    /\ x.at = "paused" => x.signal \in Signal
    /\ Live(x) => x.link \in Cards /\ (Ahead(x) \/ Met(x))

\* What a function changes before it returns.
Like(y, x) ==
    /\ y \in FlowObject
    /\ y.at = x.at /\ y.type = x.type /\ y.todo = x.todo /\ y.link = x.link
    /\ y.then = x.then /\ y.signal = x.signal
    /\ y.info.card = x.info.card
    /\ y.params.instance = x.params.instance

\* A flow that has met its card and goes on to its next step fits; a load of
\* keys must be permitted unless nothing follows.
LEMMA DoneFits ==
    ASSUME NEW x, NEW y, FlowFits(x), x.at = "body", Met(x), x.todo # <<>>, Like(y, x),
           x.type = "LoadAccount" /\ Len(x.todo) > 1 => Permitted(y)
    PROVE  /\ FlowFits(Done(y)) /\ Met(Done(y)) /\ Done(y).at = "body" /\ Done(y).link = x.link
           /\ Done(y).info = y.info /\ Done(y).params = y.params /\ Done(y).type = x.type
           /\ Done(y).todo # <<>> => Done(y).todo[1] \in Usual
<1> DEFINE d == Done(y)
<1>1. /\ d \in FlowObject /\ d.todo = Tail(x.todo)
      /\ d.at = "body" /\ d.type = x.type /\ d.link = x.link
      /\ d.info = y.info /\ d.params = y.params
  BY DoneFields DEF Like
<1> HIDE DEF d
<1>2. x.todo \in Seq(Step)
  BY Fields DEF FlowFits
<1>3. /\ Len(x.todo) \in Nat /\ Len(x.todo) >= 1 /\ Len(d.todo) = Len(x.todo) - 1
      /\ \A i \in 1..(Len(x.todo) - 1) : d.todo[i] = x.todo[i + 1]
      /\ d.todo # <<>> => Len(d.todo) >= 1
  BY <1>1, <1>2, StepSequences
<1>4. \A i \in 1..Len(d.todo) :
        /\ d.todo[i] \in Usual /\ OfType(d.type, d.todo[i])
        /\ d.todo[i] = "loadKeys" => i = Len(d.todo)
  BY <1>1, <1>3 DEF Met, Rest
<1>5. Rest(d, 2)
  BY <1>3, <1>4 DEF Rest
<1>6. d.todo # <<>> =>
        /\ d.todo[1] \in Usual \cup Inner /\ OfType(d.type, d.todo[1])
        /\ d.todo[1] = "loadKeys" => Len(d.todo) = 1
        /\ d.type = "LoadAccount" => Permitted(d)
  <2> SUFFICES ASSUME d.todo # <<>>
               PROVE  /\ d.todo[1] \in Usual /\ OfType(d.type, d.todo[1])
                      /\ d.todo[1] = "loadKeys" => Len(d.todo) = 1
                      /\ d.type = "LoadAccount" => Permitted(d)
    OBVIOUS
  <2>1. Len(d.todo) >= 1 /\ Len(x.todo) > 1 /\ 1 \in 1..Len(d.todo)
    BY <1>3
  <2>2. d.type = "LoadAccount" => Permitted(d)
    BY <1>1, <2>1 DEF Permitted
  <2>3. QED
    BY <1>4, <2>1, <2>2
<1>7. Met(d)
  BY <1>1, <1>5, <1>6 DEF Met, Like
<1>8. FlowFits(d)
  BY <1>1, <1>7 DEF FlowFits, Live
<1>9. d.todo # <<>> => d.todo[1] \in Usual
  BY <1>3, <1>4
<1>10. QED
  BY <1>1, <1>7, <1>8, <1>9 DEF d

\* So does one that goes on with a step that another step calls.
LEMMA DoFits ==
    ASSUME NEW x, NEW y, FlowFits(x), x.at = "body", Met(x), x.todo # <<>>, Like(y, x),
           NEW s \in (Usual \cup Inner) \ {"loadKeys"}, OfType(x.type, s),
           x.type = "LoadAccount" => Permitted(y)
    PROVE  /\ FlowFits(Do(y, s)) /\ Met(Do(y, s)) /\ Do(y, s).at = "body"
           /\ Do(y, s).link = x.link /\ Do(y, s).type = x.type
           /\ Do(y, s).info = y.info /\ Do(y, s).params = y.params
           /\ Do(y, s).todo # <<>> /\ Do(y, s).todo[1] = s
<1> DEFINE d == Do(y, s)
<1>0. s \in Step
  BY DEF Usual, Inner, Step
<1>1. /\ d \in FlowObject /\ d.todo = <<s>> \o Tail(x.todo)
      /\ d.at = "body" /\ d.type = x.type /\ d.link = x.link
      /\ d.info = y.info /\ d.params = y.params
  BY <1>0, DoFields DEF Like
<1> HIDE DEF d
<1>2. x.todo \in Seq(Step)
  BY Fields DEF FlowFits
<1>3. /\ Len(x.todo) \in Nat /\ Len(x.todo) >= 1 /\ Len(d.todo) = Len(x.todo)
      /\ d.todo[1] = s
      /\ \A i \in 2..Len(x.todo) : d.todo[i] = x.todo[i]
      /\ d.todo # <<>>
  BY <1>0, <1>1, <1>2, StepSequences
<1>4. Rest(d, 2)
  BY <1>1, <1>3 DEF Met, Rest
<1>5. Met(d)
  BY <1>1, <1>3, <1>4 DEF Met, Like, Permitted
<1>6. FlowFits(d)
  BY <1>1, <1>5 DEF FlowFits, Live
<1>7. QED
  BY <1>1, <1>3, <1>5, <1>6 DEF d

\* So does one that pauses to ask the client for a value.
LEMMA AskFits ==
    ASSUME NEW x, NEW y, FlowFits(x), x.at = "body", Met(x), Like(y, x), NEW sig \in Signal,
           x.todo # <<>> /\ x.type = "LoadAccount" =>
               x.todo[1] = "requireNoKeys" \/ Permitted(y)
    PROVE  /\ FlowFits(Asks(y, sig)) /\ Met(Asks(y, sig)) /\ Asks(y, sig).at = "paused"
           /\ Asks(y, sig).todo = x.todo /\ Asks(y, sig).link = x.link
           /\ Asks(y, sig).type = x.type
           /\ Asks(y, sig).info = y.info /\ Asks(y, sig).params = y.params
<1> DEFINE d == Asks(y, sig)
<1>1. /\ d \in FlowObject /\ d.todo = x.todo /\ d.signal = sig
      /\ d.at = "paused" /\ d.type = x.type /\ d.link = x.link
      /\ d.info = y.info /\ d.params = y.params
  BY PausedFields DEF Like
<1> HIDE DEF d
<1>2. Rest(d, 2)
  BY <1>1 DEF Met, Rest
<1>3. Met(d)
  BY <1>1, <1>2 DEF Met, Like, Permitted
<1>4. FlowFits(d)
  BY <1>1, <1>3 DEF FlowFits, Live
<1>5. QED
  BY <1>1, <1>3, <1>4 DEF d

\* A flow that restarts is at no step: nothing is claimed of its card.
LEMMA RestartFits ==
    ASSUME NEW x \in FlowObject, x.type \in FlowType
    PROVE  FlowFits(Restarted(x)) /\ ~Live(Restarted(x))
BY RestartedFields DEF FlowFits, Live

\* Nor is anything claimed while it waits for another card.
LEMMA SwapFits ==
    ASSUME NEW x \in FlowObject, x.type \in FlowType
    PROVE  FlowFits(Swap(x)) /\ ~Live(Swap(x))
BY SwapFields DEF FlowFits, Live, Signal

\* Nor once it has ended.
LEMMA EndFits ==
    ASSUME NEW r \in {"none", "ok", "error", "giveup", "unpaired", "authenticity"}
    PROVE  FlowFits(Ends(r)) /\ ~Live(Ends(r)) /\ Ends(r).at = "idle"
<1>1. Ends(r).at = "idle"
  BY DEF Ends, IdleFlow
<1>2. QED
  BY <1>1, IdleTyped DEF FlowFits, Live

-----------------------------------------------------------------------------
\* The cards.

\* A session needs a pairing, and a pairing takes a slot of a card that is set
\* up.
Consistent(k) ==
    /\ k \in CardState
    /\ k.verified => k.channel
    /\ k.channel => k.paired
    /\ k.init => k.installed
    /\ k.paired => k.init /\ k.slots < MaxSlots

Wiping   == {"delete", "install", "reset"}
Slotting == {"pair", "unpair", "unpairOther"}
Keying   == {"loadSeed", "removeKey"}
Looking  == {"identify", "status", "generate", "changePIN", "changePUK", "export", "getData"}
Trying   == {"verifyGood", "verifyBad", "unblockGood", "unblockBad"}
Setting  == InitCommands \cup {"changePairing", "storeData", "open"} \cup Trying
Issued   == Wiping \cup Slotting \cup Keying \cup Looking \cup Setting \cup {"select", "malformed"}

\* What a card must be for a command to do something.
LEMMA Obeyed ==
    ASSUME NEW k, NEW c \in Issued, Obeys(k, c)
    PROVE  /\ c # "malformed"
           /\ c = "pair" => k.init /\ k.slots > 0
           /\ c \in {"unpair", "unpairOther", "removeKey", "changePairing", "changePIN", "changePUK",
                     "loadSeed", "storeData", "export"} => k.verified
           /\ c \in InitCommands => k.installed /\ ~k.init
           /\ c = "open" => k.installed /\ k.init /\ k.paired /\ mem[f.link] = "current"
           /\ c \in Trying \cup {"status", "generate"} => k.channel
<1> USE DEF Obeys, Accepts, SelectCommands, InitCommands, ChannelCommands, PINCommands
<1>1. c # "malformed"
  OBVIOUS
<1>2. c = "pair" => k.init /\ k.slots > 0
  OBVIOUS
<1>3. c \in {"unpair", "unpairOther", "removeKey", "changePairing", "changePIN", "changePUK",
             "loadSeed", "storeData", "export"} => k.verified
  OBVIOUS
<1>4. c \in InitCommands => k.installed /\ ~k.init
  OBVIOUS
<1>5. c = "open" => k.installed /\ k.init /\ k.paired /\ mem[f.link] = "current"
  OBVIOUS
<1>6. c \in Trying \cup {"status", "generate"} => k.channel
  BY DEF Trying
<1>7. QED
  BY <1>1, <1>2, <1>3, <1>4, <1>5, <1>6

\* A reset leaves a card without pairings and with all its slots.
LEMMA WipedCard ==
    ASSUME NEW k, NEW c \in Wiping
    PROVE  /\ Consistent(Replaced(k, c))
           /\ Replaced(k, c).slots = MaxSlots /\ ~Replaced(k, c).paired
<1>1. /\ Replaced(k, "delete") = [EmptyCard EXCEPT !.installed = FALSE]
      /\ Replaced(k, "install") = EmptyCard /\ Replaced(k, "reset") = EmptyCard
  BY DEF Replaced, Effect, SelectCommands, InitCommands
<1>2. EmptyCard \in CardState
  BY Constants DEF EmptyCard, CardState
<1>3. Consistent(EmptyCard) /\ EmptyCard.slots = MaxSlots /\ ~EmptyCard.paired
  BY <1>2 DEF Consistent, EmptyCard
<1>4. [EmptyCard EXCEPT !.installed = FALSE] \in CardState
  BY <1>2 DEF CardState
<1>5. Consistent([EmptyCard EXCEPT !.installed = FALSE])
  BY <1>4 DEF Consistent, EmptyCard
<1>6. /\ [EmptyCard EXCEPT !.installed = FALSE].slots = MaxSlots
      /\ ~[EmptyCard EXCEPT !.installed = FALSE].paired
  BY DEF EmptyCard
<1>7. CASE c = "delete"
  BY <1>1, <1>5, <1>6, <1>7
<1>8. CASE c \in {"install", "reset"}
  BY <1>1, <1>3, <1>8
<1>9. QED
  BY <1>7, <1>8 DEF Wiping

\* A pairing takes a slot, unpairing frees one, and neither touches the keys.
LEMMA SlottedCard ==
    ASSUME NEW k, Consistent(k), NEW c \in Slotting, Obeys(k, c)
    PROVE  /\ Consistent(Replaced(k, c))
           /\ Replaced(k, c).keys = k.keys
           /\ c = "pair" => Replaced(k, c).slots = k.slots - 1 /\ Replaced(k, c).paired
           /\ c = "unpair" => Replaced(k, c).slots = k.slots + 1 /\ ~Replaced(k, c).paired
           /\ c = "unpairOther" => Replaced(k, c).slots >= k.slots /\ Replaced(k, c).paired = k.paired
<1> DEFINE d == Replaced(k, c)
<1>0. c \in Issued /\ k \in CardState /\ MaxSlots \in Nat
  BY Constants DEF Issued, Consistent
<1>1. CASE c = "pair"
  <2>1. d = [k EXCEPT !.slots = @ - 1, !.paired = TRUE]
    BY <1>1 DEF Replaced, Effect, SelectCommands, InitCommands
  <2>2. k.init /\ k.slots > 0 /\ k.slots \in 0..MaxSlots
    BY <1>0, <1>1, Obeyed DEF CardState
  <2>3. k.slots - 1 \in 0..MaxSlots /\ k.slots - 1 < MaxSlots
    BY <1>0, <2>2
  <2>4. d \in CardState
    BY <1>0, <2>1, <2>3 DEF CardState
  <2>5. /\ d.slots = k.slots - 1 /\ d.paired /\ d.keys = k.keys /\ d.init = k.init
        /\ d.installed = k.installed /\ d.channel = k.channel /\ d.verified = k.verified
    BY <1>0, <2>1 DEF CardState
  <2> HIDE DEF d
  <2>6. Consistent(d)
    BY <2>2, <2>3, <2>4, <2>5 DEF Consistent
  <2>7. QED
    BY <1>1, <2>5, <2>6 DEF d
<1>2. CASE c = "unpair"
  <2>1. d = EndSession([k EXCEPT !.slots = @ + 1, !.paired = FALSE])
    BY <1>2 DEF Replaced
  <2>2. k.slots < MaxSlots /\ k.slots \in 0..MaxSlots
    BY <1>0, <1>2, Obeyed DEF Consistent, CardState
  <2>3. k.slots + 1 \in 0..MaxSlots
    BY <1>0, <2>2
  <2>4. d \in CardState
    BY <1>0, <2>1, <2>3 DEF CardState, EndSession
  <2>5. /\ d.slots = k.slots + 1 /\ ~d.paired /\ d.keys = k.keys /\ d.init = k.init
        /\ d.installed = k.installed /\ ~d.channel /\ ~d.verified
    BY <1>0, <2>1 DEF CardState, EndSession
  <2> HIDE DEF d
  <2>6. Consistent(d)
    BY <2>4, <2>5 DEF Consistent
  <2>7. QED
    BY <1>2, <2>5, <2>6 DEF d
<1>3. CASE c = "unpairOther"
  <2>1. d = [k EXCEPT !.slots = IF @ + 1 < MaxSlots THEN @ + 1 ELSE @]
    BY <1>3 DEF Replaced
  <2>2. k.slots \in 0..MaxSlots
    BY <1>0 DEF CardState
  <2>3. QED
    BY <1>0, <1>3, <2>1, <2>2 DEF Consistent, CardState
<1>4. QED
  BY <1>1, <1>2, <1>3 DEF Slotting

\* Loading or removing keys leaves the slots and the pairing alone.
LEMMA KeyedCard ==
    ASSUME NEW k, Consistent(k), NEW c \in Keying, Obeys(k, c)
    PROVE  /\ Consistent(Replaced(k, c))
           /\ Replaced(k, c).keys = (c = "loadSeed")
           /\ Replaced(k, c).slots = k.slots /\ Replaced(k, c).paired = k.paired
<1>1. Replaced(k, c) = [k EXCEPT !.keys = (c = "loadSeed")]
  BY DEF Replaced, Effect, SelectCommands, InitCommands, Keying
<1>2. QED
  BY <1>1 DEF Consistent, CardState

\* Reading a card, signing and changing a PIN change nothing that is modelled.
LEMMA LookedCard ==
    ASSUME NEW k, NEW c \in Looking
    PROVE  Replaced(k, c) = k
BY DEF Replaced, Effect, SelectCommands, InitCommands, Looking

\* Selecting the applet ends the session, and does no more when repeated.
LEMMA SelectedCard ==
    ASSUME NEW k, Consistent(k)
    PROVE  /\ Replaced(k, "select") = EndSession(k)
           /\ Consistent(EndSession(k))
           /\ EndSession(k).slots = k.slots /\ EndSession(k).paired = k.paired
           /\ EndSession(k).keys = k.keys
           /\ EndSession(EndSession(k)) = EndSession(k)
<1>1. Replaced(k, "select") = EndSession(k)
  BY DEF Replaced, Effect, SelectCommands, InitCommands
<1>2. QED
  BY <1>1 DEF Consistent, CardState, EndSession

\* The other commands leave keys, slots and the pairing alone.
LEMMA SetCard ==
    ASSUME NEW k, Consistent(k), NEW c \in Setting, Obeys(k, c)
    PROVE  /\ Consistent(Replaced(k, c)) /\ Replaced(k, c).keys = k.keys
           /\ Replaced(k, c).slots = k.slots /\ Replaced(k, c).paired = k.paired
<1> DEFINE d == Replaced(k, c)
<1>0. c \in Issued /\ k \in CardState
  BY DEF Issued, Consistent
<1>1. CASE c \in InitCommands
  <2>1. d = [k EXCEPT !.init = TRUE, !.default = (c = "initDefault")]
    BY <1>1 DEF Replaced, Effect, SelectCommands, InitCommands
  <2>2. k.installed /\ ~k.paired /\ ~k.channel /\ ~k.verified
    BY <1>0, <1>1, Obeyed DEF Consistent
  <2>3. (c = "initDefault") \in BOOLEAN
    OBVIOUS
  <2>4. d \in CardState
    BY <1>0, <2>1, <2>3 DEF CardState
  <2>5. /\ d.installed = k.installed /\ d.paired = k.paired /\ d.channel = k.channel
        /\ d.verified = k.verified /\ d.slots = k.slots /\ d.keys = k.keys
    BY <1>0, <2>1 DEF CardState
  <2> HIDE DEF d
  <2>6. Consistent(d)
    BY <2>2, <2>4, <2>5 DEF Consistent
  <2>7. QED
    BY <2>5, <2>6 DEF d
<1>2. CASE c = "changePairing"
  <2>1. d = [k EXCEPT !.default = FALSE]
    BY <1>2 DEF Replaced
  <2>2. QED
    BY <2>1 DEF Consistent, CardState
<1>3. CASE c = "storeData"
  <2>1. d = [k EXCEPT !.data = TRUE]
    BY <1>3 DEF Replaced, Effect, SelectCommands, InitCommands
  <2>2. QED
    BY <2>1 DEF Consistent, CardState
<1>4. CASE c = "open"
  <2>1. d = [k EXCEPT !.channel = TRUE, !.verified = FALSE]
    BY <1>4 DEF Replaced, Effect, SelectCommands, InitCommands
  <2>2. k.installed /\ k.init /\ k.paired
    BY <1>0, <1>4, Obeyed
  <2>3. d \in CardState
    BY <1>0, <2>1 DEF CardState
  <2>4. /\ d.installed = k.installed /\ d.init = k.init /\ d.paired = k.paired
        /\ d.channel /\ ~d.verified /\ d.slots = k.slots /\ d.keys = k.keys
    BY <1>0, <2>1 DEF CardState
  <2> HIDE DEF d
  <2>5. Consistent(d)
    BY <2>2, <2>3, <2>4 DEF Consistent
  <2>6. QED
    BY <2>4, <2>5 DEF d
<1>5. CASE c \in Trying
  <2>1. k.channel /\ k.paired
    BY <1>0, <1>5, Obeyed DEF Consistent
  <2>2. \/ d = k
        \/ d = [k EXCEPT !.pin = MaxPIN, !.verified = TRUE]
        \/ d = [k EXCEPT !.pin = Decrement(@), !.verified = FALSE]
        \/ d = [k EXCEPT !.pin = MaxPIN, !.puk = MaxPUK, !.verified = TRUE]
        \/ d = [k EXCEPT !.puk = Decrement(@)]
    BY <1>5 DEF Replaced, Effect, SelectCommands, InitCommands, Trying
  <2>3. Decrement(k.pin) \in 0..MaxPIN /\ Decrement(k.puk) \in 0..MaxPUK
    BY <1>0, Constants DEF CardState, Decrement
  <2>4. d \in CardState
    <3>0. MaxPIN \in 0..MaxPIN /\ MaxPUK \in 0..MaxPUK
      BY Constants
    <3>1. [k EXCEPT !.pin = MaxPIN, !.verified = TRUE] \in CardState
      BY <1>0, <3>0 DEF CardState
    <3>5. [k EXCEPT !.pin = MaxPIN, !.puk = MaxPUK, !.verified = TRUE] \in CardState
      BY <1>0, <3>0 DEF CardState
    <3>2. [k EXCEPT !.pin = Decrement(@), !.verified = FALSE] \in CardState
      BY <1>0, <2>3 DEF CardState
    <3>3. [k EXCEPT !.puk = Decrement(@)] \in CardState
      BY <1>0, <2>3 DEF CardState
    <3>4. QED
      BY <1>0, <2>2, <3>1, <3>2, <3>3, <3>5
  <2>5. /\ d.slots = k.slots /\ d.paired = k.paired /\ d.keys = k.keys
        /\ d.installed = k.installed /\ d.init = k.init /\ d.channel = k.channel
    BY <1>0, <2>2 DEF CardState
  <2>6. QED
    BY <2>1, <2>4, <2>5 DEF Consistent
<1>6. QED
  BY <1>1, <1>2, <1>3, <1>4, <1>5 DEF Setting

-----------------------------------------------------------------------------
\* The invariants.

CardsFit == /\ card \in [Cards -> CardState]
            /\ \A c \in Cards : Consistent(card[c])

\* While the card stays in the reader, the flow knows it.
InfoFits ==
    Live(f) /\ f.info.card # None /\ valid =>
        /\ f.info.keys = card[f.link].keys
        /\ f.type \in {"UnpairThis", "DeleteAccountAndUnpair"} => f.info.free = card[f.link].slots

\* A flow that is about to pair has no pairing in memory, and may trust the card.
HeadIs(S) == Live(f) /\ f.todo # <<>> /\ f.todo[1] \in S
PairFits ==
    /\ HeadIs({"verifyAuthenticity", "pair"}) => mem[f.link] = "none"
    /\ HeadIs({"pair"}) => ~KnownCA \/ f.link \notin Fake \/ f.params.skip = f.link

\* A pairing that the card honours is not dropped from memory.
MemFits == \A c \in Cards : file[c] = "current" /\ card[c].paired => mem[c] = "current"

OthersTyped ==
    /\ slot \in Cards \cup {None} /\ valid \in BOOLEAN
    /\ mem \in [Cards -> Entry] /\ file \in [Cards -> Entry]
    /\ flows \in 0..MaxFlows /\ replies \in 0..MaxReplies /\ faults \in 0..MaxFaults
    /\ entered \in Nat /\ burnt \in Nat /\ unheard \in Nat /\ torn \in [Cards -> Nat]

FlowInv == FlowFits(f) /\ CardsFit /\ InfoFits /\ PairFits /\ MemFits /\ OthersTyped

\* A PIN that the flow holds has been given, and no refusal of it was heard.
PinInv == PinTriesAreEntered

\* A card has one slot taken for what the file or the flow knows.
Known(c) == card[c].paired /\ (file[c] = "current" \/ (At("store") /\ f.link = c))
SlotInv == \A c \in Cards : MaxSlots - card[c].slots <= torn[c] + (IF Known(c) THEN 1 ELSE 0)

-----------------------------------------------------------------------------
\* The answers of a flow that goes on with the same card.

\* The PINs a set of parameters holds can be counted; without any it holds none.
LEMMA GivenCounts ==
    /\ \A p : GivenPINs(p) \in Nat
    /\ GivenPINs(NoParams) = 0
BY DEF GivenPINs, NoParams

\* A flow object at another step, that knows of the card what f knows; steady
\* if the step is none of those that make a pairing.
Near(y) ==
    /\ FlowFits(y)
    /\ GivenPINs(y.params) <= GivenPINs(f.params)
    /\ Live(y) =>
         /\ y.link = f.link /\ y.type = f.type /\ y.info.card = f.info.card
         /\ y.info.keys = f.info.keys /\ y.info.free = f.info.free

Steady(y) ==
    /\ Near(y)
    /\ Live(y) /\ y.todo # <<>> => y.todo[1] \notin {"verifyAuthenticity", "pair", "store"}

\* The flow object with another PIN, with fewer parameters or with attempts
\* that were counted.
Kin(y) ==
    /\ Like(y, f)
    /\ y.info.keys = f.info.keys /\ y.info.free = f.info.free
    /\ GivenPINs(y.params) <= GivenPINs(f.params)
    /\ "Overwrite" \in f.params.has => "Overwrite" \in y.params.has

\* What the invariant says of a flow that is at step s: the first step of todo,
\* on a card of its own, looked at or not according to the step.
LEMMA AtStep ==
    ASSUME FlowInv, NEW s \in Step, At(s)
    PROVE  /\ f \in FlowObject /\ f.at = "body" /\ f.todo \in Seq(Step) /\ f.todo # <<>>
           /\ f.todo[1] = s /\ Head(f.todo) = s /\ f.type \in FlowType /\ f.link \in Cards /\ Live(f)
           /\ s \in Usual \cup Inner => Met(f)
           /\ s \in ResetStep \cup {"select"} => Ahead(f)
           /\ OfType(f.type, s)
           /\ f.type = "LoadAccount" /\ s \in Usual \cup Inner => s = "requireNoKeys" \/ Permitted(f)
<1>1. f \in FlowObject /\ f.at = "body" /\ f.todo # <<>> /\ Head(f.todo) = s /\ FlowFits(f)
  BY DEF FlowInv, At, FlowFits
<1>2. f.todo \in Seq(Step)
  BY <1>1, Fields
<1>3. f.todo[1] = s
  BY <1>1, <1>2, StepSequences
<1>4. Live(f) /\ f.type \in FlowType /\ f.link \in Cards /\ (Ahead(f) \/ Met(f))
  BY <1>1 DEF FlowFits, Live
<1>5. s \in Usual \cup Inner => Met(f)
  BY <1>3, <1>4 DEF Ahead, Looks, Usual, Inner, ResetStep
<1>6. s \in ResetStep \cup {"select"} => Ahead(f)
  BY <1>1, <1>3, <1>4 DEF Met, Usual, Inner, ResetStep
<1>7. OfType(f.type, s)
  <2>1. CASE s \in ResetStep \cup {"select"}
    BY <2>1 DEF OfType, ResetStep
  <2>2. CASE s \notin ResetStep \cup {"select"}
    <3>1. s \in Usual \cup Inner
      BY <2>2 DEF Usual, Inner
    <3>2. QED
      BY <1>1, <1>3, <1>5, <3>1 DEF Met
  <2>3. QED
    BY <2>1, <2>2
<1>8. f.type = "LoadAccount" /\ s \in Usual \cup Inner => s = "requireNoKeys" \/ Permitted(f)
  BY <1>1, <1>3, <1>5 DEF Met
<1>9. QED
  BY <1>1, <1>2, <1>3, <1>4, <1>5, <1>6, <1>7, <1>8

\* A flow object differs from itself in nothing.
LEMMA KinSelf == ASSUME f \in FlowObject PROVE Kin(f)
BY GivenCounts DEF Kin, Like

\* A restart, whatever was learnt meanwhile.
LEMMA SteadyRestart ==
    ASSUME FlowInv, f.at = "body", NEW y \in FlowObject, y.type = f.type,
           GivenPINs(y.params) <= GivenPINs(f.params)
    PROVE  Steady(Restarted(y)) /\ ~Live(Restarted(y))
<1>1. f.type \in FlowType
  BY DEF FlowInv, FlowFits
<1>2. QED
  BY <1>1, RestartFits, RestartedFields DEF Steady, Near

\* A pause for another card.
LEMMA SteadySwap ==
    ASSUME FlowInv, f.at = "body", Kin(f), NEW y, Kin(y)
    PROVE  Steady(Swap(y)) /\ ~Live(Swap(y))
<1>1. f.type \in FlowType
  BY DEF FlowInv, FlowFits
<1>2. QED
  BY <1>1, SwapFits, SwapFields DEF Steady, Near, Kin, Like

\* The end of the flow.
LEMMA SteadyEnd ==
    ASSUME NEW r \in {"none", "ok", "error", "giveup", "unpaired", "authenticity"}
    PROVE  Steady(Ends(r)) /\ ~Live(Ends(r))
<1>1. Ends(r).params = NoParams
  BY DEF Ends, IdleFlow
<1>2. GivenPINs(Ends(r).params) <= GivenPINs(f.params)
  BY <1>1, GivenCounts
<1>3. QED
  BY <1>2, EndFits DEF Steady, Near

\* The next step of the flow; it is never one that makes a pairing.
LEMMA SteadyDone ==
    ASSUME FlowInv, NEW s \in Usual \cup Inner, At(s), s # "requireNoKeys", NEW y, Kin(y)
    PROVE  Steady(Done(y))
<1>1. s \in Step
  BY DEF Usual, Inner, Step
<1>2. /\ f \in FlowObject /\ f.at = "body" /\ f.todo # <<>> /\ Met(f) /\ FlowFits(f)
      /\ f.type = "LoadAccount" => Permitted(f)
  BY <1>1, AtStep DEF FlowInv
<1>3. f.type = "LoadAccount" => Permitted(y)
  BY <1>2 DEF Kin, Permitted
<1>4. /\ FlowFits(Done(y)) /\ Done(y).link = f.link /\ Done(y).info = y.info
      /\ Done(y).params = y.params /\ Done(y).type = f.type
      /\ Done(y).todo # <<>> => Done(y).todo[1] \in Usual
  BY <1>2, <1>3, DoneFits DEF Kin
<1>5. QED
  BY <1>4 DEF Steady, Near, Kin, Like, Usual, Inner

\* A step that another step calls.
LEMMA NearDo ==
    ASSUME FlowInv, NEW s \in Usual \cup Inner, At(s), s # "requireNoKeys", NEW y, Kin(y),
           NEW r \in (Usual \cup Inner) \ {"loadKeys"}, OfType(f.type, r)
    PROVE  /\ Near(Do(y, r)) /\ Do(y, r).todo[1] = r /\ Do(y, r).at = "body"
           /\ Do(y, r).params = y.params /\ Do(y, r).link = f.link
<1>1. s \in Step
  BY DEF Usual, Inner, Step
<1>2. /\ f \in FlowObject /\ f.at = "body" /\ f.todo # <<>> /\ Met(f) /\ FlowFits(f)
      /\ f.type = "LoadAccount" => Permitted(f)
  BY <1>1, AtStep DEF FlowInv
<1>3. f.type = "LoadAccount" => Permitted(y)
  BY <1>2 DEF Kin, Permitted
<1>4. /\ FlowFits(Do(y, r)) /\ Do(y, r).link = f.link /\ Do(y, r).info = y.info
      /\ Do(y, r).params = y.params /\ Do(y, r).type = f.type /\ Do(y, r).at = "body"
      /\ Do(y, r).todo # <<>> /\ Do(y, r).todo[1] = r
  BY <1>1, <1>2, <1>3, DoFits DEF Kin
<1>5. QED
  BY <1>4 DEF Near, Kin, Like

\* One that does not lead to a pairing.
LEMMA SteadyDo ==
    ASSUME FlowInv, NEW s \in Usual \cup Inner, At(s), s # "requireNoKeys", NEW y, Kin(y),
           NEW r \in {"openSC", "getStatus", "initCard", "unblockPIN"}, OfType(f.type, r)
    PROVE  Steady(Do(y, r))
<1>1. r \in (Usual \cup Inner) \ {"loadKeys"}
  BY DEF Usual, Inner, Step, ResetStep
<1>2. QED
  BY <1>1, NearDo DEF Steady

\* A pause for a value, of a step that is not about the pairing.
LEMMA SteadyAsk ==
    ASSUME FlowInv, NEW s \in Usual \cup Inner, At(s), s \notin {"verifyAuthenticity", "pair", "store"},
           NEW y, Kin(y), NEW sig \in Signal
    PROVE  Steady(Asks(y, sig))
<1>1. s \in Step
  BY DEF Usual, Inner, Step
<1>2. /\ f \in FlowObject /\ f.at = "body" /\ f.todo # <<>> /\ Met(f) /\ FlowFits(f)
      /\ f.todo[1] = s
      /\ f.type = "LoadAccount" => s = "requireNoKeys" \/ Permitted(f)
  BY <1>1, AtStep DEF FlowInv
<1>3. f.type = "LoadAccount" => f.todo[1] = "requireNoKeys" \/ Permitted(y)
  BY <1>2 DEF Kin, Permitted
<1>4. /\ FlowFits(Asks(y, sig)) /\ Asks(y, sig).link = f.link /\ Asks(y, sig).info = y.info
      /\ Asks(y, sig).params = y.params /\ Asks(y, sig).type = f.type
      /\ Asks(y, sig).todo = f.todo
  BY <1>2, <1>3, AskFits DEF Kin
<1>5. QED
  BY <1>2, <1>4 DEF Steady, Near, Kin, Like

-----------------------------------------------------------------------------
\* A command: what comes of the card and of the counters.

\* A card that has not made a pairing, and that has a slot to spare for one
\* that it has lost.
Shed(k, d) ==
    /\ d.paired => k.paired
    /\ d.slots >= k.slots
    /\ d.paired = k.paired \/ d.slots > k.slots \/ d.slots = MaxSlots

Gentle == Looking \cup Setting \cup {"select", "malformed"}

\* What any command may do to a card that obeys it: only pair takes a slot.
LEMMA IssuedCard ==
    ASSUME NEW k, Consistent(k), NEW c \in Issued, Obeys(k, c)
    PROVE  /\ Consistent(Replaced(k, c))
           /\ c \in Gentle =>
                /\ Replaced(k, c).keys = k.keys /\ Replaced(k, c).slots = k.slots
                /\ Replaced(k, c).paired = k.paired
           /\ c # "pair" => Shed(k, Replaced(k, c))
<1>0. k \in CardState /\ k.slots \in 0..MaxSlots /\ MaxSlots \in Nat
  BY Constants DEF Consistent, CardState
<1>1. CASE c \in Wiping
  BY <1>0, <1>1, WipedCard DEF Wiping, Gentle, Looking, Setting, InitCommands, Trying, Shed
<1>2. CASE c \in Slotting
  BY <1>0, <1>2, SlottedCard DEF Slotting, Gentle, Looking, Setting, InitCommands, Trying, Shed
<1>3. CASE c \in Keying
  BY <1>0, <1>3, KeyedCard DEF Keying, Gentle, Looking, Setting, InitCommands, Trying, Shed
<1>4. CASE c \in Looking
  BY <1>0, <1>4, LookedCard DEF Looking, Shed
<1>5. CASE c \in Setting
  BY <1>0, <1>5, SetCard DEF Setting, InitCommands, Trying, Shed
<1>6. CASE c = "select"
  BY <1>0, <1>6, SelectedCard DEF Shed
<1>7. CASE c = "malformed"
  BY <1>7, Obeyed
<1>8. QED
  BY <1>1, <1>2, <1>3, <1>4, <1>5, <1>6, <1>7 DEF Issued

\* The card has carried the command out, or is as it was.
Touched(c) ==
    \/ card' = card
    \/ Obeys(TheCard, c) /\ valid /\ card' = [card EXCEPT ![f.link] = Replaced(@, c)]

\* The three ways a command ends.
Answered(c) == /\ valid /\ Succeeds(TheCard, c)
               /\ card' = [card EXCEPT ![f.link] = Replaced(@, c)]
               /\ UNCHANGED <<faults, entered, unheard, torn>>
Refused(c)  == valid /\ ~Succeeds(TheCard, c) /\ Touched(c) /\ UNCHANGED <<faults, entered, unheard, torn>>
Unanswered(c) ==
    /\ Touched(c)
    /\ faults' \in 0..MaxFaults
    /\ entered' = entered /\ burnt' - burnt = unheard' - unheard
    /\ torn' = torn \/ (c = "pair" /\ torn' = [torn EXCEPT ![f.link] = @ + 1])

\* Issue, by its three ends: answered, refused, or without an answer.
LEMMA IssueEnds ==
    ASSUME FlowInv, f.link \in Cards, NEW c, NEW a, NEW r, NEW n, Issue(c, a, r, n)
    PROVE  /\ \/ Answered(c) /\ f' = a
              \/ Refused(c) /\ f' = r
              \/ Unanswered(c) /\ f' = n
           /\ Touched(c)
           /\ burnt' = burnt \/ (c = "verifyBad" /\ burnt' = burnt + 1)
<1>0. /\ card \in [Cards -> CardState] /\ burnt \in Nat /\ entered \in Nat /\ unheard \in Nat
      /\ faults \in 0..MaxFaults /\ MaxFaults \in Nat
  BY Constants DEF FlowInv, CardsFit, OthersTyped
<1>1. ASSUME Carried(c), valid PROVE Touched(c)
  <2>1. CASE Obeys(TheCard, c)
    BY <1>0, <1>1, <2>1 DEF Carried, Touched, TheCard
  <2>2. CASE ~Obeys(TheCard, c)
    BY <1>0, <1>1, <2>2 DEF Carried, Touched, TheCard
  <2>3. QED
    BY <2>1, <2>2
<1>2. ASSUME Counted(c) PROVE burnt' = burnt \/ (c = "verifyBad" /\ burnt' = burnt + 1)
  BY <1>2 DEF Counted
<1>3. CASE /\ valid /\ Carried(c) /\ Counted(c)
           /\ f' = IF Succeeds(TheCard, c) THEN a ELSE r
           /\ UNCHANGED <<faults, entered, unheard, torn>>
  <2>1. Touched(c) /\ (burnt' = burnt \/ (c = "verifyBad" /\ burnt' = burnt + 1))
    BY <1>1, <1>2, <1>3
  <2>2. CASE Succeeds(TheCard, c)
    <3>1. card' = [card EXCEPT ![f.link] = Replaced(@, c)]
      BY <1>3, <2>2 DEF Carried, Succeeds, TheCard
    <3>2. f' = a
      BY <1>3, <2>2
    <3>3. Answered(c)
      BY <1>3, <2>2, <3>1 DEF Answered
    <3>4. QED
      BY <2>1, <3>2, <3>3
  <2>3. CASE ~Succeeds(TheCard, c)
    <3>1. f' = r
      BY <1>3, <2>3
    <3>2. Refused(c)
      BY <1>3, <2>1, <2>3 DEF Refused
    <3>3. QED
      BY <2>1, <3>1, <3>2
  <2>4. QED
    BY <2>2, <2>3
<1>4. CASE /\ valid /\ faults < MaxFaults /\ faults' = faults + 1
           /\ Carried(c) /\ Counted(c)
           /\ entered' = entered /\ unheard' = unheard + (burnt' - burnt)
           /\ torn' = IF c = "pair" /\ Succeeds(TheCard, c)
                      THEN [torn EXCEPT ![f.link] = @ + 1] ELSE torn
           /\ f' = n
  <2>1. Touched(c) /\ (burnt' = burnt \/ (c = "verifyBad" /\ burnt' = burnt + 1))
    BY <1>1, <1>2, <1>4
  <2>2. faults' \in 0..MaxFaults /\ entered' = entered /\ burnt' - burnt = unheard' - unheard
    BY <1>0, <1>4, <2>1
  <2>3. torn' = torn \/ (c = "pair" /\ torn' = [torn EXCEPT ![f.link] = @ + 1])
    BY <1>4
  <2>4. QED
    BY <1>4, <2>1, <2>2, <2>3 DEF Unanswered
<1>5. CASE /\ valid /\ faults < MaxFaults /\ faults' = faults + 1
           /\ UNCHANGED <<card, entered, burnt, unheard, torn>> /\ f' = n
  <2>1. faults' \in 0..MaxFaults /\ entered' = entered /\ burnt' - burnt = unheard' - unheard
    BY <1>0, <1>5
  <2>2. QED
    BY <1>5, <2>1 DEF Unanswered, Touched
<1>6. CASE ~valid /\ f' = n /\ UNCHANGED <<card, faults, entered, burnt, unheard, torn>>
  <2>1. faults' \in 0..MaxFaults /\ entered' = entered /\ burnt' - burnt = unheard' - unheard
    BY <1>0, <1>6
  <2>2. QED
    BY <1>6, <2>1 DEF Unanswered, Touched
<1>7. QED
  BY <1>3, <1>4, <1>5, <1>6 DEF Issue, ghosts

\* What a command other than pair does to the cards and to what is known of
\* their slots.
LEMMA TouchedCards ==
    ASSUME FlowInv, f.link \in Cards, NEW c \in Issued, Touched(c)
    PROVE  /\ CardsFit'
           /\ \A d \in Cards : d # f.link => card'[d] = card[d]
           /\ c \in Gentle => /\ card'[f.link].keys = card[f.link].keys
                              /\ card'[f.link].slots = card[f.link].slots
           /\ c # "pair" => \A d \in Cards : Shed(card[d], card'[d])
<1>0. /\ card \in [Cards -> CardState] /\ MaxSlots \in Nat
      /\ \A d \in Cards : Consistent(card[d]) /\ card[d].slots \in 0..MaxSlots
  BY Constants DEF FlowInv, CardsFit, CardState
<1>1. CASE card' = card
  BY <1>0, <1>1 DEF FlowInv, CardsFit, Shed
<1>2. CASE Obeys(TheCard, c) /\ card' = [card EXCEPT ![f.link] = Replaced(@, c)]
  <2>1. /\ card'[f.link] = Replaced(TheCard, c)
        /\ \A d \in Cards : d # f.link => card'[d] = card[d]
    BY <1>0, <1>2 DEF TheCard
  <2>2. Consistent(TheCard)
    BY <1>0 DEF TheCard
  <2>3. /\ Consistent(card'[f.link])
        /\ c \in Gentle =>
             /\ card'[f.link].keys = card[f.link].keys
             /\ card'[f.link].slots = card[f.link].slots
        /\ c # "pair" => Shed(card[f.link], card'[f.link])
    BY <1>2, <2>1, <2>2, IssuedCard DEF TheCard
  <2>4. CardsFit'
    <3>1. card'[f.link] \in CardState
      BY <2>3 DEF Consistent
    <3>2. card' \in [Cards -> CardState]
      BY <1>0, <1>2, <2>1, <3>1 DEF TheCard
    <3>3. QED
      BY <1>0, <2>1, <2>3, <3>2 DEF CardsFit
  <2>5. QED
    BY <1>0, <2>1, <2>3, <2>4 DEF Shed
<1>3. QED
  BY <1>1, <1>2 DEF Touched

-----------------------------------------------------------------------------
\* A step of the flow.

Kept == FlowInv' /\ (SlotInv => SlotInv') /\ (PinInv => PinInv')

\* What f is in the next state, from what it is set to.
LEMMA FitsPrimed == FlowFits(f') => FlowFits(f)'
OBVIOUS

\* No card has more slots unaccounted for when none was taken.
LEMMA SlotsKept ==
    ASSUME FlowInv, ~At("store"), CardsFit', \A d \in Cards : Shed(card[d], card'[d]),
           UNCHANGED <<file, torn>>
    PROVE  SlotInv => SlotInv'
<1> SUFFICES ASSUME SlotInv, NEW d \in Cards
             PROVE  MaxSlots - card'[d].slots <= torn[d] + (IF Known(d)' THEN 1 ELSE 0)
  BY DEF SlotInv
<1>1. /\ MaxSlots - card[d].slots <= torn[d] + (IF Known(d) THEN 1 ELSE 0)
      /\ Known(d) <=> card[d].paired /\ file[d] = "current"
      /\ card[d].slots \in 0..MaxSlots /\ card'[d].slots \in 0..MaxSlots
      /\ MaxSlots \in Nat /\ torn[d] \in Nat
  BY Constants DEF SlotInv, Known, FlowInv, CardsFit, CardState, OthersTyped
<1>2. card'[d].paired /\ file[d] = "current" => Known(d)'
  BY DEF Known
<1>3. CASE card'[d].slots = MaxSlots
  BY <1>1, <1>3
<1>4. CASE card'[d].paired = card[d].paired
  BY <1>1, <1>2, <1>4 DEF Shed
<1>5. CASE card'[d].slots > card[d].slots
  BY <1>1, <1>5
<1>6. QED
  BY <1>3, <1>4, <1>5 DEF Shed

\* The store in memory stays as good as the file while no pairing is made.
LEMMA MemKept ==
    ASSUME FlowInv, \A d \in Cards : Shed(card[d], card'[d]), UNCHANGED <<mem, file>>
    PROVE  MemFits'
BY DEF FlowInv, MemFits, Shed

\* A flow that goes on steadily knows as much as before of a card that was not
\* changed.
LEMMA SteadyFits ==
    ASSUME FlowInv, Live(f), Near(f'), UNCHANGED valid,
           \/ card'[f.link].keys = card[f.link].keys /\ card'[f.link].slots = card[f.link].slots
           \/ ~Live(f')
    PROVE  FlowFits(f)' /\ InfoFits' /\ (Steady(f') => PairFits')
<1>1. FlowFits(f)'
  BY FitsPrimed DEF Near
<1>2. Live(f)' <=> Live(f')
  OBVIOUS
<1>3. CASE ~Live(f')
  BY <1>1, <1>2, <1>3 DEF InfoFits, PairFits, HeadIs
<1>4. CASE Live(f')
  <2>1. /\ f'.link = f.link /\ f'.type = f.type /\ f'.info.card = f.info.card
        /\ f'.info.keys = f.info.keys /\ f'.info.free = f.info.free
        /\ card'[f.link].keys = card[f.link].keys /\ card'[f.link].slots = card[f.link].slots
    BY <1>4 DEF Near
  <2>2. InfoFits'
    BY <2>1 DEF FlowInv, InfoFits
  <2>3. Steady(f') => PairFits'
    BY <1>4 DEF Steady, PairFits, HeadIs
  <2>4. QED
    BY <1>1, <2>2, <2>3
<1>5. QED
  BY <1>3, <1>4

\* A step that changes nothing but the flow keeps the invariants.
LEMMA CalmStep ==
    ASSUME FlowInv, ~At("store"), Live(f), NEW x, Steady(x), Becomes(x)
    PROVE  Kept
<1>1. /\ f' = x /\ UNCHANGED <<slot, valid, card, mem, file, flows, replies, faults, entered, burnt, unheard, torn>>
  BY DEF Becomes, store, bounds, ghosts
<1>2. \A d \in Cards : Shed(card[d], card'[d])
  BY <1>1, Constants DEF Shed, FlowInv, CardsFit, CardState
<1>3. CardsFit' /\ OthersTyped'
  BY <1>1 DEF FlowInv, CardsFit, OthersTyped
<1>4. FlowFits(f)' /\ InfoFits' /\ PairFits'
  BY <1>1, SteadyFits DEF Steady
<1>5. MemFits' /\ (SlotInv => SlotInv')
  BY <1>1, <1>2, <1>3, MemKept, SlotsKept
<1>6. PinInv => PinInv'
  <2>1. GivenPINs(f'.params) <= GivenPINs(f.params)
    BY <1>1 DEF Steady, Near
  <2>2. burnt \in Nat /\ entered \in Nat /\ unheard \in Nat /\ GivenPINs(f'.params) \in Nat /\ GivenPINs(f.params) \in Nat
    BY GivenCounts DEF FlowInv, OthersTyped
  <2>3. QED
    BY <1>1, <2>1, <2>2 DEF PinInv, PinTriesAreEntered
<1>7. QED
  BY <1>3, <1>4, <1>5, <1>6 DEF Kept, FlowInv

\* The types and the cards after a command.
LEMMA IssueTyped ==
    ASSUME FlowInv, f.link \in Cards, NEW c \in Issued, NEW a, NEW r, NEW n, Issue(c, a, r, n),
           UNCHANGED <<slot, valid, flows, replies>>
    PROVE  /\ faults' \in 0..MaxFaults /\ entered' \in Nat /\ burnt' \in Nat /\ unheard' \in Nat
           /\ torn' \in [Cards -> Nat]
           /\ c # "pair" => torn' = torn
           /\ c # "verifyBad" => burnt' = burnt /\ entered' = entered /\ unheard' = unheard
<1>1. /\ faults \in 0..MaxFaults /\ entered \in Nat /\ burnt \in Nat /\ unheard \in Nat /\ torn \in [Cards -> Nat]
  BY DEF FlowInv, OthersTyped
<1>2. burnt' = burnt \/ (c = "verifyBad" /\ burnt' = burnt + 1)
  BY IssueEnds
<1>3. \/ UNCHANGED <<faults, entered, unheard, torn>>
      \/ /\ faults' \in 0..MaxFaults /\ entered' = entered /\ burnt' - burnt = unheard' - unheard
         /\ torn' = torn \/ (c = "pair" /\ torn' = [torn EXCEPT ![f.link] = @ + 1])
  BY IssueEnds DEF Answered, Refused, Unanswered
<1>4. entered' \in Int /\ unheard' \in Int
  BY <1>1, <1>2 DEF Issue, ghosts
<1>5. QED
  BY <1>1, <1>2, <1>3, <1>4

\* A command that leaves the slots and the keys alone.
LEMMA GentleNear ==
    ASSUME FlowInv, ~At("store"), Live(f), f.link \in Cards, NEW c \in Gentle,
           NEW a, NEW r, NEW n, Issue(c, a, r, n), UNCHANGED <<slot, valid, file, flows, replies>>,
           mem' \in [Cards -> Entry],
           valid /\ Succeeds(TheCard, c) => Near(a), Near(r), Near(n)
    PROVE  /\ Near(f') /\ \A d \in Cards : Shed(card[d], card'[d])
           /\ CardsFit' /\ OthersTyped' /\ FlowFits(f)' /\ InfoFits' /\ (Steady(f') => PairFits')
           /\ (SlotInv => SlotInv') /\ (c # "verifyBad" /\ PinInv => PinInv')
<1>0. c \in Issued /\ c # "pair"
  BY DEF Gentle, Issued, Looking, Setting, InitCommands, Trying
<1>2. Near(f') /\ Touched(c)
  BY IssueEnds DEF Answered
<1>3. /\ faults' \in 0..MaxFaults /\ entered' \in Nat /\ burnt' \in Nat /\ unheard' \in Nat
      /\ torn' = torn
      /\ c # "verifyBad" => burnt' = burnt /\ entered' = entered /\ unheard' = unheard
  BY <1>0, IssueTyped
<1>4. /\ CardsFit' /\ \A d \in Cards : Shed(card[d], card'[d])
      /\ card'[f.link].keys = card[f.link].keys /\ card'[f.link].slots = card[f.link].slots
  BY <1>0, <1>2, TouchedCards
<1>5. OthersTyped'
  BY <1>3 DEF FlowInv, OthersTyped
<1>6. FlowFits(f)' /\ InfoFits' /\ (Steady(f') => PairFits')
  BY <1>2, <1>4, SteadyFits
<1>7. SlotInv => SlotInv'
  BY <1>3, <1>4, SlotsKept
<1>8. c # "verifyBad" /\ PinInv => PinInv'
  <2>1. GivenPINs(f'.params) <= GivenPINs(f.params)
    BY <1>2 DEF Near
  <2>2. burnt \in Nat /\ entered \in Nat /\ unheard \in Nat /\ GivenPINs(f'.params) \in Nat /\ GivenPINs(f.params) \in Nat
    BY GivenCounts DEF FlowInv, OthersTyped
  <2>3. QED
    BY <1>3, <2>1, <2>2 DEF PinInv, PinTriesAreEntered
<1>9. QED
  BY <1>2, <1>4, <1>5, <1>6, <1>7, <1>8

\* So does a command that leaves slots and keys alone, if the flow goes on
\* steadily; a wrong PIN is left to the lemma about authenticate.
LEMMA GentleStep ==
    ASSUME FlowInv, ~At("store"), Live(f), f.link \in Cards, NEW c \in Gentle,
           NEW a, NEW r, NEW n, Issue(c, a, r, n), UNCHANGED others,
           valid /\ Succeeds(TheCard, c) => Steady(a), Steady(r), Steady(n)
    PROVE  FlowInv' /\ (SlotInv => SlotInv') /\ (c # "verifyBad" /\ PinInv => PinInv')
<1>1. UNCHANGED <<slot, valid, mem, file, flows, replies>> /\ mem' \in [Cards -> Entry]
  BY DEF others, store, FlowInv, OthersTyped
<1>2. Steady(f')
  BY IssueEnds DEF Answered
<1>3. /\ \A d \in Cards : Shed(card[d], card'[d])
      /\ CardsFit' /\ OthersTyped' /\ FlowFits(f)' /\ InfoFits' /\ PairFits'
      /\ (SlotInv => SlotInv') /\ (c # "verifyBad" /\ PinInv => PinInv')
  BY <1>1, <1>2, GentleNear DEF Steady
<1>4. MemFits'
  BY <1>1, <1>3, MemKept
<1>5. QED
  BY <1>3, <1>4 DEF FlowInv

-----------------------------------------------------------------------------
\* The steps that change neither keys nor slots.

\* The steps that the flows list, and all steps.
LEMMA UsualSteps ==
    /\ {"requireKeys", "requireNoKeys", "openSC", "authenticate", "loadKeys", "sign", "storeMetadata",
        "getMetadata", "removeKey", "export", "exportMaster", "exportBIP44", "changePIN", "changePUK",
        "changePairing", "unpairCurrent", "unpairOther"} \subseteq Usual
    /\ Usual \cup Inner \cup ResetStep \cup {"select"} = Step
BY DEF Usual, Step, ResetStep, Inner, ExportSteps, ChangeSteps

\* A flow is at one step, of a card that is consistent.
LEMMA StepsAtHand ==
    ASSUME FlowInv, NEW s \in Step, At(s)
    PROVE  /\ Live(f) /\ f.link \in Cards /\ f \in FlowObject /\ f.at = "body" /\ Kin(f)
           /\ \A t \in Step : At(t) => t = s
           /\ s # "store" => ~At("store")
           /\ TheCard = card[f.link] /\ Consistent(TheCard)
<1>1. /\ Live(f) /\ f.link \in Cards /\ f \in FlowObject /\ f.at = "body" /\ Head(f.todo) = s
  BY AtStep
<1>2. Kin(f)
  BY <1>1, KinSelf
<1>3. QED
  BY <1>1, <1>2 DEF At, TheCard, FlowInv, CardsFit

\* The flow object with fewer parameters, or with other attempts left.
LEMMA Dropped ==
    ASSUME NEW x \in FlowObject, NEW K \in SUBSET Key
    PROVE  /\ Drop(x, K) \in FlowObject
           /\ Drop(x, K).at = x.at /\ Drop(x, K).type = x.type /\ Drop(x, K).todo = x.todo
           /\ Drop(x, K).link = x.link /\ Drop(x, K).then = x.then /\ Drop(x, K).signal = x.signal
           /\ Drop(x, K).info = x.info
           /\ Drop(x, K).params = [x.params EXCEPT !.has = @ \ K]
           /\ Drop(x, K).params.has = x.params.has \ K
           /\ Drop(x, K).params.pin = x.params.pin /\ Drop(x, K).params.instance = x.params.instance
           /\ GivenPINs(Drop(x, K).params) <= GivenPINs(x.params)
<1>1. x.params \in Params
  BY Fields
<1>2. [x.params EXCEPT !.has = @ \ K] \in Params
  BY <1>1 DEF Params
<1>3. Drop(x, K) = [x EXCEPT !.params = [x.params EXCEPT !.has = @ \ K]]
  BY DEF Drop, FlowObject
<1>4. Drop(x, K) \in FlowObject
  BY <1>2, <1>3 DEF FlowObject
<1>5. /\ Drop(x, K).at = x.at /\ Drop(x, K).type = x.type /\ Drop(x, K).todo = x.todo
      /\ Drop(x, K).link = x.link /\ Drop(x, K).then = x.then /\ Drop(x, K).signal = x.signal
      /\ Drop(x, K).info = x.info
      /\ Drop(x, K).params = [x.params EXCEPT !.has = @ \ K]
  BY <1>3 DEF FlowObject
<1>6. /\ [x.params EXCEPT !.has = @ \ K].has = x.params.has \ K
      /\ [x.params EXCEPT !.has = @ \ K].pin = x.params.pin
      /\ [x.params EXCEPT !.has = @ \ K].instance = x.params.instance
  BY <1>1 DEF Params
<1>7. GivenPINs(Drop(x, K).params) <= GivenPINs(x.params)
  BY <1>5, <1>6 DEF GivenPINs
<1>8. QED
  BY <1>4, <1>5, <1>6, <1>7

\* The flow object with other card information.
LEMMA InfoTyped ==
    ASSUME NEW x \in FlowObject, NEW i \in Info
    PROVE  LET y == [x EXCEPT !.info = i]
           IN /\ y \in FlowObject /\ y.at = x.at /\ y.type = x.type /\ y.todo = x.todo
              /\ y.link = x.link /\ y.then = x.then /\ y.signal = x.signal
              /\ y.info = i /\ y.params = x.params
BY DEF FlowObject

\* The flow object with other parameters.
LEMMA ParamsTyped ==
    ASSUME NEW x \in FlowObject, NEW p \in Params
    PROVE  LET y == [x EXCEPT !.params = p]
           IN /\ y \in FlowObject /\ y.at = x.at /\ y.type = x.type /\ y.todo = x.todo
              /\ y.link = x.link /\ y.then = x.then /\ y.signal = x.signal
              /\ y.info = x.info /\ y.params = p
BY DEF FlowObject

\* A step that only asks, ends or goes on.
LEMMA SimplyKept ==
    ASSUME FlowInv, NEW s \in Usual \cup Inner, s # "store", At(s), NEW c \in Gentle \ {"verifyBad"},
           NEW a, Steady(a), Simply(c, a)
    PROVE  Kept
<1>1. s \in Step
  BY UsualSteps
<1>2. /\ Live(f) /\ f.link \in Cards /\ f \in FlowObject /\ f.at = "body" /\ ~At("store")
  BY <1>1, StepsAtHand
<1>3. Steady(Ends("error")) /\ Steady(Restarted(f))
  <2>1. GivenPINs(f.params) \in Nat
    BY GivenCounts
  <2>2. QED
    BY <1>2, <2>1, SteadyEnd, SteadyRestart
<1>4. Issue(c, a, Ends("error"), Restarted(f)) /\ UNCHANGED others
  BY DEF Simply, Exchange
<1>5. QED
  BY <1>2, <1>3, <1>4, GentleStep DEF Kept

\* A step that asks the client for a value keeps the invariants.
LEMMA AskKept ==
    ASSUME FlowInv, NEW s \in Usual \cup {"initCard", "unblockPIN"}, At(s), NEW sig \in Signal,
           Becomes(Asks(f, sig))
    PROVE  Kept
<1>1. s \in Step /\ s \in Usual \cup Inner /\ s \notin {"verifyAuthenticity", "pair", "store"}
  BY UsualSteps DEF Usual, Inner
<1>2. Live(f) /\ Kin(f) /\ ~At("store")
  BY <1>1, StepsAtHand
<1>3. Steady(Asks(f, sig))
  BY <1>1, <1>2, SteadyAsk
<1>4. QED
  BY <1>2, <1>3, CalmStep

\* A step that has nothing to do keeps the invariants.
LEMMA DoneKept ==
    ASSUME FlowInv, NEW s \in Usual, s # "requireNoKeys", At(s), Becomes(Done(f))
    PROVE  Kept
<1>1. s \in Step /\ s \in Usual \cup Inner /\ s # "store"
  BY UsualSteps DEF Usual, Inner
<1>2. Live(f) /\ Kin(f) /\ ~At("store")
  BY <1>1, StepsAtHand
<1>3. QED
  BY <1>1, <1>2, SteadyDone, CalmStep

\* A step that asks for another card keeps the invariants.
LEMMA SwapKept ==
    ASSUME FlowInv, NEW s \in Usual \cup Inner, s # "store", At(s), Becomes(Swap(f))
    PROVE  Kept
<1>1. s \in Step
  BY UsualSteps
<1>2. Live(f) /\ Kin(f) /\ ~At("store") /\ f.at = "body"
  BY <1>1, StepsAtHand
<1>3. QED
  BY <1>2, SteadySwap, CalmStep

\* A step of the usual kind that issues a command and is done.
LEMMA CommandKept ==
    ASSUME FlowInv, NEW s \in Usual, s # "requireNoKeys", At(s), NEW c \in Gentle \ {"verifyBad"},
           Simply(c, Done(f))
    PROVE  Kept
<1>1. s \in Step /\ s \in Usual \cup Inner /\ s # "store"
  BY UsualSteps DEF Usual, Inner
<1>2. Kin(f)
  BY <1>1, StepsAtHand
<1>3. Steady(Done(f))
  BY <1>1, <1>2, SteadyDone
<1>4. QED
  BY <1>1, <1>3, SimplyKept

\* The commands that leave slots and keys alone, but for those about the PIN.
LEMMA Gentles ==
    {"initDefault", "initCustom", "changePIN", "changePUK", "changePairing", "export", "storeData",
     "getData", "generate", "status", "identify", "open", "select"} \subseteq Gentle \ {"verifyBad"}
BY DEF Gentle, Looking, Setting, InitCommands, Trying

\* A flow that needs keys goes on or waits for another card.
LEMMA RequireKeysKept == ASSUME FlowInv, RequireKeys PROVE Kept
<1>1. At("requireKeys") /\ "requireKeys" \in Usual
  BY UsualSteps DEF RequireKeys
<1>2. Becomes(Done(f)) \/ Becomes(Swap(f))
  BY DEF RequireKeys
<1>3. QED
  BY <1>1, <1>2, DoneKept, SwapKept

\* A flow that loads keys passes here only when the load is permitted.
LEMMA RequireNoKeysKept == ASSUME FlowInv, RequireNoKeys PROVE Kept
<1>1. At("requireNoKeys") /\ "requireNoKeys" \in Usual \cap Step
  BY UsualSteps DEF RequireNoKeys
<1>2. CASE ~(~f.info.keys \/ Has("Overwrite"))
  BY <1>1, <1>2, SwapKept DEF RequireNoKeys
<1>3. CASE ~f.info.keys \/ Has("Overwrite")
  <2>1. Permitted(f)
    BY <1>3 DEF Permitted, Has
  <2>2. /\ Live(f) /\ Kin(f) /\ ~At("store") /\ Met(f) /\ f.at = "body" /\ f.todo # <<>> /\ FlowFits(f)
    BY <1>1, StepsAtHand, AtStep DEF FlowInv
  <2>3. /\ FlowFits(Done(f)) /\ Done(f).link = f.link
        /\ Done(f).info = f.info /\ Done(f).params = f.params /\ Done(f).type = f.type
        /\ Done(f).todo # <<>> => Done(f).todo[1] \in Usual
    BY <2>1, <2>2, DoneFits DEF Kin
  <2>4. Steady(Done(f))
    BY <2>3, GivenCounts DEF Steady, Near, Usual, Inner
  <2>5. QED
    BY <1>3, <2>2, <2>4, CalmStep DEF RequireNoKeys
<1>4. QED
  BY <1>2, <1>3

\* The attempts that are left are read from the card.
LEMMA GetStatusKept == ASSUME FlowInv, GetStatus PROVE Kept
<1> DEFINE g == [f EXCEPT !.info.pin = TheCard.pin, !.info.puk = TheCard.puk]
           i == [f.info EXCEPT !.pin = TheCard.pin, !.puk = TheCard.puk]
<1>1. /\ At("getStatus") /\ Issue("status", Done(g), Restarted(f), Restarted(f)) /\ UNCHANGED others
  BY DEF GetStatus, Exchange
<1>2. "getStatus" \in Step /\ "getStatus" \in Inner
  BY DEF Step, Inner
<1>3. /\ Live(f) /\ f.link \in Cards /\ f \in FlowObject /\ f.at = "body" /\ ~At("store")
      /\ Consistent(TheCard) /\ Kin(f)
  BY <1>1, <1>2, StepsAtHand
<1>4. i \in Info /\ i.card = f.info.card /\ i.keys = f.info.keys /\ i.free = f.info.free
  <2>1. f.info \in Info /\ TheCard.pin \in -1..MaxPIN /\ TheCard.puk \in -1..MaxPUK
    BY <1>3, Fields, Constants DEF Consistent, CardState
  <2>2. QED
    BY <2>1 DEF Info
<1>5. g = [f EXCEPT !.info = i]
  BY <1>3 DEF FlowObject
<1>6. Kin(g)
  <2> HIDE DEF i, g
  <2>1. /\ g \in FlowObject /\ g.at = f.at /\ g.type = f.type /\ g.todo = f.todo
        /\ g.link = f.link /\ g.then = f.then /\ g.signal = f.signal
        /\ g.info = i /\ g.params = f.params
    BY <1>3, <1>4, <1>5, InfoTyped
  <2>2. QED
    BY <1>4, <2>1, GivenCounts DEF Kin, Like
<1> HIDE DEF g
<1>7. Steady(Done(g))
  BY <1>1, <1>2, <1>6, SteadyDone
<1>8. Steady(Restarted(f))
  BY <1>3, SteadyRestart DEF Kin
<1>9. QED
  BY <1>1, <1>3, <1>7, <1>8, Gentles, GentleStep DEF Kept

\* changePIN, changePUK and changePairing.
LEMMA ChangeKept ==
    ASSUME FlowInv, NEW s \in ChangeSteps, NEW k, NEW sig \in Signal, Change(s, k, sig)
    PROVE  Kept
<1>1. At(s) /\ s \in Usual /\ s # "requireNoKeys" /\ s \in Gentle \ {"verifyBad"}
  BY UsualSteps, Gentles DEF Change, ChangeSteps
<1>2. Simply(s, Done(f)) \/ Becomes(Asks(f, sig))
  BY DEF Change
<1>3. QED
  BY <1>1, <1>2, CommandKept, AskKept

\* The steps that ask for their values and then use the card once.
LEMMA UseKept ==
    ASSUME FlowInv, Sign \/ StoreMetadata \/ Export \/ ExportBIP44
    PROVE  Kept
<1>1. {"EnterPath", "EnterTXHash", "EnterName", "EnterWallets"} \subseteq Signal
  BY DEF Signal
<1>2. \E s \in {"sign", "storeMetadata", "export", "exportBIP44"} :
        /\ At(s)
        /\ \/ \E sig \in {"EnterPath", "EnterTXHash", "EnterName", "EnterWallets"} : Becomes(Asks(f, sig))
           \/ \E c \in {"export", "storeData"} : Simply(c, Done(f))
  <2>1. CASE Sign
    BY <2>1 DEF Sign
  <2>2. CASE StoreMetadata
    BY <2>2 DEF StoreMetadata
  <2>3. CASE Export
    BY <2>3 DEF Export
  <2>4. CASE ExportBIP44
    BY <2>4 DEF ExportBIP44
  <2>5. QED
    BY <2>1, <2>2, <2>3, <2>4
<1>3. QED
  BY <1>1, <1>2, UsualSteps, Gentles, CommandKept, AskKept

\* A flow that panics has ended.
LEMMA ExportMasterKept == ASSUME FlowInv, ExportMaster PROVE Kept
<1> DEFINE panic == [f EXCEPT !.at = "panic"]
<1>1. At("exportMaster") /\ "exportMaster" \in Usual \cap Step
  BY UsualSteps DEF ExportMaster
<1>2. CASE Has("ExportMaster")
  <2>1. Issue("export", Done(f), panic, panic) /\ UNCHANGED others
    BY <1>2 DEF ExportMaster
  <2>2. /\ Live(f) /\ f.link \in Cards /\ f \in FlowObject /\ Kin(f) /\ ~At("store")
        /\ f.type \in FlowType
    BY <1>1, StepsAtHand, AtStep
  <2>3. panic \in FlowObject /\ panic.at = "panic" /\ panic.type = f.type /\ panic.params = f.params
    BY <2>2 DEF FlowObject
  <2> HIDE DEF panic
  <2>4. Steady(panic)
    BY <2>2, <2>3, GivenCounts DEF Steady, Near, FlowFits, Live
  <2>5. Steady(Done(f))
    BY <1>1, <2>2, SteadyDone
  <2>6. QED
    BY <2>1, <2>2, <2>4, <2>5, Gentles, GentleStep DEF Kept
<1>3. CASE ~Has("ExportMaster")
  BY <1>1, <1>3, DoneKept DEF ExportMaster
<1>4. QED
  BY <1>2, <1>3

\* A flow without further steps reports success.
LEMMA FinishKept == ASSUME FlowInv, Finish PROVE Kept
<1>1. f.at = "body" /\ f.todo = <<>> /\ Becomes(Ends("ok"))
  BY DEF Finish
<1>2. Live(f) /\ ~At("store") /\ Steady(Ends("ok"))
  BY <1>1, SteadyEnd DEF Live, At
<1>3. QED
  BY <1>1, <1>2, CalmStep

-----------------------------------------------------------------------------
\* The steps before the card is looked at.

\* A flow that has not met its card claims nothing about it.
LEMMA AheadFits ==
    ASSUME FlowFits(f'), Live(f') => Ahead(f')
    PROVE  FlowFits(f)' /\ InfoFits' /\ PairFits'
<1>1. FlowFits(f)'
  BY FitsPrimed
<1>2. Live(f)' <=> Live(f')
  OBVIOUS
<1>3. Live(f') => f'.info.card = None /\ f'.todo[1] \in ResetStep \cup {"select"}
  BY DEF Ahead, Looks
<1>4. InfoFits'
  BY <1>2, <1>3 DEF InfoFits
<1>5. PairFits'
  BY <1>2, <1>3 DEF PairFits, HeadIs, ResetStep
<1>6. QED
  BY <1>1, <1>4, <1>5

\* What a command other than pair and verify does, whatever becomes of the flow.
LEMMA CommandStep ==
    ASSUME FlowInv, ~At("store"), f.link \in Cards, NEW c \in Issued \ {"pair", "verifyBad"},
           NEW a, NEW r, NEW n, Issue(c, a, r, n), UNCHANGED others,
           GivenPINs(f'.params) <= GivenPINs(f.params)
    PROVE  /\ CardsFit' /\ OthersTyped' /\ MemFits'
           /\ (SlotInv => SlotInv') /\ (PinInv => PinInv')
           /\ \A d \in Cards : d # f.link => card'[d] = card[d]
           /\ \/ Answered(c) /\ f' = a
              \/ Refused(c) /\ f' = r
              \/ Unanswered(c) /\ f' = n
<1>1. UNCHANGED <<slot, valid, mem, file, flows, replies>>
  BY DEF others, store
<1>2. /\ \/ Answered(c) /\ f' = a
         \/ Refused(c) /\ f' = r
         \/ Unanswered(c) /\ f' = n
      /\ Touched(c)
  BY IssueEnds
<1>3. /\ faults' \in 0..MaxFaults /\ entered' = entered /\ burnt' = burnt /\ unheard' = unheard /\ torn' = torn
  BY <1>1, IssueTyped
<1>4. /\ CardsFit' /\ \A d \in Cards : Shed(card[d], card'[d])
      /\ \A d \in Cards : d # f.link => card'[d] = card[d]
  BY <1>2, TouchedCards
<1>5. OthersTyped'
  BY <1>1, <1>3 DEF FlowInv, OthersTyped
<1>6. MemFits'
  BY <1>1, <1>4, MemKept
<1>7. SlotInv => SlotInv'
  BY <1>1, <1>3, <1>4, SlotsKept
<1>8. PinInv => PinInv'
  <2>1. burnt \in Nat /\ entered \in Nat /\ unheard \in Nat /\ GivenPINs(f'.params) \in Nat /\ GivenPINs(f.params) \in Nat
    BY GivenCounts DEF FlowInv, OthersTyped
  <2>2. QED
    BY <1>3, <2>1 DEF PinInv, PinTriesAreEntered
<1>9. QED
  BY <1>2, <1>4, <1>5, <1>6, <1>7, <1>8

\* The reset goes on with another of its steps.
LEMMA AheadDo ==
    ASSUME FlowInv, NEW s \in ResetStep, At(s), Has("FactoryReset"), NEW r \in ResetStep
    PROVE  /\ FlowFits(Do(f, r)) /\ Ahead(Do(f, r)) /\ Do(f, r).params = f.params
<1> DEFINE d == Do(f, r)
<1>0. s \in Step /\ r \in Step /\ s # "select"
  BY DEF ResetStep, Step
<1>1. /\ f \in FlowObject /\ f.at = "body" /\ f.todo # <<>> /\ f.todo \in Seq(Step)
      /\ f.todo[1] = s /\ f.type \in FlowType /\ f.link \in Cards /\ Ahead(f)
  BY <1>0, AtStep
<1>2. /\ d \in FlowObject /\ d.todo = <<r>> \o Tail(f.todo)
      /\ d.at = "body" /\ d.type = f.type /\ d.link = f.link
      /\ d.info = f.info /\ d.params = f.params
  BY <1>0, <1>1, DoFields
<1> HIDE DEF d
<1>3. /\ Len(f.todo) \in Nat /\ Len(f.todo) >= 1 /\ Len(d.todo) = Len(f.todo)
      /\ d.todo[1] = r /\ \A i \in 2..Len(f.todo) : d.todo[i] = f.todo[i]
  BY <1>0, <1>1, <1>2, StepSequences
<1>4. Looks(f, 2) /\ f.info.card = None
  BY <1>0, <1>1 DEF Ahead, Looks
<1>5. Rest(d, 3)
  BY <1>2, <1>3, <1>4 DEF Looks, Rest
<1>6. Looks(d, 2)
  BY <1>2, <1>3, <1>4, <1>5 DEF Looks
<1>7. Ahead(d)
  BY <1>2, <1>3, <1>4, <1>6 DEF Ahead, Has
<1>8. FlowFits(d)
  BY <1>1, <1>2, <1>7 DEF FlowFits, Live
<1>9. QED
  BY <1>2, <1>7, <1>8 DEF d

\* Without the parameter there is nothing to reset.
LEMMA AheadDone ==
    ASSUME FlowInv, NEW s \in ResetStep, At(s)
    PROVE  /\ FlowFits(Done(f)) /\ Ahead(Done(f)) /\ Done(f).params = f.params
<1> DEFINE d == Done(f)
<1>0. s \in Step /\ s # "select"
  BY DEF ResetStep, Step
<1>1. /\ f \in FlowObject /\ f.at = "body" /\ f.todo # <<>> /\ f.todo \in Seq(Step)
      /\ f.todo[1] = s /\ f.type \in FlowType /\ f.link \in Cards /\ Ahead(f)
  BY <1>0, AtStep
<1>2. /\ d \in FlowObject /\ d.todo = Tail(f.todo)
      /\ d.at = "body" /\ d.type = f.type /\ d.link = f.link
      /\ d.info = f.info /\ d.params = f.params
  BY <1>1, DoneFields
<1> HIDE DEF d
<1>3. /\ Len(f.todo) \in Nat /\ Len(f.todo) >= 1 /\ Len(d.todo) = Len(f.todo) - 1
      /\ \A i \in 1..(Len(f.todo) - 1) : d.todo[i] = f.todo[i + 1]
  BY <1>1, <1>2, StepSequences
<1>4. Looks(f, 2) /\ f.info.card = None
  BY <1>0, <1>1 DEF Ahead, Looks
<1>5. Rest(d, 2)
  <2> SUFFICES ASSUME NEW i \in 2..Len(d.todo)
               PROVE  /\ d.todo[i] \in Usual /\ OfType(d.type, d.todo[i])
                      /\ d.todo[i] = "loadKeys" => i = Len(d.todo)
    BY DEF Rest
  <2>1. i + 1 \in 3..Len(f.todo) /\ d.todo[i] = f.todo[i + 1]
    BY <1>3
  <2>2. QED
    BY <1>2, <1>3, <1>4, <2>1 DEF Looks, Rest
<1>6. Looks(d, 1)
  BY <1>2, <1>3, <1>4, <1>5 DEF Looks
<1>7. Ahead(d)
  BY <1>2, <1>4, <1>6 DEF Ahead
<1>8. FlowFits(d)
  BY <1>1, <1>2, <1>7 DEF FlowFits, Live
<1>9. QED
  BY <1>2, <1>7, <1>8 DEF d

\* A restart, with or without the parameter of the reset.
LEMMA RestartAhead ==
    ASSUME FlowInv, f \in FlowObject, f.type \in FlowType, NEW K \in SUBSET Key
    PROVE  /\ FlowFits(Restarted(f)) /\ ~Live(Restarted(f)) /\ Restarted(f).params = f.params
           /\ FlowFits(Restarted(Drop(f, K))) /\ ~Live(Restarted(Drop(f, K)))
           /\ GivenPINs(Restarted(Drop(f, K)).params) <= GivenPINs(f.params)
<1>1. /\ Drop(f, K) \in FlowObject /\ Drop(f, K).type = f.type
      /\ GivenPINs(Drop(f, K).params) <= GivenPINs(f.params)
  BY Dropped
<1>2. QED
  BY <1>1, RestartFits, RestartedFields

\* A step of the reset that issues a command.
LEMMA ResetCommand ==
    ASSUME FlowInv, NEW s \in ResetStep, At(s), NEW c \in Wiping,
           NEW a, NEW r, NEW n, Issue(c, a, r, n), UNCHANGED others,
           \A x \in {a, r, n} : /\ FlowFits(x) /\ (Live(x) => Ahead(x))
                                /\ GivenPINs(x.params) <= GivenPINs(f.params)
    PROVE  Kept
<1>1. s \in Step /\ s # "store" /\ c \in Issued \ {"pair", "verifyBad"}
  BY DEF ResetStep, Step, Wiping, Issued
<1>2. f.link \in Cards /\ ~At("store")
  BY <1>1, StepsAtHand
<1>3. f' \in {a, r, n}
  BY <1>1, <1>2, IssueEnds
<1>4. FlowFits(f') /\ (Live(f') => Ahead(f')) /\ GivenPINs(f'.params) <= GivenPINs(f.params)
  BY <1>3
<1>5. CardsFit' /\ OthersTyped' /\ MemFits' /\ (SlotInv => SlotInv') /\ (PinInv => PinInv')
  BY <1>1, <1>2, <1>4, CommandStep
<1>6. FlowFits(f)' /\ InfoFits' /\ PairFits'
  BY <1>4, AheadFits
<1>7. QED
  BY <1>5, <1>6 DEF Kept, FlowInv

\* A step of the reset at which the flow goes on, or ends, without a command.
LEMMA ResetBecomes ==
    ASSUME FlowInv, NEW s \in ResetStep, At(s), NEW x, Becomes(x),
           FlowFits(x), Live(x) => Ahead(x), GivenPINs(x.params) <= GivenPINs(f.params)
    PROVE  Kept
<1>1. ~At("store")
  BY StepsAtHand DEF ResetStep, Step
<1>2. /\ f' = x
      /\ UNCHANGED <<slot, valid, card, mem, file, flows, replies, faults, entered, burnt, unheard, torn>>
  BY DEF Becomes, store, bounds, ghosts
<1>3. FlowFits(f)' /\ InfoFits' /\ PairFits'
  BY <1>2, AheadFits
<1>4. CardsFit' /\ OthersTyped' /\ MemFits'
  BY <1>2 DEF FlowInv, CardsFit, OthersTyped, MemFits
<1>5. \A d \in Cards : Shed(card[d], card'[d])
  BY <1>2, Constants DEF Shed, FlowInv, CardsFit, CardState
<1>6. SlotInv => SlotInv'
  BY <1>1, <1>2, <1>4, <1>5, SlotsKept
<1>7. PinInv => PinInv'
  <2>1. burnt \in Nat /\ entered \in Nat /\ unheard \in Nat
        /\ GivenPINs(f'.params) \in Nat /\ GivenPINs(f.params) \in Nat
    BY GivenCounts DEF FlowInv, OthersTyped
  <2>2. QED
    BY <1>2, <2>1 DEF PinInv, PinTriesAreEntered
<1>8. QED
  BY <1>3, <1>4, <1>6, <1>7 DEF Kept, FlowInv

\* The steps of the factory reset, and of its fallback.
LEMMA ResetStepsKept ==
    ASSUME FlowInv,
           \/ FactoryReset("factoryReset", "deleteApplet") \/ FactoryReset("resetAgain", "deleteAgain")
           \/ DeleteApplet \/ DeleteAgain \/ InstallApplet
    PROVE  Kept
<1> DEFINE Fit(x) == /\ FlowFits(x) /\ (Live(x) => Ahead(x))
                     /\ GivenPINs(x.params) <= GivenPINs(f.params)
<1>1. ResetStep \subseteq Step /\ {"FactoryReset"} \in SUBSET Key
  BY DEF ResetStep, Step, Key
<1>2. \A p : GivenPINs(p) \in Nat /\ GivenPINs(p) <= GivenPINs(p)
  BY GivenCounts
<1>3. ASSUME NEW s \in ResetStep, At(s), Has("FactoryReset"), NEW r \in ResetStep
      PROVE  Fit(Do(f, r))
  BY <1>2, <1>3, AheadDo
<1>4. ASSUME NEW s \in ResetStep, At(s)
      PROVE  /\ Fit(AfterReset) /\ Fit(Restarted(f)) /\ Fit(Ends("error"))
             /\ s # "factoryReset" => Has("FactoryReset")
  <2>1. f \in FlowObject /\ f.type \in FlowType /\ Ahead(f) /\ f.todo[1] = s
    BY <1>1, <1>4, AtStep
  <2>2. Fit(AfterReset) /\ Fit(Restarted(f))
    BY <1>1, <1>2, <2>1, RestartAhead DEF AfterReset
  <2>3. Fit(Ends("error"))
    BY SteadyEnd DEF Steady, Near
  <2>4. s # "factoryReset" => Has("FactoryReset")
    BY <2>1 DEF Ahead, Looks, ResetStep, Has
  <2>5. QED
    BY <2>2, <2>3, <2>4
<1> HIDE DEF Fit
<1>5. ASSUME NEW s \in ResetStep, NEW r \in ResetStep, FactoryReset(s, r) PROVE Kept
  <2>1. At(s)
    BY <1>5 DEF FactoryReset
  <2>2. CASE Has("FactoryReset")
    <3>1. Issue("reset", AfterReset, Do(f, r), Do(f, r)) /\ UNCHANGED others
      BY <1>5, <2>2 DEF FactoryReset
    <3>2. \A x \in {AfterReset, Do(f, r)} : Fit(x)
      BY <1>3, <1>4, <2>1, <2>2
    <3>3. "reset" \in Wiping
      BY DEF Wiping
    <3>4. QED
      BY <2>1, <3>1, <3>2, <3>3, ResetCommand DEF Fit
  <2>3. CASE ~Has("FactoryReset")
    <3>1. Becomes(Done(f))
      BY <1>5, <2>3 DEF FactoryReset
    <3>2. FlowFits(Done(f)) /\ Ahead(Done(f)) /\ Done(f).params = f.params
      BY <2>1, AheadDone
    <3>3. QED
      BY <1>2, <2>1, <3>1, <3>2, ResetBecomes DEF FlowFits
  <2>4. QED
    BY <2>2, <2>3
<1>6. CASE DeleteApplet
  <2>1. At("deleteApplet") /\ {"deleteApplet", "resetAgain", "installApplet"} \subseteq ResetStep
    BY <1>6 DEF DeleteApplet, ResetStep
  <2>2. /\ Fit(Do(f, "installApplet")) /\ Fit(Do(f, "resetAgain"))
        /\ Fit(Restarted(f)) /\ Fit(Ends("error"))
    BY <1>3, <1>4, <2>1
  <2>3. ASSUME NEW x \in {Do(f, "resetAgain"), Restarted(f)},
               Issue("delete", Do(f, "installApplet"), x, x), UNCHANGED others
        PROVE  Kept
    <3>1. "delete" \in Wiping /\ Fit(x)
      BY <2>2, <2>3 DEF Wiping
    <3>2. QED
      BY <2>1, <2>2, <2>3, <3>1, ResetCommand DEF Fit
  <2>4. ASSUME NEW x \in {Do(f, "resetAgain"), Ends("error")}, Becomes(x)
        PROVE  Kept
    <3>1. Fit(x)
      BY <2>2, <2>4
    <3>2. QED
      BY <2>1, <2>4, <3>1, ResetBecomes DEF Fit
  <2>5. QED
    BY <1>6, <2>3, <2>4 DEF DeleteApplet
<1>7. ASSUME NEW s \in ResetStep, s # "factoryReset", NEW c \in Wiping, NEW a, Fit(a), Manage(s, c, a)
      PROVE  Kept
  <2>1. At(s)
    BY <1>7 DEF Manage
  <2>2. Fit(Ends("error")) /\ Fit(Restarted(f))
    BY <1>4, <2>1
  <2>3. CASE Becomes(Ends("error"))
    BY <2>1, <2>2, <2>3, ResetBecomes DEF Fit
  <2>4. CASE Simply(c, a)
    <3>1. Issue(c, a, Ends("error"), Restarted(f)) /\ UNCHANGED others
      BY <2>4 DEF Simply, Exchange
    <3>2. QED
      BY <1>7, <2>1, <2>2, <3>1, ResetCommand DEF Fit
  <2>5. QED
    BY <1>7, <2>3, <2>4 DEF Manage
<1>8. CASE DeleteAgain \/ InstallApplet
  <2>1. {"deleteAgain", "installApplet"} \subseteq ResetStep /\ {"delete", "install"} \subseteq Wiping
    BY DEF ResetStep, Wiping
  <2>2. ASSUME DeleteAgain PROVE Kept
    <3>1. Manage("deleteAgain", "delete", Do(f, "installApplet"))
      BY <2>2 DEF DeleteAgain
    <3>2. At("deleteAgain")
      BY <3>1 DEF Manage
    <3>3. Fit(Do(f, "installApplet"))
      BY <1>3, <1>4, <2>1, <3>2
    <3>4. QED
      BY <1>7, <2>1, <3>1, <3>3
  <2>3. ASSUME InstallApplet PROVE Kept
    <3>1. Manage("installApplet", "install", AfterReset)
      BY <2>3 DEF InstallApplet
    <3>2. At("installApplet")
      BY <3>1 DEF Manage
    <3>3. Fit(AfterReset)
      BY <1>4, <2>1, <3>2
    <3>4. QED
      BY <1>7, <2>1, <3>1, <3>3
  <2>4. QED
    BY <1>8, <2>2, <2>3
<1>9. {"factoryReset", "deleteApplet", "resetAgain", "deleteAgain"} \subseteq ResetStep
  BY DEF ResetStep
<1>10. QED
  BY <1>5, <1>6, <1>8, <1>9

-----------------------------------------------------------------------------
\* The card is looked at.

\* A card that fits is met with its keys and its slots; another is to be
\* exchanged.
LEMMA SelectFits ==
    ASSUME FlowInv, At("select"), NEW i \in Info, i.card = f.link, f.params.instance \in {None, f.link}
    PROVE  LET d == Done([f EXCEPT !.info = i])
           IN /\ FlowFits(d) /\ Met(d) /\ d.at = "body" /\ d.link = f.link /\ d.info = i
              /\ d.type = f.type /\ d.params = f.params
              /\ d.todo # <<>> => d.todo[1] \in Usual
<1> DEFINE g == [f EXCEPT !.info = i]
           d == Done(g)
<1>1. /\ f \in FlowObject /\ f.at = "body" /\ f.todo # <<>> /\ f.todo \in Seq(Step)
      /\ f.todo[1] = "select" /\ f.type \in FlowType /\ f.link \in Cards /\ Ahead(f)
  BY AtStep DEF Step
<1>2. /\ g \in FlowObject /\ g.at = f.at /\ g.type = f.type /\ g.todo = f.todo /\ g.link = f.link
      /\ g.info = i /\ g.params = f.params
  BY <1>1, InfoTyped
<1> HIDE DEF g
<1>3. /\ d \in FlowObject /\ d.todo = Tail(f.todo)
      /\ d.at = "body" /\ d.type = f.type /\ d.link = f.link
      /\ d.info = i /\ d.params = f.params
  BY <1>1, <1>2, DoneFields
<1> HIDE DEF d
<1>4. /\ Len(f.todo) \in Nat /\ Len(f.todo) >= 1 /\ Len(d.todo) = Len(f.todo) - 1
      /\ \A j \in 1..(Len(f.todo) - 1) : d.todo[j] = f.todo[j + 1]
      /\ d.todo # <<>> => Len(d.todo) >= 1
  BY <1>1, <1>3, StepSequences
<1>5. Looks(f, 1)
  BY <1>1 DEF Ahead, ResetStep
<1>6. \A j \in 1..Len(d.todo) :
        /\ d.todo[j] \in Usual /\ OfType(d.type, d.todo[j])
        /\ d.todo[j] = "loadKeys" => j = Len(d.todo)
  <2> SUFFICES ASSUME NEW j \in 1..Len(d.todo)
               PROVE  /\ d.todo[j] \in Usual /\ OfType(d.type, d.todo[j])
                      /\ d.todo[j] = "loadKeys" => j = Len(d.todo)
    OBVIOUS
  <2>1. j + 1 \in 2..Len(f.todo) /\ d.todo[j] = f.todo[j + 1]
    BY <1>4
  <2>2. QED
    BY <1>3, <1>4, <1>5, <2>1 DEF Looks, Rest
<1>7. Rest(d, 2)
  BY <1>4, <1>6 DEF Rest
<1>8. d.todo # <<>> =>
        /\ d.todo[1] \in Usual /\ OfType(d.type, d.todo[1])
        /\ d.todo[1] = "loadKeys" => Len(d.todo) = 1
        /\ d.type = "LoadAccount" => d.todo[1] = "requireNoKeys"
  <2> SUFFICES ASSUME d.todo # <<>>
               PROVE  /\ d.todo[1] \in Usual /\ OfType(d.type, d.todo[1])
                      /\ d.todo[1] = "loadKeys" => Len(d.todo) = 1
                      /\ d.type = "LoadAccount" => d.todo[1] = "requireNoKeys"
    OBVIOUS
  <2>1. 1 \in 1..Len(d.todo) /\ 1 \in 1..(Len(f.todo) - 1)
    BY <1>4
  <2>2. d.type = "LoadAccount" => d.todo[1] = "requireNoKeys"
    BY <1>3, <1>4, <1>5, <2>1 DEF Looks
  <2>3. QED
    BY <1>6, <2>1, <2>2
<1>9. Met(d)
  BY <1>3, <1>7, <1>8 DEF Met
<1>10. FlowFits(d)
  BY <1>1, <1>3, <1>9 DEF FlowFits, Live
<1>11. QED
  BY <1>3, <1>8, <1>9, <1>10 DEF d, g

\* From select on the flow knows the card: its keys and its slots are read.
LEMMA SelectKept == ASSUME FlowInv, SelectKeycard PROVE Kept
<1> DEFINE k == TheCard
           i == [NoInfo EXCEPT !.card = f.link, !.keys = k.keys, !.free = k.slots]
           g == [f EXCEPT !.info = i]
           fits == /\ k.installed
                   /\ f.params.instance \in {None, f.link}
                   /\ f.params.key = None \/ (f.params.key = f.link /\ k.keys)
           a == IF fits THEN Done(g) ELSE Swap(g)
<1>1. At("select") /\ Issue("select", a, Restarted(f), Restarted(f)) /\ UNCHANGED others
  BY DEF SelectKeycard, Exchange
<1>2. "select" \in Step /\ "select" \in Issued \ {"pair", "verifyBad"}
  BY DEF Step, Issued
<1>3. /\ f \in FlowObject /\ f.type \in FlowType /\ f.link \in Cards /\ f.at = "body" /\ ~At("store")
      /\ Consistent(TheCard) /\ TheCard = card[f.link]
  BY <1>1, <1>2, AtStep, StepsAtHand
<1>4. i \in Info /\ i.card = f.link /\ i.keys = TheCard.keys /\ i.free = TheCard.slots
  <2>1. TheCard.slots \in -1..MaxSlots /\ TheCard.keys \in BOOLEAN
    BY <1>3, Constants DEF Consistent, CardState
  <2>2. NoInfo \in Info
    BY NoInfoTyped
  <2>3. QED
    BY <1>3, <2>1, <2>2 DEF Info
<1>5. g \in FlowObject /\ g.type = f.type /\ g.params = f.params
  BY <1>3, <1>4, InfoTyped
<1>6. fits => f.params.instance \in {None, f.link}
  OBVIOUS
<1> HIDE DEF i, fits
<1>7. fits => /\ FlowFits(Done(g)) /\ Met(Done(g)) /\ Done(g).at = "body" /\ Done(g).link = f.link
              /\ Done(g).info = i /\ Done(g).type = f.type /\ Done(g).params = f.params
              /\ Done(g).todo # <<>> => Done(g).todo[1] \in Usual
  BY <1>1, <1>4, <1>6, SelectFits
<1> HIDE DEF g
<1>8. FlowFits(Swap(g)) /\ ~Live(Swap(g)) /\ Swap(g).params = f.params
  BY <1>3, <1>5, SwapFits, SwapFields
<1>9. FlowFits(Restarted(f)) /\ ~Live(Restarted(f)) /\ Restarted(f).params = f.params
  BY <1>3, RestartFits, RestartedFields
<1>10. f' = Swap(g) \/ f' = Restarted(f) \/ (fits /\ f' = Done(g))
  BY <1>1, <1>3, IssueEnds
<1>11. f'.params = f.params /\ GivenPINs(f'.params) <= GivenPINs(f.params)
  BY <1>7, <1>8, <1>9, <1>10, GivenCounts
<1>12. /\ CardsFit' /\ OthersTyped' /\ MemFits' /\ (SlotInv => SlotInv') /\ (PinInv => PinInv')
       /\ \/ Answered("select") /\ f' = a
          \/ Refused("select") /\ f' = Restarted(f)
          \/ Unanswered("select") /\ f' = Restarted(f)
  BY <1>1, <1>2, <1>3, <1>11, CommandStep
<1>13. CASE f' = Swap(g) \/ f' = Restarted(f)
  <2>1. FlowFits(f') /\ (Live(f') => Ahead(f'))
    BY <1>8, <1>9, <1>13
  <2>2. FlowFits(f)' /\ InfoFits' /\ PairFits'
    BY <2>1, AheadFits
  <2>3. QED
    BY <1>12, <2>2 DEF Kept, FlowInv
<1>14. CASE fits /\ f' = Done(g)
  <2>1. FlowFits(f') /\ f'.link = f.link /\ f'.info = i /\ (f'.todo # <<>> => f'.todo[1] \in Usual)
    BY <1>7, <1>14
  <2>2. f'.at = "body"
    BY <1>7, <1>14
  <2>3. card' = [card EXCEPT ![f.link] = Replaced(@, "select")]
    BY <1>12, <1>14, <2>2, RestartedFields, <1>3 DEF Answered
  <2>4. card'[f.link].keys = TheCard.keys /\ card'[f.link].slots = TheCard.slots
    BY <1>3, <2>3, SelectedCard DEF FlowInv, CardsFit
  <2>5. InfoFits'
    BY <1>4, <2>1, <2>4 DEF InfoFits
  <2>6. PairFits'
    BY <2>1 DEF PairFits, HeadIs, Usual, Inner
  <2>7. FlowFits(f)'
    BY <2>1, FitsPrimed
  <2>8. QED
    BY <1>12, <2>5, <2>6, <2>7 DEF Kept, FlowInv
<1>15. QED
  BY <1>10, <1>13, <1>14

-----------------------------------------------------------------------------
\* The secure channel and the pairing.

\* As CalmStep, for a step that goes on to the pairing.
LEMMA CalmNear ==
    ASSUME FlowInv, ~At("store"), Live(f), NEW x, Near(x), Becomes(x), PairFits'
    PROVE  Kept
<1>1. /\ f' = x /\ UNCHANGED <<slot, valid, card, mem, file, flows, replies, faults, entered, burnt, unheard, torn>>
  BY DEF Becomes, store, bounds, ghosts
<1>2. \A d \in Cards : Shed(card[d], card'[d])
  BY <1>1, Constants DEF Shed, FlowInv, CardsFit, CardState
<1>3. CardsFit' /\ OthersTyped'
  BY <1>1 DEF FlowInv, CardsFit, OthersTyped
<1>4. FlowFits(f)' /\ InfoFits'
  BY <1>1, SteadyFits
<1>5. MemFits' /\ (SlotInv => SlotInv')
  BY <1>1, <1>2, <1>3, MemKept, SlotsKept
<1>6. PinInv => PinInv'
  <2>1. GivenPINs(f'.params) <= GivenPINs(f.params)
    BY <1>1 DEF Near
  <2>2. burnt \in Nat /\ entered \in Nat /\ unheard \in Nat /\ GivenPINs(f'.params) \in Nat /\ GivenPINs(f.params) \in Nat
    BY GivenCounts DEF FlowInv, OthersTyped
  <2>3. QED
    BY <1>1, <2>1, <2>2 DEF PinInv, PinTriesAreEntered
<1>7. QED
  BY <1>3, <1>4, <1>5, <1>6 DEF Kept, FlowInv

\* A pairing that is dropped from memory is one the card does not honour, or
\* no longer the one in the file.
LEMMA OpenKept == ASSUME FlowInv, OpenSC PROVE Kept
<1>1. At("openSC") /\ "openSC" \in Usual /\ "openSC" \in Step
  BY UsualSteps DEF OpenSC
<1>2. /\ Live(f) /\ f.link \in Cards /\ f \in FlowObject /\ f.at = "body" /\ Kin(f) /\ ~At("store")
      /\ TheCard = card[f.link] /\ Consistent(TheCard)
  BY <1>1, StepsAtHand
<1>3. {"initCard", "verifyAuthenticity", "getStatus"} \subseteq (Usual \cup Inner) \ {"loadKeys"}
  BY DEF Inner
<1>4. /\ Near(Do(f, "verifyAuthenticity")) /\ Do(f, "verifyAuthenticity").todo[1] = "verifyAuthenticity"
      /\ Do(f, "verifyAuthenticity").link = f.link
  BY <1>1, <1>2, <1>3, NearDo DEF OfType
<1>5. CASE f.type \notin Giveup /\ Becomes(Do(f, "initCard"))
  <2>1. Steady(Do(f, "initCard"))
    BY <1>1, <1>2, <1>5, SteadyDo DEF OfType
  <2>2. QED
    BY <1>2, <1>5, <2>1, CalmStep
<1>6. CASE mem[f.link] = "none" /\ Becomes(NoStoredPairing(f))
  <2>1. f' = Do(f, "verifyAuthenticity") /\ mem' = mem
    BY <1>6 DEF Becomes, NoStoredPairing, store
  <2>2. PairFits'
    BY <1>4, <1>6, <2>1 DEF PairFits, HeadIs
  <2>3. QED
    BY <1>2, <1>4, <1>6, <2>2, CalmNear DEF NoStoredPairing
<1>7. CASE /\ mem[f.link] # "none"
           /\ Exchange("open", Do(f, "getStatus"), NoStoredPairing(f))
           /\ mem' = IF valid /\ f'.at = "body" /\ Head(f'.todo) = "verifyAuthenticity"
                     THEN [mem EXCEPT ![f.link] = "none"] ELSE mem
           /\ UNCHANGED <<slot, valid, file, flows, replies>>
  <2>1. Issue("open", Do(f, "getStatus"), Do(f, "verifyAuthenticity"), Restarted(f))
    BY <1>7 DEF Exchange, NoStoredPairing
  <2>2. Steady(Do(f, "getStatus")) /\ Steady(Restarted(f))
    <3>1. GivenPINs(f.params) <= GivenPINs(f.params)
      BY GivenCounts
    <3>2. QED
      BY <1>1, <1>2, <3>1, SteadyDo, SteadyRestart DEF OfType
  <2>3. mem' \in [Cards -> Entry] /\ mem \in [Cards -> Entry]
    BY <1>7 DEF FlowInv, OthersTyped, Entry
  <2>4. /\ Near(f') /\ \A d \in Cards : Shed(card[d], card'[d])
        /\ CardsFit' /\ OthersTyped' /\ FlowFits(f)' /\ InfoFits' /\ (Steady(f') => PairFits')
        /\ (SlotInv => SlotInv') /\ (PinInv => PinInv')
    BY <1>2, <1>4, <1>7, <2>1, <2>2, <2>3, Gentles, GentleNear DEF Steady
  <2>5. CASE Answered("open") /\ f' = Do(f, "getStatus")
    <3>1. f'.todo # <<>> /\ f'.todo[1] = "getStatus" /\ f'.todo \in Seq(Step)
      <4>1. "getStatus" \in Step /\ f.todo # <<>> /\ f.todo \in Seq(Step)
        BY <1>1, AtStep DEF Step
      <4>2. f'.todo = <<"getStatus">> \o Tail(f.todo) /\ f' \in FlowObject
        BY <1>2, <2>5, <4>1, DoFields
      <4>3. f'.todo[1] = "getStatus" /\ Len(f'.todo) >= 1
        BY <4>1, <4>2, StepSequences
      <4>4. f'.todo \in Seq(Step)
        BY <4>2 DEF FlowObject
      <4>5. f'.todo # <<>>
        BY <4>3, <4>4
      <4>6. QED
        BY <4>3, <4>4, <4>5
    <3>2. Head(f'.todo) = "getStatus"
      BY <3>1
    <3>3. mem' = mem
      BY <1>7, <3>2
    <3>4. MemFits'
      BY <1>7, <2>4, <3>3, MemKept
    <3>5. QED
      BY <2>2, <2>4, <2>5, <3>4 DEF Kept, FlowInv
  <2>6. CASE Refused("open") /\ f' = Do(f, "verifyAuthenticity")
    <3>1. ~Obeys(TheCard, "open")
      BY <2>6 DEF Refused, Succeeds
    <3>2. card' = card
      BY <2>6, <3>1 DEF Refused, Touched
    <3>3. mem[f.link] # "current" \/ ~TheCard.paired
      BY <1>2, <3>1 DEF Obeys, Accepts, Consistent, SelectCommands, InitCommands, ChannelCommands, PINCommands
    <3>4. ~(file[f.link] = "current" /\ TheCard.paired)
      BY <1>2, <3>3 DEF FlowInv, MemFits
    <3>5. \A d \in Cards : d # f.link => mem'[d] = mem[d]
      BY <1>7, <2>3
    <3>6. MemFits'
      BY <1>2, <1>7, <3>2, <3>4, <3>5 DEF FlowInv, MemFits
    <3>7. PairFits'
      <4>1. valid /\ f'.at = "body" /\ Head(f'.todo) = "verifyAuthenticity" => mem'[f.link] = "none"
        BY <1>2, <1>7, <2>3
      <4>2. valid
        BY <2>6 DEF Refused
      <4>3. f'.at = "body"
        BY <1>1, <1>2, <1>3, <2>6, NearDo DEF OfType
      <4>4. f'.todo # <<>> => Head(f'.todo) = "verifyAuthenticity"
        <5>1. f'.todo \in Seq(Step)
          BY <2>4, Fields DEF Near, FlowFits
        <5>2. QED
          BY <1>4, <2>6, <5>1, StepSequences
      <4>5. QED
        BY <1>4, <2>6, <4>1, <4>2, <4>3, <4>4 DEF PairFits, HeadIs
    <3>8. QED
      BY <2>4, <3>6, <3>7 DEF Kept, FlowInv
  <2>7. CASE f' = Restarted(f)
    <3>1. f'.at = "connect"
      BY <1>2, <2>7, RestartedFields
    <3>2. mem' = mem
      BY <1>7, <3>1
    <3>3. MemFits'
      BY <1>7, <2>4, <3>2, MemKept
    <3>4. QED
      BY <2>2, <2>4, <2>7, <3>3 DEF Kept, FlowInv
  <2>8. QED
    BY <1>2, <2>1, <2>5, <2>6, <2>7, IssueEnds
<1>8. QED
  BY <1>5, <1>6, <1>7 DEF OpenSC

\* A flow goes on to pair with a card that is certified, exempted, or when no
\* authority is known.
LEMMA VerifyKept == ASSUME FlowInv, VerifyAuthenticity PROVE Kept
<1> DEFINE genuine == IF f.type \in Giveup THEN GivesUp(f) ELSE Do(f, "pair")
           fake == Ends("authenticity")
<1>1. At("verifyAuthenticity") /\ "verifyAuthenticity" \in Step /\ "verifyAuthenticity" \in Inner
  BY DEF VerifyAuthenticity, Step, Inner
<1>2. /\ Live(f) /\ f.link \in Cards /\ f \in FlowObject /\ f.at = "body" /\ Kin(f) /\ ~At("store")
      /\ TheCard = card[f.link] /\ f.todo # <<>> /\ f.todo[1] = "verifyAuthenticity"
  BY <1>1, StepsAtHand, AtStep
<1>3. mem[f.link] = "none"
  BY <1>2 DEF FlowInv, PairFits, HeadIs
<1>4. Steady(fake) /\ ~Live(fake)
  BY SteadyEnd
<1>5. f.type \in Giveup => Steady(genuine) /\ ~Live(genuine)
  BY SteadyEnd DEF GivesUp
<1>6. f.type \notin Giveup => /\ Near(genuine) /\ genuine.link = f.link
                              /\ genuine.params = f.params
  <2>1. "pair" \in (Usual \cup Inner) \ {"loadKeys"}
    BY DEF Inner
  <2>2. QED
    BY <1>1, <1>2, <2>1, NearDo DEF OfType
<1> HIDE DEF genuine, fake
<1>7. CASE ~KnownCA \/ f.params.skip = f.link
  <2>1. Becomes(genuine)
    BY <1>7 DEF VerifyAuthenticity, genuine
  <2>2. f' = genuine /\ mem' = mem
    BY <2>1 DEF Becomes, store
  <2>3. Near(genuine)
    BY <1>5, <1>6 DEF Steady
  <2>4. PairFits'
    BY <1>3, <1>5, <1>6, <1>7, <2>2 DEF PairFits, HeadIs
  <2>5. QED
    BY <1>2, <2>1, <2>3, <2>4, CalmNear
<1>8. CASE ~(~KnownCA \/ f.params.skip = f.link)
  <2>1. /\ Issue("identify", IF f.link \in Fake THEN fake ELSE genuine, fake, fake) /\ UNCHANGED others
    BY <1>8 DEF VerifyAuthenticity, genuine, fake
  <2>2. UNCHANGED <<slot, valid, mem, file, flows, replies>> /\ mem' \in [Cards -> Entry]
    BY <2>1 DEF others, store, FlowInv, OthersTyped
  <2>3. Near(genuine) /\ Near(fake)
    BY <1>4, <1>5, <1>6 DEF Steady
  <2>4. /\ \A d \in Cards : Shed(card[d], card'[d])
        /\ CardsFit' /\ OthersTyped' /\ FlowFits(f)' /\ InfoFits'
        /\ (SlotInv => SlotInv') /\ (PinInv => PinInv')
    <3>1. "identify" \in Gentle /\ "identify" # "verifyBad"
      BY Gentles
    <3>2. QED
      BY <1>2, <2>1, <2>2, <2>3, <3>1, GentleNear
  <2>5. f' = fake \/ (f' = genuine /\ f.link \notin Fake)
    BY <1>2, <2>1, IssueEnds
  <2>6. PairFits'
    BY <1>3, <1>4, <1>5, <1>6, <2>2, <2>5 DEF PairFits, HeadIs
  <2>7. MemFits'
    BY <2>2, <2>4, MemKept
  <2>8. QED
    BY <2>4, <2>6, <2>7 DEF Kept, FlowInv
<1>9. QED
  BY <1>7, <1>8

\* How an attempt to pair ends: the card has made the pairing or not, and a
\* pairing that the program does not hear of is counted.
LEMMA PairEnds ==
    ASSUME FlowInv, f.link \in Cards, NEW a, NEW r, NEW n, Issue("pair", a, r, n)
    PROVE  \/ /\ f' = a /\ Obeys(TheCard, "pair") /\ torn' = torn
              /\ card' = [card EXCEPT ![f.link] = Replaced(@, "pair")]
           \/ /\ f' = n /\ Obeys(TheCard, "pair") /\ torn' = [torn EXCEPT ![f.link] = @ + 1]
              /\ card' = [card EXCEPT ![f.link] = Replaced(@, "pair")]
           \/ /\ f' \in {r, n} /\ card' = card /\ torn' = torn
<1>1. Succeeds(TheCard, "pair") <=> Obeys(TheCard, "pair")
  BY DEF Succeeds
<1>2. card \in [Cards -> CardState]
  BY DEF FlowInv, CardsFit
<1>3. ASSUME Carried("pair")
      PROVE  IF Obeys(TheCard, "pair")
             THEN card' = [card EXCEPT ![f.link] = Replaced(@, "pair")] ELSE card' = card
  BY <1>2, <1>3 DEF Carried, TheCard
<1>4. CASE /\ valid /\ Carried("pair")
           /\ f' = IF Succeeds(TheCard, "pair") THEN a ELSE r
           /\ torn' = torn
  BY <1>1, <1>3, <1>4
<1>5. CASE /\ Carried("pair") /\ f' = n
           /\ torn' = IF Succeeds(TheCard, "pair") THEN [torn EXCEPT ![f.link] = @ + 1] ELSE torn
  BY <1>1, <1>3, <1>5
<1>6. CASE f' = n /\ card' = card /\ torn' = torn
  BY <1>6
<1>7. QED
  BY <1>4, <1>5, <1>6 DEF Issue, ghosts

\* A pairing takes a slot of a card of which neither the file nor the flow
\* holds a pairing; it is the flow that knows of it until it is stored.
LEMMA PairKept == ASSUME FlowInv, Pair PROVE Kept
<1> DEFINE g == [f EXCEPT !.params.pairing = "none"]
           p == [f.params EXCEPT !.pairing = "none"]
           a == Do(f, "store")
           r == Asks(g, "EnterPairing")
           k == card[f.link]
<1>1. At("pair") /\ "pair" \in Step /\ "pair" \in Inner /\ "EnterPairing" \in Signal
  BY DEF Pair, Step, Inner, Signal
<1>2. CASE f.info.free = 0
  BY <1>1, <1>2, SwapKept DEF Pair
<1>3. CASE f.info.free # 0
  <2>1. /\ Issue("pair", a, r, Restarted(f))
        /\ file' = IF card'[f.link].slots # TheCard.slots /\ file[f.link] = "current"
                   THEN [file EXCEPT ![f.link] = "old"] ELSE file
        /\ UNCHANGED <<slot, valid, mem, flows, replies>>
    BY <1>3 DEF Pair, Exchange
  <2>2. /\ Live(f) /\ f.link \in Cards /\ f \in FlowObject /\ f.at = "body" /\ Kin(f) /\ ~At("store")
        /\ TheCard = card[f.link] /\ Consistent(TheCard) /\ f.todo # <<>> /\ f.todo[1] = "pair"
        /\ f.type \notin Giveup /\ Met(f) /\ FlowFits(f)
        /\ f.type = "LoadAccount" => Permitted(f)
    BY <1>1, StepsAtHand, AtStep DEF OfType, FlowInv
  <2>3. /\ mem[f.link] = "none"
        /\ ~KnownCA \/ f.link \notin Fake \/ f.params.skip = f.link
        /\ ~(file[f.link] = "current" /\ k.paired)
    BY <2>2 DEF FlowInv, PairFits, HeadIs, MemFits
  <2>4. /\ p \in Params /\ GivenPINs(p) = GivenPINs(f.params) /\ p.instance = f.params.instance
        /\ p.skip = f.params.skip /\ p.has = f.params.has
    <3>1. f.params \in Params
      BY <2>2, Fields
    <3>2. p \in Params /\ p.pin = f.params.pin /\ p.has = f.params.has
          /\ p.instance = f.params.instance /\ p.skip = f.params.skip
      BY <3>1 DEF Params
    <3>3. QED
      BY <3>2 DEF GivenPINs
  <2>5. /\ g \in FlowObject /\ g.at = f.at /\ g.type = f.type /\ g.todo = f.todo
        /\ g.link = f.link /\ g.then = f.then /\ g.signal = f.signal /\ g.info = f.info /\ g.params = p
    <3>1. g = [f EXCEPT !.params = p]
      BY <2>2 DEF FlowObject
    <3>2. QED
      BY <2>2, <2>4, <3>1, ParamsTyped
  <2> HIDE DEF g, p
  <2>6. Near(a) /\ a.at = "body" /\ a.link = f.link /\ a.todo[1] = "store" /\ a.params = f.params
    <3>1. "store" \in (Usual \cup Inner) \ {"loadKeys"} /\ OfType(f.type, "store")
      BY <2>2 DEF Inner, OfType
    <3>2. QED
      BY <1>1, <2>2, <3>1, NearDo
  <2>7. /\ Near(r) /\ r.todo = f.todo /\ r.link = f.link /\ r.params = p /\ r.at = "paused"
    <3>1. /\ Like(g, f)
          /\ f.todo # <<>> /\ f.type = "LoadAccount"
               => f.todo[1] = "requireNoKeys" \/ Permitted(g)
      BY <2>2, <2>4, <2>5 DEF Like, Permitted
    <3>2. /\ FlowFits(r) /\ r.at = "paused" /\ r.todo = f.todo /\ r.link = f.link
          /\ r.type = f.type /\ r.info = g.info /\ r.params = g.params
      BY <1>1, <2>2, <3>1, AskFits
    <3>3. QED
      BY <2>4, <2>5, <3>2, GivenCounts DEF Near
  <2>8. Steady(Restarted(f)) /\ ~Live(Restarted(f))
    BY <2>2, SteadyRestart DEF Kin
  <2>9. /\ faults' \in 0..MaxFaults /\ entered' = entered /\ burnt' = burnt /\ unheard' = unheard /\ torn' \in [Cards -> Nat]
    <3>1. "pair" \in Issued
      BY DEF Issued, Slotting
    <3>2. QED
      BY <2>1, <2>2, <3>1, IssueTyped
  <2>10. CardsFit' /\ \A d \in Cards : d # f.link => card'[d] = card[d]
    <3>1. Touched("pair") /\ "pair" \in Issued
      BY <2>1, <2>2, IssueEnds DEF Issued, Slotting
    <3>2. QED
      BY <2>2, <3>1, TouchedCards
  <2>11. file' \in [Cards -> Entry] /\ \A d \in Cards : d # f.link => file'[d] = file[d]
    BY <2>1 DEF FlowInv, OthersTyped, Entry
  <2>12. OthersTyped'
    BY <2>1, <2>9, <2>11 DEF FlowInv, OthersTyped
  <2>13. Near(f')
    BY <2>1, <2>2, <2>6, <2>7, <2>8, IssueEnds DEF Steady
  <2>14. PinInv => PinInv'
    <3>1. burnt \in Nat /\ entered \in Nat /\ unheard \in Nat /\ GivenPINs(f'.params) \in Nat /\ GivenPINs(f.params) \in Nat
      BY GivenCounts DEF FlowInv, OthersTyped
    <3>2. QED
      BY <2>9, <2>13, <3>1 DEF PinInv, PinTriesAreEntered, Near
  <2>15. FlowFits(f)'
    BY <2>13, FitsPrimed DEF Near
  <2>16. torn \in [Cards -> Nat] /\ MaxSlots \in Nat /\ file \in [Cards -> Entry]
         /\ card \in [Cards -> CardState]
         /\ \A d \in Cards : card[d].slots \in 0..MaxSlots
    BY Constants DEF FlowInv, OthersTyped, CardsFit, CardState
  <2>17. \A d \in Cards : Known(d) <=> card[d].paired /\ file[d] = "current"
    BY <2>2 DEF Known
  <2>18. CASE card' = card /\ torn' = torn /\ f' \in {r, Restarted(f)}
    <3>1. file' = file
      BY <2>1, <2>2, <2>18
    <3>2. MemFits'
      BY <2>1, <2>18, <3>1 DEF FlowInv, MemFits
    <3>3. SlotInv => SlotInv'
      <4>1. \A d \in Cards : card'[d].paired /\ file'[d] = "current" => Known(d)'
        BY DEF Known
      <4>2. QED
        BY <2>9, <2>16, <2>17, <2>18, <3>1, <4>1 DEF SlotInv
    <3>4. InfoFits'
      BY <2>1, <2>2, <2>13, <2>18, SteadyFits
    <3>5. PairFits'
      BY <2>1, <2>3, <2>4, <2>7, <2>8, <2>18 DEF PairFits, HeadIs
    <3>6. QED
      BY <2>10, <2>12, <2>14, <2>15, <3>2, <3>3, <3>4, <3>5 DEF Kept, FlowInv
  <2>19. CASE /\ card' = [card EXCEPT ![f.link] = Replaced(@, "pair")] /\ Obeys(TheCard, "pair")
              /\ \/ f' = a /\ torn' = torn
                 \/ f' = Restarted(f) /\ torn' = [torn EXCEPT ![f.link] = @ + 1]
    <3>1. /\ card'[f.link].slots = k.slots - 1 /\ card'[f.link].paired /\ card'[f.link].keys = k.keys
      <4>1. "pair" \in Slotting
        BY DEF Slotting
      <4>2. card'[f.link] = Replaced(TheCard, "pair")
        BY <2>2, <2>16, <2>19
      <4>3. QED
        BY <2>2, <2>19, <4>1, <4>2, SlottedCard
    <3>2. file'[f.link] # "current"
      <4>1. card'[f.link].slots # TheCard.slots
        BY <2>2, <2>16, <3>1
      <4>2. QED
        BY <2>1, <2>2, <2>16, <4>1
    <3>3. MemFits'
      BY <2>1, <2>10, <2>11, <3>2 DEF FlowInv, MemFits
    <3>4. SlotInv => SlotInv'
      <4> SUFFICES ASSUME SlotInv, NEW d \in Cards
                   PROVE  MaxSlots - card'[d].slots <= torn'[d] + (IF Known(d)' THEN 1 ELSE 0)
        BY DEF SlotInv
      <4>1. MaxSlots - card[d].slots <= torn[d] + (IF Known(d) THEN 1 ELSE 0)
        BY DEF SlotInv
      <4>2. CASE d # f.link
        <5>1. card'[d] = card[d] /\ file'[d] = file[d] /\ torn'[d] = torn[d]
          BY <2>10, <2>11, <2>16, <2>19, <4>2
        <5>2. Known(d) => Known(d)'
          BY <2>17, <5>1 DEF Known
        <5>3. QED
          BY <2>16, <4>1, <5>1, <5>2
      <4>3. CASE d = f.link
        <5>1. MaxSlots - k.slots <= torn[d]
          BY <2>3, <2>16, <2>17, <4>1, <4>3
        <5>2. CASE f' = a /\ torn' = torn
          <6>1. f'.at = "body" /\ f'.todo \in Seq(Step) /\ f'.todo[1] = "store" /\ f'.link = d
            BY <2>6, <4>3, <5>2, Fields DEF Near, FlowFits
          <6>2. f'.todo # <<>>
            <7>1. f'.todo = <<"store">> \o Tail(f.todo) /\ f.todo \in Seq(Step)
              BY <2>2, <5>2, DoFields, Fields DEF Step
            <7>2. QED
              BY <2>2, <7>1
          <6>3. Head(f'.todo) = "store"
            BY <6>1, <6>2
          <6>4. Known(d)'
            BY <3>1, <4>3, <6>1, <6>2, <6>3 DEF Known, At
          <6>5. QED
            BY <2>16, <3>1, <4>3, <5>1, <5>2, <6>4
        <5>3. CASE torn' = [torn EXCEPT ![f.link] = @ + 1]
          BY <2>16, <3>1, <4>3, <5>1, <5>3
        <5>4. QED
          BY <2>19, <5>2, <5>3
      <4>4. QED
        BY <4>2, <4>3
    <3>5. InfoFits' /\ PairFits'
      <4>1. CASE f' = Restarted(f)
        BY <2>8, <4>1 DEF InfoFits, PairFits, HeadIs
      <4>2. CASE f' = a
        <5>1. /\ f'.at = "body" /\ f'.link = f.link /\ f'.todo[1] = "store" /\ f'.params = f.params
              /\ f'.type = f.type /\ f'.info.card = f.info.card /\ f'.info.keys = f.info.keys
          BY <2>6, <4>2 DEF Near, Live
        <5>2. f.info.card # None /\ valid => f.info.keys = k.keys
          BY <2>2 DEF FlowInv, InfoFits
        <5>3. InfoFits'
          BY <2>1, <2>2, <3>1, <5>1, <5>2 DEF InfoFits, Giveup
        <5>4. PairFits'
          BY <5>1 DEF PairFits, HeadIs
        <5>5. QED
          BY <5>3, <5>4
      <4>3. QED
        BY <2>19, <4>1, <4>2
    <3>6. QED
      BY <2>10, <2>12, <2>14, <2>15, <3>3, <3>4, <3>5 DEF Kept, FlowInv
  <2>20. QED
    BY <2>1, <2>2, <2>18, <2>19, PairEnds
<1>4. QED
  BY <1>2, <1>3

\* What is written is the whole map: nothing is lost that the card honours.
LEMMA StoreKept == ASSUME FlowInv, StorePairing PROVE Kept
<1>1. At("store") /\ "store" \in Step /\ "store" \in Inner
  BY DEF StorePairing, Step, Inner
<1>2. /\ Live(f) /\ f.link \in Cards /\ f \in FlowObject /\ f.at = "body" /\ Kin(f)
  BY <1>1, StepsAtHand
<1>3. /\ mem' = [mem EXCEPT ![f.link] = "current"]
      /\ UNCHANGED <<slot, valid, card, flows, replies, entered, burnt, unheard>>
  BY DEF StorePairing
<1>4. /\ card \in [Cards -> CardState] /\ mem \in [Cards -> Entry] /\ file \in [Cards -> Entry]
      /\ torn \in [Cards -> Nat] /\ MaxFaults \in Nat /\ faults \in 0..MaxFaults /\ MaxSlots \in Nat
      /\ \A d \in Cards : card[d].slots \in 0..MaxSlots
  BY Constants DEF FlowInv, CardsFit, OthersTyped, CardState
<1>5. Steady(Do(f, "openSC")) /\ Steady(Ends("error")) /\ ~Live(Ends("error"))
  BY <1>1, <1>2, SteadyDo, SteadyEnd DEF OfType
<1>6. mem' \in [Cards -> Entry] /\ mem'[f.link] = "current"
      /\ \A d \in Cards : mem[d] = "current" => mem'[d] = "current"
  BY <1>2, <1>3, <1>4 DEF Entry
<1>7. CASE file' = mem' /\ f' = Do(f, "openSC") /\ UNCHANGED <<faults, torn>>
  <2>1. MemFits'
    BY <1>7 DEF MemFits
  <2>2. OthersTyped' /\ CardsFit'
    BY <1>3, <1>6, <1>7 DEF FlowInv, OthersTyped, CardsFit
  <2>3. FlowFits(f)' /\ InfoFits' /\ PairFits'
    BY <1>2, <1>3, <1>5, <1>7, SteadyFits DEF Steady
  <2>4. SlotInv => SlotInv'
    <3>1. ASSUME NEW d \in Cards, Known(d) PROVE Known(d)'
      BY <1>3, <1>6, <1>7, <3>1 DEF Known, FlowInv, MemFits
    <3>2. QED
      BY <1>3, <1>4, <1>7, <3>1 DEF SlotInv
  <2>5. PinInv => PinInv'
    <3>1. burnt \in Nat /\ entered \in Nat /\ unheard \in Nat /\ GivenPINs(f'.params) \in Nat /\ GivenPINs(f.params) \in Nat
      BY GivenCounts DEF FlowInv, OthersTyped
    <3>2. QED
      BY <1>3, <1>5, <1>7, <3>1 DEF PinInv, PinTriesAreEntered, Steady, Near
  <2>6. QED
    BY <2>1, <2>2, <2>3, <2>4, <2>5 DEF Kept, FlowInv
<1>8. CASE /\ faults < MaxFaults /\ faults' = faults + 1
           /\ torn' = [torn EXCEPT ![f.link] = @ + 1]
           /\ f' = Ends("error") /\ UNCHANGED file
  <2>1. MemFits'
    BY <1>3, <1>6, <1>8 DEF FlowInv, MemFits
  <2>2. torn' \in [Cards -> Nat] /\ faults' \in 0..MaxFaults
    <3>1. faults' \in 0..MaxFaults
      BY <1>4, <1>8
    <3>2. torn' \in [Cards -> Nat]
      BY <1>2, <1>4, <1>8
    <3>3. QED
      BY <3>1, <3>2
  <2>3. OthersTyped' /\ CardsFit'
    BY <1>3, <1>6, <1>8, <2>2 DEF FlowInv, OthersTyped, CardsFit
  <2>4. FlowFits(f)' /\ InfoFits' /\ PairFits'
    BY <1>2, <1>3, <1>5, <1>8, SteadyFits DEF Steady
  <2>5. SlotInv => SlotInv'
    <3> SUFFICES ASSUME SlotInv, NEW d \in Cards
                 PROVE  MaxSlots - card'[d].slots <= torn'[d] + (IF Known(d)' THEN 1 ELSE 0)
      BY DEF SlotInv
    <3>1. MaxSlots - card[d].slots <= torn[d] + (IF Known(d) THEN 1 ELSE 0) /\ card'[d] = card[d]
      BY <1>3 DEF SlotInv
    <3>2. CASE d # f.link
      <4>1. Known(d) => Known(d)'
        BY <1>3, <1>8, <3>2 DEF Known
      <4>2. torn'[d] = torn[d]
        BY <1>4, <1>8, <3>2
      <4>3. QED
        BY <1>4, <3>1, <4>1, <4>2
    <3>3. CASE d = f.link
      BY <1>4, <1>8, <3>1, <3>3
    <3>4. QED
      BY <3>2, <3>3
  <2>6. PinInv => PinInv'
    <3>1. burnt \in Nat /\ entered \in Nat /\ unheard \in Nat /\ GivenPINs(f'.params) \in Nat /\ GivenPINs(f.params) \in Nat
      BY GivenCounts DEF FlowInv, OthersTyped
    <3>2. QED
      BY <1>3, <1>5, <1>8, <3>1 DEF PinInv, PinTriesAreEntered, Steady, Near
  <2>7. QED
    BY <2>1, <2>3, <2>4, <2>5, <2>6 DEF Kept, FlowInv
<1>9. QED
  BY <1>7, <1>8 DEF StorePairing

\* The new PIN becomes the PIN that will be tried.
LEMMA InitKept == ASSUME FlowInv, InitCard PROVE Kept
<1> DEFINE K == {"NewPIN", "NewPUK", "NewPairing"}
           p == [f.params EXCEPT !.pin = f.link, !.pairing = "right"]
           g == [f EXCEPT !.params.pin = f.link, !.params.pairing = "right"]
<1>1. /\ At("initCard") /\ "initCard" \in Step /\ "initCard" \in Inner
      /\ {"EnterNewPIN", "EnterNewPUK"} \subseteq Signal /\ K \in SUBSET Key
  BY DEF InitCard, Step, Inner, Signal, Key
<1>2. CASE Becomes(Asks(f, "EnterNewPIN")) \/ Becomes(Asks(f, "EnterNewPUK"))
  BY <1>1, <1>2, AskKept
<1>3. CASE Has("NewPIN") /\ \E c \in InitCommands : Simply(c, Restarted(Drop(g, K)))
  <2>1. /\ f \in FlowObject /\ f.type \in FlowType /\ f.link \in Cards /\ f.at = "body"
        /\ f.params \in Params
    BY <1>1, AtStep, Fields
  <2>2. p \in Params /\ p.pin = f.link /\ p.has = f.params.has
    BY <2>1 DEF Params, Secret
  <2>3. g \in FlowObject /\ g.type = f.type /\ g.params = p
    <3>1. g = [f EXCEPT !.params = p]
      BY <2>1 DEF FlowObject
    <3>2. QED
      BY <2>1, <2>2, <3>1, ParamsTyped
  <2> HIDE DEF g, p
  <2>4. /\ Drop(g, K) \in FlowObject /\ Drop(g, K).type = f.type
        /\ Drop(g, K).params.pin = f.link /\ Drop(g, K).params.has = f.params.has \ K
    <3>1. /\ Drop(g, K) \in FlowObject /\ Drop(g, K).type = g.type
          /\ Drop(g, K).params.pin = g.params.pin /\ Drop(g, K).params.has = g.params.has \ K
      BY <1>1, <2>3, Dropped
    <3>2. QED
      BY <2>2, <2>3, <3>1
  <2>5. GivenPINs(Drop(g, K).params) <= GivenPINs(f.params)
    BY <1>3, <2>4 DEF GivenPINs, Has
  <2>6. Steady(Restarted(Drop(g, K)))
    BY <2>1, <2>4, <2>5, SteadyRestart
  <2>7. QED
    BY <1>1, <1>3, <2>6, Gentles, SimplyKept DEF InitCommands
<1>4. QED
  BY <1>2, <1>3 DEF InitCard, InitCommands

-----------------------------------------------------------------------------
\* The PIN.

\* The flow object with the attempts that a card has left.
LEMMA PINTyped ==
    ASSUME NEW x \in FlowObject, NEW n \in 0..MaxPIN, NEW s \in Secret
    PROVE  /\ [x EXCEPT !.info.pin = n] = [x EXCEPT !.info = [x.info EXCEPT !.pin = n]]
           /\ [x.info EXCEPT !.pin = n] \in Info
           /\ [x EXCEPT !.info.pin = n, !.params.pin = s]
                = [x EXCEPT !.info = [x.info EXCEPT !.pin = n], !.params = [x.params EXCEPT !.pin = s]]
           /\ [x.params EXCEPT !.pin = s] \in Params
<1>1. x.info \in Info /\ x.params \in Params /\ n \in -1..MaxPIN
  BY Fields, Constants
<1>2. [x EXCEPT !.info.pin = n] = [x EXCEPT !.info = [x.info EXCEPT !.pin = n]]
  BY DEF FlowObject
<1>3. [x.info EXCEPT !.pin = n] \in Info
  BY <1>1 DEF Info
<1>4. [x EXCEPT !.info.pin = n, !.params.pin = s]
        = [x EXCEPT !.info = [x.info EXCEPT !.pin = n], !.params = [x.params EXCEPT !.pin = s]]
  BY DEF FlowObject
<1>5. [x.params EXCEPT !.pin = s] \in Params
  BY <1>1 DEF Params
<1>6. QED
  BY <1>2, <1>3, <1>4, <1>5

\* What an answer about the PIN or the PUK changes of the flow object.
LEMMA AttemptKin ==
    ASSUME f \in FlowObject, NEW i \in Info, NEW p \in Params, NEW y,
           y = [f EXCEPT !.info = i, !.params = p],
           i.card = f.info.card, i.keys = f.info.keys, i.free = f.info.free,
           p.instance = f.params.instance, GivenPINs(p) <= GivenPINs(f.params),
           "Overwrite" \in f.params.has => "Overwrite" \in p.has
    PROVE  Kin(y) /\ y.params = p /\ y.info = i
<1>1. /\ y \in FlowObject /\ y.at = f.at /\ y.type = f.type /\ y.todo = f.todo
      /\ y.link = f.link /\ y.then = f.then /\ y.signal = f.signal
      /\ y.info = i /\ y.params = p
  BY DEF FlowObject
<1>2. QED
  BY <1>1 DEF Kin, Like

\* A PIN that a card has counted as wrong is no longer held.
LEMMA AuthenticateKept == ASSUME FlowInv, Authenticate PROVE Kept
<1> DEFINE n == Decrement(TheCard.pin)
           i == [f.info EXCEPT !.pin = n]
           j == [f.info EXCEPT !.pin = MaxPIN]
           p == [f.params EXCEPT !.pin = None]
           g == [f EXCEPT !.info.pin = n, !.params.pin = None]
           h == [f EXCEPT !.info.pin = MaxPIN]
           v == Verify(f.params.pin)
           wrong == IF g.info.pin = 0 THEN Do(g, "unblockPIN") ELSE Asks(g, "EnterPIN")
           r == IF f.params.pin = Malformed THEN Asks(f, "EnterPIN") ELSE wrong
<1>1. /\ At("authenticate") /\ "authenticate" \in Usual /\ "authenticate" \in Step
      /\ "EnterPIN" \in Signal
  BY UsualSteps DEF Authenticate, Signal
<1>2. /\ Live(f) /\ f.link \in Cards /\ f \in FlowObject /\ f.at = "body" /\ Kin(f) /\ ~At("store")
      /\ TheCard = card[f.link] /\ Consistent(TheCard)
  BY <1>1, StepsAtHand
<1>3. CASE Becomes(Do(f, "unblockPIN"))
  <2>1. Steady(Do(f, "unblockPIN"))
    BY <1>1, <1>2, SteadyDo DEF OfType
  <2>2. QED
    BY <1>2, <1>3, <2>1, CalmStep
<1>4. CASE Becomes(Asks(f, "EnterPIN"))
  BY <1>1, <1>4, AskKept
<1>5. CASE f.params.pin # None /\ Issue(v, Done(h), r, Restarted(f)) /\ UNCHANGED others
  <2>1. f.info \in Info /\ f.params \in Params
    BY <1>2, Fields
  <2>2. n \in 0..MaxPIN /\ MaxPIN \in 0..MaxPIN /\ None \in Secret
    BY <1>2, Constants DEF Consistent, CardState, Decrement, Secret
  <2>3. /\ i \in Info /\ i.card = f.info.card /\ i.keys = f.info.keys /\ i.free = f.info.free
        /\ j \in Info /\ j.card = f.info.card /\ j.keys = f.info.keys /\ j.free = f.info.free
    <3>1. i \in Info /\ j \in Info
      BY <1>2, <2>2, PINTyped
    <3>2. QED
      BY <2>1, <3>1 DEF Info
  <2>4. /\ p \in Params /\ p.pin = None /\ p.has = f.params.has /\ p.instance = f.params.instance
    <3>1. p \in Params
      BY <1>2, <2>2, PINTyped
    <3>2. QED
      BY <2>1, <3>1 DEF Params
  <2>5. GivenPINs(p) = GivenPINs(f.params) - 1 /\ GivenPINs(f.params) \in Nat
    BY <1>5, <2>4, GivenCounts DEF GivenPINs
  <2>6. g = [f EXCEPT !.info = i, !.params = p] /\ h = [f EXCEPT !.info = j]
    <3>1. g = [f EXCEPT !.info = i, !.params = p]
      BY <1>2, <2>2, PINTyped
    <3>2. h = [f EXCEPT !.info = j]
      BY <1>2, <2>2, PINTyped
    <3>3. QED
      BY <3>1, <3>2
  <2>7. v \in {"verifyGood", "malformed", "verifyBad"} /\ (v = "verifyBad" => f.params.pin # Malformed)
    <3>1. f.link # Malformed
      BY <1>2, FlowCommandsAssumption
    <3>2. QED
      BY <3>1 DEF Verify
  <2>8. v \in Gentle
    BY <2>7 DEF Gentle, Setting, Trying
  <2> HIDE DEF g, h, i, j, p, n
  <2>9. Kin(g) /\ g.params = p /\ Kin(h)
    <3>1. /\ GivenPINs(p) <= GivenPINs(f.params) /\ GivenPINs(f.params) <= GivenPINs(f.params)
          /\ "Overwrite" \in f.params.has => "Overwrite" \in p.has
      BY <2>4, <2>5
    <3>2. Kin(g) /\ g.params = p
      BY <1>2, <2>3, <2>4, <2>6, <3>1, AttemptKin
    <3>3. Kin(h)
      <4>1. /\ h \in FlowObject /\ h.at = f.at /\ h.type = f.type /\ h.todo = f.todo
            /\ h.link = f.link /\ h.then = f.then /\ h.signal = f.signal
            /\ h.info = j /\ h.params = f.params
        BY <1>2, <2>3, <2>6, InfoTyped
      <4>2. QED
        BY <2>3, <3>1, <4>1 DEF Kin, Like
    <3>4. QED
      BY <3>2, <3>3
  <2>10. Steady(Done(h))
    BY <1>1, <2>9, SteadyDone
  <2>11. Steady(Do(g, "unblockPIN")) /\ Do(g, "unblockPIN").params = p
    <3>1. "unblockPIN" \in (Usual \cup Inner) \ {"loadKeys"} /\ OfType(f.type, "unblockPIN")
      BY DEF Inner, OfType
    <3>2. QED
      BY <1>1, <2>9, <3>1, NearDo, SteadyDo
  <2>12. Steady(Asks(g, "EnterPIN")) /\ Asks(g, "EnterPIN").params = p /\ Steady(Asks(f, "EnterPIN"))
    <3>1. g \in FlowObject
      BY <2>9 DEF Kin, Like
    <3>2. QED
      BY <1>1, <1>2, <2>9, <3>1, SteadyAsk, PausedFields
  <2>13. Steady(r) /\ (f.params.pin # Malformed => r.params = p)
    BY <2>11, <2>12
  <2>14. Steady(Restarted(f)) /\ Restarted(f).params = f.params
    <3>1. GivenPINs(f.params) <= GivenPINs(f.params)
      BY <2>5
    <3>2. QED
      BY <1>2, <3>1, SteadyRestart, RestartedFields
  <2> HIDE DEF r, v
  <2>15. FlowInv' /\ (SlotInv => SlotInv') /\ (v # "verifyBad" /\ PinInv => PinInv')
    BY <1>2, <1>5, <2>8, <2>10, <2>13, <2>14, GentleStep
  <2>16. v = "verifyBad" /\ PinInv => PinInv'
    <3> SUFFICES ASSUME v = "verifyBad", PinInv PROVE PinInv'
      OBVIOUS
    <3>1. burnt \in Nat /\ entered \in Nat /\ unheard \in Nat
      BY DEF FlowInv, OthersTyped
    <3>2. burnt' = burnt \/ burnt' = burnt + 1
      BY <1>2, <1>5, IssueEnds
    <3>3. ~Succeeds(TheCard, v)
      BY DEF Succeeds, Verdict
    <3>4. \/ f' = r /\ entered' = entered /\ unheard' = unheard
          \/ f' = Restarted(f) /\ entered' = entered /\ burnt' - burnt = unheard' - unheard
      BY <1>2, <1>5, <3>3, IssueEnds DEF Answered, Refused, Unanswered
    <3>5. CASE f' = r /\ entered' = entered /\ unheard' = unheard
      <4>1. GivenPINs(f'.params) = GivenPINs(f.params) - 1
        BY <2>5, <2>7, <2>13, <3>5
      <4>2. QED
        BY <2>5, <3>1, <3>2, <3>5, <4>1 DEF PinInv, PinTriesAreEntered
    <3>6. CASE f' = Restarted(f) /\ entered' = entered /\ burnt' - burnt = unheard' - unheard
      <4>1. unheard' \in Int
        <5>1. unheard' \in Nat
          BY <2>15 DEF FlowInv, OthersTyped
        <5>2. QED
          BY <5>1
      <4>2. GivenPINs(f'.params) = GivenPINs(f.params)
        BY <2>14, <3>6
      <4>3. QED
        BY <2>5, <3>1, <3>2, <3>6, <4>1, <4>2 DEF PinInv, PinTriesAreEntered
    <3>7. QED
      BY <3>4, <3>5, <3>6
  <2>17. QED
    BY <2>15, <2>16 DEF Kept
<1>6. QED
  BY <1>3, <1>4, <1>5 DEF Authenticate, Exchange

\* The new PIN has been given once, and is held once.
LEMMA UnblockKept == ASSUME FlowInv, UnblockPIN PROVE Kept
<1> DEFINE n == Decrement(TheCard.puk)
           D == Drop(f, {"NewPIN"})
           ok == [Drop(f, {"NewPIN"}) EXCEPT
                    !.info.pin = MaxPIN, !.info.puk = MaxPUK, !.params.pin = f.link, !.params.puk = None]
           i == [f.info EXCEPT !.pin = MaxPIN, !.puk = MaxPUK]
           p == [D.params EXCEPT !.pin = f.link, !.puk = None]
           g == [f EXCEPT !.info.puk = n, !.params.puk = None]
           j == [f.info EXCEPT !.puk = n]
           q == [f.params EXCEPT !.puk = None]
           wrong == IF g.info.puk = 0 THEN Swap(g) ELSE Asks(g, "EnterPUK")
           r == IF f.params.puk = Malformed THEN Ends("error") ELSE wrong
           v == Unblock(f.params.puk)
<1>1. /\ At("unblockPIN") /\ "unblockPIN" \in Step /\ "unblockPIN" \in Inner
      /\ {"EnterPUK", "EnterNewPIN"} \subseteq Signal /\ {"NewPIN"} \in SUBSET Key
  BY DEF UnblockPIN, Step, Inner, Signal, Key
<1>2. /\ Live(f) /\ f.link \in Cards /\ f \in FlowObject /\ f.at = "body" /\ Kin(f) /\ ~At("store")
      /\ TheCard = card[f.link] /\ Consistent(TheCard)
  BY <1>1, StepsAtHand
<1>3. CASE Becomes(Swap(f))
  BY <1>1, <1>3, SwapKept
<1>4. CASE Becomes(Asks(f, "EnterPUK")) \/ Becomes(Asks(f, "EnterNewPIN"))
  BY <1>1, <1>4, AskKept
<1>5. CASE Has("NewPIN") /\ Issue(v, Done(ok), r, Restarted(f)) /\ UNCHANGED others
  <2>1. f.info \in Info /\ f.params \in Params
    BY <1>2, Fields
  <2>2. n \in -1..MaxPUK /\ MaxPUK \in -1..MaxPUK /\ MaxPIN \in -1..MaxPIN
        /\ None \in Secret /\ f.link \in Secret
    BY <1>2, Constants DEF Consistent, CardState, Decrement, Secret
  <2>3. /\ i \in Info /\ i.card = f.info.card /\ i.keys = f.info.keys /\ i.free = f.info.free
        /\ j \in Info /\ j.card = f.info.card /\ j.keys = f.info.keys /\ j.free = f.info.free
    <3>1. i \in Info
      BY <2>1, <2>2 DEF Info
    <3>2. j \in Info
      BY <2>1, <2>2 DEF Info
    <3>3. QED
      BY <2>1, <3>1, <3>2 DEF Info
  <2>4. /\ D \in FlowObject /\ D.info = f.info /\ D.params \in Params
        /\ D.params.has = f.params.has \ {"NewPIN"} /\ D.params.instance = f.params.instance
        /\ D = [f EXCEPT !.params = D.params]
    <3>1. /\ D \in FlowObject /\ D.info = f.info
          /\ D.params.has = f.params.has \ {"NewPIN"} /\ D.params.instance = f.params.instance
      BY <1>1, <1>2, Dropped
    <3>2. D = [f EXCEPT !.params = D.params]
      BY <1>2 DEF Drop, FlowObject
    <3>3. QED
      BY <3>1, <3>2, Fields
  <2>5. /\ p \in Params /\ p.has = f.params.has \ {"NewPIN"} /\ p.pin = f.link
        /\ p.instance = f.params.instance
    <3> HIDE DEF D
    <3>1. p \in Params
      BY <2>2, <2>4 DEF Params
    <3>2. QED
      BY <2>4, <3>1 DEF Params
  <2>6. /\ q \in Params /\ q.has = f.params.has /\ q.pin = f.params.pin
        /\ q.instance = f.params.instance
    <3>1. q \in Params
      BY <2>1, <2>2 DEF Params
    <3>2. QED
      BY <2>1, <3>1 DEF Params
  <2>7. GivenPINs(p) <= GivenPINs(f.params) /\ GivenPINs(q) <= GivenPINs(f.params)
    BY <1>5, <2>5, <2>6 DEF GivenPINs, Has
  <2>8. ok = [f EXCEPT !.info = i, !.params = p]
    <3>1. ok = [D EXCEPT !.info = [D.info EXCEPT !.pin = MaxPIN, !.puk = MaxPUK], !.params = p]
      <4>1. D \in FlowObject
        BY <2>4
      <4> HIDE DEF D
      <4>2. [D EXCEPT !.info.pin = MaxPIN, !.info.puk = MaxPUK, !.params.pin = f.link, !.params.puk = None]
              = [D EXCEPT !.info = [D.info EXCEPT !.pin = MaxPIN, !.puk = MaxPUK], !.params = p]
        BY <4>1 DEF FlowObject
      <4>3. QED
        BY <4>2 DEF D
    <3> HIDE DEF D, p, ok
    <3>2. [D EXCEPT !.info = i, !.params = p] = [f EXCEPT !.info = i, !.params = p]
      <4>1. [[f EXCEPT !.params = D.params] EXCEPT !.info = i, !.params = p]
              = [f EXCEPT !.info = i, !.params = p]
        BY <1>2 DEF FlowObject
      <4>2. QED
        BY <2>4, <4>1
    <3>3. QED
      BY <2>4, <3>1, <3>2
  <2>9. g = [f EXCEPT !.info = j, !.params = q]
    BY <1>2 DEF FlowObject
  <2> HIDE DEF g, ok, i, j, p, q, n, D
  <2>10. Kin(ok) /\ Kin(g)
    BY <1>2, <2>3, <2>5, <2>6, <2>7, <2>8, <2>9, AttemptKin
  <2>11. Steady(Done(ok)) /\ Steady(Swap(g)) /\ Steady(Asks(g, "EnterPUK"))
    BY <1>1, <1>2, <2>10, SteadyDone, SteadySwap, SteadyAsk
  <2>12. Steady(r) /\ Steady(Restarted(f))
    BY <1>2, <2>11, SteadyEnd, SteadyRestart DEF Kin
  <2>13. v \in Gentle \ {"verifyBad"}
    BY DEF Unblock, Gentle, Setting, Trying
  <2> HIDE DEF r, v
  <2>14. QED
    BY <1>2, <1>5, <2>11, <2>12, <2>13, GentleStep DEF Kept
<1>6. QED
  BY <1>3, <1>4, <1>5 DEF UnblockPIN, Exchange

-----------------------------------------------------------------------------
\* The steps that change the keys or free the slots of the card.

\* A command that changes them is reported when, and only when, it has
\* succeeded.
LEMMA LastingKept ==
    ASSUME FlowInv, NEW s \in Usual, s # "requireNoKeys", At(s),
           NEW c \in Keying \cup {"unpair", "unpairOther"}, NEW y, Simply(c, Done(y)),
           Answered(c) =>
             /\ Like(y, f) /\ GivenPINs(y.params) <= GivenPINs(f.params)
             /\ f.type = "LoadAccount" /\ Len(f.todo) > 1 => Permitted(y)
             /\ y.info.keys = Replaced(TheCard, c).keys
             /\ f.type \in {"UnpairThis", "DeleteAccountAndUnpair"} =>
                  y.info.free = Replaced(TheCard, c).slots
    PROVE  Kept
<1>1. s \in Step /\ s # "store" /\ c \in Issued \ {"pair", "verifyBad"} /\ s \in Usual \cup Inner
  BY UsualSteps DEF Usual, Inner, Issued, Keying, Slotting
<1>2. /\ Live(f) /\ f.link \in Cards /\ f \in FlowObject /\ f.at = "body" /\ ~At("store")
      /\ TheCard = card[f.link] /\ Consistent(TheCard) /\ Met(f) /\ FlowFits(f) /\ f.todo # <<>>
      /\ f.type \in FlowType
  BY <1>1, StepsAtHand, AtStep DEF FlowInv
<1>3. Issue(c, Done(y), Ends("error"), Restarted(f)) /\ UNCHANGED others
  BY DEF Simply, Exchange
<1>4. /\ \/ Answered(c) /\ f' = Done(y)
         \/ Refused(c) /\ f' = Ends("error")
         \/ Unanswered(c) /\ f' = Restarted(f)
  BY <1>2, <1>3, IssueEnds
<1>5. GivenPINs(f.params) <= GivenPINs(f.params)
  BY GivenCounts
<1>6. CASE f' = Ends("error") \/ f' = Restarted(f)
  <2>1. Steady(f') /\ ~Live(f')
    BY <1>2, <1>5, <1>6, SteadyEnd, SteadyRestart
  <2>2. FlowFits(f)' /\ InfoFits' /\ PairFits'
    BY <2>1, AheadFits DEF Steady, Near
  <2>3. /\ CardsFit' /\ OthersTyped' /\ MemFits' /\ (SlotInv => SlotInv') /\ (PinInv => PinInv')
    BY <1>1, <1>2, <1>3, <2>1, CommandStep DEF Steady, Near
  <2>4. QED
    BY <2>2, <2>3 DEF Kept, FlowInv
<1>7. CASE Answered(c) /\ f' = Done(y)
  <2>1. /\ FlowFits(f') /\ f'.at = "body" /\ f'.link = f.link /\ f'.info = y.info
        /\ f'.params = y.params /\ f'.type = f.type
        /\ f'.todo # <<>> => f'.todo[1] \in Usual
    BY <1>2, <1>7, DoneFits
  <2>2. /\ CardsFit' /\ OthersTyped' /\ MemFits' /\ (SlotInv => SlotInv') /\ (PinInv => PinInv')
    BY <1>1, <1>2, <1>3, <1>7, <2>1, CommandStep
  <2>3. card'[f.link] = Replaced(TheCard, c)
    BY <1>2, <1>7 DEF Answered, FlowInv, CardsFit
  <2>4. InfoFits'
    BY <1>7, <2>1, <2>3 DEF InfoFits
  <2>5. PairFits'
    BY <2>1 DEF PairFits, HeadIs, Usual, Inner
  <2>6. FlowFits(f)'
    BY <2>1, FitsPrimed
  <2>7. QED
    BY <2>2, <2>4, <2>5, <2>6 DEF Kept, FlowInv
<1>8. QED
  BY <1>4, <1>6, <1>7

\* What is known of the card when a command has succeeded.
LEMMA KnownCard ==
    ASSUME FlowInv, NEW s \in Usual, At(s), NEW c \in Keying \cup {"unpair", "unpairOther"}, Answered(c)
    PROVE  /\ f \in FlowObject /\ f.info \in Info /\ f.params \in Params /\ Consistent(TheCard)
           /\ f.info.keys = TheCard.keys
           /\ f.type \in {"UnpairThis", "DeleteAccountAndUnpair"} => f.info.free = TheCard.slots
           /\ Obeys(TheCard, c) /\ Like(f, f) /\ Met(f) /\ f.todo # <<>> /\ f.todo[1] = s
           /\ OfType(f.type, s) /\ GivenPINs(f.params) <= GivenPINs(f.params)
           /\ f.type = "LoadAccount" => s = "requireNoKeys" \/ Permitted(f)
<1>1. s \in Step /\ s \in Usual \cup Inner
  BY UsualSteps
<1>2. /\ Live(f) /\ f.link \in Cards /\ f \in FlowObject /\ Kin(f) /\ TheCard = card[f.link]
      /\ Consistent(TheCard) /\ Met(f) /\ f.todo # <<>> /\ f.todo[1] = s /\ OfType(f.type, s)
  BY <1>1, StepsAtHand, AtStep
<1>3. f.type = "LoadAccount" => s = "requireNoKeys" \/ Permitted(f)
  BY <1>1, AtStep
<1>4. f.info.card # None /\ valid
  BY <1>2, Constants DEF Met, Answered
<1>5. Obeys(TheCard, c)
  BY DEF Answered, Succeeds
<1>6. QED
  BY <1>2, <1>3, <1>4, <1>5, Fields DEF FlowInv, InfoFits, Kin

\* The keys the card then has are known to the flow.
LEMMA LoadKept == ASSUME FlowInv, LoadKeys PROVE Kept
<1> DEFINE i == [f.info EXCEPT !.keys = TRUE]
           y == [f EXCEPT !.info.keys = TRUE]
<1>1. /\ At("loadKeys") /\ "loadKeys" \in Usual /\ "loadKeys" \in Usual \cup Inner
      /\ "loadKeys" \notin {"store", "pair", "verifyAuthenticity"} /\ "EnterMnemonic" \in Signal
  BY UsualSteps DEF LoadKeys, Signal
<1>2. CASE Simply("generate", Asks(f, "EnterMnemonic"))
  <2>1. Kin(f)
    BY <1>1, StepsAtHand, UsualSteps
  <2>2. Steady(Asks(f, "EnterMnemonic"))
    BY <1>1, <2>1, SteadyAsk
  <2>3. QED
    BY <1>1, <1>2, <2>2, Gentles, SimplyKept
<1>3. CASE Simply("loadSeed", Done(y))
  <2>1. "loadSeed" \in Keying
    BY DEF Keying
  <2>2. ASSUME Answered("loadSeed")
        PROVE  /\ Like(y, f) /\ GivenPINs(y.params) <= GivenPINs(f.params)
               /\ f.type = "LoadAccount" /\ Len(f.todo) > 1 => Permitted(y)
               /\ y.info.keys = Replaced(TheCard, "loadSeed").keys
               /\ f.type \in {"UnpairThis", "DeleteAccountAndUnpair"} =>
                    y.info.free = Replaced(TheCard, "loadSeed").slots
    <3>1. /\ f \in FlowObject /\ f.info \in Info /\ Consistent(TheCard) /\ Obeys(TheCard, "loadSeed")
          /\ Met(f) /\ f.todo # <<>> /\ f.todo[1] = "loadKeys" /\ OfType(f.type, "loadKeys")
          /\ Like(f, f) /\ GivenPINs(f.params) <= GivenPINs(f.params)
      BY <1>1, <2>1, <2>2, KnownCard
    <3>2. f.type = "LoadAccount" /\ Len(f.todo) = 1
      BY <3>1 DEF Met, OfType
    <3>3. i \in Info /\ i.card = f.info.card /\ i.keys = TRUE
      BY <3>1 DEF Info
    <3>4. y = [f EXCEPT !.info = i]
      BY <3>1 DEF FlowObject
    <3>5. Replaced(TheCard, "loadSeed").keys = TRUE
      BY <2>1, <3>1, KeyedCard
    <3> HIDE DEF y, i
    <3>6. /\ y \in FlowObject /\ y.at = f.at /\ y.type = f.type /\ y.todo = f.todo /\ y.link = f.link
          /\ y.then = f.then /\ y.signal = f.signal /\ y.info = i /\ y.params = f.params
      BY <3>1, <3>3, <3>4, InfoTyped
    <3>7. Like(y, f)
      BY <3>3, <3>6 DEF Like
    <3>8. y.info.keys = Replaced(TheCard, "loadSeed").keys
      BY <3>3, <3>5, <3>6
    <3>9. GivenPINs(y.params) <= GivenPINs(f.params)
      BY <3>1, <3>6
    <3>10. QED
      BY <3>2, <3>7, <3>8, <3>9
  <2> HIDE DEF y
  <2>3. QED
    BY <1>1, <1>3, <2>1, <2>2, LastingKept
<1>4. QED
  BY <1>2, <1>3 DEF LoadKeys

\* The slot that the card has freed is the one the flow counts.
LEMMA UnpairKept == ASSUME FlowInv, UnpairCurrent PROVE Kept
<1> DEFINE i == [f.info EXCEPT !.free = @ + 1]
           y == [f EXCEPT !.info.free = @ + 1]
<1>1. At("unpairCurrent") /\ "unpairCurrent" \in Usual /\ Simply("unpair", Done(y))
  BY UsualSteps DEF UnpairCurrent
<1>2. ASSUME Answered("unpair")
      PROVE  /\ Like(y, f) /\ GivenPINs(y.params) <= GivenPINs(f.params)
             /\ f.type = "LoadAccount" /\ Len(f.todo) > 1 => Permitted(y)
             /\ y.info.keys = Replaced(TheCard, "unpair").keys
             /\ f.type \in {"UnpairThis", "DeleteAccountAndUnpair"} =>
                  y.info.free = Replaced(TheCard, "unpair").slots
  <2>1. /\ f \in FlowObject /\ f.info \in Info /\ Consistent(TheCard) /\ Obeys(TheCard, "unpair")
        /\ OfType(f.type, "unpairCurrent") /\ Like(f, f) /\ GivenPINs(f.params) <= GivenPINs(f.params)
        /\ f.info.keys = TheCard.keys
        /\ f.type \in {"UnpairThis", "DeleteAccountAndUnpair"} => f.info.free = TheCard.slots
    BY <1>1, <1>2, KnownCard
  <2>2. f.type \in {"UnpairThis", "DeleteAccountAndUnpair"} /\ f.info.free = TheCard.slots
    BY <2>1 DEF OfType
  <2>3. /\ Consistent(Replaced(TheCard, "unpair"))
        /\ Replaced(TheCard, "unpair").keys = TheCard.keys
        /\ Replaced(TheCard, "unpair").slots = TheCard.slots + 1
    BY <2>1, SlottedCard DEF Slotting
  <2>4. TheCard.slots + 1 \in -1..MaxSlots
    BY <2>3, Constants DEF Consistent, CardState
  <2>5. i \in Info /\ i.card = f.info.card /\ i.keys = f.info.keys /\ i.free = TheCard.slots + 1
    <3>1. f.info.free + 1 \in -1..MaxSlots
      BY <2>2, <2>4
    <3>2. QED
      BY <2>1, <2>2, <3>1 DEF Info
  <2>6. y = [f EXCEPT !.info = i]
    BY <2>1 DEF FlowObject
  <2> HIDE DEF y, i
  <2>7. /\ y \in FlowObject /\ y.at = f.at /\ y.type = f.type /\ y.todo = f.todo /\ y.link = f.link
        /\ y.then = f.then /\ y.signal = f.signal /\ y.info = i /\ y.params = f.params
    BY <2>1, <2>5, <2>6, InfoTyped
  <2>8. Like(y, f)
    BY <2>5, <2>7 DEF Like
  <2>9. QED
    BY <2>1, <2>2, <2>3, <2>5, <2>7, <2>8
<1> HIDE DEF y
<1>3. QED
  BY <1>1, <1>2, LastingKept

\* The slots of other programs are none that this program accounts for.
LEMMA UnpairOtherKept == ASSUME FlowInv, UnpairOther PROVE Kept
<1>1. At("unpairOther") /\ "unpairOther" \in Usual /\ Simply("unpairOther", Done(f))
  BY UsualSteps DEF UnpairOther
<1>2. ASSUME Answered("unpairOther")
      PROVE  /\ Like(f, f) /\ GivenPINs(f.params) <= GivenPINs(f.params)
             /\ f.type = "LoadAccount" /\ Len(f.todo) > 1 => Permitted(f)
             /\ f.info.keys = Replaced(TheCard, "unpairOther").keys
             /\ f.type \in {"UnpairThis", "DeleteAccountAndUnpair"} =>
                  f.info.free = Replaced(TheCard, "unpairOther").slots
  <2>1. /\ Consistent(TheCard) /\ Obeys(TheCard, "unpairOther")
        /\ OfType(f.type, "unpairOther") /\ Like(f, f) /\ GivenPINs(f.params) <= GivenPINs(f.params)
        /\ f.info.keys = TheCard.keys
    BY <1>1, <1>2, KnownCard
  <2>2. Replaced(TheCard, "unpairOther").keys = TheCard.keys
    BY <2>1, SlottedCard DEF Slotting
  <2>3. QED
    BY <2>1, <2>2 DEF OfType
<1>3. QED
  BY <1>1, <1>2, LastingKept

\* The flow forgets the key UID of keys that the card has removed.
LEMMA RemoveKept == ASSUME FlowInv, RemoveKey PROVE Kept
<1> DEFINE i == [f.info EXCEPT !.keys = FALSE]
           y == [f EXCEPT !.info.keys = FALSE]
<1>1. /\ At("removeKey") /\ "removeKey" \in Usual /\ Simply("removeKey", Done(y))
      /\ "removeKey" \in Keying
  BY UsualSteps DEF RemoveKey, Keying
<1>2. ASSUME Answered("removeKey")
      PROVE  /\ Like(y, f) /\ GivenPINs(y.params) <= GivenPINs(f.params)
             /\ f.type = "LoadAccount" /\ Len(f.todo) > 1 => Permitted(y)
             /\ y.info.keys = Replaced(TheCard, "removeKey").keys
             /\ f.type \in {"UnpairThis", "DeleteAccountAndUnpair"} =>
                  y.info.free = Replaced(TheCard, "removeKey").slots
  <2>1. /\ f \in FlowObject /\ f.info \in Info /\ Consistent(TheCard) /\ Obeys(TheCard, "removeKey")
        /\ Like(f, f) /\ GivenPINs(f.params) <= GivenPINs(f.params)
        /\ f.type \in {"UnpairThis", "DeleteAccountAndUnpair"} => f.info.free = TheCard.slots
    BY <1>1, <1>2, KnownCard
  <2>2. Replaced(TheCard, "removeKey").keys = FALSE /\ Replaced(TheCard, "removeKey").slots = TheCard.slots
    BY <1>1, <2>1, KeyedCard
  <2>3. i \in Info /\ i.card = f.info.card /\ i.keys = FALSE /\ i.free = f.info.free
    BY <2>1 DEF Info
  <2>4. y = [f EXCEPT !.info = i]
    BY <2>1 DEF FlowObject
  <2> HIDE DEF y, i
  <2>5. /\ y \in FlowObject /\ y.at = f.at /\ y.type = f.type /\ y.todo = f.todo /\ y.link = f.link
        /\ y.then = f.then /\ y.signal = f.signal /\ y.info = i /\ y.params = f.params
    BY <2>1, <2>3, <2>4, InfoTyped
  <2>6. Like(y, f) /\ Permitted(y)
    BY <2>3, <2>5 DEF Like, Permitted
  <2>7. QED
    BY <2>1, <2>2, <2>3, <2>5, <2>6
<1> HIDE DEF y
<1>3. QED
  BY <1>1, <1>2, LastingKept

\* The flow goes on with the addresses of the wallets, on the card it has met.
LEMMA MetadataKept == ASSUME FlowInv, GetMetadata PROVE Kept
<1> DEFINE q == Session \o <<"exportMaster", "export">>
           y == [f EXCEPT !.todo = q]
<1>1. At("getMetadata") /\ "getMetadata" \in Usual /\ "getMetadata" \in Usual \cup Inner
  BY UsualSteps DEF GetMetadata
<1>2. /\ f \in FlowObject /\ Live(f) /\ f.at = "body" /\ f.link \in Cards /\ Kin(f) /\ Met(f)
      /\ f.type \in FlowType /\ ~At("store")
  BY <1>1, UsualSteps, StepsAtHand, AtStep
<1>3. f.type = "LoadAccount" => Permitted(f)
  BY <1>1, UsualSteps, AtStep
<1>4. /\ q \in Seq(Step) /\ Len(q) = 4 /\ q[1] = "openSC" /\ q[2] = "authenticate"
      /\ q[3] = "exportMaster" /\ q[4] = "export" /\ q # <<>>
  BY DEF Session, Step, ExportSteps
<1> HIDE DEF q
<1>5. /\ y \in FlowObject /\ y.at = f.at /\ y.type = f.type /\ y.todo = q /\ y.link = f.link
      /\ y.then = f.then /\ y.signal = f.signal /\ y.info = f.info /\ y.params = f.params
  BY <1>2, <1>4 DEF FlowObject
<1> HIDE DEF y
<1>6. {"openSC", "authenticate", "exportMaster", "export"} \subseteq Usual
  BY UsualSteps
<1>7. Rest(y, 2)
  <2> SUFFICES ASSUME NEW n \in 2..4
               PROVE  y.todo[n] \in Usual /\ OfType(y.type, y.todo[n]) /\ y.todo[n] # "loadKeys"
    BY <1>4, <1>5 DEF Rest
  <2>1. y.todo[n] \in {"authenticate", "exportMaster", "export"}
    BY <1>4, <1>5
  <2>2. QED
    BY <1>6, <2>1 DEF OfType
<1>8. Met(y)
  BY <1>2, <1>3, <1>4, <1>5, <1>6, <1>7 DEF Met, Permitted, OfType
<1>9. Steady(y)
  <2>1. FlowFits(y)
    BY <1>2, <1>5, <1>8 DEF FlowFits, Live
  <2>2. QED
    BY <1>4, <1>5, <2>1, GivenCounts DEF Steady, Near
<1>10. Steady(Done(f)) /\ Steady(Ends("error"))
  BY <1>1, <1>2, SteadyDone, SteadyEnd
<1>11. \E a : Steady(a) /\ Simply("getData", a)
  BY <1>9, <1>10 DEF GetMetadata, y, q
<1>12. QED
  BY <1>1, <1>11, Gentles, SimplyKept

-----------------------------------------------------------------------------
\* Connections, the client and the user.

\* The steps of a flow begin with the reset and the selection of the card.
LEMMA StepsAhead ==
    ASSUME NEW x \in FlowObject, x.info.card = None, NEW P \in Seq(UsualOf(x.type)),
           Len(x.todo) = Len(P) + 2, x.todo[1] = "factoryReset", x.todo[2] = "select",
           \A n \in 3..Len(x.todo) : x.todo[n] = P[n - 2],
           x.type = "LoadAccount" =>
             Len(P) = 4 /\ P[1] = "requireNoKeys" /\ P[2] = "openSC" /\ P[3] = "authenticate"
    PROVE  Ahead(x)
<1>1. Len(P) \in Nat /\ \A n \in 1..Len(P) : P[n] \in Usual /\ OfType(x.type, P[n])
  BY DEF UsualOf
<1>2. \A n \in 3..Len(x.todo) : n - 2 \in 1..Len(P)
  BY <1>1
<1>3. \A n \in 3..Len(x.todo) : x.todo[n] \in Usual /\ OfType(x.type, x.todo[n])
  BY <1>1, <1>2
<1>4. CASE x.type # "LoadAccount"
  <2>1. Rest(x, 3)
    BY <1>3, <1>4 DEF Rest, OfType
  <2>2. Looks(x, 2)
    BY <1>1, <1>4, <2>1 DEF Looks
  <2>3. QED
    BY <2>2 DEF Ahead, ResetStep
<1>5. CASE x.type = "LoadAccount"
  <2>1. /\ Len(x.todo) = 6 /\ x.todo[3] = "requireNoKeys" /\ x.todo[4] = "openSC"
        /\ x.todo[5] = "authenticate"
    <3>1. Len(P) = 4
      BY <1>5
    <3>2. Len(x.todo) = 6
      BY <3>1
    <3>3. x.todo[3] = P[1] /\ x.todo[4] = P[2] /\ x.todo[5] = P[3]
      BY <3>2
    <3>4. QED
      BY <1>5, <3>2, <3>3
  <2>2. Rest(x, 3)
    <3> SUFFICES ASSUME NEW n \in 3..Len(x.todo), x.todo[n] = "loadKeys" PROVE n = Len(x.todo)
      BY <1>3 DEF Rest
    <3>1. n \in {3, 4, 5, 6}
      <4>1. Len(x.todo) = 6
        BY <2>1
      <4>2. n \in 3..6
        BY <4>1
      <4>3. QED
        BY <4>2
    <3>2. QED
      BY <2>1, <3>1
  <2>3. Looks(x, 2)
    BY <2>1, <2>2 DEF Looks
  <2>4. QED
    BY <2>3 DEF Ahead, ResetStep
<1>6. QED
  BY <1>4, <1>5

\* The same of the steps that connectedFlow begins with.
LEMMA ProgramAhead ==
    ASSUME NEW type \in FlowType, NEW x \in FlowObject, x.type = type, x.info.card = None,
           x.todo = <<"factoryReset", "select">> \o Program(type)
    PROVE  Ahead(x)
<1> DEFINE P == Program(type)
<1>1. P \in Seq(UsualOf(type))
  BY ProgramsUsual
<1>2. type = "LoadAccount" =>
        Len(P) = 4 /\ P[1] = "requireNoKeys" /\ P[2] = "openSC" /\ P[3] = "authenticate"
  BY LoadProgram
<1>3. x.todo = <<"factoryReset", "select">> \o P
  OBVIOUS
<1> HIDE DEF P
<1>4. /\ Len(x.todo) = Len(P) + 2 /\ x.todo[1] = "factoryReset" /\ x.todo[2] = "select"
      /\ \A n \in 3..Len(x.todo) : x.todo[n] = P[n - 2]
  BY <1>1, <1>3
<1>5. QED
  BY <1>1, <1>2, <1>4, StepsAhead

\* What a step keeps that leaves the slots of the cards and the store alone.
LEMMA CardsKept ==
    ASSUME FlowInv, ~At("store"), card' \in [Cards -> CardState],
           \A d \in Cards : /\ Consistent(card'[d]) /\ card'[d].slots = card[d].slots
                            /\ card'[d].paired = card[d].paired,
           UNCHANGED <<mem, file, torn>>
    PROVE  CardsFit' /\ MemFits' /\ (SlotInv => SlotInv')
<1>1. CardsFit'
  BY DEF CardsFit
<1>2. \A d \in Cards : Shed(card[d], card'[d])
  <2>1. \A d \in Cards : card[d].slots \in 0..MaxSlots /\ MaxSlots \in Nat
    BY Constants DEF FlowInv, CardsFit, CardState
  <2>2. QED
    BY <2>1 DEF Shed
<1>3. QED
  BY <1>1, <1>2, MemKept, SlotsKept

\* A card that has lost its session.
LEMMA EndedCard ==
    ASSUME NEW k, Consistent(k)
    PROVE  /\ EndSession(k) \in CardState /\ Consistent(EndSession(k))
           /\ EndSession(k).slots = k.slots /\ EndSession(k).paired = k.paired
BY SelectedCard DEF Consistent

\* A connection starts the steps over, on a card without a session.
LEMMA ConnectKept == ASSUME FlowInv, Connect PROVE Kept
<1>1. /\ f.at = "connect" /\ slot # None
      /\ f' = [f EXCEPT !.at = "body", !.link = slot,
                        !.todo = <<"factoryReset", "select">> \o Program(f.type)]
      /\ valid' = TRUE
      /\ card' = [card EXCEPT ![slot] = EndSession(@)]
      /\ UNCHANGED <<slot, mem, file, flows, replies, faults, entered, burnt, unheard, torn>>
  BY DEF Connect, store, bounds, ghosts
<1>2. /\ f \in FlowObject /\ f.type \in FlowType /\ slot \in Cards /\ f.info = NoInfo /\ ~At("store")
  BY <1>1 DEF FlowInv, FlowFits, OthersTyped, At
<1>3. <<"factoryReset", "select">> \o Program(f.type) \in Seq(Step)
  <2>1. Program(f.type) \in Seq(UsualOf(f.type))
    BY <1>2, ProgramsUsual
  <2>2. UsualOf(f.type) \subseteq Step
    BY DEF UsualOf, Usual
  <2>3. Program(f.type) \in Seq(Step)
    BY <2>1, <2>2
  <2>4. <<"factoryReset", "select">> \in Seq(Step)
    BY DEF Step
  <2>5. QED
    BY <2>3, <2>4, Concatenated
<1>4. /\ f' \in FlowObject /\ f'.at = "body" /\ f'.link = slot /\ f'.type = f.type
      /\ f'.info = NoInfo /\ f'.params = f.params
      /\ f'.todo = <<"factoryReset", "select">> \o Program(f.type)
  BY <1>1, <1>2, <1>3 DEF FlowObject
<1>5. Ahead(f')
  <2>1. f'.info.card = None
    BY <1>4 DEF NoInfo
  <2>2. QED
    BY <1>2, <1>4, <2>1, ProgramAhead
<1>6. FlowFits(f')
  BY <1>2, <1>4, <1>5 DEF FlowFits, Live
<1>7. FlowFits(f)' /\ InfoFits' /\ PairFits'
  BY <1>5, <1>6, AheadFits
<1>8. /\ card' \in [Cards -> CardState]
      /\ \A d \in Cards : /\ Consistent(card'[d]) /\ card'[d].slots = card[d].slots
                          /\ card'[d].paired = card[d].paired
  <2>1. card \in [Cards -> CardState] /\ \A d \in Cards : Consistent(card[d])
    BY DEF FlowInv, CardsFit
  <2>2. /\ EndSession(card[slot]) \in CardState /\ Consistent(EndSession(card[slot]))
        /\ EndSession(card[slot]).slots = card[slot].slots
        /\ EndSession(card[slot]).paired = card[slot].paired
    BY <1>2, <2>1, EndedCard
  <2>3. card' \in [Cards -> CardState] /\ card'[slot] = EndSession(card[slot])
    BY <1>1, <1>2, <2>1, <2>2
  <2>4. \A d \in Cards : d # slot => card'[d] = card[d]
    BY <1>1, <2>1
  <2>5. QED
    BY <2>1, <2>2, <2>3, <2>4
<1>9. CardsFit' /\ MemFits' /\ (SlotInv => SlotInv')
  BY <1>1, <1>2, <1>8, CardsKept
<1>10. OthersTyped'
  BY <1>1 DEF FlowInv, OthersTyped
<1>11. PinInv => PinInv'
  BY <1>1, <1>4 DEF PinInv, PinTriesAreEntered
<1>12. QED
  BY <1>7, <1>9, <1>10, <1>11 DEF Kept, FlowInv

\* The PINs of the parameters are given with them.
LEMMA StartKept ==
    ASSUME FlowInv, NEW type \in Flows, NEW p \in StartParams, Start(type, p)
    PROVE  Kept
<1>1. /\ f.at = "idle" /\ flows < MaxFlows /\ flows' = flows + 1
      /\ entered' = entered + GivenPINs(p)
      /\ f' = [IdleFlow EXCEPT !.at = "connect", !.type = type, !.params = p]
      /\ UNCHANGED <<slot, valid, card, mem, file, replies, faults, burnt, unheard, torn>>
  BY DEF Start, store
<1>2. type \in FlowType /\ p \in Params /\ MaxFlows \in Nat /\ ~At("store")
  BY <1>1, Constants DEF At
<1>3. f' \in FlowObject /\ f'.at = "connect" /\ f'.type = type /\ f'.info = NoInfo /\ f'.params = p
  <2>1. <<>> \in Seq(Step)
    OBVIOUS
  <2>2. QED
    BY <1>1, <1>2, <2>1, NoInfoTyped DEF IdleFlow, FlowObject
<1>4. FlowFits(f') /\ ~Live(f')
  BY <1>2, <1>3 DEF FlowFits, Live
<1>5. FlowFits(f)' /\ InfoFits' /\ PairFits'
  BY <1>4, AheadFits
<1>6. CardsFit' /\ MemFits' /\ (SlotInv => SlotInv')
  BY <1>1, <1>2, CardsKept DEF FlowInv, CardsFit
<1>7. GivenPINs(p) \in Nat /\ GivenPINs(f.params) \in Nat /\ burnt \in Nat /\ entered \in Nat /\ unheard \in Nat
  BY GivenCounts DEF FlowInv, OthersTyped
<1>8. OthersTyped'
  <2>1. flows' \in 0..MaxFlows /\ entered' \in Nat
    BY <1>1, <1>2, <1>7 DEF FlowInv, OthersTyped
  <2>2. QED
    BY <1>1, <2>1 DEF FlowInv, OthersTyped
<1>9. PinInv => PinInv'
  BY <1>1, <1>3, <1>7 DEF PinInv, PinTriesAreEntered
<1>10. QED
  BY <1>5, <1>6, <1>8, <1>9 DEF Kept, FlowInv

\* The client gives what it was asked for, and nothing else: a PIN only when
\* it is counted, and never another instance UID.
LEMMA AnswersFit ==
    ASSUME FlowInv, f.at = "paused", NEW p \in Answers(f.signal)
    PROVE  /\ p \in Params /\ p.instance = f.params.instance /\ p.skip = f.params.skip
           /\ f.params.has \subseteq p.has
           /\ GivenPINs(p) <= GivenPINs(f.params)
                + (IF f.signal \in {"EnterPIN", "EnterNewPIN"} THEN 1 ELSE 0)
<1>1. f.params \in Params /\ f.link \in Cards \cup {None} /\ f.signal \in Signal
  BY Fields DEF FlowInv, FlowFits
<1>2. CASE f.signal = "SwapCard"
  <2>1. p = f.params
    BY <1>2 DEF Answers
  <2>2. QED
    BY <1>1, <1>2, <2>1, GivenCounts
<1>3. CASE f.signal = "EnterPairing"
  <2>1. PICK s \in Pairings : p = [f.params EXCEPT !.pairing = s]
    BY <1>3 DEF Answers
  <2>2. s \in {"none", "right", "wrong"}
    BY DEF Pairings
  <2>3. /\ p \in Params /\ p.instance = f.params.instance /\ p.skip = f.params.skip
        /\ p.has = f.params.has /\ p.pin = f.params.pin
    BY <1>1, <2>1, <2>2 DEF Params
  <2>4. QED
    BY <1>3, <2>3, GivenCounts DEF GivenPINs
<1>4. Secrets \subseteq Secret
  BY <1>1 DEF Secrets, Secret
<1>5. CASE f.signal = "EnterPIN"
  <2>1. PICK s \in Secrets : p = [f.params EXCEPT !.pin = s]
    BY <1>5 DEF Answers
  <2>2. /\ p \in Params /\ p.instance = f.params.instance /\ p.skip = f.params.skip
        /\ p.has = f.params.has
    BY <1>1, <1>4, <2>1 DEF Params
  <2>3. QED
    BY <1>5, <2>2 DEF GivenPINs
<1>6. CASE f.signal = "EnterPUK"
  <2>1. PICK s \in Secrets : p = [f.params EXCEPT !.puk = s]
    BY <1>6 DEF Answers
  <2>2. /\ p \in Params /\ p.instance = f.params.instance /\ p.skip = f.params.skip
        /\ p.has = f.params.has /\ p.pin = f.params.pin
    BY <1>1, <1>4, <2>1 DEF Params
  <2>3. QED
    BY <1>6, <2>2, GivenCounts DEF GivenPINs
<1>7. CASE f.signal \notin {"SwapCard", "EnterPairing", "EnterPIN", "EnterPUK"}
  <2>1. PICK k \in Key : p = Given(k) /\ (k = "NewPIN" => f.signal = "EnterNewPIN")
    <3>1. f.signal \in {"EnterNewPair", "EnterNewPIN", "EnterNewPUK", "EnterTXHash", "EnterPath",
                        "EnterMnemonic", "EnterName", "EnterWallets"}
      BY <1>1, <1>7 DEF Signal
    <3>2. QED
      BY <3>1 DEF Answers, Key
  <2>2. /\ p \in Params /\ p.instance = f.params.instance /\ p.skip = f.params.skip
        /\ p.has = f.params.has \cup {k} /\ p.pin = f.params.pin
    BY <1>1, <2>1 DEF Params, Given
  <2>3. QED
    BY <1>7, <2>1, <2>2 DEF GivenPINs
<1>8. QED
  BY <1>2, <1>3, <1>5, <1>6, <1>7

\* The flow goes on where it was, or is connected anew.
LEMMA ResumeKept ==
    ASSUME FlowInv, NEW p \in Answers(f.signal), Resume(p)
    PROVE  Kept
<1> DEFINE g == [f EXCEPT !.params = p, !.signal = None, !.at = "body"]
<1>1. /\ f.at = "paused"
      /\ f' = IF f.then = "retry" THEN g ELSE Restarted(g)
      /\ entered' = IF f.signal \in {"EnterPIN", "EnterNewPIN"} THEN entered + 1 ELSE entered
      /\ UNCHANGED replies \/ (replies < MaxReplies /\ replies' = replies + 1)
      /\ UNCHANGED <<slot, valid, card, mem, file, flows, faults, burnt, unheard, torn>>
  BY DEF Resume, store
<1>2. /\ f \in FlowObject /\ f.type \in FlowType /\ ~At("store") /\ MaxReplies \in Nat
      /\ FlowFits(f)
  BY <1>1, Constants DEF FlowInv, FlowFits, At
<1>3. /\ p \in Params /\ p.instance = f.params.instance /\ p.skip = f.params.skip
      /\ f.params.has \subseteq p.has
      /\ GivenPINs(p) <= GivenPINs(f.params) + (IF f.signal \in {"EnterPIN", "EnterNewPIN"} THEN 1 ELSE 0)
  BY <1>1, AnswersFit
<1>4. /\ g \in FlowObject /\ g.at = "body" /\ g.type = f.type /\ g.todo = f.todo /\ g.link = f.link
      /\ g.info = f.info /\ g.params = p
  BY <1>2, <1>3 DEF FlowObject
<1> HIDE DEF g
<1>5. CardsFit' /\ MemFits' /\ (SlotInv => SlotInv')
  BY <1>1, <1>2, CardsKept DEF FlowInv, CardsFit
<1>6. OthersTyped'
  <2>1. replies' \in 0..MaxReplies /\ entered' \in Nat
    BY <1>1, <1>2 DEF FlowInv, OthersTyped
  <2>2. QED
    BY <1>1, <2>1 DEF FlowInv, OthersTyped
<1>7. f'.params = p
  BY <1>1, <1>4, RestartedFields
<1>8. PinInv => PinInv'
  <2>1. GivenPINs(p) \in Nat /\ GivenPINs(f.params) \in Nat /\ burnt \in Nat /\ entered \in Nat /\ unheard \in Nat
    BY GivenCounts DEF FlowInv, OthersTyped
  <2>2. QED
    BY <1>1, <1>3, <1>7, <2>1 DEF PinInv, PinTriesAreEntered
<1>9. CASE f.then = "retry"
  <2>1. f' = g /\ Live(f) /\ f.link \in Cards /\ (Ahead(f) \/ Met(f))
    BY <1>1, <1>2, <1>9 DEF Live, FlowFits
  <2>2. Ahead(f) => Ahead(g)
    BY <1>3, <1>4 DEF Ahead, Looks, Rest
  <2>3. Met(f) => Met(g)
    BY <1>3, <1>4 DEF Met, Rest, Permitted
  <2>4. FlowFits(g)
    BY <1>2, <1>4, <2>1, <2>2, <2>3 DEF FlowFits, Live
  <2>5. FlowFits(f)'
    BY <2>1, <2>4, FitsPrimed
  <2>6. InfoFits'
    BY <1>1, <1>4, <2>1 DEF FlowInv, InfoFits
  <2>7. PairFits'
    <3>1. \A S : HeadIs(S)' => HeadIs(S)
      BY <1>4, <2>1 DEF HeadIs
    <3>2. QED
      BY <1>1, <1>3, <1>4, <2>1, <3>1 DEF FlowInv, PairFits
  <2>8. QED
    BY <1>5, <1>6, <1>8, <2>5, <2>6, <2>7 DEF Kept, FlowInv
<1>10. CASE f.then # "retry"
  <2>1. FlowFits(f') /\ ~Live(f')
    BY <1>1, <1>2, <1>4, <1>10, RestartFits
  <2>2. FlowFits(f)' /\ InfoFits' /\ PairFits'
    BY <2>1, AheadFits
  <2>3. QED
    BY <1>5, <1>6, <1>8, <2>2 DEF Kept, FlowInv
<1>11. QED
  BY <1>9, <1>10

\* A cancelled flow holds nothing any more.
LEMMA CancelKept == ASSUME FlowInv, Cancel PROVE Kept
<1>1. /\ f.at = "paused" /\ f' = Ends("none")
      /\ UNCHANGED <<slot, valid, card, mem, file, flows, replies, faults, entered, burnt, unheard, torn>>
  BY DEF Cancel, Becomes, store, bounds, ghosts
<1>2. FlowFits(f') /\ ~Live(f') /\ GivenPINs(f'.params) <= GivenPINs(f.params)
  BY <1>1, SteadyEnd DEF Steady, Near
<1>3. FlowFits(f)' /\ InfoFits' /\ PairFits'
  BY <1>2, AheadFits
<1>4. CardsFit' /\ MemFits' /\ (SlotInv => SlotInv')
  BY <1>1, CardsKept DEF FlowInv, CardsFit, At
<1>5. OthersTyped'
  BY <1>1 DEF FlowInv, OthersTyped
<1>6. PinInv => PinInv'
  <2>1. burnt \in Nat /\ entered \in Nat /\ unheard \in Nat /\ GivenPINs(f'.params) \in Nat /\ GivenPINs(f.params) \in Nat
    BY GivenCounts DEF FlowInv, OthersTyped
  <2>2. QED
    BY <1>1, <1>2, <2>1 DEF PinInv, PinTriesAreEntered
<1>7. QED
  BY <1>3, <1>4, <1>5, <1>6 DEF Kept, FlowInv

\* The card in the reader is another one; the flow's handle is of no use.
LEMMA MoveKept == ASSUME FlowInv, MoveCard PROVE Kept
<1>1. /\ faults < MaxFaults /\ faults' = faults + 1
      /\ slot' \in Cards \cup {None} /\ valid' = FALSE
      /\ card' = [c \in Cards |-> EndSession(card[c])]
      /\ UNCHANGED <<f, mem, file, flows, replies, entered, burnt, unheard, torn>>
  BY DEF MoveCard, Fault, store, ghosts
<1>2. /\ card \in [Cards -> CardState] /\ faults \in 0..MaxFaults /\ MaxFaults \in Nat
      /\ \A d \in Cards : Consistent(card[d])
  BY Constants DEF FlowInv, CardsFit, OthersTyped
<1>3. /\ card' \in [Cards -> CardState]
      /\ \A d \in Cards : /\ Consistent(card'[d]) /\ card'[d].slots = card[d].slots
                          /\ card'[d].paired = card[d].paired
  <2>1. \A d \in Cards : /\ EndSession(card[d]) \in CardState /\ Consistent(EndSession(card[d]))
                         /\ EndSession(card[d]).slots = card[d].slots
                         /\ EndSession(card[d]).paired = card[d].paired
    BY <1>2, EndedCard
  <2>2. QED
    BY <1>1, <2>1
<1>4. CardsFit' /\ MemFits'
  BY <1>1, <1>3 DEF CardsFit, FlowInv, MemFits
<1>5. \A d \in Cards : Known(d)' <=> Known(d)
  BY <1>1, <1>3 DEF Known, At
<1>6. SlotInv => SlotInv'
  BY <1>1, <1>3, <1>5 DEF SlotInv
<1>7. FlowFits(f)' /\ InfoFits' /\ PairFits'
  BY <1>1 DEF FlowInv, FlowFits, Live, Ahead, Met, Looks, Rest, InfoFits, PairFits, HeadIs, Permitted
<1>8. OthersTyped'
  <2>1. faults' \in 0..MaxFaults
    BY <1>1, <1>2
  <2>2. QED
    BY <1>1, <2>1 DEF FlowInv, OthersTyped
<1>9. PinInv => PinInv'
  BY <1>1 DEF PinInv, PinTriesAreEntered
<1>10. QED
  BY <1>4, <1>6, <1>7, <1>8, <1>9 DEF Kept, FlowInv

\* What the flow knew of a pairing is lost with it, unless it was written.
LEMMA CrashKept == ASSUME FlowInv, Crash PROVE Kept
<1>1. /\ faults < MaxFaults /\ faults' = faults + 1
      /\ f' = IdleFlow /\ valid' = FALSE /\ mem' = file
      /\ torn' = IF At("store") THEN [torn EXCEPT ![f.link] = @ + 1] ELSE torn
      /\ UNCHANGED <<slot, card, file, flows, replies, entered, burnt, unheard>>
  BY DEF Crash, Fault
<1>2. /\ torn \in [Cards -> Nat] /\ faults \in 0..MaxFaults /\ MaxFaults \in Nat /\ MaxSlots \in Nat
      /\ file \in [Cards -> Entry] /\ burnt \in Nat /\ entered \in Nat /\ unheard \in Nat
      /\ \A d \in Cards : card[d].slots \in 0..MaxSlots
  BY Constants DEF FlowInv, CardsFit, CardState, OthersTyped
<1>3. f' \in FlowObject /\ f'.at = "idle" /\ f'.params = NoParams
  <2>1. <<>> \in Seq(Step)
    OBVIOUS
  <2>2. QED
    BY <1>1, <2>1, NoInfoTyped, NoParamsTyped DEF IdleFlow, FlowObject
<1>4. FlowFits(f') /\ ~Live(f')
  BY <1>3 DEF FlowFits, Live
<1>5. FlowFits(f)' /\ InfoFits' /\ PairFits'
  BY <1>4, AheadFits
<1>6. CardsFit' /\ MemFits'
  BY <1>1 DEF FlowInv, CardsFit, MemFits
<1>7. At("store") => f.link \in Cards
  BY StepsAtHand DEF Step
<1>8. torn' \in [Cards -> Nat]
  <2>1. CASE At("store")
    BY <1>1, <1>2, <1>7, <2>1
  <2>2. CASE ~At("store")
    BY <1>1, <1>2, <2>2
  <2>3. QED
    BY <2>1, <2>2
<1>9. OthersTyped'
  <2>1. faults' \in 0..MaxFaults
    BY <1>1, <1>2
  <2>2. mem' \in [Cards -> Entry]
    BY <1>1, <1>2
  <2>3. valid' \in BOOLEAN
    BY <1>1
  <2>4. QED
    BY <1>1, <1>8, <2>1, <2>2, <2>3 DEF FlowInv, OthersTyped
<1>10. PinInv => PinInv'
  <2>1. GivenPINs(f'.params) = 0 /\ GivenPINs(f.params) \in Nat
    BY <1>3, GivenCounts
  <2>2. QED
    BY <1>1, <1>2, <2>1 DEF PinInv, PinTriesAreEntered
<1>11. SlotInv => SlotInv'
  <2> SUFFICES ASSUME SlotInv, NEW d \in Cards
               PROVE  MaxSlots - card'[d].slots <= torn'[d] + (IF Known(d)' THEN 1 ELSE 0)
    BY DEF SlotInv
  <2>1. MaxSlots - card[d].slots <= torn[d] + (IF Known(d) THEN 1 ELSE 0) /\ card'[d] = card[d]
    BY <1>1 DEF SlotInv
  <2>2. CASE card[d].paired /\ file[d] = "current"
    <3>1. Known(d)'
      BY <1>1, <2>2 DEF Known
    <3>2. torn'[d] >= torn[d]
      BY <1>1, <1>2, <1>7
    <3>3. torn'[d] \in Nat
      BY <1>8
    <3>4. QED
      BY <1>2, <2>1, <3>1, <3>2, <3>3
  <2>3. CASE At("store") /\ f.link = d
    <3>1. torn'[d] = torn[d] + 1
      BY <1>1, <1>2, <2>3
    <3>2. QED
      BY <1>2, <2>1, <3>1
  <2>4. CASE ~(card[d].paired /\ file[d] = "current") /\ ~(At("store") /\ f.link = d)
    <3>1. ~Known(d)
      BY <2>4 DEF Known
    <3>2. torn'[d] = torn[d]
      BY <1>1, <1>2, <2>4
    <3>3. QED
      BY <1>2, <2>1, <3>1, <3>2
  <2>5. QED
    BY <2>2, <2>3, <2>4
<1>12. QED
  BY <1>5, <1>6, <1>9, <1>10, <1>11 DEF Kept, FlowInv

-----------------------------------------------------------------------------
\* Every step keeps the invariants.

\* The steps of the flow, action by action.
LEMMA FlowStepKept == ASSUME FlowInv, FlowStep PROVE Kept
<1>1. CASE \/ FactoryReset("factoryReset", "deleteApplet") \/ FactoryReset("resetAgain", "deleteAgain")
           \/ DeleteApplet \/ DeleteAgain \/ InstallApplet
  BY <1>1, ResetStepsKept
<1>2. CASE Sign \/ StoreMetadata \/ Export \/ ExportBIP44
  BY <1>2, UseKept
<1>3. CASE \/ Change("changePIN", "NewPIN", "EnterNewPIN")
           \/ Change("changePUK", "NewPUK", "EnterNewPUK")
           \/ Change("changePairing", "NewPairing", "EnterNewPair")
  <2>1. /\ {"changePIN", "changePUK", "changePairing"} \subseteq ChangeSteps
        /\ {"EnterNewPIN", "EnterNewPUK", "EnterNewPair"} \subseteq Signal
    BY DEF ChangeSteps, Signal
  <2>2. QED
    BY <1>3, <2>1, ChangeKept
<1>4. CASE Connect
  BY <1>4, ConnectKept
<1>5. CASE SelectKeycard
  BY <1>5, SelectKept
<1>6. CASE RequireKeys
  BY <1>6, RequireKeysKept
<1>7. CASE RequireNoKeys
  BY <1>7, RequireNoKeysKept
<1>8. CASE OpenSC
  BY <1>8, OpenKept
<1>9. CASE GetStatus
  BY <1>9, GetStatusKept
<1>10. CASE VerifyAuthenticity
  BY <1>10, VerifyKept
<1>11. CASE Pair
  BY <1>11, PairKept
<1>12. CASE StorePairing
  BY <1>12, StoreKept
<1>13. CASE InitCard
  BY <1>13, InitKept
<1>14. CASE Authenticate
  BY <1>14, AuthenticateKept
<1>15. CASE UnblockPIN
  BY <1>15, UnblockKept
<1>16. CASE LoadKeys
  BY <1>16, LoadKept
<1>17. CASE GetMetadata
  BY <1>17, MetadataKept
<1>18. CASE ExportMaster
  BY <1>18, ExportMasterKept
<1>19. CASE UnpairCurrent
  BY <1>19, UnpairKept
<1>20. CASE UnpairOther
  BY <1>20, UnpairOtherKept
<1>21. CASE RemoveKey
  BY <1>21, RemoveKept
<1>22. CASE Finish
  BY <1>22, FinishKept
<1>23. QED
  BY <1>1, <1>2, <1>3, <1>4, <1>5, <1>6, <1>7, <1>8, <1>9, <1>10, <1>11, <1>12, <1>13, <1>14,
     <1>15, <1>16, <1>17, <1>18, <1>19, <1>20, <1>21, <1>22 DEF FlowStep

\* The steps of the flow, of the client and of the user.
LEMMA NextKept == ASSUME FlowInv, Next PROVE Kept
<1>1. CASE \E type \in Flows, p \in StartParams : Start(type, p)
  BY <1>1, StartKept
<1>2. CASE \E p \in Answers(f.signal) : Resume(p)
  BY <1>2, ResumeKept
<1>3. QED
  BY <1>1, <1>2, FlowStepKept, CancelKept, MoveKept, CrashKept DEF Next

\* Nothing in the invariants is about more than the variables.
LEMMA StutterKept == ASSUME FlowInv, UNCHANGED vars PROVE Kept
<1>1. UNCHANGED <<f, slot, valid, card, mem, file, flows, replies, faults, entered, burnt, unheard, torn>>
  BY DEF vars, store, bounds, ghosts
<1>2. CardsFit' /\ OthersTyped' /\ MemFits'
  BY <1>1 DEF FlowInv, CardsFit, OthersTyped, MemFits
<1>3. FlowFits(f)' /\ InfoFits' /\ PairFits'
  BY <1>1 DEF FlowInv, FlowFits, Live, Ahead, Met, Looks, Rest, InfoFits, PairFits, HeadIs, Permitted
<1>4. \A d \in Cards : Known(d)' <=> Known(d)
  BY <1>1 DEF Known, At
<1>5. (SlotInv => SlotInv') /\ (PinInv => PinInv')
  BY <1>1, <1>4 DEF SlotInv, PinInv, PinTriesAreEntered
<1>6. QED
  BY <1>2, <1>3, <1>5 DEF Kept, FlowInv

\* The cards the program starts with, and its store of their pairings.
LEMMA InitFits == Init => FlowInv /\ PinInv
<1> SUFFICES ASSUME Init PROVE FlowInv /\ PinInv
  OBVIOUS
<1>1. f \in FlowObject /\ f.at = "idle" /\ f.params = NoParams
  <2>1. <<>> \in Seq(Step)
    OBVIOUS
  <2>2. QED
    BY <2>1, NoInfoTyped, NoParamsTyped DEF Init, IdleFlow, FlowObject
<1>2. FlowFits(f) /\ ~Live(f)
  BY <1>1 DEF FlowFits, Live
<1>3. InfoFits /\ PairFits
  BY <1>2 DEF InfoFits, PairFits, HeadIs
<1>4. CardsFit
  <2>1. card \in [Cards -> CardTypes] /\ card \in [Cards -> CardState]
    BY Constants DEF Init
  <2>2. ASSUME NEW k \in CardTypes PROVE Consistent(k)
    <3>1. k \in CardState /\ EndSession(k) = k
      BY Constants DEF Plausible
    <3>2. (k.init => k.installed) /\ (k.paired => k.init /\ k.slots < MaxSlots)
      BY Constants DEF Plausible
    <3>3. EndSession(k).channel = FALSE /\ EndSession(k).verified = FALSE
      BY <3>1 DEF EndSession, CardState
    <3>4. ~k.channel /\ ~k.verified
      BY <3>1, <3>3
    <3>5. QED
      BY <3>1, <3>2, <3>4 DEF Consistent
  <2>3. QED
    BY <2>1, <2>2 DEF CardsFit
<1>5. mem \in [Cards -> Entry] /\ file = mem
  BY DEF Init, Entry
<1>6. MemFits
  BY <1>5 DEF MemFits
<1>7. OthersTyped
  <2>1. torn \in [Cards -> Nat]
    BY DEF Init
  <2>2. slot \in Cards \cup {None} /\ valid \in BOOLEAN
    BY DEF Init
  <2>3. /\ flows \in 0..MaxFlows /\ replies \in 0..MaxReplies /\ faults \in 0..MaxFaults
        /\ entered \in Nat /\ burnt \in Nat /\ unheard \in Nat
    BY Constants DEF Init
  <2>4. QED
    BY <1>5, <2>1, <2>2, <2>3 DEF OthersTyped
<1>8. PinInv
  BY <1>1, GivenCounts DEF Init, PinInv, PinTriesAreEntered
<1>9. QED
  BY <1>2, <1>3, <1>4, <1>6, <1>7, <1>8 DEF FlowInv

\* The invariant on which the theorems rest.
LEMMA FlowInvariant == Spec => []FlowInv
<1>1. Init => FlowInv
  BY InitFits
<1>2. FlowInv /\ [Next]_vars => FlowInv'
  BY NextKept, StutterKept DEF Kept
<1>3. QED
  BY <1>1, <1>2, PTL DEF Spec

-----------------------------------------------------------------------------
\* What a flow promises, whatever the cards, the client and the faults.

\* The variables keep their types; the flow object is at a step of its own
\* flow, or has ended.
THEOREM TypeCorrect == Spec => []TypeOK
<1>1. FlowInv => TypeOK
  BY DEF FlowInv, FlowFits, CardsFit, OthersTyped, TypeOK
<1>2. QED
  BY <1>1, FlowInvariant, PTL

\* The attempts that cards count down, and the PINs that are left to try, are
\* PINs that the client has given: one that is refused is dropped in the same step
\* (commands.go:267), the PIN of a new card or of an unblocked one replaces the
\* parameter it was given as, and a restart makes no second PIN of the one it
\* keeps.  Only a verdict that is lost lets one PIN cost two attempts.
THEOREM TriesAreEntered == Spec => []PinTriesAreEntered
<1>1. Init => FlowInv /\ PinInv
  BY InitFits
<1>2. FlowInv /\ PinInv /\ [Next]_vars => PinInv'
  BY NextKept, StutterKept DEF Kept
<1>3. PinInv => PinTriesAreEntered
  BY DEF PinInv
<1>4. QED
  BY <1>1, <1>2, <1>3, FlowInvariant, PTL DEF Spec

\* No restart and no exchange of cards leads around the check that the card
\* has no keys, or that they may be overwritten (flow.go:187): the key UID the
\* flow has read is that of the card it is about to load.
THEOREM LoadsAreAllowed == Spec => []LoadIsAllowed
<1>1. FlowInv => LoadIsAllowed
  <2> SUFFICES ASSUME FlowInv, At("loadKeys"), valid, TheCard.keys PROVE Has("Overwrite")
    BY DEF LoadIsAllowed
  <2>1. "loadKeys" \in Usual /\ "loadKeys" \in Step
    BY UsualSteps
  <2>2. /\ Met(f) /\ Live(f) /\ f.link \in Cards /\ OfType(f.type, "loadKeys")
        /\ f.type = "LoadAccount" => Permitted(f)
    BY <2>1, AtStep
  <2>3. Permitted(f)
    BY <2>2 DEF OfType
  <2>4. f.info.card # None
    BY <2>2, Constants DEF Met
  <2>5. f.info.keys = card[f.link].keys
    BY <2>2, <2>4 DEF FlowInv, InfoFits
  <2>6. QED
    BY <2>3, <2>5 DEF Permitted, Has, TheCard
<1>2. QED
  BY <1>1, FlowInvariant, PTL

\* A result is the truth about the card that is still there: its keys, and its
\* slots after the flow has given up its own (flow.go:517, flow.go:557).
THEOREM ReportsAreTrue == Spec => []ResultsAreTrue
<1>1. FlowInv => ResultsAreTrue
  <2> SUFFICES ASSUME FlowInv, f.at = "body", f.todo = <<>>, valid
               PROVE  /\ f.info.keys = TheCard.keys
                      /\ f.type \in {"UnpairThis", "DeleteAccountAndUnpair"} =>
                           f.info.free = TheCard.slots
    BY DEF ResultsAreTrue, Reporting
  <2>1. Live(f) /\ f.link \in Cards /\ (Ahead(f) \/ Met(f))
    BY DEF FlowInv, FlowFits, Live
  <2>2. ~Ahead(f)
    BY DEF Ahead, Looks
  <2>3. f.info.card # None
    BY <2>1, <2>2, Constants DEF Met
  <2>4. QED
    BY <2>1, <2>3 DEF FlowInv, InfoFits, TheCard
<1>2. QED
  BY <1>1, FlowInvariant, PTL

\* A card loses one slot to the program, and one to each pairing that could not
\* be recorded: the pairing is saved before it is used (commands.go:150), and
\* no other is made while the file holds one the card honours.  The cards are
\* first met with at most the slot taken that their pairing takes.
THEOREM SlotsAreAccounted ==
    ASSUME \A k \in CardTypes : MaxSlots - k.slots <= IF k.paired THEN 1 ELSE 0
    PROVE  Spec => []SlotsAccounted
<1>1. Init => SlotInv
  <2> SUFFICES ASSUME Init, NEW c \in Cards
               PROVE  MaxSlots - card[c].slots <= torn[c] + (IF Known(c) THEN 1 ELSE 0)
    BY DEF SlotInv
  <2>1. card[c] \in CardTypes /\ torn[c] = 0
    BY DEF Init
  <2>2. MaxSlots - card[c].slots <= IF card[c].paired THEN 1 ELSE 0
    BY <2>1
  <2>3. card[c].paired => Known(c)
    BY DEF Init, Known
  <2>4. card[c].slots \in 0..MaxSlots /\ MaxSlots \in Nat
    BY <2>1, Constants DEF CardState
  <2>5. QED
    BY <2>1, <2>2, <2>3, <2>4
<1>2. FlowInv /\ SlotInv /\ [Next]_vars => SlotInv'
  BY NextKept, StutterKept DEF Kept
<1>3. FlowInv /\ SlotInv => SlotsAccounted
  <2> SUFFICES ASSUME FlowInv, SlotInv, NEW c \in Cards PROVE MaxSlots - card[c].slots <= 1 + torn[c]
    BY DEF SlotsAccounted
  <2>1. card[c].slots \in 0..MaxSlots /\ MaxSlots \in Nat /\ torn[c] \in Nat
    BY Constants DEF FlowInv, CardsFit, CardState, OthersTyped
  <2>2. QED
    BY <2>1 DEF SlotInv
<1>4. QED
  BY <1>1, <1>2, <1>3, FlowInvariant, PTL DEF Spec

-----------------------------------------------------------------------------
\* What a step may never do.

\* A step that issues a command, and which: the applet is reset only for a flow
\* that was asked to, and a pairing is made only by pair.
Issuing(s, c) ==
    /\ At(s) /\ s \in Step /\ c \in Issued
    /\ \E a, r, n : Issue(c, a, r, n)
    /\ c = "pair" => s = "pair"
    /\ s = "select" => c = "select"
    /\ s \in ResetStep => Has("FactoryReset")

\* The commands of the steps.
LEMMA CommandsIssued ==
    ASSUME FlowInv, FlowStep
    PROVE  card' = card \/ Connect \/ \E s, c : Issuing(s, c)
<1> USE DEF Issued, Wiping, Slotting, Keying, Looking, Trying, Setting, InitCommands
<1>1. /\ ResetStep \cup Usual \cup Inner \cup {"select"} = Step
      /\ ResetStep \cap (Usual \cup Inner \cup {"select"}) = {}
  BY DEF Usual, Inner, ResetStep, Step
<1>2. ASSUME NEW x, Becomes(x) PROVE card' = card
  BY <1>2 DEF Becomes
<1>3. ASSUME NEW s \in Step, At(s), NEW c \in Issued \ {"pair"}, NEW a, Simply(c, a),
             s = "select" => c = "select", s \in ResetStep => Has("FactoryReset")
      PROVE  Issuing(s, c)
  BY <1>3 DEF Issuing, Simply, Exchange
<1>4. ASSUME NEW s \in ResetStep, At(s), s # "factoryReset" PROVE Has("FactoryReset")
  BY <1>1, <1>4, AtStep DEF Ahead, Looks, Has
<1>5. {"factoryReset", "resetAgain", "deleteApplet", "deleteAgain", "installApplet"} \subseteq ResetStep
  BY DEF ResetStep
<1>6. ASSUME NEW s \in {"factoryReset", "resetAgain"}, NEW r, FactoryReset(s, r)
      PROVE  card' = card \/ Issuing(s, "reset")
  BY <1>1, <1>2, <1>5, <1>6 DEF FactoryReset, Issuing
<1>7. CASE DeleteApplet
  <2>1. CASE \E x : Becomes(x)
    BY <1>2, <2>1
  <2>2. CASE At("deleteApplet") /\ \E a, r, n : Issue("delete", a, r, n)
    <3>1. Has("FactoryReset")
      BY <1>4, <1>5, <2>2
    <3>2. Issuing("deleteApplet", "delete")
      BY <1>1, <1>5, <2>2, <3>1 DEF Issuing
    <3>3. QED
      BY <3>2
  <2>3. QED
    BY <1>7, <2>1, <2>2 DEF DeleteApplet
<1>8. CASE DeleteAgain
  <2>1. CASE Becomes(Ends("error"))
    BY <1>2, <2>1
  <2>2. CASE At("deleteAgain") /\ Simply("delete", Do(f, "installApplet"))
    <3>1. Issuing("deleteAgain", "delete")
      BY <1>1, <1>3, <1>4, <1>5, <2>2
    <3>2. QED
      BY <3>1
  <2>3. QED
    BY <1>8, <2>1, <2>2 DEF DeleteAgain, Manage
<1>9. CASE InstallApplet
  <2>1. CASE Becomes(Ends("error"))
    BY <1>2, <2>1
  <2>2. CASE At("installApplet") /\ Simply("install", AfterReset)
    <3>1. Issuing("installApplet", "install")
      BY <1>1, <1>3, <1>4, <1>5, <2>2
    <3>2. QED
      BY <3>1
  <2>3. QED
    BY <1>9, <2>1, <2>2 DEF InstallApplet, Manage
<1>10. CASE SelectKeycard
  <2>1. At("select") /\ \E a, r, n : Issue("select", a, r, n)
    BY <1>10 DEF SelectKeycard, Exchange
  <2>2. Issuing("select", "select")
    BY <1>1, <2>1 DEF Issuing
  <2>3. QED
    BY <2>2
<1>11. CASE RequireKeys \/ RequireNoKeys \/ Finish
  BY <1>2, <1>11 DEF RequireKeys, RequireNoKeys, Finish
<1>12. CASE StorePairing
  BY <1>12 DEF StorePairing
<1>13. ASSUME NEW s \in (Usual \cup Inner) \ {"pair"}, At(s), NEW c \in Issued \ {"pair"},
              \E a, r, n : Issue(c, a, r, n)
       PROVE  Issuing(s, c)
  <2>1. s \in Step /\ s \notin ResetStep
    BY <1>1, <1>13
  <2>2. s # "select"
    BY <1>13 DEF Usual, Inner
  <2>3. QED
    BY <1>13, <2>1, <2>2 DEF Issuing
<1>14. {"verifyAuthenticity", "getStatus", "initCard", "unblockPIN"} \subseteq (Usual \cup Inner) \ {"pair"}
       /\ Usual \subseteq (Usual \cup Inner) \ {"pair"}
  BY DEF Inner, Usual
<1>15. CASE OpenSC
  <2>1. At("openSC")
    BY <1>15 DEF OpenSC
  <2>2. card' = card \/ \E a, r, n : Issue("open", a, r, n)
    BY <1>2, <1>15 DEF OpenSC, Exchange
  <2>3. QED
    BY <1>13, <1>14, <2>1, <2>2, UsualSteps
<1>16. CASE GetStatus
  <2>1. At("getStatus") /\ \E a, r, n : Issue("status", a, r, n)
    BY <1>16 DEF GetStatus, Exchange
  <2>2. QED
    BY <1>13, <1>14, <2>1
<1>17. CASE VerifyAuthenticity
  <2>1. At("verifyAuthenticity")
    BY <1>17 DEF VerifyAuthenticity
  <2>2. card' = card \/ \E a, r, n : Issue("identify", a, r, n)
    BY <1>2, <1>17 DEF VerifyAuthenticity
  <2>3. QED
    BY <1>13, <1>14, <2>1, <2>2
<1>18. CASE Pair
  <2>1. At("pair") /\ (card' = card \/ \E a, r, n : Issue("pair", a, r, n))
    BY <1>2, <1>18 DEF Pair, Exchange
  <2>2. "pair" \in Step /\ "pair" \notin ResetStep
    BY DEF Step, ResetStep
  <2>3. card' = card \/ Issuing("pair", "pair")
    BY <2>1, <2>2 DEF Issuing
  <2>4. QED
    BY <2>3
<1>19. CASE InitCard
  <2>1. At("initCard")
    BY <1>19 DEF InitCard
  <2>2. card' = card \/ \E c \in InitCommands : \E a, r, n : Issue(c, a, r, n)
    BY <1>2, <1>19 DEF InitCard, Simply, Exchange
  <2>3. QED
    BY <1>13, <1>14, <2>1, <2>2
<1>20. CASE Authenticate
  <2>1. At("authenticate")
    BY <1>20 DEF Authenticate
  <2>2. card' = card \/ \E c \in {"verifyGood", "malformed", "verifyBad"} : \E a, r, n : Issue(c, a, r, n)
    BY <1>2, <1>20 DEF Authenticate, Exchange, Verify
  <2>3. QED
    BY <1>13, <1>14, <2>1, <2>2, UsualSteps
<1>21. CASE UnblockPIN
  <2>1. At("unblockPIN")
    BY <1>21 DEF UnblockPIN
  <2>2. card' = card \/ \E c \in {"unblockGood", "malformed", "unblockBad"} : \E a, r, n : Issue(c, a, r, n)
    BY <1>2, <1>21 DEF UnblockPIN, Exchange, Unblock
  <2>3. QED
    BY <1>13, <1>14, <2>1, <2>2
<1>22. CASE LoadKeys
  <2>1. At("loadKeys")
    BY <1>22 DEF LoadKeys
  <2>2. \E c \in {"loadSeed", "generate"} : \E a, r, n : Issue(c, a, r, n)
    BY <1>22 DEF LoadKeys, Simply, Exchange
  <2>3. QED
    BY <1>13, <1>14, <2>1, <2>2, UsualSteps
<1>23. ASSUME NEW s \in ChangeSteps, NEW k, NEW sig, Change(s, k, sig)
       PROVE  card' = card \/ Issuing(s, s)
  <2>1. At(s) /\ (card' = card \/ \E a, r, n : Issue(s, a, r, n))
    BY <1>2, <1>23 DEF Change, Simply, Exchange
  <2>2. s \in Usual /\ s \in Issued \ {"pair"}
    BY UsualSteps DEF ChangeSteps
  <2>3. QED
    BY <1>13, <1>14, <2>1, <2>2
<1>24. CASE Sign \/ StoreMetadata \/ Export \/ ExportBIP44
  <2>1. \E s \in {"sign", "storeMetadata", "export", "exportBIP44"} :
          At(s) /\ (card' = card \/ \E c \in {"export", "storeData"} : \E a, r, n : Issue(c, a, r, n))
    BY <1>2, <1>24 DEF Sign, StoreMetadata, Export, ExportBIP44, Simply, Exchange
  <2>2. QED
    BY <1>13, <1>14, <2>1, UsualSteps
<1>25. CASE GetMetadata
  <2>1. At("getMetadata") /\ \E a, r, n : Issue("getData", a, r, n)
    BY <1>25 DEF GetMetadata, Simply, Exchange
  <2>2. QED
    BY <1>13, <1>14, <2>1, UsualSteps
<1>26. CASE ExportMaster
  <2>1. At("exportMaster") /\ (card' = card \/ \E a, r, n : Issue("export", a, r, n))
    BY <1>2, <1>26 DEF ExportMaster
  <2>2. QED
    BY <1>13, <1>14, <2>1, UsualSteps
<1>27. CASE UnpairCurrent \/ UnpairOther \/ RemoveKey
  <2>1. \E s \in {"unpairCurrent", "unpairOther", "removeKey"}, c \in {"unpair", "unpairOther", "removeKey"} :
          At(s) /\ \E a, r, n : Issue(c, a, r, n)
    BY <1>27 DEF UnpairCurrent, UnpairOther, RemoveKey, Simply, Exchange
  <2>2. QED
    BY <1>13, <1>14, <2>1, UsualSteps
<1>28. "changePIN" \in ChangeSteps /\ "changePUK" \in ChangeSteps /\ "changePairing" \in ChangeSteps
  BY DEF ChangeSteps
<1> HIDE DEF Issued
<1>29. CASE \/ Change("changePIN", "NewPIN", "EnterNewPIN")
            \/ Change("changePUK", "NewPUK", "EnterNewPUK")
            \/ Change("changePairing", "NewPairing", "EnterNewPair")
  BY <1>23, <1>28, <1>29
<1>30. CASE FactoryReset("factoryReset", "deleteApplet") \/ FactoryReset("resetAgain", "deleteAgain")
  BY <1>6, <1>30
<1>31. QED
  BY <1>7, <1>8, <1>9, <1>10, <1>11, <1>12, <1>15, <1>16, <1>17, <1>18, <1>19, <1>20, <1>21, <1>22,
     <1>24, <1>25, <1>26, <1>27, <1>29, <1>30 DEF FlowStep

\* What becomes of the cards in a step of the flow.
LEMMA CardsInStep ==
    ASSUME FlowInv, FlowStep, NEW d \in Cards
    PROVE  \/ EndSession(card'[d]) = EndSession(card[d]) /\ card'[d].slots = card[d].slots
           \/ /\ d = f.link /\ (Has("FactoryReset") \/ f.params.instance \in {None, d})
              /\ card'[d].slots >= card[d].slots \/ At("pair")
<1>0. /\ card \in [Cards -> CardState] /\ \A k \in Cards : Consistent(card[k])
      /\ \A k \in Cards : card[k].slots \in 0..MaxSlots
  BY Constants DEF FlowInv, CardsFit, CardState
<1>1. CASE card' = card
  BY <1>1
<1>2. CASE Connect
  <2>1. card' = [card EXCEPT ![slot] = EndSession(@)]
    BY <1>2 DEF Connect
  <2>2. /\ EndSession(EndSession(card[d])) = EndSession(card[d])
        /\ EndSession(card[d]).slots = card[d].slots
    BY <1>0, SelectedCard
  <2>3. card'[d] = card[d] \/ card'[d] = EndSession(card[d])
    BY <1>0, <2>1
  <2>4. QED
    BY <2>2, <2>3
<1>3. CASE \E s, c : Issuing(s, c)
  <2>1. PICK s, c : Issuing(s, c)
    BY <1>3
  <2>2. /\ At(s) /\ s \in Step /\ c \in Issued /\ f.link \in Cards
        /\ c = "pair" => At("pair")
        /\ s = "select" => c = "select"
        /\ s \in ResetStep => Has("FactoryReset")
        /\ s \in Usual \cup Inner => f.params.instance \in {None, f.link}
    BY <2>1, StepsAtHand, AtStep DEF Issuing, Met
  <2>3. Touched(c)
    BY <2>1, <2>2, IssueEnds DEF Issuing
  <2>4. /\ \A k \in Cards : k # f.link => card'[k] = card[k]
        /\ c # "pair" => \A k \in Cards : Shed(card[k], card'[k])
    BY <2>2, <2>3, TouchedCards
  <2>5. CASE d # f.link
    BY <2>4, <2>5
  <2>6. CASE d = f.link /\ s = "select"
    <3>1. card'[d] = card[d] \/ card'[d] = EndSession(card[d])
      <4>1. Replaced(card[d], "select") = EndSession(card[d])
        BY <1>0, SelectedCard
      <4>2. QED
        BY <1>0, <2>2, <2>3, <2>6, <4>1 DEF Touched
    <3>2. /\ EndSession(EndSession(card[d])) = EndSession(card[d])
          /\ EndSession(card[d]).slots = card[d].slots
      BY <1>0, SelectedCard
    <3>3. QED
      BY <3>1, <3>2
  <2>7. CASE d = f.link /\ s # "select"
    <3>1. Has("FactoryReset") \/ f.params.instance \in {None, d}
      BY <2>2, <2>7, UsualSteps
    <3>2. card'[d].slots >= card[d].slots \/ At("pair")
      BY <2>2, <2>4 DEF Shed
    <3>3. QED
      BY <2>7, <3>1, <3>2
  <2>8. QED
    BY <2>5, <2>6, <2>7
<1>4. QED
  BY <1>1, <1>2, <1>3, CommandsIssued

\* The client and the user leave the cards as they are, up to their sessions.
LEMMA CardsInNext ==
    ASSUME FlowInv, [Next]_vars, ~FlowStep, NEW d \in Cards
    PROVE  EndSession(card'[d]) = EndSession(card[d]) /\ card'[d].slots = card[d].slots
<1>1. CASE MoveCard
  <2>1. card'[d] = EndSession(card[d])
    BY <1>1 DEF MoveCard
  <2>2. Consistent(card[d])
    BY DEF FlowInv, CardsFit
  <2>3. QED
    BY <2>1, <2>2, SelectedCard
<1>2. CASE \E type \in Flows, p \in StartParams : Start(type, p)
  BY <1>2 DEF Start
<1>3. CASE \E p \in Answers(f.signal) : Resume(p)
  BY <1>3 DEF Resume
<1>4. CASE Cancel
  BY <1>4 DEF Cancel, Becomes
<1>5. CASE Crash
  BY <1>5 DEF Crash
<1>6. CASE UNCHANGED vars
  BY <1>6 DEF vars
<1>7. QED
  BY <1>1, <1>2, <1>3, <1>4, <1>5, <1>6 DEF Next

\* Whatever card is inserted while a flow runs, and whichever of its steps are
\* repeated, only the card the client insists on is changed (commands.go:47).
THEOREM OnlyTheInsistedCard == Spec => InstanceRespected
<1>1. ASSUME FlowInv, [Next]_vars, NEW c \in Cards,
             EndSession(card'[c]) # EndSession(card[c]), ~Has("FactoryReset")
      PROVE  f.params.instance \in {None, c}
  BY <1>1, CardsInStep, CardsInNext
<1>2. FlowInv /\ [Next]_vars =>
        \A c \in Cards : EndSession(card'[c]) # EndSession(card[c]) /\ ~Has("FactoryReset")
                           => f.params.instance \in {None, c}
  BY <1>1
<1>3. QED
  BY <1>2, FlowInvariant, PTL DEF Spec, InstanceRespected

\* A slot is taken by pair alone, and the flow gets there only past the check
\* of the certificate (commands.go:136), however it was restarted.
THEOREM OnlyGenuineCardsPair == Spec => PairsGenuine
<1>1. ASSUME FlowInv, [Next]_vars, NEW c \in Cards, KnownCA, card'[c].slots < card[c].slots
      PROVE  c \notin Fake \/ f.params.skip = c
  <2>1. card'[c].slots # card[c].slots /\ ~(card'[c].slots >= card[c].slots)
    <3>1. card[c].slots \in Nat
      BY <1>1, Constants DEF FlowInv, CardsFit, CardState
    <3>2. card'[c].slots \in Nat
      BY <1>1, <3>1, NextKept, StutterKept, Constants DEF Kept, FlowInv, CardsFit, CardState
    <3>3. QED
      BY <1>1, <3>1, <3>2
  <2>2. FlowStep
    BY <1>1, <2>1, CardsInNext
  <2>3. c = f.link /\ At("pair")
    BY <1>1, <2>1, <2>2, CardsInStep
  <2>4. Live(f) /\ f.todo # <<>> /\ f.todo[1] = "pair"
    BY <1>1, <2>3, AtStep DEF Step
  <2>5. QED
    BY <1>1, <2>3, <2>4 DEF FlowInv, PairFits, HeadIs
<1>2. FlowInv /\ [Next]_vars =>
        \A c \in Cards : KnownCA /\ card'[c].slots < card[c].slots
                           => c \notin Fake \/ f.params.skip = c
  BY <1>1
<1>3. QED
  BY <1>2, FlowInvariant, PTL DEF Spec, PairsGenuine

=============================================================================
