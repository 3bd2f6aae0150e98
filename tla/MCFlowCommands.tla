---------------------------- MODULE MCFlowCommands ----------------------------
(***************************************************************************)
(* Values for the constants of FlowCommands.                               *)
(***************************************************************************)
EXTENDS FlowCommands

CONSTANTS c1

With(keys) == [NoParams EXCEPT !.has = keys]

\* Cards: one that is paired with this program, one set up elsewhere, one out
\* of its box, one whose PIN is blocked, and one that is not a keycard.
PairedCard  == [InitializedCard(MaxPIN, MaxPUK) EXCEPT !.slots = @ - 1, !.paired = TRUE]
OtherCard   == InitializedCard(MaxPIN, MaxPUK)
KeylessCard == [PairedCard EXCEPT !.keys = FALSE]
FullCard    == [PairedCard EXCEPT !.slots = 0]
BlockedCard == [PairedCard EXCEPT !.pin = 0]

FullCards  == {FullCard}
UsedCards  == {PairedCard, OtherCard}
KeyCards   == {KeylessCard, OtherCard}
AllCards   == {PairedCard, OtherCard, KeylessCard, BlockedCard, EmptyCard, ForeignCard}

AllFlows    == FlowType
CardFlows   == {"LoadAccount", "ChangePairing", "UnpairThis", "DeleteAccountAndUnpair"}
Others      == {"UnpairOthers"}
Public      == {"ExportPublic"}

Plain     == {NoParams}
Insisting == {[With({"Mnemonic", "NewPairing"}) EXCEPT !.instance = c1],
              With({"Mnemonic", "Overwrite"}),
              [With({"Mnemonic"}) EXCEPT !.skip = c1]}
Resetting == {NoParams, With({"FactoryReset"}), With({"ResolveAddr", "ExportMaster"})}
Master    == {With({"ExportMaster"})}

NoFaults   == {}
Moves      == {"move"}
AllFaults  == {"move", "lost", "save", "crash"}
=============================================================================
