----------------------------- MODULE MCMockedFlow -----------------------------
(***************************************************************************)
(* Values for the constants of MockedFlow: what its clients send.          *)
(***************************************************************************)
EXTENDS MockedFlow

CONSTANTS p1, p2, u1, u2

With(f) == [k \in DOMAIN NoParams |-> IF k \in DOMAIN f THEN f[k] ELSE NoParams[k]]

\* The answers to EnterPIN, EnterPUK, EnterNewPIN and EnterNewPUK, EnterMnemonic
\* and EnterName.
AllAnswers ==
    {With([pin |-> p]) : p \in {p1, p2}} \cup {With([puk |-> u]) : u \in {u1, u2}}
      \cup {With([pin |-> p2, newPIN |-> p2]),
            With([pin |-> p2, newPIN |-> p2, newPUK |-> u2]),
            With([puk |-> u2, newPUK |-> u2]),
            With([mnemonic |-> "right"]), With([mnemonic |-> "short"]),
            With([has |-> {"CardName"}]), NoParams}

Plain     == {NoParams}
Openings  == {NoParams, With([has |-> {"Overwrite"}]),
              With([has |-> {"FactoryReset", "Overwrite"}]),
              With([pin |-> p2, has |-> {"ResolveAddr"}])}

AllFlows  == FlowType
KeptFlows == FlowType \ {"Other"}
SomeKinds == Kind \ {"KeycardWithMnemonicAndMetadata"}
AllEvents == Event

\* A card with one try of each left.
Supplied  == {[Made EXCEPT !.pinTries = 1, !.pukTries = 1]}
Calmly    == {TRUE}
Hastily   == {FALSE}
=============================================================================
