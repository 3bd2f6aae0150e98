--------------------------- MODULE MockedFlow_proofs ---------------------------
(***************************************************************************)
(* Theorems about MockedFlow, for any number of cards, secrets, goroutines *)
(* and calls: what the mock stores, when it counts tries down and up, and  *)
(* that for a calm client it keeps what FlowProtocol promises.             *)
(***************************************************************************)
EXTENDS MockedFlow, TLAPS

State == {"Idle", "Running", "Paused"}

-----------------------------------------------------------------------------
\* The invariants.

\* A card with keys has an instance, in memory and on disk.
Sound(c)     == c # None /\ c.key => c.uid
CardsSound   == \A i \in Slots : Sound(cards[i]) /\ Sound(saved.cards[i])

TypeInv == TypeOK /\ starting + storing <= MaxRuns /\ CardsSound

\* Only a goroutine that has handled a card has something to store.
SaveInv == storing = 0 /\ ~panicked /\ faults = 0 => saved = [cards |-> cards, paired |-> paired]

\* The goroutines of a calm client: one at a time, and the card it handled stays.
OneAtATime == starting + storing <= 1 /\ (storing > 0 => inserted # None)

\* The handling that is still to come, and the call that has paid for it.
Pending == state = "Running" \/ (starting > 0 /\ reader = "KeycardInserted")
Budget  == burnt + (IF Pending THEN 1 ELSE 0) <= calls

\* What a calm client has been told, in each state.
ToldFits ==
    /\ reader = "NoReader" => state = "Idle"
    /\ starting > 0 /\ state = "Idle" => reader = "NoReader" /\ told = "flow-result"
    /\ starting > 0 /\ state = "Paused" => told = None
    /\ state = "Running" => told \in {None, "insert-card"}
                              \/ (type = "ChangePIN" /\ told = "flow-result")
    /\ state = "Paused" => told # "flow-result" \/ type = "ChangePIN"

CalmFits == calm => ~panicked /\ OneAtATime /\ Budget /\ ToldFits

-----------------------------------------------------------------------------
\* Handling a card.

Questions == Signal \ {"flow-result", "insert-card"}
Outcome   == [card : Card, state : State, signal : Signal \cup {None}]

Up(c, d) == d.pinTries > c.pinTries \/ d.pukTries > c.pukTries

\* What gives a card that is set up its tries back.
Earned(c) ==
    \/ c.pinTries > 0 /\ params.pin = c.pin
    \/ c.pukTries > 0 /\ params.puk = c.puk
    \/ type = "ChangePIN" /\ Has("Overwrite")
    \/ type = "LoadAccount" /\ Has("FactoryReset")

\* A card after a check of secrets: at most one try is gone.
Spent(c, d) ==
    /\ d \in Card
    /\ d.uid = c.uid /\ d.key = c.key /\ d.pin = c.pin /\ d.puk = c.puk
    /\ d.pinTries <= c.pinTries /\ d.pukTries <= c.pukTries /\ Cost(c, d) <= 1

\* A card after a handler.
Fit(c, d) ==
    /\ d \in Card /\ Sound(d)
    /\ c.key /\ d.key => Cost(c, d) <= 1
    /\ c.key /\ d.key /\ Up(c, d) => Earned(c)

\* What a handler leaves of a card, and what it says.
Handling(c, r) ==
    /\ r \in Outcome /\ Fit(c, r.card)
    /\ \/ r.state = "Paused" /\ r.signal \in Questions
       \/ r.state = "Idle" /\ r.signal = "flow-result"
       \/ type = "ChangePIN" /\ r.state = state /\ r.signal = "flow-result"

\* What the constants are assumed to be, in the form the proofs use.
LEMMA Constants ==
    /\ None \notin PINs /\ None \notin PUKs /\ None \notin Slots /\ None \notin Card /\ None \notin Signal
    /\ MaxPIN \in Nat /\ MaxPIN > 0 /\ MaxPUK \in Nat /\ MaxPUK > 0
    /\ MaxCalls \in Nat /\ MaxHasty \in Nat /\ MaxEvents \in Nat
    /\ MaxRuns \in Nat /\ MaxFaults \in Nat /\ MaxHasty <= MaxCalls
    /\ MaxPIN \in 0..MaxPIN /\ MaxPUK \in 0..MaxPUK
BY MockedFlowAssumption

\* The cards there are at first.
LEMMA CardsMade ==
    /\ Blank \in Card /\ Made \in Card /\ ~Blank.key /\ Made.uid
    /\ Sound(Blank) /\ Sound(Made)
<1>1. Blank \in Card /\ Made \in Card
  BY MockedFlowAssumption, Constants DEF Blank, Made, Card
<1>2. ~Blank.key /\ Made.uid
  BY DEF Blank, Made
<1>3. QED
  BY <1>1, <1>2 DEF Sound

\* A card that is left alone fits.
LEMMA Untouched ==
    ASSUME NEW c \in Card, Sound(c)
    PROVE  Spent(c, c) /\ Fit(c, c)
<1>1. c.pinTries \in Nat /\ c.pukTries \in Nat
  BY DEF Card
<1>2. Cost(c, c) = 0 /\ ~Up(c, c)
  BY <1>1 DEF Cost, Up
<1>3. QED
  BY <1>1, <1>2 DEF Spent, Fit

\* So does one whose secrets have been checked.
LEMMA SpentFits ==
    ASSUME NEW c \in Card, Sound(c), NEW d, Spent(c, d)
    PROVE  Fit(c, d)
<1>1. /\ c.pinTries \in Nat /\ c.pukTries \in Nat
      /\ d.pinTries \in Nat /\ d.pukTries \in Nat
  BY DEF Card, Spent
<1>2. ~Up(c, d)
  BY <1>1 DEF Up, Spent
<1>3. Sound(d)
  BY Constants DEF Spent, Sound
<1>4. QED
  BY <1>2, <1>3 DEF Spent, Fit

\* A change of PIN, or any key that was right.
LEMMA RenewedFits ==
    ASSUME NEW c \in Card, Sound(c), NEW d, Spent(c, d), params \in Params,
           Unlocked(d) \/ (type = "ChangePIN" /\ Has("Overwrite"))
    PROVE  Fit(c, Renewed(d))
<1>1. /\ c.pinTries \in 0..MaxPIN /\ c.pukTries \in 0..MaxPUK
      /\ d.pinTries \in 0..MaxPIN /\ d.pukTries \in 0..MaxPUK
  BY DEF Card, Spent
<1>2. /\ Renewed(d) \in Card
      /\ Renewed(d).uid = d.uid /\ Renewed(d).key = d.key
      /\ Renewed(d).pinTries = MaxPIN /\ Renewed(d).pukTries = MaxPUK
  <2>1. d \in Card /\ params.pin \in PINs \cup {None}
    BY DEF Spent, Params
  <2>2. Renewed(d) \in Card
    BY <2>1, Constants DEF Renewed, Card
  <2>3. QED
    BY <2>1, <2>2 DEF Renewed, Card
<1>3. Cost(c, Renewed(d)) <= 1
  BY <1>1, <1>2, Constants DEF Cost
<1>4. Sound(Renewed(d))
  BY <1>2, Constants DEF Sound, Spent
<1>5. Earned(c)
  BY <1>1, Constants DEF Earned, Unlocked, PINRight, PUKRight, Spent
<1>6. QED
  BY <1>2, <1>3, <1>4, <1>5 DEF Fit

\* A handler that asks with a card that fits.
LEMMA Asking ==
    ASSUME NEW c, NEW d, Fit(c, d), NEW s \in Questions
    PROVE  Handling(c, Pauses(d, s)) /\ Pauses(d, s).card = d
<1>1. /\ Pauses(d, s).card = d /\ Pauses(d, s).state = "Paused" /\ Pauses(d, s).signal = s
      /\ Pauses(d, s) \in [card : {d}, state : {"Paused"}, signal : {s}]
  BY DEF Pauses
<1>2. Pauses(d, s) \in Outcome
  BY DEF Pauses, Outcome, Fit, State, Questions
<1>3. QED
  BY <1>1, <1>2 DEF Handling

\* A handler that ends with a card that fits.
LEMMA Ending ==
    ASSUME NEW c, NEW d, Fit(c, d)
    PROVE  Handling(c, Ends(d)) /\ Ends(d).card = d
<1>1. Ends(d).card = d /\ Ends(d).state = "Idle" /\ Ends(d).signal = "flow-result"
  BY DEF Ends
<1>2. Ends(d) \in Outcome
  BY DEF Ends, Outcome, Fit, State, Signal
<1>3. QED
  BY <1>1, <1>2 DEF Handling

\* What the handlers ask for.
LEMMA Asks == {"SwapCard", "EnterPIN", "EnterPUK", "EnterNewPIN", "EnterNewPUK",
               "EnterMnemonic", "EnterName"} \subseteq Questions
BY DEF Questions, Signal

\* A check of the secrets asks for something, and costs at most one try.
LEMMA CheckedFits ==
    ASSUME NEW c \in Card, Sound(c), params \in Params
    PROVE  Handling(c, Checked(c)) /\ Spent(c, Checked(c).card)
<1> DEFINE PUKLeft == [c EXCEPT !.pukTries = @ - 1]
           PINLeft == [c EXCEPT !.pinTries = @ - 1]
<1>1. c.pinTries \in 0..MaxPIN /\ c.pukTries \in 0..MaxPUK
  BY DEF Card
<1>2. ASSUME c.pukTries > 0 PROVE Spent(c, PUKLeft)
  <2>1. /\ PUKLeft \in Card
        /\ PUKLeft.pinTries = c.pinTries /\ PUKLeft.pukTries = c.pukTries - 1
        /\ PUKLeft.uid = c.uid /\ PUKLeft.key = c.key
        /\ PUKLeft.pin = c.pin /\ PUKLeft.puk = c.puk
    BY <1>1, <1>2, Constants DEF Card
  <2>2. QED
    BY <2>1, <1>1 DEF Spent, Cost
<1>3. ASSUME c.pinTries > 0 PROVE Spent(c, PINLeft)
  <2>1. /\ PINLeft \in Card
        /\ PINLeft.pinTries = c.pinTries - 1 /\ PINLeft.pukTries = c.pukTries
        /\ PINLeft.uid = c.uid /\ PINLeft.key = c.key
        /\ PINLeft.pin = c.pin /\ PINLeft.puk = c.puk
    BY <1>1, <1>3, Constants DEF Card
  <2>2. QED
    BY <2>1, <1>1 DEF Spent, Cost
<1>4. ASSUME NEW d, Spent(c, d), NEW s \in Questions
      PROVE  Handling(c, Pauses(d, s)) /\ Spent(c, Pauses(d, s).card)
  BY <1>4, SpentFits, Asking
<1>5. Spent(c, c)
  BY Untouched
<1>6. CASE c.pukTries = 0
  <2>1. Checked(c) = Pauses(c, "SwapCard")
    BY <1>6 DEF Checked
  <2>2. QED
    BY <2>1, <1>4, <1>5, Asks
<1>7. CASE c.pukTries > 0 /\ c.pinTries = 0
  <2> DEFINE s == IF PUKLeft.pukTries = 0 THEN "SwapCard" ELSE "EnterPUK"
  <2>1. \/ \E q \in {"EnterPUK", "EnterNewPIN", "EnterPIN"} : Checked(c) = Pauses(c, q)
        \/ Checked(c) = Pauses(PUKLeft, s)
    BY <1>1, <1>7 DEF Checked
  <2>2. s \in Questions
    BY Asks
  <2> HIDE DEF PUKLeft, s
  <2>3. QED
    BY <2>1, <2>2, <1>2, <1>4, <1>5, <1>7, Asks
<1>8. CASE c.pukTries > 0 /\ c.pinTries > 0
  <2> DEFINE s == IF PINLeft.pinTries = 0 THEN "EnterPUK" ELSE "EnterPIN"
  <2>1. Checked(c) = Pauses(c, "EnterPIN") \/ Checked(c) = Pauses(PINLeft, s)
    BY <1>1, <1>8 DEF Checked
  <2>2. s \in Questions
    BY Asks
  <2> HIDE DEF PINLeft, s
  <2>3. QED
    BY <2>1, <2>2, <1>3, <1>4, <1>5, <1>8, Asks
<1>9. QED
  BY <1>1, <1>6, <1>7, <1>8

\* Every handler leaves a card as it may be left, and says so or ends.
LEMMA HandledFits ==
    ASSUME NEW c \in Card, Sound(c), params \in Params, type \in FlowType, type # "Other",
           state \in State
    PROVE  Handling(c, Handled(c))
<1> DEFINE ladder == Checked(c)
           d      == ladder.card
<1>1. Handling(c, ladder) /\ Spent(c, d)
  BY CheckedFits
<1>2. Fit(c, c) /\ Spent(c, c)
  BY Untouched
<1>3. \A s \in Questions : Handling(c, Pauses(c, s))
  BY <1>2, Asking
<1>4. ASSUME Unlocked(d) \/ (type = "ChangePIN" /\ Has("Overwrite"))
      PROVE  Fit(c, Renewed(d))
  BY <1>1, <1>4, RenewedFits
<1>5. ASSUME NEW e, Fit(c, e)
      PROVE  Handling(c, Ends(e)) /\ (\A s \in Questions : Handling(c, Pauses(c, s)))
  BY <1>3, <1>5, Ending
<1>6. Handling(c, Ends(c))
  BY <1>2, Ending
<1>7. Handling(c, GetAppInfo(c))
  <2>1. Fit(c, Blank)
    BY CardsMade DEF Fit
  <2>2. Handling(c, Ends(Blank))
    BY <2>1, Ending
  <2> HIDE DEF d, ladder
  <2>3. QED
    BY <1>3, <1>6, <2>2, Asks DEF GetAppInfo
<1>8. Handling(c, ExportKeys(c))
  <2>1. Unlocked(d) => Handling(c, Ends(Renewed(d)))
    BY <1>4, Ending
  <2>2. ExportKeys(c) = Pauses(c, "SwapCard") \/ (Unlocked(d) /\ ExportKeys(c) = Ends(Renewed(d)))
          \/ ExportKeys(c) = ladder
    BY DEF ExportKeys
  <2> HIDE DEF d, ladder
  <2>3. QED
    BY <1>1, <1>3, <2>1, <2>2, Asks
<1>9. Handling(c, GetMetadata(c))
  BY <1>3, <1>6, <1>8, Asks DEF GetMetadata
<1>10. Handling(c, StoreMetadata(c))
  <2> DEFINE e == [c EXCEPT !.meta = TRUE]
  <2>1. /\ e \in Card /\ e.uid = c.uid /\ e.key = c.key
        /\ e.pinTries = c.pinTries /\ e.pukTries = c.pukTries
    BY DEF Card
  <2>2. Fit(c, e)
    <3>1. c.pinTries \in Nat /\ c.pukTries \in Nat
      BY DEF Card
    <3>2. Cost(c, e) = 0 /\ ~Up(c, e)
      BY <2>1, <3>1 DEF Cost, Up
    <3>3. Sound(e)
      BY <2>1, Constants DEF Sound
    <3>4. QED
      BY <2>1, <3>2, <3>3 DEF Fit
  <2> HIDE DEF e
  <2>3. Handling(c, Ends(e))
    BY <2>2, Ending
  <2>4. QED
    BY <1>3, <2>3, Asks DEF StoreMetadata, e
<1>11. CASE type = "ChangePIN"
  <2>1. Handling(c, ChangePIN(c))
    <3>1. ASSUME Unlocked(d) \/ Has("Overwrite")
          PROVE  /\ Handling(c, Pauses(Renewed(d), "EnterNewPIN"))
                 /\ Handling(c, [Ends(Renewed(d)) EXCEPT !.state = state])
      <4> DEFINE e == Renewed(d)
                 r == [Ends(e) EXCEPT !.state = state]
      <4>1. Fit(c, e)
        BY <3>1, <1>4, <1>11
      <4> HIDE DEF e
      <4>2. Handling(c, Pauses(e, "EnterNewPIN"))
        BY <4>1, Asking, Asks
      <4>3. r.card = e /\ r.state = state /\ r.signal = "flow-result" /\ r \in Outcome
        BY <4>1 DEF Ends, Outcome, Fit, Signal, State
      <4>4. Handling(c, r)
        BY <4>1, <4>3, <1>11 DEF Handling
      <4>5. QED
        BY <4>2, <4>4 DEF e
    <3>2. PINRight(d) \/ PUKRight(d) => Unlocked(d)
      BY DEF Unlocked
    <3>3. \/ \E s \in {"EnterNewPIN", "SwapCard"} : ChangePIN(c) = Pauses(c, s)
          \/ PINRight(d) /\ ChangePIN(c) = Pauses(Renewed(d), "EnterNewPIN")
          \/ /\ Has("Overwrite") \/ PUKRight(d)
             /\ ChangePIN(c) = [Ends(Renewed(d)) EXCEPT !.state = state]
          \/ ChangePIN(c) = ladder
      BY DEF ChangePIN
    <3> HIDE DEF d, ladder
    <3>4. QED
      BY <3>1, <3>2, <3>3, <1>1, <1>3, Asks
  <2>2. Handled(c) = Pauses(c, "SwapCard") \/ Handled(c) = ChangePIN(c)
    BY <1>11 DEF Handled, Ladders
  <2>3. QED
    BY <2>1, <2>2, <1>3, Asks
<1>12. Handling(c, ChangePUK(c))
  <2> DEFINE e == [d EXCEPT !.pinTries = MaxPIN, !.pukTries = MaxPUK, !.puk = params.puk]
  <2>1. ASSUME Unlocked(d) PROVE Fit(c, e)
    <3>1. d \in Card /\ params.puk \in PUKs \cup {None}
      BY <1>1 DEF Spent, Params
    <3>2. e \in Card
      BY <3>1, Constants DEF Card
    <3>3. e.uid = d.uid /\ e.key = d.key /\ e.pinTries = MaxPIN /\ e.pukTries = MaxPUK
      BY <3>1 DEF Card
    <3> HIDE DEF e
    <3>4. Fit(c, Renewed(d))
      BY <2>1, <1>4
    <3>5. /\ Renewed(d).uid = d.uid /\ Renewed(d).key = d.key
          /\ Renewed(d).pinTries = MaxPIN /\ Renewed(d).pukTries = MaxPUK
      BY <3>1 DEF Renewed, Card
    <3>6. Renewed(d) # None
      BY <3>4, Constants DEF Fit
    <3>7. QED
      BY <3>2, <3>3, <3>4, <3>5, <3>6 DEF Fit, Sound, Cost, Up
  <2>2. ASSUME Unlocked(d) PROVE Handling(c, Ends(e)) /\ Handling(c, Pauses(Renewed(d), "EnterNewPUK"))
    BY <2>1, <2>2, <1>4, Ending, Asking, Asks
  <2>3. \/ \E s \in {"EnterNewPIN", "SwapCard"} : ChangePUK(c) = Pauses(c, s)
        \/ ChangePUK(c) = ladder
        \/ Unlocked(d) /\ ChangePUK(c) = Pauses(Renewed(d), "EnterNewPUK")
        \/ Unlocked(d) /\ ChangePUK(c) = Ends(e)
    BY DEF ChangePUK
  <2> HIDE DEF d, ladder, e
  <2>4. QED
    BY <2>2, <2>3, <1>1, <1>3, Asks
<1>13. CASE type = "LoadAccount"
  <2> DEFINE b    == IF Has("FactoryReset") THEN Blank ELSE c
             half == [b EXCEPT !.uid = TRUE]
             full == [b EXCEPT !.uid = TRUE, !.key = TRUE, !.full = FALSE,
                               !.pin = params.pin, !.puk = params.newPUK,
                               !.pinTries = MaxPIN, !.pukTries = MaxPUK]
  <2>1. b \in Card /\ Sound(b) /\ Fit(c, b)
    BY <1>2, CardsMade DEF Fit
  <2>2. ASSUME ~(b.uid /\ b.key) PROVE Fit(c, half) /\ Fit(c, full)
    <3>1. ~b.key
      BY <2>1, <2>2, Constants DEF Sound, Card
    <3> HIDE DEF b
    <3>2. /\ half \in Card /\ half.uid /\ half.key = b.key
      BY <2>1 DEF Card
    <3>3. params.pin \in PINs \cup {None} /\ params.newPUK \in PUKs \cup {None}
      BY DEF Params
    <3>4. /\ full \in Card /\ full.uid
          /\ full.pinTries = MaxPIN /\ full.pukTries = MaxPUK
      <4>1. full \in Card
        BY <2>1, <3>3, Constants DEF Card
      <4>2. QED
        BY <2>1, <4>1 DEF Card
    <3>5. c.key => Earned(c)
      BY <3>1, <1>13 DEF Earned, b
    <3>6. c.pinTries \in 0..MaxPIN /\ c.pukTries \in 0..MaxPUK
      BY DEF Card
    <3> HIDE DEF half, full
    <3>7. Cost(c, full) <= 1
      BY <3>4, <3>6, Constants DEF Cost
    <3>8. Sound(half) /\ Sound(full)
      BY <3>2, <3>4 DEF Sound
    <3>9. QED
      BY <3>1, <3>2, <3>4, <3>5, <3>7, <3>8 DEF Fit
  <2>3. \/ \E s \in {"SwapCard", "EnterNewPIN"} : LoadAccount(c) = Pauses(b, s)
        \/ ~(b.uid /\ b.key) /\ LoadAccount(c) = Pauses(half, "EnterMnemonic")
        \/ ~(b.uid /\ b.key) /\ LoadAccount(c) = Ends(full)
    BY DEF LoadAccount
  <2>4. Handled(c) = Pauses(c, "SwapCard") \/ Handled(c) = LoadAccount(c)
    BY <1>13 DEF Handled, Ladders
  <2> HIDE DEF b, half, full
  <2>5. Handling(c, LoadAccount(c))
    BY <2>1, <2>2, <2>3, Asking, Ending, Asks
  <2>6. QED
    BY <2>4, <2>5, <1>3, Asks
<1>14. CASE type \notin {"ChangePIN", "LoadAccount"}
  <2>1. \/ Handled(c) = Pauses(c, "SwapCard")
        \/ Handled(c) = GetAppInfo(c) \/ Handled(c) = ChangePUK(c)
        \/ Handled(c) = ExportKeys(c) \/ Handled(c) = GetMetadata(c)
        \/ Handled(c) = StoreMetadata(c)
    BY <1>14 DEF Handled, FlowType, Ladders
  <2>2. QED
    BY <2>1, <1>3, <1>7, <1>8, <1>9, <1>10, <1>12, Asks
<1>15. QED
  BY <1>11, <1>13, <1>14

-----------------------------------------------------------------------------
\* Types.

\* A new mock: no cards, nothing under way.
LEMMA TypeInvInitially == Init => TypeInv
<1> SUFFICES ASSUME Init PROVE TypeInv
  OBVIOUS
<1>1. NoParams \in Params
  BY DEF NoParams, Params
<1>2. saved \in [cards : [Slots -> Card \cup {None}], paired : BOOLEAN]
  BY DEF Init
<1>3. TypeOK
  <2>1. /\ 0 \in 0..MaxRuns /\ 0 \in 0..MaxCalls /\ 0 \in 0..MaxEvents /\ 0 \in 0..MaxFaults
        /\ 0 \in Nat /\ "GetAppInfo" \in FlowType
    BY Constants DEF FlowType
  <2>2. cards \in [Slots -> Card \cup {None}] /\ paired \in BOOLEAN /\ calm \in Manners
    BY DEF Init
  <2>3. QED
    BY <1>1, <1>2, <2>1, <2>2 DEF Init, TypeOK
<1>4. CardsSound
  BY DEF Init, CardsSound, Sound
<1>5. QED
  BY <1>3, <1>4, Constants DEF Init, TypeInv

\* The answer is merged into the parameters.
LEMMA MergedFits ==
    ASSUME params \in Params, NEW p \in Params
    PROVE  Merged(p) \in Params
<1>1. DOMAIN p = {"pin", "newPIN", "puk", "newPUK", "mnemonic", "has"}
  BY DEF Params
<1>2. Merged(p) = [pin |-> Merged(p).pin, newPIN |-> Merged(p).newPIN,
                   puk |-> Merged(p).puk, newPUK |-> Merged(p).newPUK,
                   mnemonic |-> Merged(p).mnemonic, has |-> Merged(p).has]
  <2> DEFINE q == [pin |-> Merged(p).pin, newPIN |-> Merged(p).newPIN,
                   puk |-> Merged(p).puk, newPUK |-> Merged(p).newPUK,
                   mnemonic |-> Merged(p).mnemonic, has |-> Merged(p).has]
  <2>1. DOMAIN q = DOMAIN p /\ q = [k \in DOMAIN p |-> q[k]]
    BY <1>1
  <2>2. Merged(p) = [k \in DOMAIN p |-> Merged(p)[k]]
    BY DEF Merged
  <2>3. \A k \in DOMAIN p : q[k] = Merged(p)[k]
    BY <1>1
  <2> HIDE DEF q
  <2>4. q = Merged(p)
    BY <2>1, <2>2, <2>3
  <2>5. QED
    BY <2>4 DEF q
<1>3. Merged(p).has = params.has \cup p.has
  BY <1>1 DEF Merged
<1>4. \A k \in {"pin", "newPIN", "puk", "newPUK", "mnemonic"} :
        Merged(p)[k] \in {p[k], params[k]}
  BY <1>1 DEF Merged
<1>5. /\ Merged(p).pin \in PINs \cup {None} /\ Merged(p).newPIN \in PINs \cup {None}
      /\ Merged(p).puk \in PUKs \cup {None} /\ Merged(p).newPUK \in PUKs \cup {None}
      /\ Merged(p).mnemonic \in {None, "short", "right"} /\ Merged(p).has \in SUBSET Flag
  BY <1>3, <1>4 DEF Params
<1>6. QED
  BY <1>2, <1>5 DEF Params

\* A kind of card that can be registered.
LEMMA RegisteredFits ==
    ASSUME NEW kind \in Kinds, NEW c \in Registered(kind)
    PROVE  c \in Card /\ Sound(c)
<1>1. kind \in Kind
  BY MockedFlowAssumption
<1>2. /\ [Made EXCEPT !.alien = TRUE] \in Card /\ [Made EXCEPT !.full = TRUE] \in Card
      /\ [Made EXCEPT !.pinTries = 0] \in Card /\ [Made EXCEPT !.pukTries = 0] \in Card
      /\ [Made EXCEPT !.meta = FALSE] \in Card
  <2>1. 0 \in 0..MaxPIN /\ 0 \in 0..MaxPUK /\ Made \in Card
    BY CardsMade, Constants
  <2>2. [Made EXCEPT !.alien = TRUE] \in Card /\ [Made EXCEPT !.full = TRUE] \in Card
    BY <2>1 DEF Card
  <2>3. [Made EXCEPT !.pinTries = 0] \in Card /\ [Made EXCEPT !.pukTries = 0] \in Card
    BY <2>1 DEF Card
  <2>4. [Made EXCEPT !.meta = FALSE] \in Card
    BY <2>1 DEF Card
  <2>5. QED
    BY <2>2, <2>3, <2>4
<1>3. /\ [Made EXCEPT !.alien = TRUE].uid /\ [Made EXCEPT !.full = TRUE].uid
      /\ [Made EXCEPT !.pinTries = 0].uid /\ [Made EXCEPT !.pukTries = 0].uid
      /\ [Made EXCEPT !.meta = FALSE].uid
  BY CardsMade DEF Made
<1>4. CASE kind \in {"Custom", "CustomMissing"}
  <2>1. c \in Custom
    BY <1>4 DEF Registered
  <2>2. QED
    BY <2>1, MockedFlowAssumption DEF Sound
<1>5. ASSUME kind \notin {"Custom", "CustomMissing"}
      PROVE  c \in {[Made EXCEPT !.alien = TRUE], Blank, [Made EXCEPT !.full = TRUE],
                            [Made EXCEPT !.pinTries = 0], [Made EXCEPT !.pukTries = 0],
                            [Made EXCEPT !.meta = FALSE], Made}
  <2>1. c = Known(kind)
    BY <1>5 DEF Registered
  <2>2. QED
    BY <1>1, <1>5, <2>1 DEF Known, Kind
<1>6. QED
  BY <1>2, <1>3, <1>4, <1>5, CardsMade DEF Sound

\* What a goroutine finds under the index of the inserted card.
LEMMA InsertedCard ==
    ASSUME TypeInv, inserted # None
    PROVE  /\ inserted \in Slots /\ cards[inserted] \in Card /\ Sound(cards[inserted])
           /\ cards[inserted].uid \in BOOLEAN
<1>1. inserted \in Slots /\ cards[inserted] \in Card /\ Sound(cards[inserted])
  BY DEF TypeInv, TypeOK, CardsSound
<1>2. QED
  BY <1>1 DEF Card

\* A card that was handled, of whatever flow.
LEMMA HandledCard ==
    ASSUME TypeInv, inserted # None
    PROVE  LET c == cards[inserted] IN
           /\ Handled(c) \in Outcome /\ Fit(c, Handled(c).card)
           /\ Handled(c).card \in Card /\ Sound(Handled(c).card)
           /\ type = "Other" => /\ Handled(c).card = c /\ Handled(c).state = state
                                /\ Handled(c).signal = told
           /\ type # "Other" => Handling(c, Handled(c))
<1> DEFINE c == cards[inserted]
<1>1. c \in Card /\ Sound(c) /\ params \in Params /\ type \in FlowType /\ state \in State
  BY InsertedCard DEF TypeInv, TypeOK, State
<1> HIDE DEF c
<1>2. CASE type = "Other"
  <2>1. Handled(c) = [card |-> c, state |-> state, signal |-> told]
    BY <1>2 DEF Handled
  <2>2. Handled(c) \in Outcome
    BY <1>1, <2>1 DEF Outcome, TypeInv, TypeOK
  <2>3. Fit(c, c)
    BY <1>1, Untouched
  <2>4. Handled(c).card = c /\ Handled(c).state = state /\ Handled(c).signal = told
    BY <2>1
  <2>5. QED
    BY <1>1, <1>2, <2>2, <2>3, <2>4 DEF c
<1>3. CASE type # "Other"
  <2>1. Handling(c, Handled(c))
    BY <1>1, <1>3, HandledFits
  <2>2. QED
    BY <1>3, <2>1 DEF Handling, Fit, c
<1>4. QED
  BY <1>2, <1>3

\* Each count of goroutines keeps to the bound of both.
LEMMA Room ==
    \A x, y \in Nat : x + y <= MaxRuns => x \in 0..MaxRuns /\ y \in 0..MaxRuns
BY Constants

\* The steps, by what they leave alone.
LEMMA TypeInvKept == TypeInv /\ [Next]_vars => TypeInv'
<1> SUFFICES ASSUME TypeInv, [Next]_vars PROVE TypeInv'
  OBVIOUS
<1> USE Constants
<1> DEFINE Rest == /\ state' \in State /\ type' \in FlowType /\ params' \in Params
                   /\ told' \in Signal \cup {None} /\ panicked' \in BOOLEAN /\ calm' \in Manners
           Bounds == /\ calls' \in 0..MaxCalls /\ events' \in 0..MaxEvents
                     /\ faults' \in 0..MaxFaults
           Going == starting' \in Nat /\ storing' \in Nat /\ starting' + storing' <= MaxRuns
           Held == /\ reader' \in {"NoReader", "NoKeycard", "KeycardInserted"}
                   /\ inserted' \in Slots \cup {None}
                   /\ inserted' # None => cards'[inserted'] # None
                   /\ reader' = "KeycardInserted" => inserted' # None
           Stored == /\ cards' \in [Slots -> Card \cup {None}] /\ paired' \in BOOLEAN
                     /\ saved' \in [cards : [Slots -> Card \cup {None}], paired : BOOLEAN]
                     /\ CardsSound'
<1>0. ASSUME Rest, Bounds, Going, Held, Stored, burnt' \in Nat PROVE TypeInv'
  <2>1. starting' \in 0..MaxRuns /\ storing' \in 0..MaxRuns
    BY <1>0, Room
  <2>2. TypeOK'
    BY <1>0, <2>1 DEF TypeOK, State
  <2>3. QED
    BY <1>0, <2>2 DEF TypeInv
<1>1. NoParams \in Params /\ {"Idle", "Running", "Paused"} = State /\ "GetAppInfo" \in FlowType
  BY DEF NoParams, Params, State, FlowType
<1>2. /\ state \in State /\ type \in FlowType /\ params \in Params
      /\ told \in Signal \cup {None} /\ panicked \in BOOLEAN /\ calm \in Manners
      /\ calls \in 0..MaxCalls /\ events \in 0..MaxEvents /\ faults \in 0..MaxFaults
      /\ starting \in Nat /\ storing \in Nat /\ starting + storing <= MaxRuns
      /\ burnt \in Nat
  BY DEF TypeInv, TypeOK, State
<1>3. UNCHANGED <<device, cards>> => Held
  BY DEF TypeInv, TypeOK, device
<1>4. UNCHANGED <<cards, paired, saved>> => Stored
  BY DEF TypeInv, TypeOK, CardsSound
<1>5. /\ cards \in [Slots -> Card \cup {None}] /\ paired \in BOOLEAN
      /\ saved \in [cards : [Slots -> Card \cup {None}], paired : BOOLEAN]
      /\ CardsSound
  BY DEF TypeInv, TypeOK
<1>6. /\ Call => Bounds /\ calm' = calm
      /\ Happens => Bounds /\ calm' = calm
      /\ Occurs /\ (WriteFails \/ UNCHANGED faults) => Bounds /\ calm' = calm
      /\ WriteFails => faults' \in 0..MaxFaults
      /\ UNCHANGED bounds => Bounds
  BY <1>2 DEF Call, Happens, Occurs, WriteFails, bounds
<1>7. /\ (Spawn /\ storing' = storing) \/ UNCHANGED runs => Going
      /\ \A b \in BOOLEAN : RerunIf(b) /\ storing' = storing => Going
  BY <1>2 DEF Spawn, runs, RerunIf
<1>8. ASSUME NEW x \in [Slots -> Card \cup {None}], NEW b \in BOOLEAN,
             NEW i \in Slots, NEW d \in Card \cup {None}
      PROVE  /\ [cards |-> x, paired |-> b] \in [cards : [Slots -> Card \cup {None}], paired : BOOLEAN]
             /\ [saved EXCEPT !.cards = x] \in [cards : [Slots -> Card \cup {None}], paired : BOOLEAN]
             /\ [saved EXCEPT !.paired = b] \in [cards : [Slots -> Card \cup {None}], paired : BOOLEAN]
             /\ [saved EXCEPT !.cards = x].cards = x
             /\ [saved EXCEPT !.paired = b].cards = saved.cards
             /\ [cards EXCEPT ![i] = d] \in [Slots -> Card \cup {None}]
  BY <1>5
<1> HIDE DEF Rest, Bounds, Going, Held, Stored
<1>10. CASE AnswerNoCard
  <2>1. Rest
    BY <1>2, <1>10, <1>1 DEF Rest, AnswerNoCard, NoCardSignal, Signal, flow
  <2>2. Bounds /\ burnt' \in Nat
    BY <1>2, <1>6, <1>10 DEF AnswerNoCard
  <2>3. Going
    BY <1>2, <1>10 DEF Going, AnswerNoCard
  <2>4. Held /\ Stored
    BY <1>3, <1>4, <1>10 DEF AnswerNoCard
  <2>5. QED
    BY <1>0, <2>1, <2>2, <2>3, <2>4
<1>11. CASE Handle
  <2> DEFINE c    == cards[inserted]
             done == Handled(c)
  <2>1. inserted # None
    BY <1>11 DEF Handle, TypeInv, TypeOK
  <2>2. /\ inserted \in Slots /\ c \in Card /\ done \in Outcome
        /\ done.card \in Card /\ Sound(done.card)
    BY <2>1, InsertedCard, HandledCard
  <2>3. /\ cards' = [cards EXCEPT ![inserted] = done.card]
        /\ paired' = (paired \/ StoresPairing(done))
        /\ device' = device
    BY <1>11 DEF Handle
  <2>4. \/ state' = done.state /\ told' = done.signal
        \/ state' = state /\ told' = told
    BY <1>11 DEF Handle
  <2>5. saved' \in {saved, [saved EXCEPT !.paired = TRUE]}
    BY <1>11 DEF Handle
  <2>6. burnt' \in {burnt, burnt + Cost(c, done.card)} /\ (burnt' # burnt => Cost(c, done.card) > 0)
    BY <1>11 DEF Handle
  <2>7. Cost(c, done.card) \in Int
    BY <2>2 DEF Cost, Card
  <2>8. burnt' \in Nat
    BY <2>6, <2>7, <1>2
  <2>9. done.state \in State /\ done.signal \in Signal \cup {None}
    BY <2>2 DEF Outcome
  <2> HIDE DEF c, done
  <2>10. Rest
    BY <1>2, <2>4, <2>9, <1>11 DEF Rest, Handle
  <2>11. Bounds
    <3>1. faults' \in 0..MaxFaults
      BY <1>2, <1>6, <1>11 DEF Handle
    <3>2. QED
      BY <1>2, <3>1, <1>11 DEF Bounds, Handle
  <2>12. Going
    BY <1>2, <1>11 DEF Going, Handle
  <2>13. Held
    <3>1. done.card # None
      BY <2>2
    <3>2. cards'[inserted] # None
      BY <3>1, <2>2, <2>3, <1>5
    <3>3. QED
      BY <2>1, <2>2, <2>3, <3>2, <1>11 DEF Held, device, Handle
  <2>14. Stored
    <3>1. cards' \in [Slots -> Card \cup {None}]
      BY <1>5, <2>2, <2>3
    <3>2. paired' \in BOOLEAN
      BY <1>5, <2>3 DEF StoresPairing
    <3>3. saved' \in [cards : [Slots -> Card \cup {None}], paired : BOOLEAN] /\ saved'.cards = saved.cards
      BY <1>5, <2>5, <1>8
    <3>4. \A i \in Slots : Sound(cards'[i])
      BY <1>5, <2>2, <2>3 DEF CardsSound
    <3>5. CardsSound'
      BY <1>5, <3>3, <3>4 DEF CardsSound
    <3>6. QED
      BY <3>1, <3>2, <3>3, <3>5 DEF Stored
  <2>15. QED
    BY <1>0, <2>8, <2>10, <2>11, <2>12, <2>13, <2>14
<1>12. CASE StoreCards
  <2>1. Rest
    BY <1>2, <1>12 DEF Rest, StoreCards, flow
  <2>2. Bounds
    <3>1. faults' \in 0..MaxFaults
      BY <1>2, <1>6, <1>12 DEF StoreCards
    <3>2. QED
      BY <1>2, <3>1, <1>12 DEF Bounds, StoreCards
  <2>3. Going /\ burnt' \in Nat
    BY <1>2, <1>12 DEF Going, StoreCards
  <2>4. Held
    BY <1>3, <1>12 DEF StoreCards
  <2>5. paired' \in BOOLEAN
    BY <1>5, <1>12, InsertedCard DEF StoreCards
  <2>6. /\ saved' \in {saved, [cards |-> cards, paired |-> paired'], [saved EXCEPT !.cards = cards],
                       [saved EXCEPT !.paired = paired']}
        /\ cards' = cards
    BY <1>12 DEF StoreCards
  <2>7. /\ saved' \in [cards : [Slots -> Card \cup {None}], paired : BOOLEAN]
        /\ saved'.cards \in {saved.cards, cards}
    BY <1>5, <2>5, <2>6, <1>8
  <2>8. CardsSound'
    BY <1>5, <2>6, <2>7 DEF CardsSound
  <2>9. Stored
    BY <1>5, <2>5, <2>6, <2>7, <2>8 DEF Stored
  <2>10. QED
    BY <1>0, <2>1, <2>2, <2>3, <2>4, <2>9
<1>13. CASE FlowCall
  <2>1. UNCHANGED <<device, cards, paired, saved, panicked, burnt>> /\ Call
        /\ ((Spawn /\ storing' = storing) \/ UNCHANGED runs)
    BY <1>13 DEF FlowCall, Start, Resume, Cancel
  <2>2. Rest
    <3>1. ASSUME NEW t \in Flows, NEW p \in Opening, Start(t, p) PROVE Rest
      <4>1. t \in FlowType /\ p \in Params
        BY MockedFlowAssumption
      <4>2. QED
        BY <1>2, <1>6, <3>1, <4>1, <1>1 DEF Rest, Start
    <3>2. ASSUME NEW p \in Answers, Resume(p) PROVE Rest
      <4>1. Merged(p) \in Params
        BY MergedFits, <1>2, MockedFlowAssumption
      <4>2. QED
        BY <1>2, <1>6, <3>2, <4>1 DEF Rest, Resume
    <3>3. ASSUME Cancel PROVE Rest
      BY <1>1, <1>2, <1>6, <3>3 DEF Rest, Cancel
    <3>4. QED
      BY <3>1, <3>2, <3>3, <1>13 DEF FlowCall
  <2>3. QED
    BY <1>0, <1>2, <1>3, <1>4, <1>6, <1>7, <2>1, <2>2
<1>14. ASSUME Happens, UNCHANGED <<flow, cards, paired, saved, storing, told, panicked, burnt>>,
              Held, Going
       PROVE  TypeInv'
  BY <1>0, <1>2, <1>4, <1>6, <1>14 DEF Rest, flow
<1>15. CASE ReaderPluggedIn \/ ReaderUnplugged \/ KeycardRemoved
  <2>1. Held
    BY <1>15 DEF Held, ReaderPluggedIn, ReaderUnplugged, KeycardRemoved, Device, TypeInv, TypeOK
  <2>2. Going
    BY <1>15, <1>7 DEF ReaderPluggedIn, ReaderUnplugged, KeycardRemoved
  <2>3. QED
    BY <1>14, <1>15, <2>1, <2>2 DEF ReaderPluggedIn, ReaderUnplugged, KeycardRemoved
<1>16. ASSUME NEW i \in Slots, KeycardInserted(i) PROVE TypeInv'
  <2>1. Held
    BY <1>16 DEF Held, KeycardInserted, Device, TypeInv, TypeOK
  <2>2. Going
    BY <1>16, <1>7 DEF KeycardInserted
  <2>3. QED
    BY <1>14, <1>16, <2>1, <2>2 DEF KeycardInserted
<1>17. ASSUME NEW i \in Slots, NEW r \in {"NoReader", "NoKeycard", "KeycardInserted"},
              NEW kind \in Kinds, RegisterKeycard(i, r, kind)
       PROVE  TypeInv'
  <2>1. WriteFails \/ UNCHANGED faults
    BY <1>17 DEF RegisterKeycard
  <2>2. Rest /\ Bounds /\ Going /\ burnt' \in Nat
    BY <1>1, <1>2, <1>6, <1>7, <1>17, <2>1 DEF Rest, RegisterKeycard
  <2>3. CASE UNCHANGED <<device, cards, saved>>
    BY <1>0, <1>3, <1>4, <1>17, <2>2, <2>3 DEF RegisterKeycard
  <2>4. ASSUME NEW d \in Registered(kind), cards' = [cards EXCEPT ![i] = d], Device(r, i),
               saved' = [saved EXCEPT !.cards = cards'] \/ saved' = saved
        PROVE  TypeInv'
    <3>1. d \in Card /\ Sound(d)
      BY RegisteredFits
    <3>2. reader' = r /\ inserted' = i /\ paired' = paired
      BY <1>17, <2>4 DEF RegisterKeycard, Device
    <3>3. cards' \in [Slots -> Card \cup {None}] /\ cards'[i] # None
      BY <1>5, <2>4, <3>1
    <3>4. Held
      BY <3>2, <3>3 DEF Held
    <3>5. /\ saved' \in [cards : [Slots -> Card \cup {None}], paired : BOOLEAN]
          /\ saved'.cards \in {cards', saved.cards}
      BY <1>5, <1>8, <2>4, <3>3
    <3>6. \A j \in Slots : Sound(cards'[j])
      BY <1>5, <2>4, <3>1 DEF CardsSound
    <3>7. CardsSound'
      BY <1>5, <3>5, <3>6 DEF CardsSound
    <3>8. Stored
      BY <1>5, <3>2, <3>3, <3>5, <3>7 DEF Stored
    <3>9. QED
      BY <1>0, <2>2, <3>4, <3>8
  <2>5. QED
    BY <1>17, <2>3, <2>4 DEF RegisterKeycard
<1>18. CASE Restart
  <2>1. Rest /\ Bounds /\ burnt' \in Nat
    BY <1>1, <1>2, <1>6, <1>18 DEF Rest, Restart
  <2>2. Going
    BY <1>18 DEF Going, Restart
  <2>3. Held
    BY <1>18 DEF Held, Restart, Device
  <2>4. /\ saved.cards \in [Slots -> Card \cup {None}] /\ saved.paired \in BOOLEAN
        /\ cards' = saved.cards /\ paired' = saved.paired /\ saved' = saved
    BY <1>5, <1>18 DEF Restart
  <2>5. CardsSound'
    BY <1>5, <2>4 DEF CardsSound
  <2>6. Stored
    BY <1>5, <2>4, <2>5 DEF Stored
  <2>7. QED
    BY <1>0, <2>1, <2>2, <2>3, <2>6
<1>19. CASE UNCHANGED vars
  <2>1. Rest /\ Bounds /\ burnt' \in Nat
    BY <1>2, <1>6, <1>19 DEF Rest, vars, flow
  <2>2. QED
    BY <1>0, <1>3, <1>4, <1>7, <1>19, <2>1 DEF vars
<1>20. QED
  BY <1>10, <1>11, <1>12, <1>13, <1>15, <1>16, <1>17, <1>18, <1>19
     DEF Next, Client, DeviceCall, RunFlow

\* Every variable keeps its type, whatever the client does: the inserted card
\* is a registered one (mocked_flow.go:116-190), and no more goroutines run
\* than were started.
THEOREM TypeCorrect == Spec => []TypeOK
<1>1. TypeInv => TypeOK
  BY DEF TypeInv
<1>2. QED
  BY <1>1, TypeInvInitially, TypeInvKept, PTL DEF Spec

-----------------------------------------------------------------------------
\* What is stored, and what gives tries back, whatever the client does.

\* Cards change by a handler, a registration or a restart: the first leaves
\* something to store, the others agree with the file at once.
LEMMA SaveInvKept == TypeInv /\ SaveInv /\ [Next]_vars => SaveInv'
<1> SUFFICES ASSUME TypeInv, SaveInv, [Next]_vars, storing' = 0, ~panicked', faults' = 0
             PROVE  saved' = [cards |-> cards', paired |-> paired']
  BY DEF SaveInv
<1>1. /\ starting \in Nat /\ storing \in Nat /\ faults \in Nat /\ panicked \in BOOLEAN
      /\ saved \in [cards : [Slots -> Card \cup {None}], paired : BOOLEAN]
  BY DEF TypeInv, TypeOK
<1>2. ~WriteFails
  BY <1>1 DEF WriteFails
<1>3. ASSUME UNCHANGED <<storing, cards, paired, saved, panicked>>, faults = 0
      PROVE  saved' = [cards |-> cards', paired |-> paired']
  BY <1>3 DEF SaveInv
<1>4. CASE AnswerNoCard
  BY <1>3, <1>4 DEF AnswerNoCard, bounds
<1>5. CASE Handle
  BY <1>1, <1>5 DEF Handle
<1>6. CASE StoreCards
  BY <1>2, <1>6 DEF StoreCards
<1>7. CASE FlowCall
  BY <1>3, <1>7 DEF FlowCall, Start, Resume, Cancel, runs, Call
<1>8. CASE ReaderPluggedIn \/ ReaderUnplugged \/ KeycardRemoved
           \/ \E i \in Slots : KeycardInserted(i)
  BY <1>3, <1>8 DEF ReaderPluggedIn, ReaderUnplugged, KeycardRemoved, KeycardInserted, Happens, Occurs
<1>9. ASSUME NEW i \in Slots, NEW r \in {"NoReader", "NoKeycard", "KeycardInserted"},
             NEW kind \in Kinds, RegisterKeycard(i, r, kind)
      PROVE  saved' = [cards |-> cards', paired |-> paired']
  <2>1. storing = 0 /\ ~panicked /\ faults = 0 /\ paired' = paired
    BY <1>2, <1>9 DEF RegisterKeycard, runs
  <2>2. saved = [cards |-> cards, paired |-> paired]
    BY <2>1 DEF SaveInv
  <2>3. (saved' = saved /\ cards' = cards) \/ saved' = [saved EXCEPT !.cards = cards']
    BY <1>2, <1>9 DEF RegisterKeycard
  <2>4. QED
    BY <2>1, <2>2, <2>3
<1>10. CASE Restart
  BY <1>1, <1>10 DEF Restart
<1>11. CASE UNCHANGED vars
  BY <1>3, <1>11 DEF vars, runs, bounds
<1>12. QED
  BY <1>4, <1>5, <1>6, <1>7, <1>8, <1>9, <1>10, <1>11 DEF Next, Client, DeviceCall, RunFlow

\* When every goroutine is done, what is in memory is on disk, whichever way the
\* handlers returned and whatever was registered or restarted in between
\* (mocked_flow.go:223-257): a handler that wrote nothing is followed by
\* the write of runFlow.
THEOREM NothingIsLost == Spec => []RestIsSaved
<1>1. Init => SaveInv
  BY DEF Init, SaveInv
<1>2. SaveInv => RestIsSaved
  BY DEF SaveInv, RestIsSaved, Quiet
<1>3. QED
  BY <1>1, <1>2, SaveInvKept, TypeInvInitially, TypeInvKept, PTL DEF Spec

\* Tries come back for a PIN or a PUK that is right, or with a new card or by
\* ChangePIN with Overwrite, in every flow the mock handles: no ladder of
\* checks, whatever it costs first, reaches the renewal of tries without
\* (mocked_flow_export_public.go:63-108).
THEOREM TriesAreWorthIt == Spec => TriesAreEarned
<1> DEFINE Worth(i) ==
             LET c == cards[i]  d == cards'[i]
             IN /\ c # None /\ c # d /\ storing' > storing
                /\ c.key /\ d.key /\ (d.pinTries > c.pinTries \/ d.pukTries > c.pukTries)
                => \/ c.pinTries > 0 /\ params.pin = c.pin
                   \/ c.pukTries > 0 /\ params.puk = c.puk
                   \/ type = "ChangePIN" /\ Has("Overwrite")
                   \/ type = "LoadAccount" /\ Has("FactoryReset")
<1>1. ASSUME TypeInv, Handle, NEW i \in Slots PROVE Worth(i)
  <2> DEFINE c == cards[inserted]
             d == Handled(c).card
  <2>1. inserted # None
    BY <1>1 DEF Handle, TypeInv, TypeOK
  <2>2. inserted \in Slots /\ Fit(c, d) /\ cards' = [cards EXCEPT ![inserted] = d]
        /\ cards \in [Slots -> Card \cup {None}]
    BY <1>1, <2>1, InsertedCard, HandledCard DEF Handle, TypeInv, TypeOK
  <2>3. i # inserted => cards'[i] = cards[i]
    BY <2>2
  <2>4. i = inserted => cards'[i] = d
    BY <2>2
  <2> HIDE DEF d
  <2>5. QED
    BY <2>2, <2>3, <2>4 DEF Fit, Up, Earned
<1>2. ASSUME TypeInv, [Next]_vars, ~Handle, NEW i \in Slots PROVE Worth(i)
  <2>1. storing \in Nat
    BY <1>2 DEF TypeInv, TypeOK
  <2>2. storing' \in {storing, storing - 1, 0}
    BY <1>2 DEF Next, Client, FlowCall, DeviceCall, RunFlow, AnswerNoCard, StoreCards, Start, Resume,
          Cancel, ReaderPluggedIn, ReaderUnplugged, KeycardRemoved, KeycardInserted,
          RegisterKeycard, Restart, vars, runs
  <2>3. ~(storing' > storing)
    BY <2>1, <2>2
  <2>4. QED
    BY <2>3
<1>3. TypeInv /\ [Next]_vars => \A i \in Slots : Worth(i)
  BY <1>1, <1>2
<1>4. QED
  BY <1>3, TypeInvInitially, TypeInvKept, PTL DEF Spec, TriesAreEarned

-----------------------------------------------------------------------------
\* A calm client.

CalmInv == TypeInv /\ CalmFits

\* A new mock has told nothing and has nothing pending.
LEMMA CalmInitially == Init => CalmInv
<1> SUFFICES ASSUME Init PROVE CalmInv
  OBVIOUS
<1>1. TypeInv
  BY TypeInvInitially
<1>2. CalmFits
  BY DEF Init, CalmFits, OneAtATime, Budget, Pending, ToldFits
<1>3. QED
  BY <1>1, <1>2 DEF CalmInv

\* What the handlers say, of whatever flow.
LEMMA Saying ==
    ASSUME TypeInv, inserted # None, NEW done, done = Handled(cards[inserted])
    PROVE  /\ done.state \in State /\ done.signal \in Signal \cup {None}
           /\ \/ done.state = "Paused" /\ done.signal \in Questions
              \/ done.state = "Idle" /\ done.signal = "flow-result"
              \/ type = "ChangePIN" /\ done.state = state /\ done.signal = "flow-result"
              \/ done.state = state /\ done.signal = told
<1>1. done \in Outcome
  BY HandledCard
<1>2. done.state \in State /\ done.signal \in Signal \cup {None}
  BY <1>1 DEF Outcome
<1>3. CASE type = "Other"
  BY <1>2, <1>3, HandledCard
<1>4. CASE type # "Other"
  BY <1>2, <1>4, HandledCard DEF Handling
<1>5. QED
  BY <1>3, <1>4

\* A handler leaves the state and the last signal as they fit together.
LEMMA HandleSays ==
    ASSUME TypeInv, calm, CalmFits, Handle
    PROVE  /\ starting' = 0 /\ storing' = 1 /\ inserted # None /\ state # "Idle"
           /\ device' = device /\ type' = type /\ calm' = calm
           /\ \/ state' = "Paused" /\ told' \in Questions
              \/ state' = "Idle" /\ told' = "flow-result"
              \/ type = "ChangePIN" /\ state' = state /\ told' = "flow-result"
              \/ state' = state /\ told' = told
<1>1. /\ starting \in Nat /\ storing \in Nat /\ starting > 0 /\ starting + storing <= 1
      /\ starting' = starting - 1 /\ storing' = storing + 1 /\ reader = "KeycardInserted"
  BY DEF TypeInv, TypeOK, CalmFits, OneAtATime, Handle
<1>2. starting' = 0 /\ storing' = 1
  BY <1>1
<1>3. inserted # None /\ state # "Idle"
  BY <1>1 DEF TypeInv, TypeOK, CalmFits, ToldFits
<1>4. device' = device /\ type' = type /\ calm' = calm
  BY DEF Handle
<1>5. \E done : /\ done = Handled(cards[inserted])
                /\ \/ state' = done.state /\ told' = done.signal
                   \/ state' = state /\ told' = told
  BY DEF Handle
<1>6. QED
  BY <1>2, <1>3, <1>4, <1>5, Saying

\* LoadAccount asks for the words of a card that has no keys.
LEMMA WordsOfBlank ==
    ASSUME NEW c \in Card, Sound(c), type = "LoadAccount", Handled(c).signal = "EnterMnemonic"
    PROVE  ~Handled(c).card.key
<1> DEFINE b    == IF Has("FactoryReset") THEN Blank ELSE c
           half == [b EXCEPT !.uid = TRUE]
<1>1. b \in Card /\ Sound(b)
  BY CardsMade
<1>2. Handled(c) = Pauses(c, "SwapCard") \/ Handled(c) = LoadAccount(c)
  BY DEF Handled, Ladders
<1>3. \/ LoadAccount(c) \in {Pauses(b, "SwapCard"), Pauses(b, "EnterNewPIN")}
      \/ LoadAccount(c).signal = "flow-result"
      \/ ~(b.uid /\ b.key) /\ LoadAccount(c) = Pauses(half, "EnterMnemonic")
  BY DEF LoadAccount, Ends
<1> HIDE DEF b
<1>4. Pauses(c, "SwapCard").signal # "EnterMnemonic" /\ Pauses(b, "SwapCard").signal # "EnterMnemonic"
      /\ Pauses(b, "EnterNewPIN").signal # "EnterMnemonic"
      /\ Pauses(half, "EnterMnemonic").card = half
  BY DEF Pauses
<1>5. ~(b.uid /\ b.key) /\ Handled(c).card = half
  BY <1>2, <1>3, <1>4
<1>6. half.key = b.key /\ ~b.key
  BY <1>1, <1>5, Constants DEF Sound, Card
<1>7. QED
  BY <1>5, <1>6

\* A handler costs at most one try, and only in a flow that then waits.
LEMMA HandleCosts ==
    ASSUME TypeInv, calm, CalmFits, Handle
    PROVE  burnt' = burnt \/ (burnt' = burnt + 1 /\ state' = "Paused")
<1> DEFINE c    == cards[inserted]
           done == Handled(c)
<1>1. inserted # None
  BY HandleSays
<1>2. c \in Card /\ Fit(c, done.card) /\ done \in Outcome
  BY <1>1, InsertedCard, HandledCard
<1>3. Cost(c, done.card) \in Int
  BY <1>2 DEF Cost, Card, Fit
<1>4. burnt' = IF done.state = "Paused" /\ c.key /\ done.card.key /\ Cost(c, done.card) > 0
               THEN burnt + Cost(c, done.card) ELSE burnt
  BY DEF Handle
<1>5. /\ \/ state' = done.state /\ told' = done.signal
         \/ StoresPairing(done) /\ state' = state
  BY DEF Handle
<1>6. StoresPairing(done) => done.signal \in {"EnterMnemonic", "flow-result"} /\ type = "LoadAccount"
  BY DEF StoresPairing
<1> HIDE DEF c, done
<1>7. CASE burnt' = burnt
  BY <1>7
<1>8. CASE burnt' # burnt
  <2>1. done.state = "Paused" /\ burnt' = burnt + 1
    BY <1>2, <1>3, <1>4, <1>8 DEF Fit
  <2>2. ASSUME StoresPairing(done) PROVE FALSE
    <3>1. type = "LoadAccount" /\ done.signal \in {"EnterMnemonic", "flow-result"}
      BY <2>2, <1>6
    <3>2. Handling(c, done)
      BY <1>1, <3>1, HandledCard DEF c, done
    <3>3. done.signal = "EnterMnemonic"
      BY <2>1, <3>1, <3>2 DEF Handling, Questions
    <3>4. ~done.card.key
      BY <1>1, <1>2, <3>1, <3>3, WordsOfBlank, InsertedCard DEF c, done
    <3>5. QED
      BY <3>4, <1>4, <1>8
  <2>3. QED
    BY <2>1, <2>2, <1>5
<1>9. QED
  BY <1>7, <1>8

\* A client does not change its manners.
LEMMA MannersKept == [Next]_vars => calm' = calm
BY DEF Next, Client, FlowCall, DeviceCall, RunFlow, AnswerNoCard, Handle, StoreCards, Start, Resume,
       Cancel, ReaderPluggedIn, ReaderUnplugged, KeycardRemoved, KeycardInserted, RegisterKeycard,
       Restart, Call, Happens, Occurs, vars

\* One step for each action; the client's are made when no goroutine is left.
LEMMA CalmInvKept == CalmInv /\ [Next]_vars => CalmInv'
<1> SUFFICES ASSUME TypeInv, CalmFits, [Next]_vars, calm
             PROVE  ~panicked' /\ OneAtATime' /\ Budget' /\ ToldFits'
  BY TypeInvKept, MannersKept DEF CalmInv, CalmFits
<1>1. /\ ~panicked /\ OneAtATime /\ Budget /\ ToldFits
      /\ starting \in Nat /\ storing \in Nat /\ starting + storing <= 1
      /\ burnt \in Nat /\ calls \in Nat /\ state \in State
  BY DEF CalmFits, OneAtATime, TypeInv, TypeOK, State
<1>2. (Spawn /\ Quiet => starting' = 1) /\ (Quiet <=> starting = 0 /\ storing = 0)
  BY <1>1 DEF Spawn, Quiet
\* A step of the goroutines.
<1>3. CASE AnswerNoCard
  <2>1. /\ starting = 1 /\ starting' = 0 /\ storing' = storing /\ storing = 0
        /\ reader # "KeycardInserted"
    BY <1>1, <1>3 DEF AnswerNoCard
  <2>2. UNCHANGED <<state, type, reader, inserted, panicked, calls, burnt>>
    BY <1>3 DEF AnswerNoCard, flow, device, bounds
  <2>3. OneAtATime'
    BY <2>1 DEF OneAtATime
  <2>4. Budget'
    BY <1>1, <2>1, <2>2 DEF Budget, Pending
  <2>5. told' = IF reader = "NoReader" THEN "flow-result" ELSE "insert-card"
    BY <1>3 DEF AnswerNoCard, NoCardSignal
  <2>6. ToldFits'
    BY <1>1, <2>1, <2>2, <2>5 DEF ToldFits
  <2>7. QED
    BY <1>1, <2>2, <2>3, <2>4, <2>6
<1>4. CASE Handle
  <2>1. /\ starting' = 0 /\ storing' = 1 /\ inserted # None /\ state # "Idle"
        /\ device' = device /\ type' = type /\ panicked' = panicked /\ calls' = calls
        /\ \/ state' = "Paused" /\ told' \in Questions
           \/ state' = "Idle" /\ told' = "flow-result"
           \/ type = "ChangePIN" /\ state' = state /\ told' = "flow-result"
           \/ state' = state /\ told' = told
    BY <1>4, HandleSays DEF Handle
  <2>2. OneAtATime'
    BY <2>1 DEF OneAtATime, device
  <2>3. Pending /\ starting > 0
    BY <1>4 DEF Handle, Pending
  <2>4. Budget'
    <3>1. burnt + 1 <= calls
      BY <1>1, <2>3 DEF Budget
    <3>2. burnt' = burnt \/ (burnt' = burnt + 1 /\ state' = "Paused")
      BY <1>4, HandleCosts
    <3>3. state' = "Paused" => ~Pending'
      BY <2>1 DEF Pending
    <3>4. QED
      BY <1>1, <2>1, <3>1, <3>2, <3>3 DEF Budget
  <2>5. ToldFits'
    BY <1>1, <2>1, <2>3 DEF ToldFits, device, Questions
  <2>6. QED
    BY <1>1, <2>1, <2>2, <2>4, <2>5
<1>5. CASE StoreCards
  <2>1. starting' = starting /\ storing' = storing - 1 /\ inserted # None
    BY <1>1, <1>5 DEF StoreCards, OneAtATime
  <2>2. UNCHANGED <<state, type, reader, inserted, told, panicked, calls, burnt>>
    BY <1>5, <2>1 DEF StoreCards, flow, device
  <2>3. QED
    BY <1>1, <2>1, <2>2 DEF OneAtATime, Budget, Pending, ToldFits
\* A step of the client, who waits for the goroutines.
<1>6. ASSUME NEW t \in Flows, NEW p \in Opening, Quiet, Start(t, p)
      PROVE  ~panicked' /\ OneAtATime' /\ Budget' /\ ToldFits'
  <2>1. /\ state' = "Running" /\ told' = None /\ reader' = reader /\ reader # "NoReader"
        /\ starting' = 1 /\ storing' = 0 /\ panicked' = panicked
        /\ burnt' = burnt /\ calls' = calls + 1
    BY <1>2, <1>6 DEF Start, Call, device
  <2>2. QED
    BY <1>1, <2>1 DEF OneAtATime, Budget, Pending, ToldFits
<1>7. ASSUME NEW p \in Answers, Quiet, Resume(p)
      PROVE  ~panicked' /\ OneAtATime' /\ Budget' /\ ToldFits'
  <2>1. /\ state = "Paused" /\ state' = state /\ told' = None /\ reader' = reader
        /\ starting' = 1 /\ storing' = 0 /\ panicked' = panicked
        /\ burnt' = burnt /\ calls' = calls + 1
    BY <1>2, <1>7 DEF Resume, Call, device
  <2>2. None # "flow-result"
    BY Constants DEF Signal
  <2>3. QED
    BY <1>1, <2>1, <2>2 DEF OneAtATime, Budget, Pending, ToldFits
<1>8. CASE Quiet /\ Cancel
  <2>1. /\ state' = "Idle" /\ starting' = 0 /\ storing' = 0 /\ panicked' = panicked
        /\ burnt' = burnt /\ calls' = calls + 1
    BY <1>2, <1>8 DEF Cancel, Call, runs
  <2>2. QED
    BY <1>1, <2>1 DEF OneAtATime, Budget, Pending, ToldFits
<1>9. ASSUME Quiet, UNCHANGED <<state, type, told, panicked, burnt, calls>>, storing' = 0,
             reader' # "NoReader", RerunIf(state = "Running")
      PROVE  ~panicked' /\ OneAtATime' /\ Budget' /\ ToldFits'
  <2>1. CASE state = "Running"
    <3>1. starting' = 1
      BY <1>2, <1>9, <2>1 DEF RerunIf
    <3>2. QED
      BY <1>1, <1>9, <2>1, <3>1 DEF OneAtATime, Budget, Pending, ToldFits
  <2>2. CASE state # "Running"
    <3>1. starting' = 0
      BY <1>2, <1>9, <2>2 DEF RerunIf
    <3>2. QED
      BY <1>1, <1>9, <2>2, <3>1 DEF OneAtATime, Budget, Pending, ToldFits
  <2>3. QED
    BY <2>1, <2>2
<1>10. CASE Quiet /\ (ReaderPluggedIn \/ KeycardRemoved \/ \E i \in Slots : KeycardInserted(i))
  <2>1. /\ UNCHANGED <<state, type, told, panicked, burnt, calls>> /\ storing' = 0
        /\ reader' # "NoReader" /\ RerunIf(state = "Running")
    BY <1>2, <1>10 DEF ReaderPluggedIn, KeycardRemoved, KeycardInserted, Device, Happens, Occurs, flow
  <2>2. QED
    BY <1>9, <1>10, <2>1
<1>11. CASE Quiet /\ ReaderUnplugged
  <2>1. /\ state = "Idle" /\ state' = state /\ told = "flow-result" /\ told' = told
        /\ reader' = "NoReader" /\ starting' = 1 /\ storing' = 0 /\ panicked' = panicked
        /\ burnt' = burnt /\ calls' = calls
    BY <1>2, <1>11 DEF ReaderUnplugged, Happens, Occurs, Device, flow
  <2>2. QED
    BY <1>1, <2>1 DEF OneAtATime, Budget, Pending, ToldFits
<1>12. ASSUME Quiet, NEW i \in Slots, NEW r \in {"NoReader", "NoKeycard", "KeycardInserted"},
              NEW kind \in Kinds, RegisterKeycard(i, r, kind)
       PROVE  ~panicked' /\ OneAtATime' /\ Budget' /\ ToldFits'
  <2>1. /\ state' = "Idle" /\ starting' = 0 /\ storing' = 0 /\ panicked' = panicked
        /\ burnt' = burnt /\ calls' = calls
    BY <1>2, <1>12 DEF RegisterKeycard, Occurs, runs
  <2>2. QED
    BY <1>1, <2>1 DEF OneAtATime, Budget, Pending, ToldFits
<1>13. CASE Restart
  <2>1. /\ state' = "Idle" /\ starting' = 0 /\ storing' = 0 /\ panicked' = panicked
        /\ burnt' = burnt /\ calls' = calls
    BY <1>13 DEF Restart, Happens, Occurs
  <2>2. QED
    BY <1>1, <2>1 DEF OneAtATime, Budget, Pending, ToldFits
<1>14. CASE UNCHANGED vars
  BY <1>1, <1>14 DEF vars, flow, device, runs, bounds, OneAtATime, Budget, Pending, ToldFits
<1>15. QED
  BY <1>3, <1>4, <1>5, <1>6, <1>7, <1>8, <1>10, <1>11, <1>12, <1>13, <1>14
     DEF Next, Client, FlowCall, DeviceCall, RunFlow

\* The invariant of a calm client, from which the theorems below follow.
LEMMA CalmInvHolds == Spec => []CalmInv
BY CalmInitially, CalmInvKept, PTL DEF Spec

\* A calm client pays for each try with a call of its own: the events that
\* handle a flow again (mocked_flow.go:101, 128, 141) find a flow that has not
\* been handled since it was started, as a handler that counts a try down waits
\* for an answer.
THEOREM TriesAreCalls == Spec => []TriesAreAsked
<1>1. CalmInv => TriesAreAsked
  BY DEF CalmInv, CalmFits, Budget, TriesAreAsked, TypeInv, TypeOK
<1>2. QED
  BY <1>1, CalmInvHolds, PTL

\* The mock does not die under a calm client, which never takes the card from
\* a goroutine that is still to store it (mocked_flow.go:223).
THEOREM CalmNeverPanics == Spec => [](calm => NoPanic)
<1>1. CalmInv => (calm => NoPanic)
  BY DEF CalmInv, CalmFits, NoPanic
<1>2. QED
  BY <1>1, CalmInvHolds, PTL

-----------------------------------------------------------------------------
\* The promises of FlowProtocol.

\* Each step of the mock is one of the abstract flow, or none: End, Busy and
\* Request say which phase a state is shown as.
LEMMA ProtocolKept == CalmInv /\ [Next]_vars => [Protocol!Next]_(Protocol!vars)
<1> SUFFICES ASSUME TypeInv, CalmFits, [Next]_vars PROVE [Protocol!Next]_(Protocol!vars)
  BY DEF CalmInv
<1>1. calm' = calm
  BY MannersKept
<1>2. CASE ~calm
  <2>1. PhaseBar = "idle" /\ HeardBar = "nothing" /\ PhaseBar' = "idle" /\ HeardBar' = "nothing"
    BY <1>1, <1>2 DEF PhaseBar, HeardBar
  <2>2. QED
    BY <2>1 DEF Protocol!vars
<1>3. CASE calm
  <2> DEFINE End     == state = "Idle" \/ Resulted
             Busy    == starting > 0 \/ told = None
             Outcome1 == IF told = "flow-result" THEN "result" ELSE "nothing"
             Request == IF told = "insert-card" THEN "card"
                        ELSE IF state = "Paused" /\ told # "flow-result" THEN "question"
                        ELSE "result"
  <2>1. /\ End => PhaseBar = "idle" /\ HeardBar = Outcome1
        /\ ~End /\ Busy => PhaseBar = "working" /\ HeardBar = "nothing"
        /\ ~End /\ ~Busy => PhaseBar = "asking" /\ HeardBar = Request
    BY <1>3 DEF PhaseBar, HeardBar
  <2>2. /\ End' => PhaseBar' = "idle" /\ HeardBar' = Outcome1'
        /\ ~End' /\ Busy' => PhaseBar' = "working" /\ HeardBar' = "nothing"
        /\ ~End' /\ ~Busy' => PhaseBar' = "asking" /\ HeardBar' = Request'
    BY <1>1, <1>3 DEF PhaseBar, HeardBar
  <2>3. /\ ToldFits /\ starting \in Nat /\ storing \in Nat /\ starting + storing <= 1
        /\ state \in {"Idle", "Running", "Paused"} /\ None \notin Signal
        /\ (Quiet <=> starting = 0 /\ storing = 0) /\ (Quiet /\ Spawn => starting' = 1)
    BY <1>3, Constants DEF CalmFits, OneAtATime, TypeInv, TypeOK, Quiet, Spawn
  \* What a step does to the phase and to what the client has heard.
  <2> DEFINE Steps == UNCHANGED <<PhaseBar, HeardBar>> \/ Protocol!Next
  <2>4. Steps => [Protocol!Next]_(Protocol!vars)
    BY DEF Protocol!vars
  <2> SUFFICES Steps
    BY <2>4
  <2> DEFINE Moves(p, h, q, g) == PhaseBar = p /\ HeardBar = h /\ PhaseBar' = q /\ HeardBar' = g
  <2>5. /\ \A h \in {"nothing", "result"} : Moves("idle", h, "working", "nothing") => Protocol!Start
        /\ Moves("asking", "question", "working", "nothing") => Protocol!Resume
        /\ Moves("asking", "card", "working", "nothing") => Protocol!Inserted
        /\ \A h \in {"card", "question"} : Moves("asking", h, "idle", "nothing") => Protocol!Cancel
        /\ Moves("working", "nothing", "asking", "question") => Protocol!Ask
        /\ Moves("working", "nothing", "asking", "card") => Protocol!AskCard
        /\ Moves("working", "nothing", "idle", "result") => Protocol!End
    BY DEF Protocol!Start, Protocol!Resume, Protocol!Inserted, Protocol!Cancel, Protocol!Ask,
           Protocol!AskCard, Protocol!End, Protocol!Becomes
  <2>6. /\ \A h \in {"nothing", "result"} : Moves("idle", h, "working", "nothing") => Steps
        /\ \A h \in {"card", "question"} : Moves("asking", h, "working", "nothing") => Steps
        /\ \A h \in {"card", "question"} : Moves("asking", h, "idle", "nothing") => Steps
        /\ \A h \in {"card", "question"} : Moves("working", "nothing", "asking", h) => Steps
        /\ Moves("working", "nothing", "idle", "result") => Steps
        /\ \A p, h : Moves(p, h, p, h) => Steps
    BY <2>5 DEF Protocol!Next
  <2>7. /\ Outcome1 \in {"nothing", "result"} /\ Outcome1' \in {"nothing", "result"}
        /\ ~End /\ ~Busy => Request \in {"card", "question"}
    <3>1. starting = 0 /\ state # "Idle" /\ ~Resulted /\ told \notin {None, "insert-card"}
          => state = "Paused" /\ told # "flow-result"
      BY <2>3 DEF ToldFits, Resulted
    <3>2. QED
      BY <2>3, <3>1
  <2> HIDE DEF Steps, Moves
  <2>8. ASSUME ~End', Busy' PROVE Steps
    <3>1. PhaseBar' = "working" /\ HeardBar' = "nothing"
      BY <2>2, <2>8
    <3>2. QED
      BY <2>1, <2>6, <2>7, <3>1 DEF Moves
  <2>9. ASSUME End, End', told' = told PROVE Steps
    BY <2>1, <2>2, <2>6, <2>9 DEF Moves
  <2>10. UNCHANGED <<starting, state, type, told>> => Steps
    BY <1>1, <2>6 DEF Moves, PhaseBar, HeardBar, Resulted
  <2> HIDE DEF End, Busy, Outcome1, Request
  <2>11. CASE AnswerNoCard
    <3>1. /\ starting = 1 /\ starting' = 0 /\ state' = state /\ type' = type
          /\ told' = IF reader = "NoReader" THEN "flow-result" ELSE "insert-card"
      BY <2>3, <2>11 DEF AnswerNoCard, flow, NoCardSignal
    <3>2. CASE state = "Idle"
      BY <2>3, <2>9, <3>1, <3>2 DEF End, ToldFits
    <3>3. CASE state # "Idle"
      <4>1. ~End /\ Busy
        BY <3>1, <3>3 DEF End, Busy, Resulted
      <4>2. told' = "insert-card"
        BY <2>3, <3>1, <3>3 DEF ToldFits
      <4>3. ~End' /\ ~Busy' /\ Request' = "card"
        BY <2>3, <3>1, <3>3, <4>2 DEF End, Busy, Resulted, Request, Signal
      <4>4. QED
        BY <2>1, <2>2, <2>6, <4>1, <4>3 DEF Moves
    <3>4. QED
      BY <3>2, <3>3
  <2>12. CASE Handle
    <3>1. /\ starting' = 0 /\ state # "Idle" /\ type' = type /\ starting > 0
          /\ \/ state' = "Paused" /\ told' \in Questions
             \/ state' = "Idle" /\ told' = "flow-result"
             \/ type = "ChangePIN" /\ state' = state /\ told' = "flow-result"
             \/ state' = state /\ told' = told
      BY <1>3, <2>12, HandleSays DEF Handle
    <3>2. ~End /\ Busy
      BY <3>1 DEF End, Busy, Resulted
    <3>3. CASE state' = "Paused" /\ told' \in Questions
      <4>1. ~End' /\ ~Busy' /\ Request' = "question"
        BY <2>3, <3>1, <3>3 DEF End, Busy, Resulted, Request, Questions, Signal
      <4>2. QED
        BY <2>1, <2>2, <2>6, <3>2, <4>1 DEF Moves
    <3>4. CASE \/ state' = "Idle" /\ told' = "flow-result"
               \/ type = "ChangePIN" /\ told' = "flow-result"
      <4>1. End' /\ Outcome1' = "result"
        BY <3>1, <3>4 DEF End, Resulted, Outcome1
      <4>2. QED
        BY <2>1, <2>2, <2>6, <3>2, <4>1 DEF Moves
    <3>5. CASE state' = state /\ told' = told
      <4>1. \/ told = None \/ told = "insert-card" \/ (type = "ChangePIN" /\ told = "flow-result")
        BY <2>3, <3>1 DEF ToldFits
      <4>2. CASE told = None
        <5>1. ~End' /\ Busy'
          BY <2>3, <3>1, <3>5, <4>2 DEF End, Busy, Resulted, Signal
        <5>2. QED
          BY <2>8, <5>1
      <4>3. CASE told = "insert-card"
        <5>1. ~End' /\ ~Busy' /\ Request' = "card"
          BY <2>3, <3>1, <3>5, <4>3 DEF End, Busy, Resulted, Request, Signal
        <5>2. QED
          BY <2>1, <2>2, <2>6, <3>2, <5>1 DEF Moves
      <4>4. QED
        BY <3>4, <3>5, <4>1, <4>2, <4>3
    <3>6. QED
      BY <3>1, <3>3, <3>4, <3>5
  <2>13. CASE StoreCards
    BY <2>10, <2>13 DEF StoreCards, flow
  <2>14. ASSUME starting' > 0, state' # "Idle" PROVE Steps
    <3>1. ~End' /\ Busy'
      BY <2>14 DEF End, Busy, Resulted
    <3>2. QED
      BY <2>8, <3>1
  <2>15. ASSUME NEW t \in Flows, NEW p \in Opening, Quiet, Start(t, p) PROVE Steps
    BY <2>3, <2>14, <2>15 DEF Start
  <2>16. ASSUME NEW p \in Answers, Quiet, Resume(p) PROVE Steps
    BY <2>3, <2>14, <2>16 DEF Resume
  <2>17. CASE Quiet /\ Cancel
    <3>1. /\ state' = "Idle" /\ told' = told /\ state # "Idle" /\ told # None /\ starting = 0
      BY <1>3, <2>3, <2>17 DEF Cancel, Call
    <3>2. CASE End
      BY <2>9, <3>1, <3>2 DEF End
    <3>3. CASE ~End
      <4>1. ~Busy /\ End'
        BY <3>1 DEF Busy, End
      <4>2. told # "flow-result"
        BY <2>3, <3>1, <3>3 DEF End, Resulted, ToldFits
      <4>3. Outcome1' = "nothing"
        BY <3>1, <4>2 DEF Outcome1
      <4>4. QED
        BY <2>1, <2>2, <2>6, <2>7, <3>3, <4>1, <4>3 DEF Moves
    <3>4. QED
      BY <3>2, <3>3
  <2>18. CASE Quiet /\ (ReaderPluggedIn \/ KeycardRemoved \/ \E i \in Slots : KeycardInserted(i))
    <3>1. UNCHANGED <<state, type, told>> /\ RerunIf(state = "Running")
      BY <2>18 DEF ReaderPluggedIn, KeycardRemoved, KeycardInserted, flow
    <3>2. CASE state = "Running"
      BY <2>3, <2>14, <2>18, <3>1, <3>2 DEF RerunIf
    <3>3. CASE state # "Running"
      BY <2>10, <3>1, <3>3 DEF RerunIf
    <3>4. QED
      BY <3>2, <3>3
  <2>19. CASE Quiet /\ (\/ ReaderUnplugged
                        \/ \E i \in Slots, r \in {"NoReader", "NoKeycard", "KeycardInserted"},
                              kind \in Kinds : RegisterKeycard(i, r, kind))
    <3>1. state = "Idle" /\ state' = "Idle" /\ told' = told
      BY <1>3, <2>19 DEF ReaderUnplugged, RegisterKeycard, flow
    <3>2. QED
      BY <2>9, <3>1 DEF End
  <2>20. CASE Restart
    <3>1. state = "Idle" /\ state' = "Idle" /\ told' = told
      BY <1>3, <2>20 DEF Restart
    <3>2. QED
      BY <2>9, <3>1 DEF End
  <2>21. CASE UNCHANGED vars
    BY <2>10, <2>21 DEF vars, flow, runs
  <2>22. QED
    BY <1>3, <2>11, <2>12, <2>13, <2>15, <2>16, <2>17, <2>18, <2>19, <2>20, <2>21
       DEF Next, Client, FlowCall, DeviceCall, RunFlow
<1>4. QED
  BY <1>2, <1>3

\* For a calm client, the mock is a flow as FlowProtocol describes it: whichever
\* handler runs, and however often the reader runs it again, what it asks can be
\* answered and what it ends can be followed by another flow; only the result of
\* ChangePIN is taken for an end without that (mocked_flow.go:54-221).
THEOREM KeepsProtocol == Spec => ImplementsProtocol
<1>1. Init => Protocol!Init
  BY Constants DEF Init, Protocol!Init, PhaseBar, HeardBar, Signal
<1>2. QED
  BY <1>1, ProtocolKept, CalmInvHolds, PTL DEF Spec, ImplementsProtocol, Protocol!Safety
=============================================================================
