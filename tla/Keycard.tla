------------------------------- MODULE Keycard -------------------------------
(***************************************************************************)
(* The smart card at the other end of the reader.  Its applet and the      *)
(* library github.com/status-im/keycard-go that talks to it are external:  *)
(* this module says only what the code under src/ relies on, one exchange  *)
(* (possibly of several APDUs) per command.                                *)
(*                                                                         *)
(* Secrets are not modelled: a command that carries a PIN, a PUK or a      *)
(* pairing password exists in a variant with the right secret and in one   *)
(* with a wrong secret.                                                    *)
(***************************************************************************)
EXTENDS Naturals

CONSTANTS
    MaxPIN,         \* attempts a fresh PIN allows
    MaxPUK,         \* attempts a fresh PUK allows
    MaxSlots        \* pairing slots of a fresh card

ASSUME KeycardAssumption ==
    /\ MaxPIN \in Nat \ {0}
    /\ MaxPUK \in Nat \ {0}
    /\ MaxSlots \in Nat

\* What the program can observe of a card.  "paired" says that the pairing
\* the program keeps on disk for this card is one the card still honours.
CardState ==
    [installed : BOOLEAN,    \* the Keycard applet is on the card
     init      : BOOLEAN,    \* PIN, PUK and pairing password are set
     default   : BOOLEAN,    \* the pairing password is the default one
     pin       : 0..MaxPIN,  \* remaining attempts
     puk       : 0..MaxPUK,
     keys      : BOOLEAN,    \* a seed has been loaded
     data      : BOOLEAN,    \* public metadata has been stored
     slots     : 0..MaxSlots,
     paired    : BOOLEAN,
     channel   : BOOLEAN,    \* the secure channel is open
     verified  : BOOLEAN]    \* the PIN has been verified on that channel

EmptyCard ==
    [installed |-> TRUE, init |-> FALSE, default |-> TRUE,
     pin |-> MaxPIN, puk |-> MaxPUK, keys |-> FALSE, data |-> FALSE,
     slots |-> MaxSlots, paired |-> FALSE, channel |-> FALSE, verified |-> FALSE]

\* A card that was set up somewhere else, with the given attempts left.
InitializedCard(pin, puk) ==
    [EmptyCard EXCEPT !.init = TRUE, !.pin = pin, !.puk = puk, !.keys = TRUE]

ForeignCard == [EmptyCard EXCEPT !.installed = FALSE]

\* Losing power, or selecting the applet, ends the session with the card.
EndSession(k) == [k EXCEPT !.channel = FALSE, !.verified = FALSE]

-----------------------------------------------------------------------------

InitCommands     == {"initDefault", "initCustom"}
ChannelCommands  == {"status", "verifyGood", "verifyBad", "unblockGood",
                     "unblockBad", "generate"}
PINCommands      == {"changePIN", "changePUK", "loadSeed", "storeData", "export"}
SelectCommands   == {"select", "reselect"}

Command == InitCommands \cup ChannelCommands \cup PINCommands \cup SelectCommands
             \cup {"pair", "open", "getData", "reset"}

\* "scard" stands for an error of the PC/SC layer (the card does not answer).
Outcome == {"ok", "wrong", "noslots", "err", "scard"}

\* The card answers a command with an error status, and does nothing, unless
\* its session has got far enough.
Accepts(k, command) ==
    \/ command \in SelectCommands
    \/ /\ k.installed
       /\ \/ command = "reset"
          \/ command \in InitCommands    /\ ~k.init
          \/ command = "getData"         /\ k.init
          \/ command = "pair"            /\ k.init /\ k.slots > 0 /\ k.default
          \/ command = "open"            /\ k.init /\ k.paired
          \/ command \in ChannelCommands /\ k.channel
          \/ command \in PINCommands     /\ k.verified

\* A wrong secret is accepted for processing, and then refused.
Verdict(k, command) ==
    IF \/ command = "verifyBad"
       \/ command = "verifyGood" /\ k.pin = 0
    THEN "wrong"
    ELSE IF \/ command = "unblockBad"
            \/ command = "unblockGood" /\ (k.pin > 0 \/ k.puk = 0)
         THEN "err"
         ELSE "ok"

Decrement(n) == IF n > 0 THEN n - 1 ELSE 0

Effect(k, command) ==
    CASE command \in SelectCommands -> EndSession(k)
      [] command = "reset" -> EmptyCard
      [] command \in InitCommands ->
            [k EXCEPT !.init = TRUE, !.default = (command = "initDefault")]
      [] command = "pair" -> [k EXCEPT !.slots = @ - 1, !.paired = TRUE]
      [] command = "open" -> [k EXCEPT !.channel = TRUE, !.verified = FALSE]
      [] command = "verifyGood" /\ k.pin > 0 ->
            [k EXCEPT !.pin = MaxPIN, !.verified = TRUE]
      [] command = "verifyBad" ->
            [k EXCEPT !.pin = Decrement(@), !.verified = FALSE]
      [] command = "unblockGood" /\ k.pin = 0 /\ k.puk > 0 ->
            [k EXCEPT !.pin = MaxPIN, !.puk = MaxPUK, !.verified = TRUE]
      [] command = "unblockBad" /\ k.pin = 0 -> [k EXCEPT !.puk = Decrement(@)]
      [] command = "loadSeed" -> [k EXCEPT !.keys = TRUE]
      [] command = "storeData" -> [k EXCEPT !.data = TRUE]
      [] OTHER -> k

\* The card after a command, and the outcome the caller sees.
After(k, command) == IF Accepts(k, command) THEN Effect(k, command) ELSE k

Answer(k, command) ==
    IF Accepts(k, command) THEN Verdict(k, command)
    ELSE IF command = "pair" /\ k.installed /\ k.init /\ k.slots = 0 THEN "noslots"
         ELSE "err"
=============================================================================
