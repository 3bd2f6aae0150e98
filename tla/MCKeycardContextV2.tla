-------------------------- MODULE MCKeycardContextV2 --------------------------
(***************************************************************************)
(* Small instances of KeycardContextV2 for TLC: the cards that are met, the *)
(* places where they may be at Start, and the work of the clients.         *)
(***************************************************************************)
EXTENDS KeycardContextV2, TLC

AllOps == Op
NoStop == Op \ {"Stop"}
CardOps == Op \ {"Stop", "StoreMetadata"}
MetadataOps == {"VerifyPIN", "StoreMetadata", "GetMetadata"}
NoFaults == {}
AllFaults == Fault

EmptyCards == {EmptyCard}
UsedCards == {InitializedCard(MaxPIN, MaxPUK)}
CardsWithData == {[InitializedCard(MaxPIN, MaxPUK) EXCEPT !.data = TRUE]}
UsedOrEmpty == EmptyCards \cup CardsWithData
AnyKeycard == {EmptyCard} \cup {InitializedCard(n, m) : n \in 0..MaxPIN, m \in 0..MaxPUK}
MixedCards == {EmptyCard, ForeignCard, InitializedCard(MaxPIN, MaxPUK)}

\* Every reader attached, the cards outside.
NoCardInserted == {[r \in Readers |-> None]}
\* One of the cards in some reader, the other readers attached.
OneInserted == {[r \in Readers |-> IF r = q THEN c ELSE None] : q \in Readers, c \in Cards}
Anywhere == [Readers -> {None, Unplugged}] \cup OneInserted

Symmetry == Permutations(Monitors)
AllSymmetry == Permutations(Monitors) \cup Permutations(Clients)
=============================================================================
