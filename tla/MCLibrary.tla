------------------------------ MODULE MCLibrary ------------------------------
(***************************************************************************)
(* Values for the constants of Library.                                    *)
(***************************************************************************)
EXTENDS Library, TLC

NoFaults  == {}
AllFaults == {"no-pcsc", "save", "crash"}

Symmetry == Permutations(Objects) \cup Permutations(Cards)
=============================================================================
