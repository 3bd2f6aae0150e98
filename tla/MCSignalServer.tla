---------------------------- MODULE MCSignalServer ----------------------------
(***************************************************************************)
(* Values for the constants of SignalServer.                               *)
(***************************************************************************)
EXTENDS SignalServer, TLC

Symmetry == Permutations(Publishers) \cup Permutations(Connections)
=============================================================================
