----------------------------- MODULE MCGetodac -----------------------------
(***************************************************************************)
(* Instances of Getodac for TLC.                                           *)
(***************************************************************************)
EXTENDS GetodacInv, TLC

Symmetry == Permutations(Session) \cup Permutations(Fd)
=============================================================================
