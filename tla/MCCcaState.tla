----------------------------- MODULE MCCcaState -----------------------------
(***************************************************************************)
(* Instances of CcaState for TLC.                                          *)
(***************************************************************************)
EXTENDS CcaState

Sym == Permutations(Seqs)
=============================================================================
