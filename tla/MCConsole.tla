----------------------------- MODULE MCConsole -----------------------------
(***************************************************************************)
(* The instance of Console for TLC: what the processes print is the same,  *)
(* so they are interchangeable.                                            *)
(***************************************************************************)
EXTENDS Console, TLC

ContextSymmetry == Permutations(Contexts)
=============================================================================
