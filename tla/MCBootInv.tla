----------------------------- MODULE MCBootInv -----------------------------
(***************************************************************************)
(* The invariant of the proofs on the images of MCBoot that fit.           *)
(***************************************************************************)
EXTENDS MCBoot, BootInv

=============================================================================
