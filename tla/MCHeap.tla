------------------------------- MODULE MCHeap -------------------------------
(***************************************************************************)
(* Instances of Heap for TLC, with pages of a few cells instead of 512.    *)
(***************************************************************************)
EXTENDS HeapInv

NoPages == <<>>
TwoPages == <<1, 2>>
EightPages == <<1, 2, 3, 4, 5, 6, 7, 8>>
=============================================================================
