------------------------------- MODULE MCProc -------------------------------
(***************************************************************************)
(* Instances of Proc for TLC.  The code's priorities 30, 10, 10 and 10 for *)
(* PID 0 become 3, 1, 2 and 2: one slice longer than the idle loop's, one  *)
(* of a single tick, one of two.                                           *)
(***************************************************************************)
EXTENDS ProcInv

MCPriorities == <<3, 1, 2>>
MCTwo == <<2, 1>>
=============================================================================
