----------------------------- MODULE RoundRobin -----------------------------
(***************************************************************************)
(* What the scheduler of proc.c promises: members are admitted one after   *)
(* the other and then take turns in the order of their admission; a member *)
(* keeps its turn for exactly as many ticks as its quota, the first member *)
(* for FirstQuota ticks the first time.                                    *)
(***************************************************************************)
EXTENDS Naturals

CONSTANTS
    N,          \* number of members, at least one
    Quota,      \* ticks per turn of each member, a function on 0 .. N - 1
    FirstQuota  \* ticks of the very first turn

VARIABLES
    members,  \* number of members admitted
    turn,     \* the member whose turn it is
    left      \* ticks each member has left

rrVars == <<members, turn, left>>

Init == members = 0 /\ turn = 0 /\ left = [i \in 0 .. N - 1 |-> 0]

\* proc_queue_add
Admit ==
    /\ members < N
    /\ members' = members + 1
    /\ left' = [left EXCEPT ![members] =
                    IF members = 0 THEN FirstQuota ELSE Quota[members]]
    /\ UNCHANGED turn

\* proc_next
Tick ==
    /\ members = N
    /\ \/ /\ left[turn] > 1
          /\ left' = [left EXCEPT ![turn] = @ - 1]
          /\ UNCHANGED turn
       \/ /\ left[turn] = 1
          /\ left' = [left EXCEPT ![turn] = Quota[turn]]
          /\ turn' = (turn + 1) % N
    /\ UNCHANGED members

Next == Admit \/ Tick

Spec == Init /\ [][Next]_rrVars

=============================================================================
