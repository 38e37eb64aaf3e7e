-------------------------------- MODULE Handoff --------------------------------
(***************************************************************************)
(* What a context switch measurement promises: the token goes from the     *)
(* measuring side to its partner and back, a number of times, so that each *)
(* sample spans exactly one switch there and one back.                     *)
(***************************************************************************)
EXTENDS Integers

CONSTANT Limits    \* the numbers of rounds that may be asked for

VARIABLES limit,   \* the number of rounds asked for
          holder,  \* who has the token
          rounds   \* how often it has come back

vars == <<limit, holder, rounds>>

Init == limit \in Limits /\ holder = "parent" /\ rounds = 0

Give == /\ holder = "parent" /\ rounds < limit
        /\ holder' = "child"
        /\ UNCHANGED <<limit, rounds>>

GiveBack == /\ holder = "child"
            /\ holder' = "parent" /\ rounds' = rounds + 1
            /\ UNCHANGED limit

Next == Give \/ GiveBack

Spec == Init /\ [][Next]_vars
=============================================================================
