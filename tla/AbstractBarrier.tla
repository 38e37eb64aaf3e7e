--------------------------- MODULE AbstractBarrier ---------------------------
(***************************************************************************)
(* What a barrier of this repository promises to the threads that meet at  *)
(* it: nobody works before all have come, and the next meeting begins only *)
(* when all have gone home.  The benchmarks' ways of starting their        *)
(* threads together are shown to implement it.                             *)
(***************************************************************************)
CONSTANT Parties            \* the threads the barrier was made for

VARIABLES waiting,          \* those that have come and wait for the others
          working           \* those that were let go and are still at work

barrierVars == <<waiting, working>>

Init == waiting = {} /\ working = {}

Comes(t) == working = {} /\ t \in Parties \ waiting

Arrive(t) ==
  /\ Comes(t) /\ waiting \cup {t} # Parties
  /\ waiting' = waiting \cup {t}
  /\ UNCHANGED working

\* The last to come lets all of them go at once.
Release(t) ==
  /\ Comes(t) /\ waiting \cup {t} = Parties
  /\ waiting' = {} /\ working' = Parties

Leave(t) ==
  /\ t \in working
  /\ working' = working \ {t}
  /\ UNCHANGED waiting

Next == \E t \in Parties : Arrive(t) \/ Release(t) \/ Leave(t)

Spec == Init /\ [][Next]_barrierVars
=============================================================================
