---------------------------- MODULE AbstractLock ----------------------------
(***************************************************************************)
(* What every lock of this repository promises to its callers: an          *)
(* exclusive holder is alone, shared holders only keep other shared        *)
(* holders company.  The lock benchmarks are shown to implement it.        *)
(***************************************************************************)
CONSTANT Threads            \* the threads that may hold the lock

VARIABLES exclusive,        \* the threads that hold the lock exclusively
          shared            \* the threads that hold it shared

lockVars == <<exclusive, shared>>

Init == exclusive = {} /\ shared = {}

AcquireExclusive(t) ==
  /\ exclusive = {} /\ shared = {}
  /\ exclusive' = {t}
  /\ UNCHANGED shared

AcquireShared(t) ==
  /\ exclusive = {}
  /\ t \notin shared
  /\ shared' = shared \cup {t}
  /\ UNCHANGED exclusive

ReleaseExclusive(t) ==
  /\ t \in exclusive
  /\ exclusive' = exclusive \ {t}
  /\ UNCHANGED shared

ReleaseShared(t) ==
  /\ t \in shared
  /\ shared' = shared \ {t}
  /\ UNCHANGED exclusive

Next == \E t \in Threads :
          \/ AcquireExclusive(t) \/ ReleaseExclusive(t)
          \/ AcquireShared(t) \/ ReleaseShared(t)

Spec == Init /\ [][Next]_lockVars
=============================================================================
