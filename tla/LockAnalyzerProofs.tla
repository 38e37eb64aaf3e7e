------------------------- MODULE LockAnalyzerProofs -------------------------
(***************************************************************************)
(* What LockAnalyzer guarantees for every number of workers, any set of    *)
(* lock classes, every limit of the spinning and every bound on the        *)
(* operations.                                                             *)
(***************************************************************************)
EXTENDS LockAnalyzer, SumTheorems

\* Who has been started is where StartWorker is; nobody works after the joins.
Lives ==
  /\ \A t \in Workers : started <= t => pc[t] = "unborn"
  /\ main \in {"analyze", "destroyed"} => \A t \in Workers : pc[t] = "done"

\* The lock's own records say exactly who is between lock and unlock, as long
\* as it is not AdaptiveMutex.
Recorded ==
  /\ lock_t \in {"MUTEX", "SHARED"} =>
       \A t \in Workers : /\ t \in holders <=> HasLock(t) /\ op[t] = "write"
                          /\ t \in sharers <=> HasLock(t) /\ op[t] = "read"
  /\ lock_t = "SPIN" => (flag <=> \E t \in Workers : HasLock(t))
  /\ lock_t # "SHARED" => \A t \in Workers : op[t] = "write"

\* What a lock does not use stays as it was.
Unused ==
  /\ lock_t \notin {"MUTEX", "SHARED"} => holders = {} /\ sharers = {}
  /\ lock_t # "SPIN" => ~flag
  /\ lock_t # "ADAPTIVE" => /\ state = 0 /\ fallback = None
                            /\ \A t \in Workers : pc[t] \notin {"announce", "release"}

\* AdaptiveMutex: the word says "taken" only while somebody is inside, and
\* the fallback mutex belongs to somebody on the way to its unlock.
AdaptiveRecords ==
  /\ state = 1 => \E t \in Workers : HasLock(t)
  /\ \A t \in Workers :
       fallback = t => pc[t] \in {"announce", "contended", "acquired", "work", "unlock", "release"}

\* The inductive invariant, beside the types.
AnalyzerInv == Lives /\ Recorded /\ Unused /\ AdaptiveRecords /\ OtherLocksProtect

\* Every variable keeps its type.
THEOREM TypeCorrect == Spec => []TypeOK
<1>1. Init => TypeOK
  <2> SUFFICES ASSUME Init PROVE TypeOK
    OBVIOUS
  <2>1. 0 \in 0..NumThreads /\ 0 \in 0..SPIN_LIMIT
    BY AnalyzerAssumption DEF AnalyzerAssumption
  <2> QED
    BY <2>1 DEF Init, TypeOK
<1>2. TypeOK /\ [Next]_vars => TypeOK'
  <2> SUFFICES ASSUME TypeOK, [Next]_vars PROVE TypeOK'
    OBVIOUS
  <2> USE DEF TypeOK, Goto, runVars, stdVars, adaptiveVars, dataVars
  <2>1. CASE Main
    <3>1. CASE StartWorker
      <4>1. started' \in 0..NumThreads
        BY <3>1, AnalyzerAssumption DEF AnalyzerAssumption, StartWorker
      <4> QED
        BY <3>1, <4>1 DEF StartWorker
    <3>2. CASE DurationOver \/ JoinsAll \/ AnalyzeAndDestroy
      BY <3>2 DEF DurationOver, JoinsAll, AnalyzeAndDestroy
    <3> QED
      BY <2>1, <3>1, <3>2 DEF Main
  <2>2. CASE VizStep
    BY <2>2 DEF VizStep
  <2>3. ASSUME NEW t \in Workers, Worker(t) PROVE TypeOK'
    <3>1. ASSUME Take(t) PROVE /\ holders' \subseteq Workers /\ sharers' \subseteq Workers
                               /\ flag' \in BOOLEAN /\ state' \in {0, 1}
                               /\ fallback' = fallback /\ spins' \in [Workers -> 0..SPIN_LIMIT]
      <4>1. 0 \in 0..SPIN_LIMIT
        BY AnalyzerAssumption DEF AnalyzerAssumption
      <4>2. CASE lock_t = "SPIN"
        BY <3>1, <4>2 DEF Take
      <4>3. CASE lock_t = "ADAPTIVE"
        BY <3>1, <4>1, <4>3 DEF Take
      <4>4. CASE lock_t \notin {"SPIN", "ADAPTIVE"}
        BY <3>1, <4>4 DEF Take
      <4> QED
        BY <4>2, <4>3, <4>4
    <3>2. CASE Stops(t)
      BY <3>2 DEF Stops
    <3>3. CASE ChooseOperation(t)
      <4>1. op' \in [Workers -> {"read", "write"}]
        BY <3>3 DEF ChooseOperation
      <4> QED
        BY <3>3, <4>1 DEF ChooseOperation
    <3>4. CASE TryLock(t)
      BY <3>1, <3>4 DEF TryLock
    <3>5. CASE Lock(t)
      BY <3>1, <3>5 DEF Lock
    <3>6. CASE SpinFails(t)
      BY <3>6, AnalyzerAssumption DEF AnalyzerAssumption, SpinFails
    <3>7. CASE FallbackLock(t)
      BY <3>7, AnalyzerAssumption DEF AnalyzerAssumption, FallbackLock
    <3>8. CASE StoreLocked(t)
      BY <3>8 DEF StoreLocked
    <3>9. CASE CountContention(t)
      BY <3>9 DEF CountContention, Count
    <3>10. CASE CountAcquisition(t)
      BY <3>10 DEF CountAcquisition, Count
    <3>11. CASE Work(t)
      BY <3>11 DEF Work
    <3>12. CASE Unlock(t)
      <4>1. flag' \in BOOLEAN
        BY <3>12 DEF Unlock
      <4> QED
        BY <3>12, <4>1 DEF Unlock
    <3>13. CASE FallbackUnlock(t)
      BY <3>13 DEF FallbackUnlock
    <3>14. CASE CountOperation(t)
      BY <3>14 DEF CountOperation, Count
    <3> QED
      BY <2>3, <3>2, <3>3, <3>4, <3>5, <3>6, <3>7, <3>8, <3>9, <3>10, <3>11, <3>12,
         <3>13, <3>14 DEF Worker
  <2>4. CASE StartFails \/ Over \/ UNCHANGED vars
    BY <2>4 DEF StartFails, Over, vars
  <2> QED
    BY <2>1, <2>2, <2>3, <2>4 DEF Next
<1> QED
  BY <1>1, <1>2, PTL DEF Spec

\* How a worker of a lock other than AdaptiveMutex gets in: nobody who could
\* be in its way is inside.
LEMMA TakesAlone ==
  ASSUME TypeOK, AnalyzerInv, NEW t \in Workers, FreeFor(t), lock_t # "ADAPTIVE"
  PROVE  \A u \in Workers : HasLock(u) => op[t] = "read" /\ op[u] = "read"
<1> USE DEF TypeOK, AnalyzerInv, Recorded
<1>1. CASE lock_t = "SPIN"
  BY <1>1 DEF FreeFor
<1>2. CASE lock_t \in {"MUTEX", "SHARED"}
  <2>1. holders = {} /\ (op[t] = "write" => sharers = {})
    BY <1>2 DEF FreeFor
  <2> QED
    BY <1>2, <2>1
<1> QED
  BY <1>1, <1>2, AnalyzerAssumption DEF AnalyzerAssumption

\* A worker that gets in by an atomic attempt (try_lock or lock) leaves the
\* invariant true.
LEMMA TakeStep ==
  ASSUME TypeOK, AnalyzerInv, NEW t \in Workers, FreeFor(t), Take(t),
         pc[t] \in {"try", "lock"}, NEW to \in {"acquired", "contended"},
         pc' = [pc EXCEPT ![t] = to], UNCHANGED <<runVars, op, dataVars>>
  PROVE  AnalyzerInv'
<1> USE DEF TypeOK, AnalyzerInv, HasLock, runVars, dataVars, stdVars, adaptiveVars
<1>1. /\ \A u \in Workers \ {t} : HasLock(u)' <=> HasLock(u)
      /\ HasLock(t)' /\ ~HasLock(t)
  OBVIOUS
<1>2. Lives'
  BY DEF Lives
<1>3. CASE lock_t = "SPIN"
  <2>1. flag' = TRUE /\ UNCHANGED <<stdVars, adaptiveVars>>
    BY <1>3 DEF Take
  <2>2. Recorded' /\ Unused' /\ AdaptiveRecords'
    BY <1>1, <1>3, <2>1 DEF Recorded, Unused, AdaptiveRecords
  <2>3. OtherLocksProtect'
    BY <1>1, <1>3, TakesAlone DEF OtherLocksProtect, DataProtected
  <2> QED
    BY <1>2, <2>2, <2>3
<1>4. CASE lock_t = "ADAPTIVE"
  <2>1. state' = 1 /\ UNCHANGED <<stdVars, flag, fallback>>
    BY <1>4 DEF Take
  <2>2. Recorded' /\ Unused' /\ AdaptiveRecords' /\ OtherLocksProtect'
    BY <1>1, <1>4, <2>1 DEF Recorded, Unused, AdaptiveRecords, OtherLocksProtect
  <2> QED
    BY <1>2, <2>2
<1>5. CASE lock_t \in {"MUTEX", "SHARED"}
  <2>1. /\ UNCHANGED <<flag, adaptiveVars>>
        /\ \/ op[t] = "write" /\ holders' = {t} /\ sharers' = sharers
           \/ op[t] = "read" /\ sharers' = sharers \cup {t} /\ holders' = holders
    BY <1>5 DEF Take
  <2>2. holders = {}
    BY <1>5 DEF FreeFor
  <2>3. Recorded' /\ Unused' /\ AdaptiveRecords'
    BY <1>1, <1>5, <2>1, <2>2 DEF Recorded, Unused, AdaptiveRecords
  <2>4. OtherLocksProtect'
    BY <1>1, <1>5, TakesAlone DEF OtherLocksProtect, DataProtected
  <2> QED
    BY <1>2, <2>3, <2>4
<1> QED
  BY <1>3, <1>4, <1>5, AnalyzerAssumption DEF AnalyzerAssumption

\* A step that moves nobody into the lock or out of it and leaves the lock
\* alone keeps the invariant.
LEMMA NeutralStep ==
  ASSUME TypeOK, AnalyzerInv, NEW t \in Workers, NEW from, NEW to,
         Goto(t, from, to), UNCHANGED <<runVars, stdVars, flag, state, fallback>>,
         from \in {"loop", "try", "lock", "contended", "acquired", "work", "finish"},
         to \in {"try", "lock", "acquired", "work", "unlock", "loop", "done"},
         to \in {"acquired", "work", "unlock"} <=> from \in {"contended", "acquired", "work"},
         \/ op' = op
         \/ /\ to \in {"try", "loop"} /\ \A u \in Workers \ {t} : op'[u] = op[u]
            /\ op'[t] \in {"read", "write"} /\ (lock_t # "SHARED" => op'[t] = "write")
  PROVE  AnalyzerInv'
<1> USE DEF TypeOK, AnalyzerInv, HasLock, Goto, runVars, stdVars
<1>1. \A u \in Workers : /\ HasLock(u)' <=> HasLock(u)
                         /\ HasLock(u) => op'[u] = op[u]
  OBVIOUS
<1>2. Lives'
  BY DEF Lives
<1>3. Recorded' /\ Unused' /\ AdaptiveRecords'
  BY <1>1 DEF Recorded, Unused, AdaptiveRecords
<1>4. OtherLocksProtect'
  BY <1>1 DEF OtherLocksProtect, DataProtected
<1> QED
  BY <1>2, <1>3, <1>4

\* AnalyzerInv holds in every state.
THEOREM AnalyzerInvariant == Spec => []AnalyzerInv
<1>1. Init => AnalyzerInv
  BY AnalyzerAssumption DEF AnalyzerAssumption, Init, AnalyzerInv, Lives, Recorded, Unused,
     AdaptiveRecords, OtherLocksProtect, DataProtected, HasLock
<1>2. TypeOK /\ AnalyzerInv /\ [Next]_vars => AnalyzerInv'
  <2> SUFFICES ASSUME TypeOK, AnalyzerInv, [Next]_vars PROVE AnalyzerInv'
    OBVIOUS
  <2>1. ASSUME UNCHANGED <<lock_t, pc, op, stdVars, flag, state, fallback>>, Lives'
        PROVE  AnalyzerInv'
    BY <2>1 DEF AnalyzerInv, Recorded, Unused, AdaptiveRecords, OtherLocksProtect,
       DataProtected, HasLock, stdVars
  <2>2. CASE Main
    <3>1. CASE StartWorker
      <4>1. started \in Workers /\ pc[started] = "unborn"
        BY <3>1, AnalyzerAssumption DEF AnalyzerAssumption, StartWorker, Workers,
           AnalyzerInv, Lives, TypeOK
      <4>2. /\ started' = started + 1 /\ pc' = [pc EXCEPT ![started] = "loop"]
            /\ UNCHANGED <<lock_t, main, op, stdVars, flag, state, fallback>>
            /\ main = "start"
        BY <3>1 DEF StartWorker, adaptiveVars
      <4>3. \A t \in Workers : HasLock(t)' <=> HasLock(t)
        BY <4>1, <4>2 DEF TypeOK, HasLock
      <4>4. Lives'
        BY <4>1, <4>2 DEF TypeOK, AnalyzerInv, Lives, Workers
      <4>5. Recorded' /\ OtherLocksProtect'
        BY <4>2, <4>3 DEF AnalyzerInv, Recorded, OtherLocksProtect, DataProtected, stdVars
      <4>6. Unused' /\ AdaptiveRecords'
        BY <4>1, <4>2, <4>3 DEF TypeOK, AnalyzerInv, Unused, AdaptiveRecords, stdVars
      <4> QED
        BY <4>4, <4>5, <4>6 DEF AnalyzerInv
    <3>2. CASE DurationOver \/ JoinsAll \/ AnalyzeAndDestroy
      <4>1. Lives'
        BY <3>2 DEF DurationOver, JoinsAll, AnalyzeAndDestroy, AnalyzerInv, Lives
      <4> QED
        BY <2>1, <3>2, <4>1 DEF DurationOver, JoinsAll, AnalyzeAndDestroy, adaptiveVars
    <3> QED
      BY <2>2, <3>1, <3>2 DEF Main
  <2>3. CASE VizStep \/ Over \/ UNCHANGED vars
    <3>1. UNCHANGED <<lock_t, main, started, pc, op, stdVars, flag, state, fallback>>
      BY <2>3 DEF VizStep, Over, vars, runVars, adaptiveVars
    <3> QED
      BY <2>1, <3>1 DEF AnalyzerInv, Lives
  <2>4. CASE StartFails
    <3>1. Lives'
      BY <2>4 DEF StartFails, AnalyzerInv, Lives
    <3> QED
      BY <2>1, <2>4, <3>1 DEF StartFails, adaptiveVars
  <2>5. ASSUME NEW t \in Workers, Worker(t) PROVE AnalyzerInv'
    <3> USE DEF adaptiveVars, Goto
    <3>1. CASE Stops(t)
      BY <3>1, NeutralStep DEF Stops
    <3>2. CASE ChooseOperation(t)
      <4>1. PICK kind \in IF lock_t = "SHARED" THEN {"read", "write"} ELSE {"write"} :
              op' = [op EXCEPT ![t] = kind]
        BY <3>2 DEF ChooseOperation
      <4>2. /\ op'[t] \in {"read", "write"} /\ (lock_t # "SHARED" => op'[t] = "write")
            /\ \A u \in Workers \ {t} : op'[u] = op[u]
        BY <4>1 DEF TypeOK
      <4> QED
        BY <3>2, <4>2, NeutralStep DEF ChooseOperation
    <3>3. CASE TryLock(t)
      <4>1. CASE FreeFor(t) /\ Take(t) /\ Goto(t, "try", "acquired")
        BY <3>3, <4>1, TakeStep DEF TryLock
      <4>2. CASE ~(FreeFor(t) /\ Take(t) /\ Goto(t, "try", "acquired"))
        BY <3>3, <4>2, NeutralStep DEF TryLock
      <4> QED
        BY <4>1, <4>2
    <3>4. CASE Lock(t)
      BY <3>4, TakeStep DEF Lock
    <3>5. CASE SpinFails(t)
      BY <2>1, <3>5 DEF SpinFails, AnalyzerInv, Lives, runVars
    <3>6. CASE FallbackLock(t)
      <4>1. /\ pc[t] = "lock" /\ pc' = [pc EXCEPT ![t] = "announce"] /\ fallback' = t
            /\ lock_t = "ADAPTIVE" /\ UNCHANGED <<runVars, op, stdVars, flag, state>>
        BY <3>6 DEF FallbackLock
      <4>2. \A u \in Workers : HasLock(u)' <=> HasLock(u)
        BY <4>1 DEF TypeOK, HasLock
      <4>3. Lives'
        BY <4>1 DEF TypeOK, AnalyzerInv, Lives, runVars
      <4>4. Recorded' /\ Unused' /\ OtherLocksProtect'
        BY <4>1, <4>2 DEF AnalyzerInv, Recorded, Unused, OtherLocksProtect, runVars, stdVars
      <4>5. AdaptiveRecords'
        BY <4>1, <4>2, AnalyzerAssumption
        DEF AnalyzerAssumption, TypeOK, AnalyzerInv, AdaptiveRecords
      <4> QED
        BY <4>3, <4>4, <4>5 DEF AnalyzerInv
    <3>7. CASE StoreLocked(t)
      <4>1. /\ pc[t] = "announce" /\ pc' = [pc EXCEPT ![t] = "contended"] /\ state' = 1
            /\ UNCHANGED <<runVars, op, stdVars, flag, fallback>>
        BY <3>7 DEF StoreLocked
      <4>2. lock_t = "ADAPTIVE"
        BY <4>1 DEF AnalyzerInv, Unused
      <4>3. Lives'
        BY <4>1 DEF TypeOK, AnalyzerInv, Lives, runVars
      <4>4. Recorded' /\ Unused' /\ OtherLocksProtect'
        BY <4>1, <4>2 DEF AnalyzerInv, Recorded, Unused, OtherLocksProtect, runVars, stdVars
      <4>5. AdaptiveRecords'
        BY <4>1, <4>2 DEF TypeOK, AnalyzerInv, AdaptiveRecords, HasLock
      <4> QED
        BY <4>3, <4>4, <4>5 DEF AnalyzerInv
    <3>8. CASE CountContention(t)
      BY <3>8, NeutralStep DEF CountContention
    <3>9. CASE CountAcquisition(t)
      BY <3>9, NeutralStep DEF CountAcquisition
    <3>10. CASE Work(t)
      BY <3>10, NeutralStep DEF Work
    <3>11. CASE Unlock(t)
      <4> DEFINE to == IF lock_t = "ADAPTIVE" THEN "release" ELSE "finish"
      <4>1. /\ pc[t] = "unlock" /\ pc' = [pc EXCEPT ![t] = to] /\ to \in {"release", "finish"}
            /\ holders' = holders \ {t} /\ sharers' = sharers \ {t} /\ state' = 0
            /\ flag' = (flag /\ lock_t # "SPIN") /\ UNCHANGED <<runVars, op, fallback>>
        BY <3>11 DEF Unlock
      <4>2. \A u \in Workers : HasLock(u)' <=> HasLock(u) /\ u # t
        BY <4>1 DEF TypeOK, HasLock
      <4>3. HasLock(t)
        BY <4>1 DEF HasLock
      <4>4. Lives'
        BY <4>1 DEF TypeOK, AnalyzerInv, Lives, runVars
      <4>5. OtherLocksProtect'
        BY <4>1, <4>2 DEF AnalyzerInv, OtherLocksProtect, DataProtected, runVars
      <4>6. Recorded'
        <5>1. CASE lock_t \in {"MUTEX", "SHARED"}
          BY <4>1, <4>2, <5>1 DEF AnalyzerInv, Recorded, runVars
        <5>2. CASE lock_t = "SPIN"
          <6>1. \A u \in Workers \ {t} : ~HasLock(u)
            BY <4>3, <5>2 DEF AnalyzerInv, Recorded, OtherLocksProtect, DataProtected
          <6> QED
            BY <4>1, <4>2, <5>2, <6>1 DEF AnalyzerInv, Recorded, runVars
        <5>3. CASE lock_t \notin {"MUTEX", "SHARED", "SPIN"}
          BY <4>1, <5>3 DEF AnalyzerInv, Recorded, runVars
        <5> QED
          BY <5>1, <5>2, <5>3
      <4>7. Unused'
        <5>1. lock_t \notin {"MUTEX", "SHARED"} => holders' = {} /\ sharers' = {}
          BY <4>1 DEF AnalyzerInv, Unused
        <5>2. lock_t # "SPIN" => ~flag'
          BY <4>1 DEF AnalyzerInv, Unused
        <5>3. lock_t # "ADAPTIVE" => \A u \in Workers : pc'[u] \notin {"announce", "release"}
          BY <4>1 DEF TypeOK, AnalyzerInv, Unused
        <5> QED
          BY <4>1, <5>1, <5>2, <5>3 DEF AnalyzerInv, Unused, runVars
      <4>8. AdaptiveRecords'
        <5>1. fallback = t => lock_t = "ADAPTIVE"
          BY AnalyzerAssumption DEF AnalyzerAssumption, AnalyzerInv, Unused
        <5> QED
          BY <4>1, <5>1 DEF TypeOK, AnalyzerInv, AdaptiveRecords
      <4> QED
        BY <4>4, <4>5, <4>6, <4>7, <4>8 DEF AnalyzerInv
    <3>12. CASE FallbackUnlock(t)
      <4>1. /\ pc[t] = "release" /\ pc' = [pc EXCEPT ![t] = "finish"]
            /\ fallback' = None \/ (fallback # t /\ fallback' = fallback)
            /\ UNCHANGED <<runVars, op, stdVars, flag, state>>
        BY <3>12 DEF FallbackUnlock
      <4>2. \A u \in Workers : HasLock(u)' <=> HasLock(u)
        BY <4>1 DEF TypeOK, HasLock
      <4>3. Lives'
        BY <4>1 DEF TypeOK, AnalyzerInv, Lives, runVars
      <4>4. Recorded' /\ OtherLocksProtect'
        BY <4>1, <4>2 DEF AnalyzerInv, Recorded, OtherLocksProtect, DataProtected,
                          runVars, stdVars
      <4>5. Unused'
        BY <4>1 DEF TypeOK, AnalyzerInv, Unused, runVars, stdVars
      <4>6. AdaptiveRecords'
        BY <4>1, <4>2, AnalyzerAssumption
        DEF AnalyzerAssumption, TypeOK, AnalyzerInv, AdaptiveRecords
      <4> QED
        BY <4>3, <4>4, <4>5, <4>6 DEF AnalyzerInv
    <3>13. CASE CountOperation(t)
      <4>1. /\ op'[t] = "write" /\ \A u \in Workers \ {t} : op'[u] = op[u]
        BY <3>13 DEF CountOperation, TypeOK
      <4> QED
        BY <3>13, <4>1, NeutralStep DEF CountOperation
    <3> QED
      BY <2>5, <3>1, <3>2, <3>3, <3>4, <3>5, <3>6, <3>7, <3>8, <3>9, <3>10, <3>11,
         <3>12, <3>13 DEF Worker
  <2> QED
    BY <2>2, <2>3, <2>4, <2>5 DEF Next
<1> QED
  BY <1>1, <1>2, TypeCorrect, PTL DEF Spec

\* "Shared data protected by the lock" (line 218) is true of std::mutex,
\* std::recursive_mutex, std::shared_mutex and SpinLock.
THEOREM DataIsProtected == Spec => []OtherLocksProtect
<1>1. AnalyzerInv => OtherLocksProtect
  BY DEF AnalyzerInv
<1> QED
  BY <1>1, AnalyzerInvariant, PTL

\* The destructor finds every lock free, and both halves of AdaptiveMutex,
\* although its unlock frees what it may not own.
THEOREM FreeWhenDestroyed == Spec => []DestroyedFree
<1>1. TypeOK /\ AnalyzerInv => DestroyedFree
  <2> SUFFICES ASSUME TypeOK, AnalyzerInv, main = "destroyed"
               PROVE  holders = {} /\ sharers = {} /\ ~flag /\ state = 0 /\ fallback = None
    BY DEF DestroyedFree
  <2>1. \A t \in Workers : pc[t] = "done" /\ ~HasLock(t)
    BY DEF AnalyzerInv, Lives, HasLock
  <2>2. state = 0 /\ fallback = None
    BY <2>1 DEF TypeOK, AnalyzerInv, AdaptiveRecords
  <2>3. holders = {} /\ sharers = {}
    <3>1. CASE lock_t \in {"MUTEX", "SHARED"}
      BY <2>1, <3>1 DEF TypeOK, AnalyzerInv, Recorded
    <3> QED
      BY <3>1 DEF AnalyzerInv, Unused
  <2>4. ~flag
    <3>1. CASE lock_t = "SPIN"
      BY <2>1, <3>1 DEF AnalyzerInv, Recorded
    <3> QED
      BY <3>1 DEF AnalyzerInv, Unused
  <2> QED
    BY <2>2, <2>3, <2>4
<1> QED
  BY <1>1, TypeCorrect, AnalyzerInvariant, PTL

-----------------------------------------------------------------------------
(* The other locks implement AbstractLock *)

Guarded == lock_t # "ADAPTIVE"
Writers == {t \in Workers : Guarded /\ HasLock(t) /\ op[t] = "write"}
Readers == {t \in Workers : Guarded /\ HasLock(t) /\ op[t] = "read"}

\* From lock, try_lock or their shared forms to unlock; nothing is said of
\* AdaptiveMutex.
ALock == INSTANCE AbstractLock WITH Threads <- Workers, exclusive <- Writers, shared <- Readers

\* A step after which the same workers hold the lock in the same way.
LEMMA SameHolders ==
  ASSUME UNCHANGED lock_t,
         Guarded => \A t \in Workers : /\ HasLock(t)' <=> HasLock(t)
                                       /\ HasLock(t) => op'[t] = op[t]
  PROVE  UNCHANGED ALock!lockVars
BY DEF ALock!lockVars, Writers, Readers, Guarded

LEMMA TakingIsAcquiring ==
  ASSUME TypeOK, AnalyzerInv, NEW t \in Workers, FreeFor(t), Guarded,
         pc[t] \in {"try", "lock"}, NEW to \in {"acquired", "contended"},
         pc' = [pc EXCEPT ![t] = to], UNCHANGED <<lock_t, op>>
  PROVE  ALock!AcquireExclusive(t) \/ ALock!AcquireShared(t)
<1>1. /\ ~HasLock(t) /\ HasLock(t)' /\ op' = op /\ Guarded' /\ op[t] \in {"read", "write"}
      /\ \A u \in Workers \ {t} : HasLock(u)' <=> HasLock(u)
  BY DEF TypeOK, HasLock, Guarded
<1>2. \A u \in Workers : HasLock(u) => op[t] = "read" /\ op[u] = "read"
  BY TakesAlone DEF Guarded
<1>3. Writers = {} /\ t \notin Readers
  BY <1>1, <1>2 DEF Writers, Readers
<1>4. CASE op[t] = "write"
  <2>1. Writers' = {t} /\ Readers' = {} /\ Readers = {}
    BY <1>1, <1>2, <1>4 DEF Writers, Readers
  <2> QED
    BY <1>3, <2>1 DEF ALock!AcquireExclusive
<1>5. CASE op[t] = "read"
  <2>1. Writers' = {} /\ Readers' = Readers \cup {t}
    BY <1>1, <1>2, <1>5 DEF Writers, Readers
  <2> QED
    BY <1>3, <2>1 DEF ALock!AcquireShared
<1> QED
  BY <1>1, <1>4, <1>5

LEMMA LockSimulated ==
  TypeOK /\ AnalyzerInv /\ [Next]_vars => [ALock!Next]_ALock!lockVars
<1> SUFFICES ASSUME TypeOK, AnalyzerInv, [Next]_vars
             PROVE  ALock!Next \/ UNCHANGED ALock!lockVars
  OBVIOUS
<1> USE DEF TypeOK, Goto, HasLock, runVars, stdVars, adaptiveVars, dataVars
<1>1. CASE StartWorker
  <2>1. started \in Workers /\ pc[started] = "unborn"
    BY <1>1, AnalyzerAssumption DEF AnalyzerAssumption, StartWorker, Workers, AnalyzerInv, Lives
  <2> QED
    BY <1>1, <2>1, SameHolders DEF StartWorker
<1>2. CASE StartFails \/ DurationOver \/ JoinsAll \/ AnalyzeAndDestroy \/ VizStep \/ UNCHANGED vars
  BY <1>2, SameHolders DEF StartFails, DurationOver, JoinsAll, AnalyzeAndDestroy, VizStep, vars
<1>3. ASSUME NEW t \in Workers, TryLock(t) \/ Lock(t)
      PROVE  ALock!Next \/ UNCHANGED ALock!lockVars
  <2>1. UNCHANGED <<lock_t, op>>
    BY <1>3 DEF TryLock, Lock
  <2>2. \/ pc[t] = "try" /\ pc' = [pc EXCEPT ![t] = "lock"]
        \/ FreeFor(t) /\ pc[t] = "try" /\ pc' = [pc EXCEPT ![t] = "acquired"]
        \/ FreeFor(t) /\ pc[t] = "lock" /\ pc' = [pc EXCEPT ![t] = "contended"]
    BY <1>3 DEF TryLock, Lock
  <2>3. CASE pc[t] = "try" /\ pc' = [pc EXCEPT ![t] = "lock"]
    BY <2>1, <2>3, SameHolders
  <2>4. CASE ~Guarded
    BY <2>1, <2>4, SameHolders
  <2> QED
    BY <2>1, <2>2, <2>3, <2>4, TakingIsAcquiring DEF ALock!Next
<1>4. ASSUME NEW t \in Workers, Unlock(t)
      PROVE  ALock!Next \/ UNCHANGED ALock!lockVars
  <2>1. /\ UNCHANGED <<lock_t, op>> /\ pc[t] = "unlock"
        /\ \E to \in {"release", "finish"} : pc' = [pc EXCEPT ![t] = to]
    BY <1>4 DEF Unlock
  <2>2. /\ HasLock(t) /\ ~HasLock(t)' /\ op[t] \in {"read", "write"}
        /\ \A u \in Workers \ {t} : HasLock(u)' <=> HasLock(u)
    BY <2>1
  <2> HIDE DEF HasLock
  <2>3. CASE ~Guarded
    BY <2>1, <2>3, SameHolders
  <2>4. CASE Guarded /\ op[t] = "write"
    <3>1. t \in Writers /\ Writers' = Writers \ {t} /\ Readers' = Readers
      BY <2>1, <2>2, <2>4 DEF Writers, Readers, Guarded
    <3> QED
      BY <3>1 DEF ALock!Next, ALock!ReleaseExclusive
  <2>5. CASE Guarded /\ op[t] = "read"
    <3>1. t \in Readers /\ Readers' = Readers \ {t} /\ Writers' = Writers
      BY <2>1, <2>2, <2>5 DEF Writers, Readers, Guarded
    <3> QED
      BY <3>1 DEF ALock!Next, ALock!ReleaseShared
  <2> QED
    BY <2>2, <2>3, <2>4, <2>5
<1>5. ASSUME NEW t \in Workers,
             \/ Stops(t) \/ ChooseOperation(t) \/ SpinFails(t) \/ FallbackLock(t)
             \/ CountContention(t) \/ CountAcquisition(t) \/ Work(t)
             \/ FallbackUnlock(t) \/ CountOperation(t)
      PROVE  UNCHANGED ALock!lockVars
  <2>1. CASE Stops(t) \/ ChooseOperation(t)
    BY <2>1, SameHolders DEF Stops, ChooseOperation
  <2>2. CASE SpinFails(t) \/ FallbackLock(t) \/ FallbackUnlock(t)
    BY <2>2, SameHolders DEF SpinFails, FallbackLock, FallbackUnlock
  <2>3. CASE CountContention(t) \/ CountAcquisition(t) \/ Work(t)
    BY <2>3, SameHolders DEF CountContention, CountAcquisition, Work
  <2>4. CASE CountOperation(t)
    BY <2>4, SameHolders DEF CountOperation
  <2> QED
    BY <1>5, <2>1, <2>2, <2>3, <2>4
<1>6. ASSUME NEW t \in Workers, StoreLocked(t) PROVE UNCHANGED ALock!lockVars
  <2>1. ~Guarded /\ lock_t' = lock_t
    BY <1>6 DEF StoreLocked, AnalyzerInv, Unused, Guarded
  <2> QED
    BY <2>1, SameHolders
<1> QED
  BY <1>1, <1>2, <1>3, <1>4, <1>5, <1>6 DEF Next, Main, Worker, Over

\* std::mutex, std::recursive_mutex, std::shared_mutex and the SpinLock of
\* lock_visualizer_cpp.cpp (lines 77 to 95) give what a lock promises to a
\* worker_thread that takes them by try_lock, by lock or shared.
THEOREM LocksImplemented == Spec => ALock!Spec
<1>1. Init => ALock!Init
  BY DEF Init, ALock!Init, Writers, Readers, HasLock
<1> QED
  BY <1>1, LockSimulated, TypeCorrect, AnalyzerInvariant, PTL DEF Spec, ALock!Spec

-----------------------------------------------------------------------------
(* Nobody waits for ever *)

\* Main joins with the stop flag up and every worker started, and only
\* AdaptiveMutex counts rounds.
StopInv ==
  /\ main \in {"join", "analyze", "destroyed"} => stop_flag /\ started = NumThreads
  /\ \A t \in Workers : t < started => pc[t] # "unborn"
  /\ lock_t # "ADAPTIVE" => \A t \in Workers : spins[t] = 0

LEMMA StopInvStep == TypeOK /\ AnalyzerInv /\ StopInv /\ [Next]_vars => StopInv'
<1> SUFFICES ASSUME TypeOK, AnalyzerInv, StopInv, [Next]_vars PROVE StopInv'
  OBVIOUS
<1> USE DEF runVars, adaptiveVars
<1>1. ASSUME UNCHANGED <<lock_t, main, started, stop_flag>>,
             lock_t # "ADAPTIVE" => \A u \in Workers : spins'[u] = 0,
             \A u \in Workers : pc'[u] = "unborn" => pc[u] = "unborn"
      PROVE  StopInv'
  BY <1>1 DEF StopInv
<1>2. CASE StartWorker
  <2>1. /\ started \in Workers /\ started' = started + 1 /\ UNCHANGED <<lock_t, main, stop_flag, spins>>
        /\ main = "start" /\ pc' = [pc EXCEPT ![started] = "loop"]
    BY <1>2, AnalyzerAssumption DEF AnalyzerAssumption, StartWorker, Workers, TypeOK
  <2>2. \A u \in Workers : u < started + 1 => u < started \/ u = started
    BY <2>1 DEF Workers
  <2> QED
    BY <2>1, <2>2 DEF StopInv, TypeOK
<1>3. CASE StartFails \/ DurationOver \/ JoinsAll \/ AnalyzeAndDestroy
  BY <1>3 DEF StartFails, DurationOver, JoinsAll, AnalyzeAndDestroy, StopInv
<1>4. CASE VizStep \/ Over \/ UNCHANGED vars
  BY <1>4 DEF VizStep, Over, vars, StopInv
<1>5. ASSUME NEW t \in Workers, Worker(t) PROVE StopInv'
  <2> USE DEF Goto, TypeOK
  <2>1. CASE Stops(t) \/ ChooseOperation(t)
    BY <1>1, <2>1 DEF Stops, ChooseOperation, StopInv
  <2>2. CASE TryLock(t) \/ Lock(t)
    <3>1. lock_t # "ADAPTIVE" => spins' = spins
      BY <2>2 DEF TryLock, Lock, Take
    <3> QED
      BY <1>1, <2>2, <3>1 DEF TryLock, Lock, StopInv
  <2>3. CASE SpinFails(t) \/ FallbackLock(t)
    BY <1>1, <2>3 DEF SpinFails, FallbackLock
  <2>4. CASE StoreLocked(t) \/ CountContention(t) \/ CountAcquisition(t) \/ Work(t)
    BY <1>1, <2>4 DEF StoreLocked, CountContention, CountAcquisition, Work, StopInv
  <2>5. CASE Unlock(t) \/ FallbackUnlock(t) \/ CountOperation(t)
    BY <1>1, <2>5 DEF Unlock, FallbackUnlock, CountOperation, StopInv
  <2> QED
    BY <1>5, <2>1, <2>2, <2>3, <2>4, <2>5 DEF Worker
<1> QED
  BY <1>2, <1>3, <1>4, <1>5 DEF Next, Main

\* Worker t is not at a lock that is taken; AdaptiveMutex blocks only in the
\* fallback mutex.
CanGoOn(t) ==
  \/ pc[t] \notin {"unborn", "loop", "lock", "done"}
  \/ pc[t] = "loop" /\ (stop_flag \/ stats[t].acquisitions < MaxOps)
  \/ pc[t] = "lock" /\ spins[t] < SPIN_LIMIT /\ (lock_t = "ADAPTIVE" \/ FreeFor(t))
  \/ pc[t] = "lock" /\ spins[t] = SPIN_LIMIT /\ lock_t = "ADAPTIVE" /\ fallback = None

\* While main waits in its joins some worker can go on.
NobodyHangs ==
  main = "join" /\ (\E t \in Workers : pc[t] # "done") => \E t \in Workers : CanGoOn(t)

\* The joins never wait for workers that all wait for the lock: no class loses
\* it, and whoever owns the fallback mutex of AdaptiveMutex, which is unlocked
\* by threads that do not own it, is on the way to unlocking it.
THEOREM NobodyWaitsForEver == Spec => []NobodyHangs
<1>1. Init => StopInv
  BY AnalyzerAssumption DEF AnalyzerAssumption, Init, StopInv, Workers
<1>2. TypeOK /\ AnalyzerInv /\ StopInv => NobodyHangs
  <2> SUFFICES ASSUME TypeOK, AnalyzerInv, StopInv, main = "join",
                      \A t \in Workers : ~CanGoOn(t), NEW w \in Workers, pc[w] # "done"
               PROVE  FALSE
    BY DEF NobodyHangs
  <2>1. \A t \in Workers : pc[t] \in {"lock", "done"} /\ ~HasLock(t)
    <3>1. \A t \in Workers : pc[t] # "unborn" /\ stop_flag
      BY AnalyzerAssumption DEF AnalyzerAssumption, StopInv, Workers
    <3> QED
      BY <3>1 DEF CanGoOn, HasLock
  <2>2. pc[w] = "lock" /\ SPIN_LIMIT > 0
    BY <2>1, AnalyzerAssumption DEF AnalyzerAssumption
  <2>3. CASE lock_t = "ADAPTIVE"
    <3>1. fallback = None
      BY <2>1 DEF TypeOK, AnalyzerInv, AdaptiveRecords
    <3>2. spins[w] < SPIN_LIMIT \/ spins[w] = SPIN_LIMIT
      <4>1. spins[w] \in 0..SPIN_LIMIT /\ SPIN_LIMIT \in Int
        BY AnalyzerAssumption DEF AnalyzerAssumption, TypeOK
      <4> QED
        BY <4>1
    <3> QED
      BY <2>2, <2>3, <3>1, <3>2 DEF CanGoOn
  <2>4. CASE lock_t # "ADAPTIVE"
    <3>1. spins[w] < SPIN_LIMIT
      BY <2>2, <2>4 DEF StopInv
    <3>2. FreeFor(w)
      <4>1. CASE lock_t = "SPIN"
        BY <2>1, <4>1 DEF FreeFor, AnalyzerInv, Recorded
      <4>2. CASE lock_t \in {"MUTEX", "SHARED"}
        <5>1. holders = {} /\ sharers = {}
          BY <2>1, <4>2 DEF TypeOK, AnalyzerInv, Recorded
        <5> QED
          BY <4>2, <5>1 DEF FreeFor
      <4> QED
        BY <2>4, <4>1, <4>2, AnalyzerAssumption DEF AnalyzerAssumption, TypeOK
    <3> QED
      BY <2>2, <3>1, <3>2 DEF CanGoOn
  <2> QED
    BY <2>3, <2>4
<1> QED
  BY <1>1, <1>2, StopInvStep, TypeCorrect, AnalyzerInvariant, PTL DEF Spec

-----------------------------------------------------------------------------
(* The counters *)

\* The writes that have reached shared_counter_, by who made them.
Stored == [t \in Workers |->
  stats[t].writes + IF pc[t] \in {"unlock", "release", "finish"} /\ op[t] = "write" THEN 1 ELSE 0]

\* An acquisition is counted before its operation, a contention before its
\* acquisition, and a write reaches shared_counter_ before it is counted.
CountInv ==
  /\ shared_counter = Total(Stored, Workers)
  /\ \A t \in Workers :
       /\ stats[t].acquisitions = stats[t].reads + stats[t].writes
            + IF pc[t] \in {"work", "unlock", "release", "finish"} THEN 1 ELSE 0
       /\ stats[t].contentions <= stats[t].acquisitions + IF pc[t] = "acquired" THEN 1 ELSE 0

LEMMA WorkersFinite == IsFiniteSet(Workers)
BY FS_Interval, AnalyzerAssumption DEF AnalyzerAssumption, Workers

\* A step that counts nothing and moves its worker within the places where the
\* same is still to be counted.
LEMMA NothingCounted ==
  ASSUME TypeOK, CountInv, UNCHANGED dataVars,
         \A t \in Workers :
           /\ pc'[t] \in {"unlock", "release", "finish"} <=> pc[t] \in {"unlock", "release", "finish"}
           /\ pc[t] \in {"unlock", "release", "finish"} => op'[t] = op[t]
           /\ pc'[t] = "work" <=> pc[t] = "work"
           /\ pc[t] = "acquired" => pc'[t] = "acquired"
  PROVE  CountInv'
<1>1. Stored' = Stored
  BY DEF Stored, dataVars
<1>2. shared_counter' = Total(Stored, Workers)'
  BY <1>1 DEF CountInv, dataVars
<1>3. \A t \in Workers :
       /\ stats'[t].acquisitions = stats'[t].reads + stats'[t].writes
            + IF pc'[t] \in {"work", "unlock", "release", "finish"} THEN 1 ELSE 0
       /\ stats'[t].contentions <= stats'[t].acquisitions + IF pc'[t] = "acquired" THEN 1 ELSE 0
  BY DEF CountInv, TypeOK, dataVars
<1> QED
  BY <1>2, <1>3 DEF CountInv

LEMMA CountInvStep == TypeOK /\ AnalyzerInv /\ CountInv /\ [Next]_vars => CountInv'
<1> SUFFICES ASSUME TypeOK, AnalyzerInv, CountInv, [Next]_vars PROVE CountInv'
  OBVIOUS
<1>1. CASE Main
  <2>1. CASE StartWorker
    <3>1. started \in Workers /\ pc[started] = "unborn"
      BY <2>1, AnalyzerAssumption DEF AnalyzerAssumption, StartWorker, Workers,
         AnalyzerInv, Lives, TypeOK
    <3> QED
      BY <2>1, <3>1, NothingCounted DEF StartWorker, TypeOK
  <2>2. CASE DurationOver \/ JoinsAll \/ AnalyzeAndDestroy
    BY <2>2, NothingCounted DEF DurationOver, JoinsAll, AnalyzeAndDestroy
  <2> QED
    BY <1>1, <2>1, <2>2 DEF Main
<1>2. CASE StartFails \/ VizStep \/ Over \/ UNCHANGED vars
  BY <1>2, NothingCounted DEF StartFails, VizStep, Over, vars, runVars
<1>3. ASSUME NEW t \in Workers, Worker(t) PROVE CountInv'
  <2> USE DEF Goto
  <2>1. CASE Stops(t) \/ ChooseOperation(t) \/ TryLock(t) \/ Lock(t)
    <3>1. /\ UNCHANGED dataVars /\ pc[t] \in {"loop", "try", "lock"}
          /\ \E to \in {"done", "try", "acquired", "lock", "contended"} : pc' = [pc EXCEPT ![t] = to]
      BY <2>1 DEF Stops, ChooseOperation, TryLock, Lock
    <3>2. \A u \in Workers \ {t} : op'[u] = op[u]
      BY <2>1 DEF Stops, ChooseOperation, TryLock, Lock, TypeOK
    <3> QED
      BY <3>1, <3>2, NothingCounted DEF TypeOK
  <2>2. CASE SpinFails(t)
    BY <2>2, NothingCounted DEF SpinFails
  <2>3. CASE FallbackLock(t) \/ StoreLocked(t)
    BY <2>3, NothingCounted DEF FallbackLock, StoreLocked, TypeOK
  <2>4. CASE FallbackUnlock(t)
    BY <2>4, NothingCounted DEF FallbackUnlock, TypeOK
  <2>5. CASE Unlock(t)
    <3>1. /\ UNCHANGED <<op, dataVars>> /\ pc[t] = "unlock"
          /\ \E to \in {"release", "finish"} : pc' = [pc EXCEPT ![t] = to]
      BY <2>5 DEF Unlock
    <3> QED
      BY <3>1, NothingCounted DEF TypeOK
  <2>6. CASE CountContention(t)
    <3>1. /\ UNCHANGED <<op, shared_counter>> /\ pc[t] = "contended"
          /\ pc' = [pc EXCEPT ![t] = "acquired"]
          /\ stats' = [stats EXCEPT ![t].contentions = @ + 1]
      BY <2>6 DEF CountContention, Count
    <3>2. Stored' = Stored
      BY <3>1 DEF Stored, TypeOK
    <3>3. shared_counter' = Total(Stored, Workers)'
      BY <3>1, <3>2 DEF CountInv
    <3> QED
      BY <3>1, <3>3 DEF CountInv, TypeOK
  <2>7. CASE CountAcquisition(t)
    <3>1. /\ UNCHANGED <<op, shared_counter>> /\ pc[t] = "acquired"
          /\ pc' = [pc EXCEPT ![t] = "work"]
          /\ stats' = [stats EXCEPT ![t].acquisitions = @ + 1]
      BY <2>7 DEF CountAcquisition, Count
    <3>2. Stored' = Stored
      BY <3>1 DEF Stored, TypeOK
    <3>3. shared_counter' = Total(Stored, Workers)'
      BY <3>1, <3>2 DEF CountInv
    <3> QED
      BY <3>1, <3>3 DEF CountInv, TypeOK
  <2>8. CASE Work(t)
    <3>1. /\ UNCHANGED <<op, stats>> /\ pc[t] = "work" /\ pc' = [pc EXCEPT ![t] = "unlock"]
          /\ shared_counter' = shared_counter + IF op[t] = "write" THEN 1 ELSE 0
      BY <2>8 DEF Work
    <3>2. /\ \A u \in Workers : Stored[u] \in Int /\ Stored'[u] \in Int
          /\ \A u \in Workers \ {t} : Stored'[u] = Stored[u]
          /\ Stored'[t] - Stored[t] = IF op[t] = "write" THEN 1 ELSE 0
      BY <3>1 DEF Stored, TypeOK
    <3>3. Total(Stored', Workers) = Total(Stored, Workers) + (Stored'[t] - Stored[t])
      BY <3>2, WorkersFinite, TotalOfChange
    <3>4. shared_counter' = Total(Stored, Workers)'
      BY <3>1, <3>2, <3>3 DEF CountInv
    <3> QED
      BY <3>1, <3>4 DEF CountInv, TypeOK
  <2>9. CASE CountOperation(t)
    <3>1. /\ UNCHANGED shared_counter /\ pc[t] = "finish" /\ pc' = [pc EXCEPT ![t] = "loop"]
          /\ op' = [op EXCEPT ![t] = "write"]
          /\ \/ op[t] = "read" /\ stats' = [stats EXCEPT ![t].reads = @ + 1]
             \/ op[t] = "write" /\ stats' = [stats EXCEPT ![t].writes = @ + 1]
      BY <2>9 DEF CountOperation, Count, TypeOK
    <3>2. Stored' = Stored
      BY <3>1 DEF Stored, TypeOK
    <3>3. shared_counter' = Total(Stored, Workers)'
      BY <3>1, <3>2 DEF CountInv
    <3>4. /\ stats'[t].acquisitions = stats'[t].reads + stats'[t].writes
          /\ stats'[t].contentions <= stats'[t].acquisitions
      <4>1. /\ stats[t].acquisitions = stats[t].reads + stats[t].writes + 1
            /\ stats[t].contentions <= stats[t].acquisitions
        BY <3>1 DEF CountInv, TypeOK
      <4>2. CASE stats' = [stats EXCEPT ![t].reads = @ + 1]
        BY <4>1, <4>2 DEF TypeOK
      <4>3. CASE stats' = [stats EXCEPT ![t].writes = @ + 1]
        BY <4>1, <4>3 DEF TypeOK
      <4> QED
        BY <3>1, <4>2, <4>3
    <3>5. \A u \in Workers \ {t} : stats'[u] = stats[u] /\ pc'[u] = pc[u]
      BY <3>1 DEF TypeOK
    <3>6. /\ pc'[t] = "loop" /\ stats'[t].acquisitions \in Nat
          /\ stats'[t].reads \in Nat /\ stats'[t].writes \in Nat
          /\ stats'[t].contentions \in Nat
      <4>1. /\ pc'[t] = "loop" /\ stats[t].acquisitions \in Nat /\ stats[t].contentions \in Nat
            /\ stats[t].reads \in Nat /\ stats[t].writes \in Nat
        BY <3>1 DEF TypeOK
      <4>2. CASE stats' = [stats EXCEPT ![t].reads = @ + 1]
        BY <4>1, <4>2 DEF TypeOK
      <4>3. CASE stats' = [stats EXCEPT ![t].writes = @ + 1]
        BY <4>1, <4>3 DEF TypeOK
      <4> QED
        BY <3>1, <4>2, <4>3
    <3> QED
      BY <3>3, <3>4, <3>5, <3>6 DEF CountInv, TypeOK
  <2> QED
    BY <1>3, <2>1, <2>2, <2>3, <2>4, <2>5, <2>6, <2>7, <2>8, <2>9 DEF Worker
<1> QED
  BY <1>1, <1>2, <1>3 DEF Next

\* What analyze_results prints adds up, for every number of workers and every
\* lock class, AdaptiveMutex included.
THEOREM TheAnalysisAddsUp == Spec => []AnalysisAddsUp
<1> DEFINE of(field) == [t \in Workers |-> stats[t][field]]
<1>1. Init => CountInv
  <2> SUFFICES ASSUME Init PROVE CountInv
    OBVIOUS
  <2>1. \A t \in Workers : Stored[t] = 0
    BY DEF Init, Stored
  <2>2. Total(Stored, Workers) = Cardinality(Workers) * 0
    BY <2>1, TotalOfConstant, WorkersFinite
  <2>3. Cardinality(Workers) * 0 = 0
    BY WorkersFinite, FS_CardinalityType
  <2> QED
    BY <2>2, <2>3 DEF Init, CountInv
<1>2. TypeOK /\ AnalyzerInv /\ CountInv => AnalysisAddsUp
  <2> SUFFICES ASSUME TypeOK, AnalyzerInv, CountInv, main \in {"analyze", "destroyed"}
               PROVE  AnalysisAddsUp
    BY DEF AnalysisAddsUp
  <2>1. \A t \in Workers : pc[t] = "done"
    BY DEF AnalyzerInv, Lives
  <2>2. \A field : Sum(field) = Total(of(field), Workers)
    BY DEF Sum, Total, FoldFunction
  <2>3. Total(of("acquisitions"), Workers) = Total(of("reads"), Workers) + Total(of("writes"), Workers)
    <3>1. \A t \in Workers : /\ of("reads")[t] \in Int /\ of("writes")[t] \in Int
                             /\ of("acquisitions")[t] = of("reads")[t] + of("writes")[t]
      BY <2>1 DEF CountInv, TypeOK
    <3> QED
      BY <3>1, TotalOfSums, WorkersFinite
  <2>4. Stored = of("writes")
    BY <2>1 DEF Stored, TypeOK
  <2>5. \A t \in Workers : stats[t].contentions <= stats[t].acquisitions
    BY <2>1 DEF CountInv, TypeOK
  <2> QED
    BY <2>2, <2>3, <2>4, <2>5 DEF CountInv, AnalysisAddsUp
<1> QED
  BY <1>1, <1>2, CountInvStep, TypeCorrect, AnalyzerInvariant, PTL DEF Spec

=============================================================================
