------------------------ MODULE LockContentionProofs ------------------------
(***************************************************************************)
(* What LockContention guarantees for every number of workers, every set   *)
(* of lock types and workloads, and every bound on the operations.         *)
(***************************************************************************)
EXTENDS LockContention, SumTheorems

\* Every variable keeps its type.
THEOREM TypeCorrect == Spec => []TypeOK
<1>1. Init => TypeOK
  <2> SUFFICES ASSUME Init PROVE TypeOK
    OBVIOUS
  <2>1. 0 \in 0..NumThreads
    BY ConstantsAssumption DEF ConstantsAssumption
  <2>2. /\ pc \in [Workers -> Places]
        /\ is_read \in [Workers -> BOOLEAN]
        /\ seen_current \in [Workers -> Int] /\ temp \in [Workers -> Nat]
    BY DEF Init, Places
  <2>3. /\ acquisitions \in [Workers -> Nat] /\ contentions \in [Workers -> Nat]
        /\ read_ops \in [Workers -> Nat] /\ write_ops \in [Workers -> Nat]
    BY DEF Init
  <2>4. owner \in Workers \cup {NoOne} /\ readers \in SUBSET Workers
    BY DEF Init
  <2>5. /\ spin_waiters \in Int /\ ready_threads \in Nat
        /\ g_current_waiters \in Int /\ g_max_waiters \in Int /\ peak \in Int
        /\ g_total_acquisitions \in Nat /\ g_total_contentions \in Nat
        /\ shared_data \in Nat
    BY DEF Init
  <2>6. /\ lock_type \in LockTypes /\ workload \in Workloads
        /\ g_stop_all \in BOOLEAN /\ flag \in BOOLEAN /\ all_ready \in BOOLEAN
        /\ main \in {"create", "sleep", "join", "exit", "crashed", "blocked"}
        /\ created \in 0..NumThreads /\ joined \in 0..NumThreads
    BY <2>1 DEF Init
  <2> QED
    BY <2>2, <2>3, <2>4, <2>5, <2>6 DEF TypeOK
<1>2. TypeOK /\ [Next]_vars => TypeOK'
  <2> SUFFICES ASSUME TypeOK, [Next]_vars PROVE TypeOK'
    OBVIOUS
  <2> USE DEF TypeOK, Places, Goto, config, mainVars, lockVars, gateVars,
              waiterVars, statVars, dataVars
  <2>1. CASE Main
    <3>1. CASE CreateWorker
      <4>1. created' \in 0..NumThreads
        BY <3>1, ConstantsAssumption DEF ConstantsAssumption, CreateWorker
      <4> QED
        BY <3>1, <4>1 DEF CreateWorker
    <3>2. CASE CreateFails \/ AllCreated \/ DurationOver \/ Report
      BY <3>2 DEF CreateFails, AllCreated, DurationOver, Report
    <3>3. CASE JoinWorker \/ JoinGarbage
      <4>1. joined' \in 0..NumThreads
        BY <3>3, ConstantsAssumption DEF ConstantsAssumption, JoinWorker, JoinGarbage
      <4> QED
        BY <3>3, <4>1 DEF JoinWorker, JoinGarbage
    <3> QED
      BY <2>1, <3>1, <3>2, <3>3 DEF Main
  <2>2. CASE Signal
    BY <2>2 DEF Signal
  <2>3. ASSUME NEW t \in Workers, Worker(t) \/ SpuriousWake(t) PROVE TypeOK'
    <3>1. CASE GateArrive(t)
      <4>1. pc' \in [Workers -> Places]
        BY <3>1 DEF GateArrive
      <4>2. ready_threads' \in Nat /\ all_ready' \in BOOLEAN
        <5>1. ready_threads' \in Nat
          BY <3>1 DEF GateArrive
        <5>2. all_ready' = TRUE \/ all_ready' = all_ready
          BY <3>1 DEF GateArrive
        <5> QED
          BY <5>1, <5>2
      <4>3. UNCHANGED <<config, g_stop_all, mainVars, lockVars, waiterVars,
                         is_read, statVars, dataVars>>
        BY <3>1 DEF GateArrive
      <4> QED
        BY <4>1, <4>2, <4>3
    <3>2. CASE GateRecheck(t)
      BY <3>2 DEF GateRecheck
    <3>3. CASE SpuriousWake(t)
      BY <3>3 DEF SpuriousWake
    <3>4. CASE Stops(t)
      BY <3>4 DEF Stops
    <3>5. CASE ChooseOperation(t)
      BY <3>5 DEF ChooseOperation, OperationKinds
    <3>6. CASE CountWaiter(t)
      BY <3>6 DEF CountWaiter
    <3>7. CASE LoadCurrent(t)
      BY <3>7 DEF LoadCurrent
    <3>8. CASE CompareMax(t)
      BY <3>8 DEF CompareMax
    <3>9. CASE StoreMax(t)
      BY <3>9 DEF StoreMax
    <3>10. CASE LockMutex(t)
      BY <3>10 DEF LockMutex
    <3>11. CASE ReadLock(t)
      BY <3>11 DEF ReadLock
    <3>12. CASE WriteLock(t)
      BY <3>12 DEF WriteLock
    <3>13. CASE SpinAnnounce(t)
      BY <3>13 DEF SpinAnnounce
    <3>14. CASE TestAndSet(t)
      BY <3>14 DEF TestAndSet
    <3>15. CASE SpinWithdraw(t)
      BY <3>15 DEF SpinWithdraw
    <3>16. CASE UncountWaiter(t)
      BY <3>16 DEF UncountWaiter
    <3>17. CASE RecordContention(t)
      BY <3>17 DEF RecordContention
    <3>18. CASE ReadSharedData(t)
      BY <3>18 DEF ReadSharedData
    <3>19. CASE LoadSharedData(t)
      BY <3>19 DEF LoadSharedData
    <3>20. CASE StoreSharedData(t)
      BY <3>20 DEF StoreSharedData
    <3>21. CASE Unlock(t)
      <4>1. owner' \in Workers \cup {NoOne} /\ readers' \in SUBSET Workers
            /\ flag' \in BOOLEAN
        <5>1. CASE lock_type \in {"MUTEX", "ADAPTIVE"}
          BY <3>21, <5>1 DEF Unlock
        <5>2. CASE lock_type = "SPINLOCK"
          BY <3>21, <5>2 DEF Unlock
        <5>3. CASE lock_type = "RWLOCK"
          BY <3>21, <5>3 DEF Unlock
        <5> QED
          BY <5>1, <5>2, <5>3, ConstantsAssumption DEF ConstantsAssumption
      <4>2. spin_waiters' = spin_waiters /\ pc' = [pc EXCEPT ![t] = "update"]
        BY <3>21 DEF Unlock
      <4> QED
        BY <3>21, <4>1, <4>2 DEF Unlock
    <3>22. CASE UpdateStats(t)
      BY <3>22 DEF UpdateStats
    <3> QED
      BY <2>3, <3>1, <3>2, <3>3, <3>4, <3>5, <3>6, <3>7, <3>8, <3>9, <3>10,
         <3>11, <3>12, <3>13, <3>14, <3>15, <3>16, <3>17, <3>18, <3>19,
         <3>20, <3>21, <3>22
      DEF Worker, LockAcquire
  <2>4. CASE UNCHANGED vars
    BY <2>4 DEF vars
  <2>5. QED
    BY <2>1, <2>2, <2>3, <2>4 DEF Next, Over
<1>3. QED
  BY <1>1, <1>2, PTL DEF Spec

-----------------------------------------------------------------------------
(* Mutual exclusion.  The lock variables know exactly who holds the lock. *)

\* Who holds the lock, as each lock type records it.
Recorded ==
  /\ lock_type \in {"MUTEX", "ADAPTIVE"} =>
       \A t \in Workers : Holds(t) <=> owner = t
  /\ lock_type = "SPINLOCK" =>
       \A t \in Workers : Holds(t) => flag /\ \A u \in Workers : Holds(u) => u = t
  /\ lock_type = "RWLOCK" =>
       /\ \A t \in Workers : Holds(t) /\ ~is_read[t] <=> owner = t
       /\ \A t \in Workers : Holds(t) /\ is_read[t] <=> t \in readers
       /\ owner # NoOne => readers = {}

LockInv ==
  /\ Recorded
  /\ \A t \in Workers : pc[t] \in {"spin", "spun"} => lock_type = "SPINLOCK"
  /\ \A t \in Workers : t >= created => pc[t] = "unborn"

\* Two holders are both readers of the read-write lock.
LEMMA Exclusion ==
  ASSUME TypeOK, LockInv, NEW t \in Workers, NEW u \in Workers,
         Holds(t), Holds(u), t # u
  PROVE  Shares(t) /\ Shares(u)
<1>1. lock_type \in {"MUTEX", "ADAPTIVE", "SPINLOCK", "RWLOCK"}
  BY ConstantsAssumption DEF ConstantsAssumption, TypeOK
<1>2. lock_type = "RWLOCK"
  BY <1>1 DEF LockInv, Recorded
<1>3. is_read[t] \/ owner = t
  BY <1>2 DEF LockInv, Recorded
<1>4. is_read[u] \/ owner = u
  BY <1>2 DEF LockInv, Recorded
<1>5. NoOne # t /\ NoOne # u
  BY ConstantsAssumption DEF ConstantsAssumption
<1>6. is_read[t] => t \in readers
  BY <1>2 DEF LockInv, Recorded
<1>7. is_read[u] => u \in readers
  BY <1>2 DEF LockInv, Recorded
<1>8. owner # NoOne => readers = {}
  BY <1>2 DEF LockInv, Recorded
<1> QED
  BY <1>2, <1>3, <1>4, <1>5, <1>6, <1>7, <1>8 DEF Shares

\* A step that moves nobody into or out of the lock preserves LockInv.
LEMMA NeutralStep ==
  ASSUME LockInv, UNCHANGED <<lock_type, owner, readers, flag>>,
         \A t \in Workers :
           /\ Holds(t)' <=> Holds(t)
           /\ Holds(t) => is_read'[t] = is_read[t]
           /\ pc'[t] \in {"spin", "spun"} =>
                pc[t] \in {"spin", "spun"} \/ lock_type = "SPINLOCK",
         \A t \in Workers : t >= created' => pc'[t] = "unborn"
  PROVE  LockInv'
<1>1. CASE lock_type \in {"MUTEX", "ADAPTIVE"}
  BY <1>1 DEF LockInv, Recorded
<1>2. CASE lock_type = "SPINLOCK"
  BY <1>2 DEF LockInv, Recorded
<1>3. CASE lock_type = "RWLOCK"
  BY <1>3 DEF LockInv, Recorded
<1> QED
  BY <1>1, <1>2, <1>3 DEF LockInv, Recorded

\* Every step preserves LockInv.
LEMMA LockInvStep == TypeOK /\ LockInv /\ [Next]_vars => LockInv'
<1> SUFFICES ASSUME TypeOK, LockInv, [Next]_vars PROVE LockInv'
  OBVIOUS
<1>1. QED
  <2> USE DEF TypeOK, Places, Goto, Holds, Holding, config, mainVars, lockVars,
              gateVars, waiterVars, statVars, dataVars
  <2>1. CASE Main
    <3>1. CASE CreateWorker
      <4>1. created \in Workers /\ created' = created + 1 /\ created \in Nat
        BY <3>1, ConstantsAssumption DEF CreateWorker, Workers, ConstantsAssumption
      <4>2. pc[created] = "unborn" /\ pc'[created] \in {"gate", "loop"}
        BY <3>1, <4>1 DEF CreateWorker, LockInv, Workers
      <4>3. \A t \in Workers : t # created => pc'[t] = pc[t]
        BY <3>1 DEF CreateWorker
      <4>4. \A t \in Workers : t >= created' => pc'[t] = "unborn"
        BY <4>1, <4>3 DEF LockInv, Workers
      <4> QED
        BY <3>1, <4>2, <4>3, <4>4, NeutralStep DEF CreateWorker
    <3>2. CASE CreateFails \/ AllCreated \/ DurationOver \/ JoinWorker
               \/ JoinGarbage \/ Report
      BY <3>2, NeutralStep
      DEF CreateFails, AllCreated, DurationOver, JoinWorker, JoinGarbage, Report, LockInv
    <3> QED
      BY <2>1, <3>1, <3>2 DEF Main
  <2>2. CASE Signal
    BY <2>2, NeutralStep DEF Signal, LockInv
  <2>3. ASSUME NEW t \in Workers, Worker(t) \/ SpuriousWake(t) PROVE LockInv'
    <3>1. CASE GateArrive(t)
      BY <3>1, NeutralStep DEF GateArrive, LockInv
    <3>2. CASE GateRecheck(t)
      BY <3>2, NeutralStep DEF GateRecheck, LockInv
    <3>3. CASE SpuriousWake(t)
      BY <3>3, NeutralStep DEF SpuriousWake, LockInv
    <3>4. CASE Stops(t)
      BY <3>4, NeutralStep DEF Stops, LockInv
    <3>5. CASE ChooseOperation(t)
      BY <3>5, NeutralStep DEF ChooseOperation, LockInv
    <3>6. CASE CountWaiter(t)
      BY <3>6, NeutralStep DEF CountWaiter, LockInv
    <3>7. CASE LoadCurrent(t)
      BY <3>7, NeutralStep DEF LoadCurrent, LockInv
    <3>8. CASE CompareMax(t)
      BY <3>8, NeutralStep DEF CompareMax, LockInv
    <3>9. CASE StoreMax(t)
      BY <3>9, NeutralStep DEF StoreMax, LockInv
    <3>10. CASE SpinAnnounce(t)
      BY <3>10, NeutralStep DEF SpinAnnounce, LockInv
    <3>11. CASE SpinWithdraw(t)
      BY <3>11, NeutralStep DEF SpinWithdraw, LockInv
    <3>12. CASE UncountWaiter(t)
      BY <3>12, NeutralStep DEF UncountWaiter, LockInv
    <3>13. CASE RecordContention(t)
      BY <3>13, NeutralStep DEF RecordContention, LockInv
    <3>14. CASE ReadSharedData(t)
      BY <3>14, NeutralStep DEF ReadSharedData, LockInv
    <3>15. CASE LoadSharedData(t)
      BY <3>15, NeutralStep DEF LoadSharedData, LockInv
    <3>16. CASE StoreSharedData(t)
      BY <3>16, NeutralStep DEF StoreSharedData, LockInv
    <3>17. CASE UpdateStats(t)
      BY <3>17, NeutralStep DEF UpdateStats, LockInv
    <3>18. CASE LockMutex(t)
      BY <3>18, ConstantsAssumption DEF LockMutex, LockInv, Recorded, ConstantsAssumption
    <3>19. CASE ReadLock(t)
      BY <3>19, ConstantsAssumption DEF ReadLock, LockInv, Recorded, ConstantsAssumption
    <3>20. CASE WriteLock(t)
      BY <3>20, ConstantsAssumption DEF WriteLock, LockInv, Recorded, ConstantsAssumption
    <3>21. CASE TestAndSet(t)
      <4>1. CASE flag
        BY <3>21, <4>1, NeutralStep DEF TestAndSet, LockInv
      <4>2. CASE ~flag
        BY <3>21, <4>2 DEF TestAndSet, LockInv, Recorded
      <4> QED
        BY <4>1, <4>2
    <3>22. CASE Unlock(t)
      <4>1. CASE lock_type \in {"MUTEX", "ADAPTIVE"}
        <5>1. owner = t /\ owner' = NoOne /\ UNCHANGED <<lock_type, created>>
          BY <3>22, <4>1 DEF Unlock, LockInv, Recorded
        <5>2. \A u \in Workers : ~Holds(u)' /\ u # NoOne
          BY <3>22, <4>1, <5>1, ConstantsAssumption
          DEF Unlock, LockInv, Recorded, ConstantsAssumption
        <5> QED
          BY <3>22, <4>1, <5>1, <5>2 DEF Unlock, LockInv, Recorded
      <4>2. CASE lock_type = "SPINLOCK"
        BY <3>22, <4>2 DEF Unlock, LockInv, Recorded
      <4>3. CASE lock_type = "RWLOCK"
        BY <3>22, <4>3, ConstantsAssumption DEF Unlock, LockInv, Recorded, ConstantsAssumption
      <4> QED
        BY <4>1, <4>2, <4>3, ConstantsAssumption DEF ConstantsAssumption
    <3> QED
      BY <2>3, <3>1, <3>2, <3>3, <3>4, <3>5, <3>6, <3>7, <3>8, <3>9, <3>10,
         <3>11, <3>12, <3>13, <3>14, <3>15, <3>16, <3>17, <3>18, <3>19,
         <3>20, <3>21, <3>22
      DEF Worker, LockAcquire
  <2>4. CASE UNCHANGED vars
    BY <2>4, NeutralStep DEF vars, LockInv
  <2>5. QED
    BY <2>1, <2>2, <2>3, <2>4 DEF Next, Over

\* The lock's records are right in every state.
THEOREM LockInvariant == Spec => []LockInv
<1>1. Init => LockInv
  BY ConstantsAssumption
  DEF Init, LockInv, Recorded, Holds, Holding, ConstantsAssumption
<1>2. QED
  BY <1>1, LockInvStep, TypeCorrect, PTL DEF Spec

\* The value a worker has loaded is still there, and only writers store.
StoresExclusively ==
  /\ NoLostUpdate
  /\ \A t \in Workers : pc[t] = "store" => ~is_read[t]

LEMMA StoreStep ==
  TypeOK /\ LockInv /\ StoresExclusively /\ [Next]_vars => StoresExclusively'
<1> SUFFICES ASSUME TypeOK, LockInv, StoresExclusively, [Next]_vars
             PROVE StoresExclusively'
  OBVIOUS
<1> USE DEF StoresExclusively, NoLostUpdate
<1>1. ASSUME UNCHANGED <<shared_data, temp, is_read>>,
             \A t \in Workers : pc'[t] = "store" => pc[t] = "store"
      PROVE StoresExclusively'
  BY <1>1
<1> USE DEF TypeOK, Goto, config, mainVars, lockVars, gateVars, waiterVars,
            statVars, dataVars
<1>2. CASE Main \/ Signal
  BY <1>2, <1>1
  DEF Main, Signal, CreateWorker, CreateFails, AllCreated, DurationOver,
      JoinWorker, JoinGarbage, Report
<1>3. ASSUME NEW t \in Workers, Worker(t) \/ SpuriousWake(t)
      PROVE StoresExclusively'
  <2>1. CASE GateArrive(t) \/ GateRecheck(t) \/ SpuriousWake(t) \/ Stops(t)
    BY <2>1, <1>1 DEF GateArrive, GateRecheck, SpuriousWake, Stops
  <2>2. CASE CountWaiter(t) \/ LoadCurrent(t) \/ CompareMax(t) \/ StoreMax(t)
    BY <2>2, <1>1 DEF CountWaiter, LoadCurrent, CompareMax, StoreMax
  <2>3. CASE LockMutex(t) \/ ReadLock(t) \/ WriteLock(t)
    BY <2>3, <1>1 DEF LockMutex, ReadLock, WriteLock
  <2>4. CASE SpinAnnounce(t) \/ TestAndSet(t) \/ SpinWithdraw(t)
    BY <2>4, <1>1 DEF SpinAnnounce, TestAndSet, SpinWithdraw
  <2>5. CASE UncountWaiter(t) \/ RecordContention(t) \/ ReadSharedData(t) \/ Unlock(t)
    BY <2>5, <1>1 DEF UncountWaiter, RecordContention, ReadSharedData, Unlock
  <2>6. CASE ChooseOperation(t) \/ UpdateStats(t)
    BY <2>6 DEF ChooseOperation, UpdateStats
  <2>7. CASE LoadSharedData(t)
    BY <2>7 DEF LoadSharedData
  <2>8. CASE StoreSharedData(t)
    <3>1. \A u \in Workers : u # t => pc[u] # "store"
      <4> SUFFICES ASSUME NEW u \in Workers, u # t, pc[u] = "store" PROVE FALSE
        OBVIOUS
      <4>1. Holds(t) /\ Holds(u)
        BY <2>8 DEF StoreSharedData, Holds, Holding
      <4>2. Shares(u)
        BY <4>1, Exclusion
      <4> QED
        BY <4>2 DEF Shares
    <3> QED
      BY <2>8, <3>1 DEF StoreSharedData
  <2> QED
    BY <1>3, <2>1, <2>2, <2>3, <2>4, <2>5, <2>6, <2>7, <2>8 DEF Worker, LockAcquire
<1>4. CASE UNCHANGED vars
  BY <1>4, <1>1 DEF vars
<1> QED
  BY <1>2, <1>3, <1>4 DEF Next, Over

\* No update of shared_data is lost: nobody stores between the load and the
\* store of another worker's shared_data++.
THEOREM NoUpdateIsLost == Spec => []NoLostUpdate
<1>1. Init => StoresExclusively
  BY DEF Init, StoresExclusively, NoLostUpdate
<1>2. StoresExclusively => NoLostUpdate
  BY DEF StoresExclusively
<1>3. QED
  BY <1>1, <1>2, StoreStep, TypeCorrect, LockInvariant, PTL DEF Spec

-----------------------------------------------------------------------------
(* lock_acquire and lock_release implement AbstractLock. *)

LEMMA LockStep ==
  TypeOK /\ LockInv /\ [Next]_vars => [Lock!Next]_(Lock!lockVars)
<1> DEFINE excl == {t \in Workers : Holds(t) /\ ~Shares(t)}
           shar == {t \in Workers : Holds(t) /\ Shares(t)}
<1> SUFFICES ASSUME TypeOK, LockInv, [Next]_vars
             PROVE Lock!Next \/ UNCHANGED Lock!lockVars
  OBVIOUS
<1>1. ASSUME \A t \in Workers : /\ Holds(t)' <=> Holds(t)
                                /\ Holds(t) => (Shares(t)' <=> Shares(t))
      PROVE UNCHANGED Lock!lockVars
  BY <1>1 DEF Lock!lockVars
<1>2. ASSUME NEW t \in Workers, ~Holds(t), Holds(t)', UNCHANGED <<lock_type, is_read>>,
             \A u \in Workers : u # t => (Holds(u)' <=> Holds(u)),
             \A u \in Workers : Holds(u) => Shares(u) /\ Shares(t)
      PROVE Lock!Next
  <2>1. excl = {} /\ t \notin shar
    BY <1>2
  <2>2. CASE Shares(t)
    <3>1. excl' = {} /\ shar' = shar \cup {t}
      BY <1>2, <2>2 DEF Shares
    <3> QED
      BY <2>1, <3>1 DEF Lock!Next, Lock!AcquireShared
  <2>3. CASE ~Shares(t)
    <3>1. excl' = {t} /\ shar' = {} /\ shar = {}
      BY <1>2, <2>3 DEF Shares
    <3> QED
      BY <2>1, <3>1 DEF Lock!Next, Lock!AcquireExclusive
  <2> QED
    BY <2>2, <2>3
<1>3. ASSUME NEW t \in Workers, Holds(t), ~Holds(t)', UNCHANGED <<lock_type, is_read>>,
             \A u \in Workers : u # t => (Holds(u)' <=> Holds(u))
      PROVE Lock!Next
  <2>1. CASE Shares(t)
    <3>1. t \in shar /\ excl' = excl /\ shar' = shar \ {t}
      BY <1>3, <2>1 DEF Shares
    <3> QED
      BY <3>1 DEF Lock!Next, Lock!ReleaseShared
  <2>2. CASE ~Shares(t)
    <3>1. t \in excl /\ excl' = excl \ {t} /\ shar' = shar
      BY <1>3, <2>2 DEF Shares
    <3> QED
      BY <3>1 DEF Lock!Next, Lock!ReleaseExclusive
  <2> QED
    BY <2>1, <2>2
<1> HIDE DEF excl, shar
<1> USE DEF TypeOK, Goto, config, mainVars, lockVars, gateVars, waiterVars,
            statVars, dataVars
<1>4. CASE Main \/ Signal
  <2>1. CASE CreateWorker
    <3>1. created \in Workers /\ pc[created] = "unborn"
      BY <2>1, ConstantsAssumption DEF CreateWorker, Workers, ConstantsAssumption, LockInv
    <3> QED
      BY <2>1, <3>1, <1>1 DEF CreateWorker, Holds, Holding, Shares
  <2>2. CASE Signal \/ CreateFails \/ AllCreated \/ DurationOver \/ JoinWorker
             \/ JoinGarbage \/ Report
    BY <2>2, <1>1
    DEF Signal, CreateFails, AllCreated, DurationOver, JoinWorker, JoinGarbage,
        Report, Holds, Shares
  <2> QED
    BY <1>4, <2>1, <2>2 DEF Main
<1>5. ASSUME NEW t \in Workers, Worker(t) \/ SpuriousWake(t)
      PROVE Lock!Next \/ UNCHANGED Lock!lockVars
  <2>1. CASE GateArrive(t) \/ GateRecheck(t) \/ SpuriousWake(t) \/ Stops(t)
    BY <2>1, <1>1 DEF GateArrive, GateRecheck, SpuriousWake, Stops, Holds, Holding, Shares
  <2>2. CASE ChooseOperation(t) \/ UpdateStats(t)
    BY <2>2, <1>1 DEF ChooseOperation, UpdateStats, Holds, Holding, Shares
  <2>3. CASE CountWaiter(t) \/ LoadCurrent(t) \/ CompareMax(t) \/ StoreMax(t)
    BY <2>3, <1>1 DEF CountWaiter, LoadCurrent, CompareMax, StoreMax, Holds, Holding, Shares
  <2>4. CASE SpinAnnounce(t) \/ SpinWithdraw(t) \/ UncountWaiter(t) \/ RecordContention(t)
    BY <2>4, <1>1 DEF SpinAnnounce, SpinWithdraw, UncountWaiter, RecordContention,
                      Holds, Holding, Shares
  <2>5. CASE ReadSharedData(t) \/ LoadSharedData(t) \/ StoreSharedData(t)
    BY <2>5, <1>1 DEF ReadSharedData, LoadSharedData, StoreSharedData, Holds, Holding, Shares
  <2>6. CASE LockMutex(t)
    <3>1. \A u \in Workers : ~Holds(u)
      BY <2>6, ConstantsAssumption DEF LockMutex, LockInv, Recorded, ConstantsAssumption
    <3> QED
      BY <2>6, <3>1, <1>2 DEF LockMutex, Holds, Holding
  <2>7. CASE WriteLock(t)
    <3>1. \A u \in Workers : ~Holds(u)
      BY <2>7, ConstantsAssumption DEF WriteLock, LockInv, Recorded, ConstantsAssumption
    <3> QED
      BY <2>7, <3>1, <1>2 DEF WriteLock, Holds, Holding
  <2>8. CASE ReadLock(t)
    <3>1. \A u \in Workers : Holds(u) => Shares(u) /\ Shares(t)
      BY <2>8, ConstantsAssumption DEF ReadLock, LockInv, Recorded, ConstantsAssumption, Shares
    <3> QED
      BY <2>8, <3>1, <1>2 DEF ReadLock, Holds, Holding
  <2>9. CASE TestAndSet(t)
    <3>1. CASE flag
      BY <2>9, <3>1, <1>1 DEF TestAndSet, Holds, Holding, Shares
    <3>2. CASE ~flag
      <4>1. \A u \in Workers : ~Holds(u)
        BY <2>9, <3>2 DEF TestAndSet, LockInv, Recorded
      <4> QED
        BY <2>9, <3>2, <4>1, <1>2 DEF TestAndSet, Holds, Holding
    <3> QED
      BY <3>1, <3>2
  <2>10. CASE Unlock(t)
    <3>1. pc[t] = "unlock" /\ pc' = [pc EXCEPT ![t] = "update"]
          /\ UNCHANGED <<lock_type, is_read>>
      BY <2>10 DEF Unlock
    <3> QED
      BY <3>1, <1>3 DEF Holds, Holding
  <2> QED
    BY <1>5, <2>1, <2>2, <2>3, <2>4, <2>5, <2>6, <2>7, <2>8, <2>9, <2>10
    DEF Worker, LockAcquire
<1>6. CASE UNCHANGED vars
  BY <1>6, <1>1 DEF vars, Holds, Shares
<1> QED
  BY <1>4, <1>5, <1>6 DEF Next, Over

\* Every lock type of the benchmark implements the abstract lock.
THEOREM LockImplemented == Spec => ImplementsLock
<1>1. Init => Lock!Init
  BY DEF Init, Lock!Init, Holds, Holding
<1>2. QED
  BY <1>1, LockStep, TypeCorrect, LockInvariant, PTL DEF Spec, ImplementsLock, Lock!Spec

-----------------------------------------------------------------------------
(* What is counted: waiters, arrivals at the start gate, joined workers *)

WaitingWorkers  == {t \in Workers : Waiting(t)}
SpinningWorkers == {t \in Workers : pc[t] \in {"spin", "spun"}}
ArrivedWorkers  == {t \in Workers : pc[t] \notin {"unborn", "gate"}}

\* What a worker has read of the waiters, and may store as their maximum, has
\* been reached.
CountInv ==
  /\ WaitersCounted
  /\ g_current_waiters <= peak
  /\ \A t \in Workers : seen_current[t] <= peak

\* The gate has counted who has come to it, and is open when they are all.
GateInv ==
  workload = "HERD" =>
    /\ ready_threads = Cardinality(ArrivedWorkers)
    /\ all_ready => ready_threads = NumThreads
    /\ \A t \in Workers : pc[t] \notin {"unborn", "gate", "asleep", "woken"} => all_ready

\* Whom main has passed in its join loop has ended or never was, and of the
\* lock only what its type uses is ever taken, by somebody inside.
EndInv ==
  /\ main \in {"create", "sleep"} => joined = 0
  /\ main = "exit" => joined = NumThreads
  /\ \A t \in Workers : t < joined => pc[t] \in {"unborn", "done"}

UnusedInv ==
  /\ lock_type # "RWLOCK" => readers = {}
  /\ lock_type = "SPINLOCK" => owner = NoOne
  /\ flag => lock_type = "SPINLOCK" /\ \E t \in Workers : Holds(t)

-----------------------------------------------------------------------------
(* Sets of workers *)

LEMMA WorkersFinite == IsFiniteSet(Workers) /\ Cardinality(Workers) = NumThreads
BY FS_Interval, ConstantsAssumption DEF ConstantsAssumption, Workers

\* A set of workers is finite and not larger than their number; as large, it
\* is all of them.
LEMMA SetOfWorkers ==
  ASSUME NEW S \in SUBSET Workers
  PROVE  /\ IsFiniteSet(S) /\ Cardinality(S) \in Nat /\ Cardinality(S) <= NumThreads
         /\ Cardinality(S) = NumThreads => S = Workers
<1>1. IsFiniteSet(S) /\ Cardinality(S) <= NumThreads
      /\ (Cardinality(S) = NumThreads => S = Workers)
  BY WorkersFinite, FS_Subset
<1> QED
  BY <1>1, FS_CardinalityType

LEMMA OneMore ==
  ASSUME NEW S \in SUBSET Workers, NEW t \in Workers, t \notin S, NEW T, T = S \cup {t}
  PROVE  Cardinality(T) = Cardinality(S) + 1
BY SetOfWorkers, FS_AddElement

LEMMA OneLess ==
  ASSUME NEW S \in SUBSET Workers, NEW t \in S, NEW T, T = S \ {t}
  PROVE  Cardinality(T) = Cardinality(S) - 1
BY SetOfWorkers, FS_RemoveElement

-----------------------------------------------------------------------------
(* The waiters *)

\* A step after which the same workers wait and spin, and no worker has read
\* more than the peak, keeps the counts right.
LEMMA SameWaiters ==
  ASSUME TypeOK, CountInv, UNCHANGED <<g_current_waiters, spin_waiters, peak>>,
         WaitingWorkers' = WaitingWorkers, SpinningWorkers' = SpinningWorkers,
         g_max_waiters' <= peak, \A t \in Workers : seen_current'[t] <= peak
  PROVE  CountInv'
BY DEF CountInv, WaitersCounted, WaitingWorkers, SpinningWorkers

\* As above, for a step of one worker that stays where it is counted.
LEMMA SameWaitersMove ==
  ASSUME TypeOK, CountInv, NEW t \in Workers, NEW from, NEW to, Goto(t, from, to),
         UNCHANGED <<g_current_waiters, spin_waiters, peak, g_max_waiters, seen_current>>,
         from \in {"load_current", "load_max", "store_max", "lock", "spin", "spun", "locked"}
           <=> to \in {"load_current", "load_max", "store_max", "lock", "spin", "spun", "locked"},
         from \in {"spin", "spun"} <=> to \in {"spin", "spun"}
  PROVE  CountInv'
<1>1. WaitingWorkers' = WaitingWorkers
  BY DEF TypeOK, Goto, WaitingWorkers, Waiting
<1>2. SpinningWorkers' = SpinningWorkers
  BY DEF TypeOK, Goto, SpinningWorkers
<1>3. g_max_waiters' <= peak /\ \A u \in Workers : seen_current'[u] <= peak
  BY DEF CountInv, WaitersCounted
<1> QED
  BY <1>1, <1>2, <1>3, SameWaiters

LEMMA CountInvStep == TypeOK /\ LockInv /\ CountInv /\ [Next]_vars => CountInv'
<1> SUFFICES ASSUME TypeOK, LockInv, CountInv, [Next]_vars PROVE CountInv'
  OBVIOUS
<1> USE DEF config, mainVars, lockVars, gateVars, waiterVars, statVars, dataVars
<1>1. ASSUME UNCHANGED <<pc, waiterVars, spin_waiters>> PROVE CountInv'
  <2>1. WaitingWorkers' = WaitingWorkers /\ SpinningWorkers' = SpinningWorkers
    BY <1>1 DEF WaitingWorkers, Waiting, SpinningWorkers
  <2> QED
    BY <1>1, <2>1, SameWaiters DEF CountInv, WaitersCounted
<1>2. CASE CreateWorker
  <2>1. created \in Workers /\ pc[created] = "unborn"
    BY <1>2, ConstantsAssumption DEF ConstantsAssumption, CreateWorker, Workers, LockInv, TypeOK
  <2>2. WaitingWorkers' = WaitingWorkers /\ SpinningWorkers' = SpinningWorkers
    BY <1>2, <2>1 DEF CreateWorker, TypeOK, WaitingWorkers, Waiting, SpinningWorkers
  <2> QED
    BY <1>2, <2>2, SameWaiters DEF CreateWorker, CountInv, WaitersCounted
<1>3. CASE CreateFails \/ AllCreated \/ DurationOver \/ JoinWorker \/ JoinGarbage \/ Report
           \/ Signal
  BY <1>1, <1>3
  DEF CreateFails, AllCreated, DurationOver, JoinWorker, JoinGarbage, Report, Signal
<1>4. ASSUME NEW t \in Workers, Worker(t) \/ SpuriousWake(t) PROVE CountInv'
  <2>1. CASE GateArrive(t)
    <3>1. WaitingWorkers' = WaitingWorkers /\ SpinningWorkers' = SpinningWorkers
      BY <2>1 DEF GateArrive, TypeOK, WaitingWorkers, Waiting, SpinningWorkers
    <3> QED
      BY <2>1, <3>1, SameWaiters DEF GateArrive, CountInv, WaitersCounted
  <2>2. CASE GateRecheck(t) \/ SpuriousWake(t) \/ Stops(t) \/ ChooseOperation(t)
    BY <2>2, SameWaitersMove DEF GateRecheck, SpuriousWake, Stops, ChooseOperation
  <2>3. CASE CountWaiter(t)
    <3>1. WaitingWorkers' = WaitingWorkers \cup {t} /\ t \notin WaitingWorkers
      BY <2>3 DEF CountWaiter, Goto, TypeOK, WaitingWorkers, Waiting
    <3>2. Cardinality(WaitingWorkers') = Cardinality(WaitingWorkers) + 1
      BY <3>1, OneMore DEF WaitingWorkers
    <3>3. Cardinality(WaitingWorkers') \in Nat /\ Cardinality(WaitingWorkers') <= NumThreads
      <4>1. WaitingWorkers' \in SUBSET Workers
        BY <3>1 DEF WaitingWorkers
      <4> QED
        BY <4>1, SetOfWorkers
    <3>4. SpinningWorkers' = SpinningWorkers
      BY <2>3 DEF CountWaiter, Goto, TypeOK, SpinningWorkers
    <3>5. /\ g_current_waiters' = g_current_waiters + 1
          /\ peak' = IF g_current_waiters' > peak THEN g_current_waiters' ELSE peak
          /\ UNCHANGED <<g_max_waiters, seen_current, spin_waiters>>
      BY <2>3 DEF CountWaiter
    <3>6. g_current_waiters' = Cardinality(WaitingWorkers')
      BY <3>2, <3>5 DEF CountInv, WaitersCounted, WaitingWorkers
    <3>7. spin_waiters' = Cardinality(SpinningWorkers')
      BY <3>4, <3>5 DEF CountInv, WaitersCounted, SpinningWorkers
    <3>8. /\ g_max_waiters' <= peak' /\ peak' <= NumThreads /\ g_current_waiters' <= peak'
          /\ \A u \in Workers : seen_current'[u] <= peak'
      BY <3>3, <3>5, <3>6, ConstantsAssumption
      DEF ConstantsAssumption, CountInv, WaitersCounted, TypeOK
    <3> QED
      BY <3>6, <3>7, <3>8 DEF CountInv, WaitersCounted, WaitingWorkers, SpinningWorkers
  <2>4. CASE LoadCurrent(t) \/ CompareMax(t) \/ StoreMax(t)
    <3>1. WaitingWorkers' = WaitingWorkers /\ SpinningWorkers' = SpinningWorkers
      BY <2>4
      DEF LoadCurrent, CompareMax, StoreMax, Goto, TypeOK, WaitingWorkers, Waiting,
          SpinningWorkers
    <3>2. 0 <= peak
      <4>1. Cardinality(WaitingWorkers) \in Nat
        BY SetOfWorkers DEF WaitingWorkers
      <4> QED
        BY <4>1 DEF CountInv, WaitersCounted, WaitingWorkers, TypeOK
    <3>3. UNCHANGED <<g_current_waiters, spin_waiters, peak>>
      BY <2>4 DEF LoadCurrent, CompareMax, StoreMax
    <3>4. \A u \in Workers : seen_current'[u] <= peak
      BY <2>4, <3>2 DEF LoadCurrent, CompareMax, StoreMax, CountInv, TypeOK
    <3>5. g_max_waiters' <= peak
      BY <2>4 DEF LoadCurrent, CompareMax, StoreMax, CountInv, WaitersCounted
    <3> QED
      BY <3>1, <3>3, <3>4, <3>5, SameWaiters
  <2>5. CASE LockMutex(t) \/ ReadLock(t) \/ WriteLock(t)
    BY <2>5, SameWaitersMove DEF LockMutex, ReadLock, WriteLock
  <2>6. CASE TestAndSet(t)
    BY <2>6, SameWaitersMove DEF TestAndSet
  <2>7. CASE SpinAnnounce(t)
    <3>1. SpinningWorkers' = SpinningWorkers \cup {t} /\ t \notin SpinningWorkers
      BY <2>7 DEF SpinAnnounce, Goto, TypeOK, SpinningWorkers
    <3>2. Cardinality(SpinningWorkers') = Cardinality(SpinningWorkers) + 1
      BY <3>1, OneMore DEF SpinningWorkers
    <3>3. WaitingWorkers' = WaitingWorkers
      BY <2>7 DEF SpinAnnounce, Goto, TypeOK, WaitingWorkers, Waiting
    <3> QED
      BY <2>7, <3>2, <3>3
      DEF SpinAnnounce, CountInv, WaitersCounted, WaitingWorkers, SpinningWorkers
  <2>8. CASE SpinWithdraw(t)
    <3>1. SpinningWorkers' = SpinningWorkers \ {t} /\ t \in SpinningWorkers
      BY <2>8 DEF SpinWithdraw, Goto, TypeOK, SpinningWorkers
    <3>2. Cardinality(SpinningWorkers') = Cardinality(SpinningWorkers) - 1
      BY <3>1, OneLess DEF SpinningWorkers
    <3>3. WaitingWorkers' = WaitingWorkers
      BY <2>8 DEF SpinWithdraw, Goto, TypeOK, WaitingWorkers, Waiting
    <3> QED
      BY <2>8, <3>2, <3>3
      DEF SpinWithdraw, CountInv, WaitersCounted, WaitingWorkers, SpinningWorkers
  <2>9. CASE UncountWaiter(t)
    <3>1. WaitingWorkers' = WaitingWorkers \ {t} /\ t \in WaitingWorkers
      BY <2>9 DEF UncountWaiter, Goto, TypeOK, WaitingWorkers, Waiting
    <3>2. Cardinality(WaitingWorkers') = Cardinality(WaitingWorkers) - 1
      BY <3>1, OneLess DEF WaitingWorkers
    <3>3. SpinningWorkers' = SpinningWorkers
      BY <2>9 DEF UncountWaiter, Goto, TypeOK, SpinningWorkers
    <3>4. g_current_waiters' = g_current_waiters - 1
          /\ UNCHANGED <<g_max_waiters, seen_current, peak, spin_waiters>>
      BY <2>9 DEF UncountWaiter
    <3> QED
      BY <3>2, <3>3, <3>4
      DEF CountInv, WaitersCounted, WaitingWorkers, SpinningWorkers, TypeOK
  <2>10. CASE RecordContention(t) \/ ReadSharedData(t) \/ LoadSharedData(t)
              \/ StoreSharedData(t) \/ Unlock(t) \/ UpdateStats(t)
    BY <2>10, SameWaitersMove
    DEF RecordContention, ReadSharedData, LoadSharedData, StoreSharedData, Unlock, UpdateStats
  <2> QED
    BY <1>4, <2>1, <2>2, <2>3, <2>4, <2>5, <2>6, <2>7, <2>8, <2>9, <2>10
    DEF Worker, LockAcquire
<1>5. CASE UNCHANGED vars
  BY <1>1, <1>5 DEF vars
<1> QED
  BY <1>2, <1>3, <1>4, <1>5 DEF Next, Main, Over

\* The waiters the monitor shows are the workers inside lock_acquire, and the
\* recorded maximum is one that was reached, although it may get smaller.
THEOREM WaitersAreCounted == Spec => []WaitersCounted
<1>1. Init => CountInv
  <2> SUFFICES ASSUME Init PROVE CountInv
    OBVIOUS
  <2>1. WaitingWorkers = {} /\ SpinningWorkers = {}
    BY DEF Init, WaitingWorkers, Waiting, SpinningWorkers
  <2>2. Cardinality({}) = 0
    BY FS_EmptySet
  <2> QED
    BY <2>1, <2>2, ConstantsAssumption
    DEF ConstantsAssumption, Init, CountInv, WaitersCounted, WaitingWorkers, SpinningWorkers
<1>2. CountInv => WaitersCounted
  BY DEF CountInv
<1> QED
  BY <1>1, <1>2, CountInvStep, TypeCorrect, LockInvariant, PTL DEF Spec

-----------------------------------------------------------------------------
(* The start gate *)

LEMMA InitialGate == Init => GateInv
<1>1. Init => ArrivedWorkers = {}
  BY DEF Init, ArrivedWorkers
<1> QED
  BY <1>1, FS_EmptySet DEF Init, GateInv

LEMMA GateInvStep == TypeOK /\ LockInv /\ GateInv /\ [Next]_vars => GateInv'
<1> SUFFICES ASSUME TypeOK, LockInv, GateInv, [Next]_vars, workload' = "HERD"
             PROVE  /\ ready_threads' = Cardinality(ArrivedWorkers')
                    /\ all_ready' => ready_threads' = NumThreads
                    /\ \A u \in Workers :
                         pc'[u] \notin {"unborn", "gate", "asleep", "woken"} => all_ready'
  BY DEF GateInv, ArrivedWorkers
<1> USE DEF config, mainVars, lockVars, gateVars, waiterVars, statVars, dataVars
<1>1. workload = "HERD"
  <2>1. Main \/ Signal \/ Over \/ UNCHANGED vars => UNCHANGED workload
    BY DEF Main, Over, CreateWorker, CreateFails, AllCreated, DurationOver, JoinWorker,
       JoinGarbage, Report, Signal, vars
  <2>2. ASSUME NEW t \in Workers, Worker(t) \/ SpuriousWake(t) PROVE UNCHANGED workload
    <3>1. \/ GateArrive(t) \/ GateRecheck(t) \/ SpuriousWake(t) \/ Stops(t)
          \/ ChooseOperation(t) \/ CountWaiter(t) \/ LoadCurrent(t) \/ CompareMax(t)
          => UNCHANGED workload
      BY DEF GateArrive, GateRecheck, SpuriousWake, Stops, ChooseOperation, CountWaiter,
         LoadCurrent, CompareMax
    <3>2. \/ StoreMax(t) \/ LockMutex(t) \/ ReadLock(t) \/ WriteLock(t) \/ SpinAnnounce(t)
          \/ TestAndSet(t) \/ SpinWithdraw(t) \/ UncountWaiter(t)
          => UNCHANGED workload
      BY DEF StoreMax, LockMutex, ReadLock, WriteLock, SpinAnnounce, TestAndSet, SpinWithdraw,
         UncountWaiter
    <3>3. \/ RecordContention(t) \/ ReadSharedData(t) \/ LoadSharedData(t)
          \/ StoreSharedData(t) \/ Unlock(t) \/ UpdateStats(t)
          => UNCHANGED workload
      BY DEF RecordContention, ReadSharedData, LoadSharedData, StoreSharedData, Unlock,
         UpdateStats
    <3> QED
      BY <2>2, <3>1, <3>2, <3>3 DEF Worker, LockAcquire
  <2>3. UNCHANGED workload
    BY <2>1, <2>2 DEF Next
  <2> QED
    BY <2>3
<1>2. /\ ready_threads = Cardinality(ArrivedWorkers)
      /\ all_ready => ready_threads = NumThreads
      /\ \A u \in Workers : pc[u] \notin {"unborn", "gate", "asleep", "woken"} => all_ready
  BY <1>1 DEF GateInv
<1>3. ASSUME UNCHANGED <<ready_threads, all_ready>>,
             \A u \in Workers : pc'[u] \in {"unborn", "gate"} <=> pc[u] \in {"unborn", "gate"},
             \A u \in Workers : pc'[u] \in {"unborn", "gate", "asleep", "woken"} \/ all_ready
                               \/ pc[u] \notin {"unborn", "gate", "asleep", "woken"}
      PROVE  /\ ready_threads' = Cardinality(ArrivedWorkers')
             /\ all_ready' => ready_threads' = NumThreads
             /\ \A u \in Workers :
                  pc'[u] \notin {"unborn", "gate", "asleep", "woken"} => all_ready'
  <2>1. ArrivedWorkers' = ArrivedWorkers
    BY <1>3 DEF ArrivedWorkers
  <2> QED
    BY <1>2, <1>3, <2>1
<1>4. CASE CreateWorker
  <2>1. created \in Workers /\ pc[created] = "unborn"
    BY <1>4, ConstantsAssumption DEF ConstantsAssumption, CreateWorker, Workers, LockInv, TypeOK
  <2> QED
    BY <1>1, <1>3, <1>4, <2>1 DEF CreateWorker, TypeOK
<1>5. CASE \/ CreateFails \/ AllCreated \/ DurationOver \/ JoinWorker \/ JoinGarbage \/ Report
           \/ Signal \/ UNCHANGED vars
  BY <1>3, <1>5
  DEF CreateFails, AllCreated, DurationOver, JoinWorker, JoinGarbage, Report, Signal, vars
<1>6. ASSUME NEW t \in Workers, GateArrive(t)
      PROVE  /\ ready_threads' = Cardinality(ArrivedWorkers')
             /\ all_ready' => ready_threads' = NumThreads
             /\ \A u \in Workers :
                  pc'[u] \notin {"unborn", "gate", "asleep", "woken"} => all_ready'
  <2>1. pc[t] = "gate" /\ t \notin ArrivedWorkers /\ ready_threads' = ready_threads + 1
    BY <1>6 DEF GateArrive, ArrivedWorkers
  <2>2. ~all_ready
    <3>1. ArrivedWorkers # Workers
      BY <2>1
    <3> QED
      BY <1>2, <3>1, SetOfWorkers DEF ArrivedWorkers
  <2>3. /\ \/ /\ ready_threads' = NumThreads /\ all_ready' = TRUE
              /\ pc' = [u \in Workers |-> IF u = t THEN "loop"
                                         ELSE IF pc[u] = "asleep" THEN "woken" ELSE pc[u]]
           \/ /\ ready_threads' # NumThreads /\ all_ready' = all_ready
              /\ pc' = [pc EXCEPT ![t] = "asleep"]
    BY <1>6 DEF GateArrive
  <2>4. ArrivedWorkers' = ArrivedWorkers \cup {t}
    BY <2>1, <2>3 DEF ArrivedWorkers, TypeOK
  <2>5. Cardinality(ArrivedWorkers') = Cardinality(ArrivedWorkers) + 1
    BY <2>1, <2>4, OneMore DEF ArrivedWorkers
  <2>6. \A u \in Workers : pc'[u] \notin {"unborn", "gate", "asleep", "woken"} => all_ready'
    BY <1>2, <2>2, <2>3 DEF TypeOK
  <2> QED
    BY <1>2, <2>1, <2>2, <2>3, <2>5, <2>6
<1>7. ASSUME NEW t \in Workers, Worker(t) \/ SpuriousWake(t), ~GateArrive(t)
      PROVE  /\ ready_threads' = Cardinality(ArrivedWorkers')
             /\ all_ready' => ready_threads' = NumThreads
             /\ \A u \in Workers :
                  pc'[u] \notin {"unborn", "gate", "asleep", "woken"} => all_ready'
  <2> USE DEF TypeOK, Goto
  <2>1. CASE GateRecheck(t) \/ SpuriousWake(t) \/ Stops(t) \/ ChooseOperation(t)
    BY <1>3, <2>1 DEF GateRecheck, SpuriousWake, Stops, ChooseOperation
  <2>2. CASE CountWaiter(t) \/ LoadCurrent(t) \/ CompareMax(t) \/ StoreMax(t)
    BY <1>3, <2>2 DEF CountWaiter, LoadCurrent, CompareMax, StoreMax
  <2>3. CASE LockMutex(t) \/ ReadLock(t) \/ WriteLock(t)
    BY <1>3, <2>3 DEF LockMutex, ReadLock, WriteLock
  <2>4. CASE SpinAnnounce(t) \/ TestAndSet(t) \/ SpinWithdraw(t)
    BY <1>3, <2>4 DEF SpinAnnounce, TestAndSet, SpinWithdraw
  <2>5. CASE UncountWaiter(t) \/ RecordContention(t) \/ ReadSharedData(t) \/ LoadSharedData(t)
    BY <1>3, <2>5 DEF UncountWaiter, RecordContention, ReadSharedData, LoadSharedData
  <2>6. CASE StoreSharedData(t) \/ Unlock(t) \/ UpdateStats(t)
    BY <1>3, <2>6 DEF StoreSharedData, Unlock, UpdateStats
  <2> QED
    BY <1>7, <2>1, <2>2, <2>3, <2>4, <2>5, <2>6 DEF Worker, LockAcquire
<1> QED
  BY <1>4, <1>5, <1>6, <1>7 DEF Next, Main, Over

\* "All threads start together" (line 272): under the herd workload nobody is
\* at the lock before all num_threads workers have come to the gate, although
\* waits may end without a broadcast.
THEOREM TheHerdStartsTogether == Spec => []HerdStartsTogether
<1>1. GateInv => HerdStartsTogether
  BY DEF GateInv, HerdStartsTogether
<1> QED
  BY <1>1, InitialGate, GateInvStep, TypeCorrect, LockInvariant, PTL DEF Spec

-----------------------------------------------------------------------------
(* The start gate implements AbstractBarrier *)

Herd == workload = "HERD"
AtTheGate == {t \in Workers : Herd /\ ~all_ready /\ pc[t] \in {"asleep", "woken"}}
LetGo     == {t \in Workers : Herd /\ all_ready /\ pc[t] # "done"}

\* A worker is let go when all_ready is set, before it has looked at it.
StartGate == INSTANCE AbstractBarrier
             WITH Parties <- Workers, waiting <- AtTheGate, working <- LetGo

\* Steps that leave the gate as it is and end no worker's work.
LEMMA GateStays ==
  ASSUME UNCHANGED <<workload, all_ready>>,
         \A t \in Workers :
           /\ pc'[t] = "done" <=> pc[t] = "done"
           /\ Herd /\ ~all_ready => (pc'[t] \in {"asleep", "woken"} <=> pc[t] \in {"asleep", "woken"})
  PROVE  UNCHANGED StartGate!barrierVars
BY DEF StartGate!barrierVars, AtTheGate, LetGo, Herd

LEMMA GateArrivalIsOne ==
  ASSUME TypeOK, GateInv, NEW t \in Workers, GateArrive(t), Herd
  PROVE  StartGate!Arrive(t) \/ StartGate!Release(t)
<1>1. /\ pc[t] = "gate" /\ workload' = workload /\ ready_threads' = ready_threads + 1
      /\ \/ /\ ready_threads' = NumThreads /\ all_ready' = TRUE
            /\ pc' = [u \in Workers |-> IF u = t THEN "loop"
                                       ELSE IF pc[u] = "asleep" THEN "woken" ELSE pc[u]]
         \/ /\ ready_threads' # NumThreads /\ all_ready' = all_ready
            /\ pc' = [pc EXCEPT ![t] = "asleep"]
  BY DEF GateArrive, config
<1>2. /\ ready_threads = Cardinality(ArrivedWorkers)
      /\ all_ready => ready_threads = NumThreads
      /\ \A u \in Workers : pc[u] \notin {"unborn", "gate", "asleep", "woken"} => all_ready
  BY DEF GateInv, Herd
<1>3. ArrivedWorkers \in SUBSET Workers /\ t \notin ArrivedWorkers
  BY <1>1 DEF ArrivedWorkers
<1>4. ~all_ready
  BY <1>2, <1>3, SetOfWorkers
<1>5. AtTheGate = ArrivedWorkers /\ LetGo = {}
  BY <1>2, <1>4 DEF TypeOK, Places, AtTheGate, LetGo, ArrivedWorkers, Herd
<1>6. StartGate!Comes(t)
  BY <1>3, <1>5 DEF StartGate!Comes
<1>7. Cardinality(AtTheGate \cup {t}) = ready_threads'
  BY <1>1, <1>2, <1>3, <1>5, OneMore
<1>8. AtTheGate \cup {t} = Workers <=> ready_threads' = NumThreads
  BY <1>3, <1>5, <1>7, SetOfWorkers, WorkersFinite
<1>9. CASE ready_threads' = NumThreads
  <2>1. /\ all_ready' = TRUE
        /\ \A u \in Workers : u = t \/ pc[u] \in {"asleep", "woken"}
    BY <1>1, <1>8, <1>9 DEF AtTheGate
  <2>2. \A u \in Workers : pc'[u] # "done"
    BY <1>1, <1>9, <2>1
  <2>3. AtTheGate' = {} /\ LetGo' = Workers
    BY <1>1, <2>1, <2>2 DEF AtTheGate, LetGo, Herd
  <2> QED
    BY <1>6, <1>8, <1>9, <2>3 DEF StartGate!Release
<1>10. CASE ready_threads' # NumThreads
  <2>1. all_ready' = all_ready /\ pc' = [pc EXCEPT ![t] = "asleep"]
    BY <1>1, <1>10
  <2>2. AtTheGate' = AtTheGate \cup {t}
    BY <1>1, <1>4, <2>1 DEF TypeOK, AtTheGate, Herd
  <2>3. LetGo' = LetGo
    BY <1>1, <1>4, <2>1 DEF LetGo
  <2> QED
    BY <1>6, <1>8, <1>10, <2>2, <2>3 DEF StartGate!Arrive
<1> QED
  BY <1>9, <1>10

LEMMA GateSimulated ==
  TypeOK /\ LockInv /\ GateInv /\ [Next]_vars => [StartGate!Next]_StartGate!barrierVars
<1> SUFFICES ASSUME TypeOK, LockInv, GateInv, [Next]_vars
             PROVE  StartGate!Next \/ UNCHANGED StartGate!barrierVars
  OBVIOUS
<1> USE DEF config, mainVars, lockVars, gateVars, waiterVars, statVars, dataVars
<1>1. CASE CreateWorker
  <2>1. created \in Workers /\ pc[created] = "unborn"
    BY <1>1, ConstantsAssumption DEF ConstantsAssumption, CreateWorker, Workers, LockInv, TypeOK
  <2> QED
    BY <1>1, <2>1, GateStays DEF CreateWorker, TypeOK
<1>2. CASE \/ CreateFails \/ AllCreated \/ DurationOver \/ JoinWorker \/ JoinGarbage \/ Report
           \/ Signal \/ UNCHANGED vars
  BY <1>2, GateStays
  DEF CreateFails, AllCreated, DurationOver, JoinWorker, JoinGarbage, Report, Signal, vars
<1>3. ASSUME NEW t \in Workers, GateArrive(t)
      PROVE  StartGate!Next \/ UNCHANGED StartGate!barrierVars
  <2>1. CASE Herd
    BY <1>3, <2>1, GateArrivalIsOne DEF StartGate!Next
  <2>2. CASE ~Herd
    <3>1. ~Herd'
      BY <1>3, <2>2 DEF GateArrive, Herd
    <3> QED
      BY <2>2, <3>1 DEF StartGate!barrierVars, AtTheGate, LetGo
  <2> QED
    BY <2>1, <2>2
<1>4. ASSUME NEW t \in Workers, Stops(t)
      PROVE  StartGate!Next \/ UNCHANGED StartGate!barrierVars
  <2>1. pc[t] = "loop" /\ pc' = [pc EXCEPT ![t] = "done"] /\ UNCHANGED <<workload, all_ready>>
    BY <1>4 DEF Stops, Goto
  <2>2. AtTheGate' = AtTheGate
    BY <2>1 DEF TypeOK, AtTheGate, Herd
  <2>3. CASE Herd
    <3>1. t \in LetGo /\ LetGo' = LetGo \ {t}
      BY <2>1, <2>3 DEF TypeOK, GateInv, LetGo, Herd
    <3> QED
      BY <2>2, <3>1 DEF StartGate!Next, StartGate!Leave
  <2>4. CASE ~Herd
    BY <2>1, <2>2, <2>4 DEF StartGate!barrierVars, LetGo, Herd
  <2> QED
    BY <2>3, <2>4
<1>5. ASSUME NEW t \in Workers, Worker(t) \/ SpuriousWake(t), ~GateArrive(t), ~Stops(t)
      PROVE  UNCHANGED StartGate!barrierVars
  <2> USE DEF TypeOK, Goto
  <2>1. CASE GateRecheck(t) \/ SpuriousWake(t) \/ ChooseOperation(t)
    BY <2>1, GateStays DEF GateRecheck, SpuriousWake, ChooseOperation
  <2>2. CASE CountWaiter(t) \/ LoadCurrent(t) \/ CompareMax(t) \/ StoreMax(t)
    BY <2>2, GateStays DEF CountWaiter, LoadCurrent, CompareMax, StoreMax
  <2>3. CASE LockMutex(t) \/ ReadLock(t) \/ WriteLock(t)
    BY <2>3, GateStays DEF LockMutex, ReadLock, WriteLock
  <2>4. CASE SpinAnnounce(t) \/ TestAndSet(t) \/ SpinWithdraw(t)
    BY <2>4, GateStays DEF SpinAnnounce, TestAndSet, SpinWithdraw
  <2>5. CASE UncountWaiter(t) \/ RecordContention(t) \/ ReadSharedData(t) \/ LoadSharedData(t)
    BY <2>5, GateStays DEF UncountWaiter, RecordContention, ReadSharedData, LoadSharedData
  <2>6. CASE StoreSharedData(t) \/ Unlock(t) \/ UpdateStats(t)
    BY <2>6, GateStays DEF StoreSharedData, Unlock, UpdateStats
  <2> QED
    BY <1>5, <2>1, <2>2, <2>3, <2>4, <2>5, <2>6 DEF Worker, LockAcquire
<1> QED
  BY <1>1, <1>2, <1>3, <1>4, <1>5 DEF Next, Main, Over

\* The start gate of the herd workload (lines 272 to 290), made of a mutex, a
\* condition variable, a counter and a flag, gives what a barrier promises,
\* although pthread_cond_wait may return without a broadcast.
THEOREM GateImplemented == Spec => StartGate!Spec
<1>1. Init => GateInv /\ StartGate!Init
  <2>1. Init => StartGate!Init
    BY DEF Init, StartGate!Init, AtTheGate, LetGo
  <2>2. Init => GateInv
    BY InitialGate
  <2> QED
    BY <2>1, <2>2
<1> QED
  BY <1>1, GateSimulated, GateInvStep, TypeCorrect, LockInvariant, PTL DEF Spec, StartGate!Spec

-----------------------------------------------------------------------------
(* The end *)

LEMMA EndInvStep == TypeOK /\ LockInv /\ EndInv /\ [Next]_vars => EndInv'
<1> SUFFICES ASSUME TypeOK, LockInv, EndInv, [Next]_vars PROVE EndInv'
  OBVIOUS
<1> USE DEF TypeOK, EndInv, config, mainVars, lockVars, gateVars, waiterVars, statVars,
            dataVars
<1>1. ASSUME UNCHANGED <<main, joined>>,
             \A u \in Workers : pc[u] \in {"unborn", "done"} => pc'[u] = pc[u]
      PROVE  EndInv'
  BY <1>1
<1>2. CASE CreateWorker
  BY <1>2, ConstantsAssumption DEF ConstantsAssumption, CreateWorker, Workers
<1>3. CASE CreateFails \/ AllCreated \/ DurationOver \/ Report \/ Signal \/ UNCHANGED vars
  BY <1>3, ConstantsAssumption
  DEF ConstantsAssumption, CreateFails, AllCreated, DurationOver, Report, Signal, vars
<1>4. CASE JoinWorker
  <2>1. /\ main = "join" /\ main' = main /\ joined' = joined + 1 /\ UNCHANGED pc
        /\ pc[joined] = "done"
    BY <1>4 DEF JoinWorker
  <2>2. joined \in Nat /\ \A u \in Workers : u \in Nat
    BY ConstantsAssumption DEF ConstantsAssumption, Workers
  <2>3. \A u \in Workers : u < joined + 1 => u < joined \/ u = joined
    BY <2>2
  <2> QED
    BY <2>1, <2>3
<1>5. CASE JoinGarbage
  <2>1. \A u \in Workers : u = joined => pc[u] = "unborn"
    BY <1>5 DEF JoinGarbage, LockInv, Workers
  <2>2. /\ main = "join" /\ joined \in Nat /\ pc' = pc
        /\ \/ joined' = joined + 1 /\ main' = main
           \/ joined' = joined /\ main' \in {"crashed", "blocked"}
    BY <1>5, ConstantsAssumption DEF ConstantsAssumption, JoinGarbage
  <2>3. \A u \in Workers : u < joined' => u < joined \/ u = joined
    BY <2>2 DEF Workers
  <2> QED
    BY <2>1, <2>2, <2>3
<1>6. ASSUME NEW t \in Workers, Worker(t) \/ SpuriousWake(t) PROVE EndInv'
  <2> USE DEF Goto
  <2>1. CASE GateArrive(t) \/ GateRecheck(t) \/ SpuriousWake(t) \/ Stops(t)
    BY <1>1, <2>1 DEF GateArrive, GateRecheck, SpuriousWake, Stops
  <2>2. CASE ChooseOperation(t) \/ CountWaiter(t) \/ LoadCurrent(t) \/ CompareMax(t)
    BY <1>1, <2>2 DEF ChooseOperation, CountWaiter, LoadCurrent, CompareMax
  <2>3. CASE StoreMax(t) \/ LockMutex(t) \/ ReadLock(t) \/ WriteLock(t)
    BY <1>1, <2>3 DEF StoreMax, LockMutex, ReadLock, WriteLock
  <2>4. CASE SpinAnnounce(t) \/ TestAndSet(t) \/ SpinWithdraw(t) \/ UncountWaiter(t)
    BY <1>1, <2>4 DEF SpinAnnounce, TestAndSet, SpinWithdraw, UncountWaiter
  <2>5. CASE RecordContention(t) \/ ReadSharedData(t) \/ LoadSharedData(t)
             \/ StoreSharedData(t)
    BY <1>1, <2>5 DEF RecordContention, ReadSharedData, LoadSharedData, StoreSharedData
  <2>6. CASE Unlock(t) \/ UpdateStats(t)
    BY <1>1, <2>6 DEF Unlock, UpdateStats
  <2> QED
    BY <1>6, <2>1, <2>2, <2>3, <2>4, <2>5, <2>6 DEF Worker, LockAcquire
<1> QED
  BY <1>2, <1>3, <1>4, <1>5, <1>6 DEF Next, Main, Over

LEMMA UnusedInvStep == TypeOK /\ LockInv /\ UnusedInv /\ [Next]_vars => UnusedInv'
<1> SUFFICES ASSUME TypeOK, LockInv, UnusedInv, [Next]_vars PROVE UnusedInv'
  OBVIOUS
<1> USE DEF TypeOK, UnusedInv, Holds, Holding, Goto, config, mainVars, lockVars, gateVars,
            waiterVars, statVars, dataVars
<1>1. ASSUME UNCHANGED <<lock_type, owner, readers, flag>>,
             \A u \in Workers : Holds(u) => Holds(u)'
      PROVE  UnusedInv'
  BY <1>1
<1>2. CASE CreateWorker
  <2>1. created \in Workers /\ pc[created] = "unborn"
    BY <1>2, ConstantsAssumption DEF ConstantsAssumption, CreateWorker, Workers, LockInv
  <2> QED
    BY <1>1, <1>2, <2>1 DEF CreateWorker
<1>3. CASE \/ CreateFails \/ AllCreated \/ DurationOver \/ JoinWorker \/ JoinGarbage \/ Report
           \/ Signal \/ UNCHANGED vars
  BY <1>1, <1>3
  DEF CreateFails, AllCreated, DurationOver, JoinWorker, JoinGarbage, Report, Signal, vars
<1>4. ASSUME NEW t \in Workers, Worker(t) \/ SpuriousWake(t) PROVE UnusedInv'
  <2>1. CASE GateArrive(t) \/ GateRecheck(t) \/ SpuriousWake(t) \/ Stops(t)
    BY <1>1, <2>1 DEF GateArrive, GateRecheck, SpuriousWake, Stops
  <2>2. CASE ChooseOperation(t) \/ CountWaiter(t) \/ LoadCurrent(t) \/ CompareMax(t)
    BY <1>1, <2>2 DEF ChooseOperation, CountWaiter, LoadCurrent, CompareMax
  <2>3. CASE StoreMax(t) \/ SpinAnnounce(t) \/ SpinWithdraw(t) \/ UncountWaiter(t)
    BY <1>1, <2>3 DEF StoreMax, SpinAnnounce, SpinWithdraw, UncountWaiter
  <2>4. CASE LockMutex(t) \/ ReadLock(t) \/ WriteLock(t)
    BY <2>4 DEF LockMutex, ReadLock, WriteLock
  <2>5. CASE TestAndSet(t)
    <3>1. lock_type = "SPINLOCK"
      BY <2>5 DEF TestAndSet, LockInv
    <3>2. CASE flag
      BY <1>1, <2>5, <3>2 DEF TestAndSet
    <3>3. CASE ~flag
      <4>1. Holds(t)' /\ UNCHANGED <<lock_type, owner, readers>>
        BY <2>5, <3>3 DEF TestAndSet
      <4> QED
        BY <3>1, <4>1
    <3> QED
      BY <3>2, <3>3
  <2>6. CASE RecordContention(t) \/ ReadSharedData(t) \/ LoadSharedData(t)
             \/ StoreSharedData(t) \/ UpdateStats(t)
    BY <1>1, <2>6
    DEF RecordContention, ReadSharedData, LoadSharedData, StoreSharedData, UpdateStats
  <2>7. CASE Unlock(t)
    <3>1. CASE lock_type \in {"MUTEX", "ADAPTIVE"}
      BY <2>7, <3>1 DEF Unlock
    <3>2. CASE lock_type = "SPINLOCK"
      BY <2>7, <3>2 DEF Unlock
    <3>3. CASE lock_type = "RWLOCK"
      BY <2>7, <3>3 DEF Unlock
    <3> QED
      BY <3>1, <3>2, <3>3, ConstantsAssumption DEF ConstantsAssumption
  <2> QED
    BY <1>4, <2>1, <2>2, <2>3, <2>4, <2>5, <2>6, <2>7 DEF Worker, LockAcquire
<1> QED
  BY <1>2, <1>3, <1>4 DEF Next, Main, Over

\* lock_destroy finds the lock free and no waiter, also after a creation that
\* failed and joins of handles that were never filled in.
THEOREM FreeWhenDestroyed == Spec => []DestroyedWhenFree
<1>1. Init => EndInv /\ UnusedInv
  BY ConstantsAssumption DEF ConstantsAssumption, Init, EndInv, UnusedInv, Workers
<1>2. TypeOK /\ LockInv /\ EndInv /\ UnusedInv /\ WaitersCounted => DestroyedWhenFree
  <2> SUFFICES ASSUME TypeOK, LockInv, EndInv, UnusedInv, WaitersCounted, main = "exit"
               PROVE  owner = NoOne /\ readers = {} /\ ~flag /\ g_current_waiters = 0
    BY DEF DestroyedWhenFree
  <2>1. \A t \in Workers : pc[t] \in {"unborn", "done"}
    BY ConstantsAssumption DEF ConstantsAssumption, EndInv, Workers
  <2>2. \A t \in Workers : ~Holds(t) /\ ~Waiting(t)
    BY <2>1 DEF Holds, Holding, Waiting
  <2>3. g_current_waiters = 0
    <3>1. WaitingWorkers = {}
      BY <2>2 DEF WaitingWorkers
    <3> QED
      BY <3>1, FS_EmptySet DEF WaitersCounted, WaitingWorkers
  <2>4. ~flag
    BY <2>2 DEF UnusedInv
  <2>5. owner = NoOne
    BY <2>2, ConstantsAssumption
    DEF ConstantsAssumption, TypeOK, LockInv, Recorded, UnusedInv
  <2>6. readers = {}
    BY <2>2, ConstantsAssumption
    DEF ConstantsAssumption, TypeOK, LockInv, Recorded, UnusedInv
  <2> QED
    BY <2>3, <2>4, <2>5, <2>6
<1>3. EndInv /\ UnusedInv /\ TypeOK /\ LockInv /\ [Next]_vars => EndInv' /\ UnusedInv'
  BY EndInvStep, UnusedInvStep
<1> QED
  BY <1>1, <1>2, <1>3, TypeCorrect, LockInvariant, WaitersAreCounted, PTL DEF Spec

-----------------------------------------------------------------------------
(* Nobody waits for ever *)

\* The stop flag is up when main joins, every created worker has started, only
\* the herd stands at the gate, and nobody sleeps there when all have come.
WakeInv ==
  /\ main = "join" => g_stop_all
  /\ \A t \in Workers : t < created => pc[t] # "unborn"
  /\ \A t \in Workers : pc[t] \in {"gate", "asleep", "woken"} => workload = "HERD"
  /\ workload = "HERD" /\ ready_threads = NumThreads =>
       all_ready /\ \A t \in Workers : pc[t] # "asleep"

\* A step of one worker after which nobody sleeps at an open gate.
LEMMA WakeInvMove ==
  ASSUME WakeInv, UNCHANGED <<workload, g_stop_all, main, created, ready_threads, all_ready>>,
         \A u \in Workers :
           /\ pc'[u] = "unborn" => pc[u] = "unborn"
           /\ pc'[u] \in {"gate", "asleep", "woken"} => pc[u] \in {"gate", "asleep", "woken"}
           /\ pc'[u] = "asleep" => pc[u] = "asleep" \/ ~all_ready
  PROVE  WakeInv'
BY DEF WakeInv

LEMMA WakeInvStep == TypeOK /\ LockInv /\ WakeInv /\ [Next]_vars => WakeInv'
<1> SUFFICES ASSUME TypeOK, LockInv, WakeInv, [Next]_vars PROVE WakeInv'
  OBVIOUS
<1> USE DEF config, mainVars, lockVars, gateVars, waiterVars, statVars, dataVars
<1>1. CASE CreateWorker
  <2>1. created \in Workers /\ pc[created] = "unborn"
    BY <1>1, ConstantsAssumption DEF ConstantsAssumption, CreateWorker, Workers, LockInv, TypeOK
  <2>2. /\ created' = created + 1 /\ UNCHANGED <<workload, g_stop_all, main, ready_threads, all_ready>>
        /\ pc' = [pc EXCEPT ![created] = IF workload = "HERD" THEN "gate" ELSE "loop"]
    BY <1>1 DEF CreateWorker
  <2>3. \A u \in Workers : u < created + 1 => u < created \/ u = created
    BY <2>1 DEF Workers
  <2>4. \A u \in Workers : pc'[u] = IF u = created THEN IF workload = "HERD" THEN "gate" ELSE "loop"
                                    ELSE pc[u]
    BY <2>1, <2>2 DEF TypeOK
  <2> QED
    BY <2>2, <2>3, <2>4 DEF WakeInv
<1>2. CASE CreateFails \/ AllCreated \/ DurationOver \/ Report \/ Signal
  BY <1>2 DEF CreateFails, AllCreated, DurationOver, Report, Signal, WakeInv
<1>3. CASE JoinWorker \/ JoinGarbage \/ UNCHANGED vars
  BY <1>3 DEF JoinWorker, JoinGarbage, vars, WakeInv
<1>4. ASSUME NEW t \in Workers, GateArrive(t) PROVE WakeInv'
  <2>1. /\ pc[t] = "gate" /\ UNCHANGED <<workload, g_stop_all, main, created>>
        /\ \/ /\ all_ready' = TRUE
              /\ pc' = [u \in Workers |-> IF u = t THEN "loop"
                                         ELSE IF pc[u] = "asleep" THEN "woken" ELSE pc[u]]
           \/ /\ ready_threads' # NumThreads
              /\ pc' = [pc EXCEPT ![t] = "asleep"]
    BY <1>4 DEF GateArrive
  <2> QED
    BY <2>1 DEF WakeInv, TypeOK
<1>5. ASSUME NEW t \in Workers, Worker(t) \/ SpuriousWake(t), ~GateArrive(t) PROVE WakeInv'
  <2> USE DEF TypeOK, Goto
  <2>1. CASE GateRecheck(t) \/ SpuriousWake(t) \/ Stops(t) \/ ChooseOperation(t)
    BY <2>1, WakeInvMove DEF GateRecheck, SpuriousWake, Stops, ChooseOperation
  <2>2. CASE CountWaiter(t) \/ LoadCurrent(t) \/ CompareMax(t) \/ StoreMax(t)
    BY <2>2, WakeInvMove DEF CountWaiter, LoadCurrent, CompareMax, StoreMax
  <2>3. CASE LockMutex(t) \/ ReadLock(t) \/ WriteLock(t)
    BY <2>3, WakeInvMove DEF LockMutex, ReadLock, WriteLock
  <2>4. CASE SpinAnnounce(t) \/ TestAndSet(t) \/ SpinWithdraw(t)
    BY <2>4, WakeInvMove DEF SpinAnnounce, TestAndSet, SpinWithdraw
  <2>5. CASE UncountWaiter(t) \/ RecordContention(t) \/ ReadSharedData(t) \/ LoadSharedData(t)
    BY <2>5, WakeInvMove DEF UncountWaiter, RecordContention, ReadSharedData, LoadSharedData
  <2>6. CASE StoreSharedData(t) \/ Unlock(t) \/ UpdateStats(t)
    BY <2>6, WakeInvMove DEF StoreSharedData, Unlock, UpdateStats
  <2> QED
    BY <1>5, <2>1, <2>2, <2>3, <2>4, <2>5, <2>6 DEF Worker, LockAcquire
<1> QED
  BY <1>1, <1>2, <1>3, <1>4, <1>5 DEF Next, Main, Over

\* Worker t is neither asleep nor at a lock that is taken.
CanGoOn(t) ==
  \/ pc[t] \notin {"unborn", "asleep", "loop", "lock", "spin", "done"}
  \/ pc[t] = "loop" /\ (g_stop_all \/ acquisitions[t] < MaxOps)
  \/ pc[t] = "lock" /\ (lock_type # "SPINLOCK" => owner = NoOne /\ (Shares(t) \/ readers = {}))
  \/ pc[t] = "spin" /\ ~flag

\* While main waits for a worker some worker can go on; the herd must be complete.
NobodyHangs ==
  main = "join" /\ joined < created /\ pc[joined] # "done" /\ (workload = "HERD" => created = NumThreads)
  => \E t \in Workers : CanGoOn(t)

\* Main's join never waits for workers that all wait: neither the four locks
\* nor the start gate, with spurious wake-ups, can leave everybody waiting,
\* except the gate when a creation has failed and the herd is incomplete.
\* What is left of the claim that the program ends is the scheduling.
THEOREM NobodyWaitsForEver == Spec => []NobodyHangs
<1>1. Init => WakeInv /\ UnusedInv /\ GateInv
  <2> SUFFICES ASSUME Init PROVE WakeInv /\ UnusedInv /\ GateInv
    OBVIOUS
  <2>1. ArrivedWorkers = {} /\ Cardinality({}) = 0
    BY FS_EmptySet DEF Init, ArrivedWorkers
  <2>2. GateInv
    BY <2>1 DEF Init, GateInv
  <2>3. WakeInv /\ UnusedInv
    BY ConstantsAssumption DEF ConstantsAssumption, Init, WakeInv, UnusedInv, Workers
  <2> QED
    BY <2>2, <2>3
<1>2. TypeOK /\ LockInv /\ UnusedInv /\ GateInv /\ WakeInv => NobodyHangs
  <2> SUFFICES ASSUME TypeOK, LockInv, UnusedInv, GateInv, WakeInv, main = "join",
                      joined < created, workload = "HERD" => created = NumThreads,
                      \A t \in Workers : ~CanGoOn(t)
               PROVE  pc[joined] = "done"
    BY DEF NobodyHangs
  <2>1. joined \in Workers /\ pc[joined] # "unborn" /\ g_stop_all
    BY ConstantsAssumption DEF ConstantsAssumption, TypeOK, Workers, WakeInv
  <2>2. \A t \in Workers : ~Holds(t)
    BY DEF CanGoOn, Holds, Holding
  <2>3. owner = NoOne /\ readers = {} /\ ~flag
    BY <2>2, ConstantsAssumption
    DEF ConstantsAssumption, TypeOK, LockInv, Recorded, UnusedInv
  <2>4. \A t \in Workers : pc[t] \in {"unborn", "asleep", "done"}
    BY <2>1, <2>3 DEF CanGoOn
  <2>5. CASE workload # "HERD"
    BY <2>1, <2>4, <2>5 DEF WakeInv
  <2>6. CASE workload = "HERD"
    <3>1. \A t \in Workers : pc[t] # "unborn"
      BY <2>6, ConstantsAssumption DEF ConstantsAssumption, WakeInv, Workers
    <3>2. ArrivedWorkers = Workers
      BY <2>4, <3>1 DEF ArrivedWorkers
    <3>3. ready_threads = NumThreads
      BY <2>6, <3>2, WorkersFinite DEF GateInv
    <3> QED
      BY <2>1, <2>4, <2>6, <3>3 DEF WakeInv
  <2> QED
    BY <2>5, <2>6
<1> QED
  BY <1>1, <1>2, WakeInvStep, GateInvStep, UnusedInvStep, TypeCorrect, LockInvariant, PTL DEF Spec

-----------------------------------------------------------------------------
(* The report *)

\* The writes that have reached shared_data, by who made them.
Stored == [t \in Workers |->
             write_ops[t] + IF pc[t] \in {"unlock", "update"} /\ ~is_read[t] THEN 1 ELSE 0]

\* The totals are the sums of what the workers have counted, at any time; an
\* operation is counted after its wait and its write.
SumInv ==
  /\ g_total_acquisitions = Sum(acquisitions)
  /\ g_total_contentions = Sum(contentions)
  /\ shared_data = Sum(Stored)
  /\ \A t \in Workers :
       /\ acquisitions[t] = read_ops[t] + write_ops[t]
       /\ contentions[t] <= acquisitions[t]
            + IF pc[t] \in {"work", "store", "unlock", "update"} THEN 1 ELSE 0

LEMMA SumIsTotal ==
  ASSUME NEW f, DOMAIN f = Workers
  PROVE  Sum(f) = Total(f, Workers)
BY DEF Sum, Total, FoldFunction

\* A worker that counts changes the sum by as much.
LEMMA SumOfChange ==
  ASSUME NEW f \in [Workers -> Int], NEW g \in [Workers -> Int], NEW t \in Workers,
         \A u \in Workers : u # t => g[u] = f[u]
  PROVE  Sum(f) \in Int /\ Sum(g) = Sum(f) + (g[t] - f[t])
<1>1. Sum(f) = Total(f, Workers) /\ Sum(g) = Total(g, Workers)
  BY SumIsTotal
<1>2. Total(g, Workers) = Total(f, Workers) + (g[t] - f[t])
  BY TotalOfChange, WorkersFinite
<1>3. Total(f, Workers) \in Int
  BY TotalType, WorkersFinite
<1> QED
  BY <1>1, <1>2, <1>3

LEMMA SumInvStep == TypeOK /\ LockInv /\ StoresExclusively /\ SumInv /\ [Next]_vars => SumInv'
<1> SUFFICES ASSUME TypeOK, LockInv, StoresExclusively, SumInv, [Next]_vars PROVE SumInv'
  OBVIOUS
<1> USE DEF config, mainVars, lockVars, gateVars, waiterVars, statVars, dataVars
<1>1. ASSUME UNCHANGED <<statVars, shared_data, is_read>>,
             \A t \in Workers :
               /\ pc'[t] \in {"unlock", "update"} /\ ~is_read[t]
                    <=> pc[t] \in {"unlock", "update"} /\ ~is_read[t]
               /\ pc[t] \in {"work", "store", "unlock", "update"}
                    => pc'[t] \in {"work", "store", "unlock", "update"}
      PROVE  SumInv'
  <2>1. Stored' = Stored
    BY <1>1 DEF Stored
  <2>2. /\ g_total_acquisitions' = Sum(acquisitions)' /\ g_total_contentions' = Sum(contentions)'
        /\ shared_data' = Sum(Stored)'
    BY <1>1, <2>1 DEF SumInv
  <2>3. \A t \in Workers :
          /\ acquisitions'[t] = read_ops'[t] + write_ops'[t]
          /\ contentions'[t] <= acquisitions'[t]
               + IF pc'[t] \in {"work", "store", "unlock", "update"} THEN 1 ELSE 0
    BY <1>1 DEF SumInv, TypeOK
  <2> QED
    BY <2>2, <2>3 DEF SumInv
<1>2. CASE CreateWorker
  <2>1. created \in Workers /\ pc[created] = "unborn"
    BY <1>2, ConstantsAssumption DEF ConstantsAssumption, CreateWorker, Workers, LockInv, TypeOK
  <2> QED
    BY <1>1, <1>2, <2>1 DEF CreateWorker, TypeOK
<1>3. CASE \/ CreateFails \/ AllCreated \/ DurationOver \/ JoinWorker \/ JoinGarbage \/ Report
           \/ Signal \/ UNCHANGED vars
  BY <1>1, <1>3
  DEF CreateFails, AllCreated, DurationOver, JoinWorker, JoinGarbage, Report, Signal, vars
<1>4. ASSUME NEW t \in Workers, Worker(t) \/ SpuriousWake(t) PROVE SumInv'
  <2> USE DEF Goto, TypeOK
  <2>1. CASE GateArrive(t) \/ GateRecheck(t) \/ SpuriousWake(t) \/ Stops(t)
    BY <1>1, <2>1 DEF GateArrive, GateRecheck, SpuriousWake, Stops
  <2>2. CASE CountWaiter(t) \/ LoadCurrent(t) \/ CompareMax(t) \/ StoreMax(t)
    BY <1>1, <2>2 DEF CountWaiter, LoadCurrent, CompareMax, StoreMax
  <2>3. CASE LockMutex(t) \/ ReadLock(t) \/ WriteLock(t) \/ UncountWaiter(t)
    BY <1>1, <2>3 DEF LockMutex, ReadLock, WriteLock, UncountWaiter
  <2>4. CASE SpinAnnounce(t) \/ TestAndSet(t) \/ SpinWithdraw(t)
    BY <1>1, <2>4 DEF SpinAnnounce, TestAndSet, SpinWithdraw
  <2>5. CASE ReadSharedData(t) \/ LoadSharedData(t) \/ Unlock(t)
    BY <1>1, <2>5 DEF ReadSharedData, LoadSharedData, Unlock
  <2>6. CASE ChooseOperation(t)
    <3>1. /\ UNCHANGED <<statVars, shared_data>> /\ pc[t] = "loop"
          /\ pc' = [pc EXCEPT ![t] = "enter"]
          /\ \A u \in Workers : u # t => is_read'[u] = is_read[u]
      BY <2>6 DEF ChooseOperation
    <3>2. Stored' = Stored
      BY <3>1 DEF Stored
    <3> QED
      BY <3>1, <3>2 DEF SumInv
  <2>7. CASE RecordContention(t)
    <3>1. /\ UNCHANGED <<g_total_acquisitions, acquisitions, read_ops, write_ops, shared_data,
                         is_read>>
          /\ pc[t] = "timed" /\ pc' = [pc EXCEPT ![t] = "work"]
      BY <2>7 DEF RecordContention
    <3>2. \/ /\ contentions' = [contentions EXCEPT ![t] = @ + 1]
             /\ g_total_contentions' = g_total_contentions + 1
          \/ UNCHANGED <<contentions, g_total_contentions>>
      BY <2>7 DEF RecordContention
    <3>3. Stored' = Stored
      BY <3>1 DEF Stored
    <3>4. g_total_contentions' = Sum(contentions)'
      <4>1. CASE UNCHANGED <<contentions, g_total_contentions>>
        BY <4>1 DEF SumInv
      <4>2. CASE /\ contentions' = [contentions EXCEPT ![t] = @ + 1]
                 /\ g_total_contentions' = g_total_contentions + 1
        <5>1. /\ contentions \in [Workers -> Int] /\ contentions' \in [Workers -> Int]
              /\ contentions'[t] - contentions[t] = 1
              /\ \A u \in Workers : u # t => contentions'[u] = contentions[u]
          BY <4>2
        <5>2. Sum(contentions') = Sum(contentions) + (contentions'[t] - contentions[t])
          BY <5>1, SumOfChange
        <5> QED
          BY <4>2, <5>1, <5>2 DEF SumInv
      <4> QED
        BY <3>2, <4>1, <4>2
    <3>5. \A u \in Workers :
            contentions'[u] <= acquisitions[u]
              + IF pc'[u] \in {"work", "store", "unlock", "update"} THEN 1 ELSE 0
      BY <3>1, <3>2 DEF SumInv
    <3> QED
      BY <3>1, <3>3, <3>4, <3>5 DEF SumInv
  <2>8. CASE StoreSharedData(t)
    <3>1. /\ UNCHANGED <<statVars, is_read>> /\ shared_data' = shared_data + 1
          /\ pc[t] = "store" /\ pc' = [pc EXCEPT ![t] = "unlock"] /\ ~is_read[t]
      BY <2>8 DEF StoreSharedData, StoresExclusively, NoLostUpdate
    <3>2. /\ Stored \in [Workers -> Int] /\ Stored' \in [Workers -> Int]
          /\ Stored'[t] - Stored[t] = 1
          /\ \A u \in Workers : u # t => Stored'[u] = Stored[u]
      BY <3>1 DEF Stored
    <3>3. Sum(Stored') = Sum(Stored) + (Stored'[t] - Stored[t])
      BY <3>2, SumOfChange
    <3> QED
      BY <3>1, <3>2, <3>3 DEF SumInv
  <2>9. CASE UpdateStats(t)
    <3>1. /\ UNCHANGED <<g_total_contentions, contentions, shared_data>>
          /\ g_total_acquisitions' = g_total_acquisitions + 1
          /\ acquisitions' = [acquisitions EXCEPT ![t] = @ + 1]
          /\ pc[t] = "update" /\ pc' = [pc EXCEPT ![t] = "loop"]
          /\ \A u \in Workers : u # t => is_read'[u] = is_read[u]
      BY <2>9 DEF UpdateStats
    <3>2. IF is_read[t]
          THEN read_ops' = [read_ops EXCEPT ![t] = @ + 1] /\ write_ops' = write_ops
          ELSE write_ops' = [write_ops EXCEPT ![t] = @ + 1] /\ read_ops' = read_ops
      BY <2>9 DEF UpdateStats
    <3>3. Stored' = Stored
      BY <3>1, <3>2 DEF Stored
    <3>4. /\ acquisitions \in [Workers -> Int] /\ acquisitions' \in [Workers -> Int]
          /\ acquisitions'[t] - acquisitions[t] = 1
          /\ \A u \in Workers : u # t => acquisitions'[u] = acquisitions[u]
      BY <3>1
    <3>5. Sum(acquisitions') = Sum(acquisitions) + (acquisitions'[t] - acquisitions[t])
      BY <3>4, SumOfChange
    <3>6. \A u \in Workers :
            /\ acquisitions'[u] = read_ops'[u] + write_ops'[u]
            /\ contentions'[u] <= acquisitions'[u]
                 + IF pc'[u] \in {"work", "store", "unlock", "update"} THEN 1 ELSE 0
      BY <3>1, <3>2 DEF SumInv
    <3> QED
      BY <3>1, <3>3, <3>4, <3>5, <3>6 DEF SumInv
  <2> QED
    BY <1>4, <2>1, <2>2, <2>3, <2>4, <2>5, <2>6, <2>7, <2>8, <2>9 DEF Worker, LockAcquire
<1> QED
  BY <1>2, <1>3, <1>4 DEF Next, Main, Over

\* The report adds up, for every number of workers: the totals of print_results
\* are the sums of the threads' own counters, every acquisition was a read or
\* a write, and every write reached the plain int shared_data.
THEOREM TheReportAddsUp == Spec => []ReportAddsUp
<1>1. Init => SumInv
  <2> SUFFICES ASSUME Init PROVE SumInv
    OBVIOUS
  <2> DEFINE zero == [t \in Workers |-> 0]
  <2>1. Sum(zero) = 0
    <3>1. Total(zero, Workers) = Cardinality(Workers) * 0
      BY TotalOfConstant, WorkersFinite
    <3>2. Cardinality(Workers) * 0 = 0
      BY WorkersFinite, ConstantsAssumption DEF ConstantsAssumption
    <3> QED
      BY <3>1, <3>2, SumIsTotal
  <2>2. /\ acquisitions = zero /\ contentions = zero /\ read_ops = zero /\ write_ops = zero
        /\ Stored = zero
    BY DEF Init, Stored
  <2> QED
    BY <2>1, <2>2 DEF Init, SumInv
<1>2. TypeOK /\ EndInv /\ SumInv => ReportAddsUp
  <2> SUFFICES ASSUME TypeOK, EndInv, SumInv, main = "exit" PROVE ReportAddsUp
    BY DEF ReportAddsUp
  <2>1. \A t \in Workers : pc[t] \in {"unborn", "done"}
    BY ConstantsAssumption DEF ConstantsAssumption, EndInv, Workers
  <2>2. Stored = write_ops
    BY <2>1 DEF Stored, TypeOK
  <2>3. Sum(acquisitions) = Sum(read_ops) + Sum(write_ops)
    <3>1. \A t \in Workers :
            /\ read_ops[t] \in Int /\ write_ops[t] \in Int
            /\ acquisitions[t] = read_ops[t] + write_ops[t]
      BY DEF SumInv, TypeOK
    <3>2. Total(acquisitions, Workers) = Total(read_ops, Workers) + Total(write_ops, Workers)
      BY <3>1, TotalOfSums, WorkersFinite
    <3> QED
      BY <3>2, SumIsTotal DEF TypeOK
  <2>4. \A t \in Workers : contentions[t] <= acquisitions[t]
    BY <2>1 DEF SumInv, TypeOK
  <2> QED
    BY <2>1, <2>2, <2>3, <2>4 DEF SumInv, ReportAddsUp
<1>3. Init => EndInv
  BY ConstantsAssumption DEF ConstantsAssumption, Init, EndInv, Workers
<1>4. Init => StoresExclusively
  BY DEF Init, StoresExclusively, NoLostUpdate
<1> QED
  BY <1>1, <1>2, <1>3, <1>4, SumInvStep, EndInvStep, StoreStep, TypeCorrect, LockInvariant, PTL
  DEF Spec
=============================================================================
