--------------------------- MODULE LockContention ---------------------------
(***************************************************************************)
(* The C lock benchmark, src/lock_contention_visualizer.c: main creates    *)
(* the workers, lets them take and release one lock until g_stop_all is    *)
(* set, joins them and reports.  One action per atomic access to state     *)
(* that another thread can see; what a thread does between two of them is  *)
(* part of the action that follows or precedes it.                         *)
(***************************************************************************)
EXTENDS Integers, FiniteSets, Functions

CONSTANTS NumThreads,     \* config.num_threads
          LockTypes,      \* the lock types main may be started with (-l)
          Workloads,      \* the workloads main may be started with (-w)
          CreateMayFail,  \* whether pthread_create may fail
          NoOne,          \* "no thread holds it"
          MaxOps          \* bound: operations of one worker before it waits for the stop

Workers == 0 .. NumThreads - 1

ASSUME ConstantsAssumption ==
  /\ NumThreads \in Nat \ {0}
  /\ LockTypes \subseteq {"MUTEX", "SPINLOCK", "RWLOCK", "ADAPTIVE"}
  /\ Workloads \subseteq {"BALANCED", "HERD", "RANDOM"}
  /\ CreateMayFail \in BOOLEAN
  /\ NoOne \notin Workers
  /\ MaxOps \in Nat

VARIABLES
  lock_type, workload,      \* config, fixed by the command line
  g_stop_all,
  main,                     \* where main is
  created, joined,          \* the loop indexes of main's create and join loops
  pc,                       \* where each worker is
  owner, readers,           \* the pthread mutex or rwlock: its exclusive owner, its readers
  flag, spin_waiters,       \* the spinlock: its test-and-set flag, its waiters
  ready_threads, all_ready, \* the thundering-herd start gate
  g_current_waiters, g_max_waiters,
  g_total_acquisitions, g_total_contentions,
  seen_current,             \* per worker: the local current_waiters of lock_acquire
  is_read,                  \* per worker: the operation it is doing
  temp,                     \* per worker: the value loaded by shared_data++
  acquisitions, contentions, read_ops, write_ops,   \* thread_stats
  shared_data,
  peak                      \* history: the largest g_current_waiters there has been

config     == <<lock_type, workload>>
mainVars   == <<main, created, joined>>
lockVars   == <<owner, readers, flag, spin_waiters>>
gateVars   == <<ready_threads, all_ready>>
waiterVars == <<g_current_waiters, g_max_waiters, seen_current, peak>>
statVars   == <<g_total_acquisitions, g_total_contentions,
                acquisitions, contentions, read_ops, write_ops>>
dataVars   == <<shared_data, temp>>

vars == <<config, g_stop_all, mainVars, pc, lockVars, gateVars, waiterVars,
          is_read, statVars, dataVars>>

-----------------------------------------------------------------------------
Init ==
  /\ lock_type \in LockTypes /\ workload \in Workloads
  /\ g_stop_all = FALSE
  /\ main = "create" /\ created = 0 /\ joined = 0
  /\ pc = [t \in Workers |-> "unborn"]
  /\ owner = NoOne /\ readers = {} /\ flag = FALSE /\ spin_waiters = 0
  /\ ready_threads = 0 /\ all_ready = FALSE
  /\ g_current_waiters = 0 /\ g_max_waiters = 0 /\ peak = 0
  /\ seen_current = [t \in Workers |-> 0]
  /\ is_read = [t \in Workers |-> FALSE]
  /\ g_total_acquisitions = 0 /\ g_total_contentions = 0
  /\ acquisitions = [t \in Workers |-> 0]
  /\ contentions = [t \in Workers |-> 0]
  /\ read_ops = [t \in Workers |-> 0]
  /\ write_ops = [t \in Workers |-> 0]
  /\ shared_data = 0 /\ temp = [t \in Workers |-> 0]

\* Worker t moves on, in a process that has not crashed.
Goto(t, from, to) ==
  /\ main # "crashed"
  /\ pc[t] = from
  /\ pc' = [pc EXCEPT ![t] = to]

-----------------------------------------------------------------------------
(* main *)

\* Mutant: the create loop runs one index too far.
CreateWorkerPastTheEnd ==
  /\ main = "create" /\ created <= NumThreads
  /\ pc' = [pc EXCEPT ![created] = IF workload = "HERD" THEN "gate" ELSE "loop"]
  /\ created' = created + 1
  /\ UNCHANGED <<config, g_stop_all, main, joined, lockVars, gateVars,
                 waiterVars, is_read, statVars, dataVars>>

\* A created worker goes to the start gate under the herd workload and to
\* its loop otherwise.
CreateWorker ==
  /\ main = "create" /\ created < NumThreads
  /\ pc' = [pc EXCEPT ![created] = IF workload = "HERD" THEN "gate" ELSE "loop"]
  /\ created' = created + 1
  /\ UNCHANGED <<config, g_stop_all, main, joined, lockVars, gateVars,
                 waiterVars, is_read, statVars, dataVars>>

\* pthread_create fails: main raises the stop flag and goes to the joins.
CreateFails ==
  /\ CreateMayFail
  /\ main = "create" /\ created < NumThreads
  /\ g_stop_all' = TRUE
  /\ main' = "join"
  /\ UNCHANGED <<config, created, joined, pc, lockVars, gateVars,
                 waiterVars, is_read, statVars, dataVars>>

\* All are created; main sleeps for the duration unless a signal came first.
AllCreated ==
  /\ main = "create" /\ created = NumThreads
  /\ main' = IF g_stop_all THEN "join" ELSE "sleep"
  /\ UNCHANGED <<config, g_stop_all, created, joined, pc, lockVars, gateVars,
                 waiterVars, is_read, statVars, dataVars>>

DurationOver ==
  /\ main = "sleep"
  /\ g_stop_all' = TRUE
  /\ main' = "join"
  /\ UNCHANGED <<config, created, joined, pc, lockVars, gateVars,
                 waiterVars, is_read, statVars, dataVars>>

\* SIGINT or SIGTERM.
Signal ==
  /\ main \in {"create", "sleep", "join"} /\ ~g_stop_all
  /\ g_stop_all' = TRUE
  /\ UNCHANGED <<config, mainVars, pc, lockVars, gateVars,
                 waiterVars, is_read, statVars, dataVars>>

JoinWorker ==
  /\ main = "join" /\ joined < created
  /\ pc[joined] = "done"
  /\ joined' = joined + 1
  /\ UNCHANGED <<config, g_stop_all, main, created, pc, lockVars, gateVars,
                 waiterVars, is_read, statVars, dataVars>>

\* The join loop runs to num_threads, also over the handles that no
\* pthread_create has filled in: the call may return an error, crash the
\* process or block on whatever the stack held.
JoinGarbage ==
  /\ main = "join" /\ created <= joined /\ joined < NumThreads
  /\ \/ joined' = joined + 1 /\ UNCHANGED main
     \/ main' = "crashed" /\ UNCHANGED joined
     \/ main' = "blocked" /\ UNCHANGED joined
  /\ UNCHANGED <<config, g_stop_all, created, pc, lockVars, gateVars,
                 waiterVars, is_read, statVars, dataVars>>

\* Mutant: the last worker is not joined.
ReportBeforeLastJoin ==
  /\ main = "join" /\ joined = NumThreads - 1
  /\ main' = "exit"
  /\ UNCHANGED <<config, g_stop_all, created, joined, pc, lockVars, gateVars,
                 waiterVars, is_read, statVars, dataVars>>

\* print_results, lock_destroy, return.
Report ==
  /\ main = "join" /\ joined = NumThreads
  /\ main' = "exit"
  /\ UNCHANGED <<config, g_stop_all, created, joined, pc, lockVars, gateVars,
                 waiterVars, is_read, statVars, dataVars>>

-----------------------------------------------------------------------------
(* thread_worker: the start gate of the herd workload.  Each action is one
   stretch of code under start_mutex. *)

\* Mutant: the last to arrive forgets to broadcast.
GateArriveSilently(t) ==
  /\ ready_threads' = ready_threads + 1
  /\ all_ready' = (all_ready \/ ready_threads' = NumThreads)
  /\ Goto(t, "gate", IF ready_threads' = NumThreads THEN "loop" ELSE "asleep")
  /\ UNCHANGED <<config, g_stop_all, mainVars, lockVars, waiterVars,
                 is_read, statVars, dataVars>>

GateArrive(t) ==
  /\ main # "crashed" /\ pc[t] = "gate"
  /\ ready_threads' = ready_threads + 1
  /\ IF ready_threads' = NumThreads
     THEN /\ all_ready' = TRUE
          /\ pc' = [u \in Workers |-> IF u = t THEN "loop"
                                      ELSE IF pc[u] = "asleep" THEN "woken" ELSE pc[u]]
     ELSE /\ pc' = [pc EXCEPT ![t] = "asleep"]
          /\ UNCHANGED all_ready
  /\ UNCHANGED <<config, g_stop_all, mainVars, lockVars, waiterVars,
                 is_read, statVars, dataVars>>

\* pthread_cond_wait may return without a broadcast.
SpuriousWake(t) ==
  /\ Goto(t, "asleep", "woken")
  /\ UNCHANGED <<config, g_stop_all, mainVars, lockVars, gateVars, waiterVars,
                 is_read, statVars, dataVars>>

\* Mutant: "if" instead of "while" around pthread_cond_wait.
GateNoRecheck(t) ==
  /\ Goto(t, "woken", "loop")
  /\ UNCHANGED <<config, g_stop_all, mainVars, lockVars, gateVars, waiterVars,
                 is_read, statVars, dataVars>>

GateRecheck(t) ==
  /\ Goto(t, "woken", IF all_ready THEN "loop" ELSE "asleep")
  /\ UNCHANGED <<config, g_stop_all, mainVars, lockVars, gateVars, waiterVars,
                 is_read, statVars, dataVars>>

-----------------------------------------------------------------------------
(* thread_worker: the loop.  A worker that has done MaxOps operations only
   waits for the stop. *)

Stops(t) ==
  /\ g_stop_all
  /\ Goto(t, "loop", "done")
  /\ UNCHANGED <<config, g_stop_all, mainVars, lockVars, gateVars, waiterVars,
                 is_read, statVars, dataVars>>

OperationKinds(t) ==
  CASE workload = "BALANCED" -> {acquisitions[t] % 2 = 0}
    [] workload = "HERD"     -> {FALSE}
    [] OTHER                 -> BOOLEAN

ChooseOperation(t) ==
  /\ ~g_stop_all /\ acquisitions[t] < MaxOps
  /\ Goto(t, "loop", "enter")
  /\ \E kind \in OperationKinds(t) : is_read' = [is_read EXCEPT ![t] = kind]
  /\ UNCHANGED <<config, g_stop_all, mainVars, lockVars, gateVars, waiterVars,
                 statVars, dataVars>>

-----------------------------------------------------------------------------
(* lock_acquire *)

CountWaiter(t) ==
  /\ Goto(t, "enter", "load_current")
  /\ g_current_waiters' = g_current_waiters + 1
  /\ peak' = IF g_current_waiters' > peak THEN g_current_waiters' ELSE peak
  /\ UNCHANGED <<config, g_stop_all, mainVars, lockVars, gateVars,
                 g_max_waiters, seen_current, is_read, statVars, dataVars>>

LoadCurrent(t) ==
  /\ Goto(t, "load_current", "load_max")
  /\ seen_current' = [seen_current EXCEPT ![t] = g_current_waiters]
  /\ UNCHANGED <<config, g_stop_all, mainVars, lockVars, gateVars,
                 g_current_waiters, g_max_waiters, peak, is_read, statVars, dataVars>>

CompareMax(t) ==
  /\ \/ /\ seen_current[t] > g_max_waiters
        /\ Goto(t, "load_max", "store_max")
        /\ UNCHANGED seen_current
     \/ /\ seen_current[t] <= g_max_waiters
        /\ Goto(t, "load_max", "lock")
        /\ seen_current' = [seen_current EXCEPT ![t] = 0]
  /\ UNCHANGED <<config, g_stop_all, mainVars, lockVars, gateVars,
                 g_current_waiters, g_max_waiters, peak, is_read, statVars, dataVars>>

StoreMax(t) ==
  /\ Goto(t, "store_max", "lock")
  /\ g_max_waiters' = seen_current[t]
  /\ seen_current' = [seen_current EXCEPT ![t] = 0]
  /\ UNCHANGED <<config, g_stop_all, mainVars, lockVars, gateVars,
                 g_current_waiters, peak, is_read, statVars, dataVars>>

\* Mutant: trylock, its result ignored.
TryLockMutexUnchecked(t) ==
  /\ lock_type \in {"MUTEX", "ADAPTIVE"}
  /\ Goto(t, "lock", "locked")
  /\ owner' = IF owner = NoOne THEN t ELSE owner
  /\ UNCHANGED <<config, g_stop_all, mainVars, readers, flag, spin_waiters,
                 gateVars, waiterVars, is_read, statVars, dataVars>>

\* pthread_mutex_lock; the adaptive type is a plain mutex.
LockMutex(t) ==
  /\ lock_type \in {"MUTEX", "ADAPTIVE"} /\ owner = NoOne
  /\ Goto(t, "lock", "locked")
  /\ owner' = t
  /\ UNCHANGED <<config, g_stop_all, mainVars, readers, flag, spin_waiters,
                 gateVars, waiterVars, is_read, statVars, dataVars>>

ReadLock(t) ==
  /\ lock_type = "RWLOCK" /\ is_read[t] /\ owner = NoOne
  /\ Goto(t, "lock", "locked")
  /\ readers' = readers \cup {t}
  /\ UNCHANGED <<config, g_stop_all, mainVars, owner, flag, spin_waiters,
                 gateVars, waiterVars, is_read, statVars, dataVars>>

\* Mutant: a writer takes the lock shared.
WriteLockShared(t) ==
  /\ lock_type = "RWLOCK" /\ ~is_read[t] /\ owner = NoOne
  /\ Goto(t, "lock", "locked")
  /\ readers' = readers \cup {t}
  /\ UNCHANGED <<config, g_stop_all, mainVars, owner, flag, spin_waiters,
                 gateVars, waiterVars, is_read, statVars, dataVars>>

WriteLock(t) ==
  /\ lock_type = "RWLOCK" /\ ~is_read[t] /\ owner = NoOne /\ readers = {}
  /\ Goto(t, "lock", "locked")
  /\ owner' = t
  /\ UNCHANGED <<config, g_stop_all, mainVars, readers, flag, spin_waiters,
                 gateVars, waiterVars, is_read, statVars, dataVars>>

\* spinlock_lock: announce, test-and-set until the flag was clear, withdraw.
SpinAnnounce(t) ==
  /\ lock_type = "SPINLOCK"
  /\ Goto(t, "lock", "spin")
  /\ spin_waiters' = spin_waiters + 1
  /\ UNCHANGED <<config, g_stop_all, mainVars, owner, readers, flag,
                 gateVars, waiterVars, is_read, statVars, dataVars>>

TestAndSet(t) ==
  /\ Goto(t, "spin", IF flag THEN "spin" ELSE "spun")
  /\ flag' = TRUE
  /\ UNCHANGED <<config, g_stop_all, mainVars, owner, readers, spin_waiters,
                 gateVars, waiterVars, is_read, statVars, dataVars>>

\* Mutant: the waiter never withdraws.
SpinForgetWithdraw(t) ==
  /\ Goto(t, "spun", "locked")
  /\ UNCHANGED <<config, g_stop_all, mainVars, lockVars,
                 gateVars, waiterVars, is_read, statVars, dataVars>>

SpinWithdraw(t) ==
  /\ Goto(t, "spun", "locked")
  /\ spin_waiters' = spin_waiters - 1
  /\ UNCHANGED <<config, g_stop_all, mainVars, owner, readers, flag,
                 gateVars, waiterVars, is_read, statVars, dataVars>>

UncountWaiter(t) ==
  /\ Goto(t, "locked", "timed")
  /\ g_current_waiters' = g_current_waiters - 1
  /\ UNCHANGED <<config, g_stop_all, mainVars, lockVars, gateVars,
                 g_max_waiters, seen_current, peak, is_read, statVars, dataVars>>

\* The wait was longer than a microsecond, or it was not.
RecordContention(t) ==
  /\ Goto(t, "timed", "work")
  /\ \/ /\ contentions' = [contentions EXCEPT ![t] = @ + 1]
        /\ g_total_contentions' = g_total_contentions + 1
     \/ UNCHANGED <<contentions, g_total_contentions>>
  /\ UNCHANGED <<config, g_stop_all, mainVars, lockVars, gateVars, waiterVars,
                 is_read, g_total_acquisitions, acquisitions, read_ops,
                 write_ops, dataVars>>

-----------------------------------------------------------------------------
(* critical_section_work and lock_release *)

\* A read loads shared_data and drops the value.
ReadSharedData(t) ==
  /\ is_read[t]
  /\ Goto(t, "work", "unlock")
  /\ UNCHANGED <<config, g_stop_all, mainVars, lockVars, gateVars, waiterVars,
                 is_read, statVars, dataVars>>

\* shared_data++ of a plain int: a load and a store.
LoadSharedData(t) ==
  /\ ~is_read[t]
  /\ Goto(t, "work", "store")
  /\ temp' = [temp EXCEPT ![t] = shared_data]
  /\ UNCHANGED <<config, g_stop_all, mainVars, lockVars, gateVars, waiterVars,
                 is_read, statVars, shared_data>>

StoreSharedData(t) ==
  /\ Goto(t, "store", "unlock")
  /\ shared_data' = temp[t] + 1
  /\ temp' = [temp EXCEPT ![t] = 0]
  /\ UNCHANGED <<config, g_stop_all, mainVars, lockVars, gateVars, waiterVars,
                 is_read, statVars>>

\* Mutant: a reader's unlock leaves it among the readers.
UnlockKeepsReader(t) ==
  /\ Goto(t, "unlock", "update")
  /\ owner' = IF owner = t THEN NoOne ELSE owner
  /\ flag' = (flag /\ lock_type # "SPINLOCK")
  /\ UNCHANGED <<config, g_stop_all, mainVars, readers, spin_waiters, gateVars,
                 waiterVars, is_read, statVars, dataVars>>

\* pthread_mutex_unlock, spinlock_unlock or pthread_rwlock_unlock.
Unlock(t) ==
  /\ Goto(t, "unlock", "update")
  /\ CASE lock_type \in {"MUTEX", "ADAPTIVE"} ->
            owner' = NoOne /\ UNCHANGED <<readers, flag>>
       [] lock_type = "SPINLOCK" ->
            flag' = FALSE /\ UNCHANGED <<owner, readers>>
       [] lock_type = "RWLOCK" ->
            /\ owner' = IF owner = t THEN NoOne ELSE owner
            /\ readers' = readers \ {t}
            /\ UNCHANGED flag
  /\ UNCHANGED <<config, g_stop_all, mainVars, spin_waiters, gateVars,
                 waiterVars, is_read, statVars, dataVars>>

\* The statistics of the finished operation; only the total is shared.
UpdateStats(t) ==
  /\ Goto(t, "update", "loop")
  /\ acquisitions' = [acquisitions EXCEPT ![t] = @ + 1]
  /\ g_total_acquisitions' = g_total_acquisitions + 1
  /\ IF is_read[t]
     THEN read_ops' = [read_ops EXCEPT ![t] = @ + 1] /\ UNCHANGED write_ops
     ELSE write_ops' = [write_ops EXCEPT ![t] = @ + 1] /\ UNCHANGED read_ops
  /\ is_read' = [is_read EXCEPT ![t] = FALSE]
  /\ UNCHANGED <<config, g_stop_all, mainVars, lockVars, gateVars, waiterVars,
                 g_total_contentions, contentions, dataVars>>

-----------------------------------------------------------------------------
Main == \/ CreateWorker \/ CreateFails \/ AllCreated \/ DurationOver
        \/ JoinWorker \/ JoinGarbage \/ Report

LockAcquire(t) ==
  \/ CountWaiter(t) \/ LoadCurrent(t) \/ CompareMax(t) \/ StoreMax(t)
  \/ LockMutex(t) \/ ReadLock(t) \/ WriteLock(t)
  \/ SpinAnnounce(t) \/ TestAndSet(t) \/ SpinWithdraw(t)
  \/ UncountWaiter(t) \/ RecordContention(t)

Worker(t) ==
  \/ GateArrive(t) \/ GateRecheck(t)
  \/ Stops(t) \/ ChooseOperation(t)
  \/ LockAcquire(t)
  \/ ReadSharedData(t) \/ LoadSharedData(t) \/ StoreSharedData(t)
  \/ Unlock(t) \/ UpdateStats(t)

\* The process has returned, died in a join of garbage, or blocked there.
Over == main \in {"exit", "crashed", "blocked"} /\ UNCHANGED vars

Next == \/ Main \/ Signal
        \/ \E t \in Workers : Worker(t) \/ SpuriousWake(t)
        \/ Over

Spec == Init /\ [][Next]_vars

\* Every thread that can go on is scheduled some time.  No fairness between
\* the contenders for the lock is assumed, and signals and spurious wake-ups
\* need not happen.
Fairness ==
  /\ WF_vars(Main)
  /\ \A t \in Workers : WF_vars(Worker(t))

FairSpec == Spec /\ Fairness

-----------------------------------------------------------------------------
(* Properties *)

Places == {"unborn", "gate", "asleep", "woken", "loop", "enter", "load_current",
           "load_max", "store_max", "lock", "spin", "spun", "locked", "timed",
           "work", "store", "unlock", "update", "done"}

\* Every variable has its type.
TypeOK ==
  /\ lock_type \in LockTypes /\ workload \in Workloads
  /\ g_stop_all \in BOOLEAN
  /\ main \in {"create", "sleep", "join", "exit", "crashed", "blocked"}
  /\ created \in 0..NumThreads /\ joined \in 0..NumThreads
  /\ pc \in [Workers -> Places]
  /\ owner \in Workers \cup {NoOne} /\ readers \in SUBSET Workers
  /\ flag \in BOOLEAN /\ spin_waiters \in Int
  /\ ready_threads \in Nat /\ all_ready \in BOOLEAN
  /\ g_current_waiters \in Int /\ g_max_waiters \in Int /\ peak \in Int
  /\ seen_current \in [Workers -> Int]
  /\ is_read \in [Workers -> BOOLEAN]
  /\ g_total_acquisitions \in Nat /\ g_total_contentions \in Nat
  /\ acquisitions \in [Workers -> Nat] /\ contentions \in [Workers -> Nat]
  /\ read_ops \in [Workers -> Nat] /\ write_ops \in [Workers -> Nat]
  /\ shared_data \in Nat /\ temp \in [Workers -> Nat]

Holding == {"spun", "locked", "timed", "work", "store", "unlock"}
Holds(t) == pc[t] \in Holding
Shares(t) == lock_type = "RWLOCK" /\ is_read[t]

\* lock_acquire and lock_release implement a lock, for every lock type.
Lock == INSTANCE AbstractLock WITH
          Threads <- Workers,
          exclusive <- {t \in Workers : Holds(t) /\ ~Shares(t)},
          shared <- {t \in Workers : Holds(t) /\ Shares(t)}
ImplementsLock == Lock!Spec

\* No lost update: between the load and the store of shared_data++ nobody
\* else stores, although shared_data is a plain int.
NoLostUpdate == \A t \in Workers : pc[t] = "store" => temp[t] = shared_data

Sum(f) == FoldFunction(LAMBDA x, y : x + y, 0, f)

\* Between the increment and the decrement of g_current_waiters.
Waiting(t) == pc[t] \in {"load_current", "load_max", "store_max", "lock",
                         "spin", "spun", "locked"}

\* The waiters the monitor shows are the workers inside lock_acquire, the
\* recorded maximum was reached at some time, and both stay within the
\* num_threads the monitor divides by.
WaitersCounted ==
  /\ g_current_waiters = Cardinality({t \in Workers : Waiting(t)})
  /\ spin_waiters = Cardinality({t \in Workers : pc[t] \in {"spin", "spun"}})
  /\ g_max_waiters <= peak /\ peak <= NumThreads

\* Under the herd workload nobody competes for the lock before all
\* num_threads workers have arrived ("all threads start together", line 272).
HerdStartsTogether ==
  \A t \in Workers :
    workload = "HERD" /\ pc[t] \notin {"unborn", "gate", "asleep", "woken"}
      => all_ready /\ ready_threads = NumThreads

\* What print_results reads is settled and adds up: every worker has
\* finished, the totals are the sums of the threads' own counters, every
\* write reached shared_data, and no more operations waited than were done.
ReportAddsUp ==
  main = "exit" =>
    /\ \A t \in Workers : pc[t] \in {"unborn", "done"}
    /\ g_total_acquisitions = Sum(acquisitions)
    /\ g_total_acquisitions = Sum(read_ops) + Sum(write_ops)
    /\ g_total_contentions = Sum(contentions)
    /\ shared_data = Sum(write_ops)
    /\ \A t \in Workers : contentions[t] <= acquisitions[t]

\* lock_destroy finds the lock free.
DestroyedWhenFree ==
  main = "exit" => owner = NoOne /\ readers = {} /\ ~flag /\ g_current_waiters = 0

\* When every worker could be created the program ends and reports.
CreateFailed == created < NumThreads /\ main # "create"
Terminates == <>(main = "exit" \/ CreateFailed)

\* "Max Concurrent Waiters" (line 456) is a maximum: once recorded, it never
\* gets smaller.  The load, compare and store of lock_acquire are not one
\* atomic step, and a late store of a smaller value overwrites a larger one.
MaxNeverDecreases == [][g_max_waiters' >= g_max_waiters]_g_max_waiters
=============================================================================
