---------------------------- MODULE LockAnalyzer ----------------------------
(***************************************************************************)
(* The C++ lock benchmark, src/lock_visualizer_cpp.cpp: the classes        *)
(* SpinLock and AdaptiveMutex, the LockContentionAnalyzer that runs        *)
(* workers over one lock, and its detached visualization thread.           *)
(***************************************************************************)
EXTENDS Integers, FiniteSets, Functions

CONSTANTS NumThreads,   \* num_threads_
          LockTs,       \* the instantiations of LockT that are explored
          SPIN_LIMIT,   \* AdaptiveMutex::SPIN_LIMIT
          None,         \* "no thread"
          MaxOps        \* bound: operations of one worker before it waits for the stop

Workers == 0 .. NumThreads - 1

ASSUME AnalyzerAssumption ==
  /\ NumThreads \in Nat \ {0} /\ SPIN_LIMIT \in Nat \ {0} /\ MaxOps \in Nat
  /\ LockTs \subseteq {"MUTEX", "SHARED", "SPIN", "ADAPTIVE"}
  /\ None \notin Workers

VARIABLES
  lock_t,            \* the template argument; MUTEX also stands for the recursive mutex
  main, started,     \* run_analysis and the analyzer's life; workers started so far
  stop_flag,
  viz,               \* the visualization thread
  pc, op,            \* per worker: where it is, and the operation it performs
  holders, sharers,  \* std::mutex or std::shared_mutex: who holds it, and who shares it
  flag,              \* SpinLock::flag_
  state, spins,      \* AdaptiveMutex::state_ and, per worker, spin_count
  fallback,          \* the owner of AdaptiveMutex::fallback_mutex_
  shared_counter,
  stats              \* ThreadStatistics of each worker

runVars  == <<lock_t, main, started, stop_flag, viz>>
stdVars  == <<holders, sharers>>
adaptiveVars == <<state, spins, fallback>>
dataVars == <<shared_counter, stats>>
vars == <<runVars, pc, op, stdVars, flag, adaptiveVars, dataVars>>

Init ==
  /\ lock_t \in LockTs
  /\ main = "start" /\ started = 0 /\ stop_flag = FALSE
  /\ viz \in {"off", "check"}
  /\ pc = [t \in Workers |-> "unborn"] /\ op = [t \in Workers |-> "write"]
  /\ holders = {} /\ sharers = {} /\ flag = FALSE
  /\ state = 0 /\ spins = [t \in Workers |-> 0] /\ fallback = None
  /\ shared_counter = 0
  /\ stats = [t \in Workers |-> [acquisitions |-> 0, contentions |-> 0,
                                 reads |-> 0, writes |-> 0]]

Goto(t, from, to) == pc[t] = from /\ pc' = [pc EXCEPT ![t] = to]
Count(t, field) == stats' = [stats EXCEPT ![t][field] = @ + 1]

-----------------------------------------------------------------------------
(* run_analysis, and the end of run_lock_analysis, where the analyzer and
   the lock in it are destroyed *)

\* Mutant: one worker too many.
StartWorkerTooMany ==
  /\ main = "start" /\ started <= NumThreads
  /\ pc' = [pc EXCEPT ![started] = "loop"]
  /\ started' = started + 1
  /\ UNCHANGED <<lock_t, main, stop_flag, viz, op, stdVars, flag, adaptiveVars, dataVars>>

StartWorker ==
  /\ main = "start" /\ started < NumThreads
  /\ pc' = [pc EXCEPT ![started] = "loop"]
  /\ started' = started + 1
  /\ UNCHANGED <<lock_t, main, stop_flag, viz, op, stdVars, flag, adaptiveVars, dataVars>>

\* The construction of a std::thread throws.  With the first worker the error
\* leaves run_analysis and main reports it, the visualization thread still
\* detached; later the vector of joinable threads is destroyed on the way out,
\* which ends the process there (std::terminate).
StartFails ==
  /\ main = "start" /\ started < NumThreads
  /\ main' = IF started = 0 THEN "failed" ELSE "terminated"
  /\ UNCHANGED <<lock_t, started, stop_flag, viz, pc, op, stdVars, flag, adaptiveVars, dataVars>>

DurationOver ==
  /\ main = "start" /\ started = NumThreads
  /\ main' = "join" /\ stop_flag' = TRUE
  /\ UNCHANGED <<lock_t, started, viz, pc, op, stdVars, flag, adaptiveVars, dataVars>>

\* Mutant: all but one of the workers are joined.
JoinsAllButOne ==
  /\ main = "join" /\ \E u \in Workers : \A t \in Workers \ {u} : pc[t] = "done"
  /\ main' = "analyze"
  /\ UNCHANGED <<lock_t, started, stop_flag, viz, pc, op, stdVars, flag, adaptiveVars, dataVars>>

\* The joins in turn return when all the workers have.
JoinsAll ==
  /\ main = "join" /\ \A t \in Workers : pc[t] = "done"
  /\ main' = "analyze"
  /\ UNCHANGED <<lock_t, started, stop_flag, viz, pc, op, stdVars, flag, adaptiveVars, dataVars>>

\* analyze_results reads the statistics and returns; the analyzer dies.
AnalyzeAndDestroy ==
  /\ main = "analyze"
  /\ main' = "destroyed"
  /\ UNCHANGED <<lock_t, started, stop_flag, viz, pc, op, stdVars, flag, adaptiveVars, dataVars>>

-----------------------------------------------------------------------------
(* visualization_thread: look at the stop flag, sleep a second, read the
   statistics of all threads and print them. *)

VizStep ==
  /\ main # "terminated"
  /\ \/ /\ viz = "check"
        /\ viz' = IF stop_flag THEN "done" ELSE "sleep"
     \/ viz = "sleep" /\ viz' = "read"
     \/ viz = "read" /\ viz' = "check"
  /\ UNCHANGED <<lock_t, main, started, stop_flag, pc, op, stdVars, flag,
                 adaptiveVars, dataVars>>

-----------------------------------------------------------------------------
(* worker_thread *)

Stops(t) ==
  /\ stop_flag
  /\ Goto(t, "loop", "done")
  /\ UNCHANGED <<runVars, op, stdVars, flag, adaptiveVars, dataVars>>

\* Only a shared-lockable type has read operations; the draw decides.
ChooseOperation(t) ==
  /\ ~stop_flag /\ stats[t].acquisitions < MaxOps
  /\ Goto(t, "loop", "try")
  /\ \E kind \in IF lock_t = "SHARED" THEN {"read", "write"} ELSE {"write"} :
        op' = [op EXCEPT ![t] = kind]
  /\ UNCHANGED <<runVars, stdVars, flag, adaptiveVars, dataVars>>

\* Mutant: a reader does not look for a writer.
FreeForReaders(t) ==
  CASE lock_t = "SPIN"     -> ~flag
    [] lock_t = "ADAPTIVE" -> state = 0
    [] OTHER -> op[t] = "write" => holders = {} /\ sharers = {}

\* The atomic attempt of each lock type, as try_lock, try_lock_shared and the
\* loops of lock use it: whether the lock is free for t, and taking it.
FreeFor(t) ==
  CASE lock_t = "SPIN"     -> ~flag
    [] lock_t = "ADAPTIVE" -> state = 0
    [] OTHER -> holders = {} /\ (op[t] = "write" => sharers = {})

Take(t) ==
  CASE lock_t = "SPIN"     -> flag' = TRUE /\ UNCHANGED <<stdVars, adaptiveVars>>
    [] lock_t = "ADAPTIVE" -> /\ state' = 1
                              /\ spins' = [spins EXCEPT ![t] = 0]
                              /\ UNCHANGED <<stdVars, flag, fallback>>
    [] OTHER               -> /\ IF op[t] = "write"
                                 THEN holders' = {t} /\ UNCHANGED sharers
                                 ELSE sharers' = sharers \cup {t} /\ UNCHANGED holders
                              /\ UNCHANGED <<flag, adaptiveVars>>

TryLock(t) ==
  /\ \/ FreeFor(t) /\ Take(t) /\ Goto(t, "try", "acquired")
     \/ /\ ~FreeFor(t) /\ Goto(t, "try", "lock")
        /\ UNCHANGED <<stdVars, flag, adaptiveVars>>
  /\ UNCHANGED <<runVars, op, dataVars>>

\* lock or lock_shared gets the lock: at once, after blocking, or in one of
\* the rounds of the spin loops.
Lock(t) ==
  /\ FreeFor(t) /\ spins[t] < SPIN_LIMIT
  /\ Take(t)
  /\ Goto(t, "lock", "contended")
  /\ UNCHANGED <<runVars, op, dataVars>>

\* A failed round of AdaptiveMutex::lock; the weak compare-exchange may fail
\* although the lock is free.
SpinFails(t) ==
  /\ lock_t = "ADAPTIVE" /\ pc[t] = "lock" /\ spins[t] < SPIN_LIMIT
  /\ spins' = [spins EXCEPT ![t] = @ + 1]
  /\ UNCHANGED <<runVars, pc, op, stdVars, flag, state, fallback, dataVars>>

\* Out of rounds: block on the fallback mutex, ...
FallbackLock(t) ==
  /\ lock_t = "ADAPTIVE" /\ spins[t] = SPIN_LIMIT /\ fallback = None
  /\ Goto(t, "lock", "announce")
  /\ fallback' = t
  /\ spins' = [spins EXCEPT ![t] = 0]
  /\ UNCHANGED <<runVars, op, stdVars, flag, state, dataVars>>

\* ... then declare the lock taken.
StoreLocked(t) ==
  /\ Goto(t, "announce", "contended")
  /\ state' = 1
  /\ UNCHANGED <<runVars, op, stdVars, flag, spins, fallback, dataVars>>

CountContention(t) ==
  /\ Goto(t, "contended", "acquired")
  /\ Count(t, "contentions")
  /\ UNCHANGED <<runVars, op, stdVars, flag, adaptiveVars, shared_counter>>

\* The wait is over and recorded; the thread goes to shared_data_.
CountAcquisition(t) ==
  /\ Goto(t, "acquired", "work")
  /\ Count(t, "acquisitions")
  /\ UNCHANGED <<runVars, op, stdVars, flag, adaptiveVars, shared_counter>>

\* The access to shared_data_, the atomic increment, the time the lock is held.
Work(t) ==
  /\ Goto(t, "work", "unlock")
  /\ shared_counter' = shared_counter + IF op[t] = "write" THEN 1 ELSE 0
  /\ UNCHANGED <<runVars, op, stdVars, flag, adaptiveVars, stats>>

\* Mutant: unlock_shared is forgotten.
UnlockExclusiveOnly(t) ==
  /\ Goto(t, "unlock", IF lock_t = "ADAPTIVE" THEN "release" ELSE "finish")
  /\ flag' = (flag /\ lock_t # "SPIN")
  /\ state' = 0
  /\ holders' = holders \ {t}
  /\ UNCHANGED <<runVars, op, sharers, spins, fallback, dataVars>>

\* unlock or unlock_shared; AdaptiveMutex clears state_ first.
Unlock(t) ==
  /\ Goto(t, "unlock", IF lock_t = "ADAPTIVE" THEN "release" ELSE "finish")
  /\ flag' = (flag /\ lock_t # "SPIN")
  /\ state' = 0
  /\ holders' = holders \ {t} /\ sharers' = sharers \ {t}
  /\ UNCHANGED <<runVars, op, spins, fallback, dataVars>>

\* Mutant: the fallback mutex is left alone.
FallbackKept(t) ==
  /\ Goto(t, "release", "finish")
  /\ UNCHANGED <<runVars, op, stdVars, flag, adaptiveVars, dataVars>>

\* ... and unlocks the fallback mutex whether it owns it or not.  Unlocking a
\* mutex that another thread owns, or nobody, is undefined: it may have no
\* effect or free the mutex.  No exception is thrown for the catch to see.
FallbackUnlock(t) ==
  /\ Goto(t, "release", "finish")
  /\ \/ fallback' = None
     \/ fallback # t /\ UNCHANGED fallback
  /\ UNCHANGED <<runVars, op, stdVars, flag, state, spins, dataVars>>

CountOperation(t) ==
  /\ Goto(t, "finish", "loop")
  /\ Count(t, IF op[t] = "read" THEN "reads" ELSE "writes")
  /\ op' = [op EXCEPT ![t] = "write"]
  /\ UNCHANGED <<runVars, stdVars, flag, adaptiveVars, shared_counter>>

-----------------------------------------------------------------------------
Main == StartWorker \/ DurationOver \/ JoinsAll \/ AnalyzeAndDestroy

Worker(t) ==
  /\ main # "terminated"
  /\ \/ Stops(t) \/ ChooseOperation(t)
     \/ TryLock(t) \/ Lock(t)
     \/ SpinFails(t) \/ FallbackLock(t) \/ StoreLocked(t)
     \/ CountContention(t) \/ CountAcquisition(t) \/ Work(t)
     \/ Unlock(t) \/ FallbackUnlock(t) \/ CountOperation(t)

Over == /\ main = "terminated" \/ (main \in {"destroyed", "failed"} /\ viz \in {"off", "done"})
        /\ UNCHANGED vars

Next == Main \/ StartFails \/ VizStep \/ (\E t \in Workers : Worker(t)) \/ Over

Spec == Init /\ [][Next]_vars

\* Threads that can run are scheduled some time; contenders are not queued.
FairSpec == Spec /\ WF_vars(Main) /\ \A t \in Workers : WF_vars(Worker(t))

-----------------------------------------------------------------------------
(* Properties *)

\* Every variable has its type.
TypeOK ==
  /\ lock_t \in LockTs
  /\ main \in {"start", "join", "analyze", "destroyed", "failed", "terminated"}
  /\ started \in 0..NumThreads
  /\ stop_flag \in BOOLEAN /\ viz \in {"off", "check", "sleep", "read", "done"}
  /\ pc \in [Workers -> {"unborn", "loop", "try", "lock", "announce", "contended",
                         "acquired", "work", "unlock", "release", "finish", "done"}]
  /\ op \in [Workers -> {"read", "write"}]
  /\ holders \subseteq Workers /\ sharers \subseteq Workers
  /\ flag \in BOOLEAN /\ state \in {0, 1} /\ fallback \in Workers \cup {None}
  /\ spins \in [Workers -> 0..SPIN_LIMIT]
  /\ shared_counter \in Nat
  /\ stats \in [Workers -> [acquisitions : Nat, contentions : Nat, reads : Nat, writes : Nat]]

HasLock(t) == pc[t] \in {"contended", "acquired", "work", "unlock"}

\* "Shared data protected by the lock" (line 218): whoever accesses
\* shared_data_ to write is the only one to hold the lock.
DataProtected ==
  \A t, u \in Workers :
    t # u /\ HasLock(t) /\ HasLock(u) => op[t] = "read" /\ op[u] = "read"

\* It holds for the standard locks and for SpinLock.
OtherLocksProtect == lock_t # "ADAPTIVE" => DataProtected

Sum(field) == FoldFunction(LAMBDA x, y : x + y, 0, [t \in Workers |-> stats[t][field]])

\* analyze_results sees finished workers whose counts agree with each other
\* and with shared_counter_, for every lock type: AdaptiveMutex may let two
\* writers in, but the counters it could damage are atomic.
AnalysisAddsUp ==
  main \in {"analyze", "destroyed"} =>
    /\ Sum("acquisitions") = Sum("reads") + Sum("writes")
    /\ shared_counter = Sum("writes")
    /\ \A t \in Workers : stats[t].contentions <= stats[t].acquisitions

\* The lock is free when it is destroyed with the analyzer, AdaptiveMutex and
\* its fallback mutex included, however the unlocks of it interleave.
DestroyedFree ==
  main = "destroyed" =>
    holders = {} /\ sharers = {} /\ ~flag /\ state = 0 /\ fallback = None

\* The run ends: no worker is left behind on the lock, unless a worker could not
\* be started, which ends it at once.
Terminates == <>(main \in {"destroyed", "failed", "terminated"})
=============================================================================
