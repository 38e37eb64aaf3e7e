------------------------------ MODULE CacheTool ------------------------------
(***************************************************************************)
(* The cache analyzers, cache_analyzer.c and cache_analyzer_cpp.cpp: groups *)
(* of threads, one after the other, that read memory of their own or count *)
(* in memory they share.  The threads of the C program wait for each other *)
(* at a barrier; those of the C++ program are futures that do not.         *)
(***************************************************************************)
EXTENDS PointerChase, Sequences, FiniteSets

CONSTANTS MaxCacheThreads,   \* the largest num_threads of -T
          CountsPerLine,     \* ints in a cache line: 16
          CountRounds,       \* increments of a thread: 10000 iterations of 296
          Accesses,          \* how often a thread may read, by size and stride
          ListLength,        \* nodes of the pointer-chase list
          MayFail            \* whether malloc and thread creation may fail

CacheAssumption ==
  /\ MaxCacheThreads \in Nat \ {0} /\ CountsPerLine \in Nat \ {0}
  /\ CountRounds \in Nat /\ Accesses \subseteq Nat \ {0}
  /\ ListLength \in Nat \ {0} /\ MayFail \in BOOLEAN

VARIABLES
  program, main,    \* which program runs, and where its main is
  next, pc,         \* the index of main's loop; where each thread is
  threads,          \* num_threads
  phase,            \* index into Phases: the group of threads that runs
  arrived,          \* the count of the barrier
  cells, register,  \* the shared ints, and what each thread has loaded
  counted,          \* per thread: its increments
  estimate,         \* per thread: CacheStats, CachePerformanceMetrics
  seen              \* C++, per thread: the nodes the list has led to

process == <<program, main, next, pc>>
own == <<threads, phase, arrived, cells, register, counted, estimate, seen>>
cacheVars == <<process, own>>

\* The C program is built with the barrier of pthreads, or on macOS with its own.
Mac == program = "cache_mac"
C == program = "cache_c" \/ Mac
Cpp == program = "cache_cpp"
At(label) == (C \/ Cpp) /\ main = label
ThreadAt(t, label) == (C \/ Cpp) /\ main \notin {"crashed", "blocked"} /\ pc[t] = label

AllThreads == 0 .. MaxCacheThreads - 1
Team == 0 .. threads - 1

\* cache_hierarchy_test for each pattern and size, by the level of the memory
\* that the size fits into: 1 is the L1 cache, 4 the main memory, twice.
Reads(pattern) ==
  [size \in 1 .. 5 |-> [what |-> pattern, level |-> IF size = 5 THEN 4 ELSE size]]
Counts(what) == <<[what |-> what, level |-> 0]>>
Phases == Reads("sequential") \o Reads("random") \o Reads("stride")
            \o (IF Cpp THEN Reads("chase") ELSE <<>>)
            \o Counts("sharing") \o Counts("friendly") \o Counts("bouncing")
Now == Phases[phase]
Counting == Now.what \in {"sharing", "friendly", "bouncing"}

NoEstimate == [accesses |-> 0, l1 |-> 0, l2 |-> 0, l3 |-> 0, memory |-> 0]

NoCounts == [c \in 0 .. MaxCacheThreads * (CountsPerLine + 1) |-> 0]
Zeros == [t \in AllThreads |-> 0]

CacheInit(chosen) ==
  /\ threads = chosen /\ phase = 1 /\ arrived = 0
  /\ cells = NoCounts /\ register = Zeros /\ counted = Zeros
  /\ estimate = [t \in AllThreads |-> NoEstimate] /\ seen = [t \in AllThreads |-> {}]

Init ==
  /\ program \in {"cache_c", "cache_mac", "cache_cpp"} /\ main = "setup" /\ next = 0
  /\ pc = [t \in AllThreads |-> "unborn"]
  /\ \E chosen \in 1 .. MaxCacheThreads : CacheInit(chosen)

-----------------------------------------------------------------------------
(* estimate_cache_performance, calculate_estimates *)

\* The assumed hit rates of L1, L2 and L3, in percent.
Rates(pattern, level) ==
  CASE pattern = "sequential" ->
         <<<<95, 4, 1>>, <<30, 65, 4>>, <<10, 20, 65>>, <<5, 10, 30>>>>[level]
    [] pattern = "random" ->
         <<<<80, 15, 5>>, <<15, 70, 10>>, <<5, 15, 60>>, <<2, 5, 20>>>>[level]
    [] pattern = "stride" -> IF level <= 2 THEN <<60, 35, 4>> ELSE <<20, 40, 35>>
    [] OTHER -> <<50, 30, 15>>

\* Each number of hits is truncated, and what is missing went to the memory.
Estimate(n, pattern, level) ==
  LET r == Rates(pattern, level)
      Hits(k) == (n * r[k]) \div 100
  IN [accesses |-> n, l1 |-> Hits(1), l2 |-> Hits(2), l3 |-> Hits(3),
      memory |-> n - Hits(1) - Hits(2) - Hits(3)]

-----------------------------------------------------------------------------
(* The threads: sequential_access_test, random_access_test,                 *)
(* false_sharing_test; run_memory_test and the lambdas of the C++ program   *)

Goto(t, label) == pc' = [pc EXCEPT ![t] = label]

\* The memory is allocated before the barrier, and a thread without it is gone.
Allocate(t) ==
  /\ ThreadAt(t, "begin") /\ ~Counting
  /\ Goto(t, IF C THEN "arrive" ELSE "work")
  /\ UNCHANGED <<program, main, next, own>>

AllocateFails(t) ==
  /\ MayFail /\ ThreadAt(t, "begin") /\ ~Counting
  /\ Goto(t, IF C THEN "gone" ELSE "failed")
  /\ UNCHANGED <<program, main, next, own>>

ToBarrier(t) ==
  /\ ThreadAt(t, "begin") /\ Counting
  /\ Goto(t, IF C THEN "arrive" ELSE "work")
  /\ UNCHANGED <<program, main, next, own>>

Asleep == {u \in AllThreads : pc[u] = "wait"}

\* The last one lets all through and leaves the barrier empty.
Barrier(t) ==
  /\ ThreadAt(t, "arrive")
  /\ IF arrived + 1 >= threads
     THEN /\ arrived' = 0
          /\ pc' = [u \in AllThreads |-> IF u \in Asleep \cup {t} THEN "work" ELSE pc[u]]
     ELSE arrived' = arrived + 1 /\ Goto(t, "wait")
  /\ UNCHANGED <<program, main, next, threads, phase, cells, register, counted, estimate, seen>>

\* The barrier for macOS waits for its condition without a loop: a spurious
\* wake-up lets a thread through, which stays counted.
LeaveSpuriously(t) ==
  /\ Mac /\ ThreadAt(t, "wait")
  /\ Goto(t, "work")
  /\ UNCHANGED <<program, main, next, own>>

\* Reads as often as the size, the stride and the iterations say.
Read(t) ==
  /\ ThreadAt(t, "work") /\ Now.what \in {"sequential", "random", "stride"}
  /\ \E n \in Accesses :
       estimate' = [estimate EXCEPT ![t] = Estimate(n, Now.what, Now.level)]
  /\ Goto(t, "done")
  /\ UNCHANGED <<program, main, next, threads, phase, arrived, cells, register, counted, seen>>

\* Follows the list for as many steps as it has nodes.
Chase(t) ==
  /\ ThreadAt(t, "work") /\ Now.what = "chase"
  /\ \E order \in Orders(ListLength) :
       seen' = [seen EXCEPT ![t] = Visited(Chain(order, ListLength), ListLength)]
  /\ estimate' = [estimate EXCEPT ![t] = Estimate(ListLength, "chase", Now.level)]
  /\ Goto(t, "done")
  /\ UNCHANGED <<program, main, next, threads, phase, arrived, cells, register, counted>>

\* Mutant: every thread of the C program counts where *counter is.
CellOfCounter(t) == IF Now.what = "friendly" THEN t * CountsPerLine + t ELSE 0

\* The int that a thread counts in.  The C program adds the index of the
\* thread once more to the start of its cache line.  In C++ all threads of the
\* bouncing test count in one atomic.
Cell(t) ==
  CASE Now.what = "friendly" -> t * CountsPerLine + (IF C THEN t ELSE 0)
    [] Now.what = "bouncing" /\ Cpp -> 0
    [] OTHER -> t

\* The ints that are allocated.
InBuffer(c) ==
  c < (IF Now.what = "bouncing" THEN CountsPerLine
       ELSE IF Now.what = "sharing" /\ Cpp THEN threads ELSE threads * CountsPerLine)

\* C: an increment of a volatile int.
Load(t) ==
  /\ C /\ ThreadAt(t, "work") /\ Counting /\ counted[t] < CountRounds /\ InBuffer(Cell(t))
  /\ register' = [register EXCEPT ![t] = cells[Cell(t)]]
  /\ Goto(t, "store")
  /\ UNCHANGED <<program, main, next, threads, phase, arrived, cells, counted, estimate, seen>>

Store(t) ==
  /\ ThreadAt(t, "store")
  /\ cells' = [cells EXCEPT ![Cell(t)] = register[t] + 1]
  /\ counted' = [counted EXCEPT ![t] = @ + 1]
  /\ Goto(t, "work")
  /\ UNCHANGED <<program, main, next, threads, phase, arrived, register, estimate, seen>>

\* With more threads than ints in a line the C program counts beyond its
\* buffer, which may end it.
Overrun(t) ==
  /\ C /\ ThreadAt(t, "work") /\ Counting /\ counted[t] < CountRounds /\ ~InBuffer(Cell(t))
  /\ main' = "crashed"
  /\ UNCHANGED <<program, next, pc, own>>

\* C++: fetch_add.
FetchAdd(t) ==
  /\ Cpp /\ ThreadAt(t, "work") /\ Counting /\ counted[t] < CountRounds
  /\ cells' = [cells EXCEPT ![Cell(t)] = @ + 1]
  /\ counted' = [counted EXCEPT ![t] = @ + 1]
  /\ UNCHANGED <<program, main, next, pc, threads, phase, arrived, register, estimate, seen>>

\* The threads of the C program estimate false sharing as the default pattern.
CountingEnds(t) ==
  /\ ThreadAt(t, "work") /\ Counting /\ counted[t] = CountRounds
  /\ estimate' = IF C THEN [estimate EXCEPT ![t] = Estimate(CountRounds, Now.what, 1)]
                 ELSE estimate
  /\ Goto(t, "done")
  /\ UNCHANGED <<program, main, next, threads, phase, arrived, cells, register, counted, seen>>

-----------------------------------------------------------------------------
(* main: cache_hierarchy_test, false_sharing_analysis, cache_bouncing_analysis *)

Setup ==
  /\ At("setup") /\ ~(Now.what = "bouncing" /\ threads < 2)
  /\ main' = "create" /\ next' = 0
  /\ pc' = [t \in AllThreads |-> "unborn"]
  /\ cells' = NoCounts /\ register' = Zeros /\ counted' = Zeros
  /\ estimate' = [t \in AllThreads |-> NoEstimate] /\ seen' = [t \in AllThreads |-> {}]
  /\ arrived' = IF Now.what = "friendly" THEN arrived ELSE 0
  /\ UNCHANGED <<program, threads, phase>>

\* A bouncing line needs two threads.
NothingBounces ==
  /\ At("setup") /\ Now.what = "bouncing" /\ threads < 2
  /\ main' = "exit"
  /\ UNCHANGED <<program, next, pc, own>>

\* Memory to count in: aligned_alloc is not checked, and std::bad_alloc caught.
\* The line that bounces is on the stack of the C++ program.
SetupFails ==
  /\ MayFail /\ At("setup") /\ Counting /\ (Now.what = "bouncing" => C /\ threads >= 2)
  /\ main' = IF C THEN "crashed" ELSE "exit"
  /\ UNCHANGED <<program, next, pc, own>>

CreateThread ==
  /\ At("create") /\ next < threads
  /\ Goto(next, "begin") /\ next' = next + 1
  /\ UNCHANGED <<program, main, own>>

\* The C program goes on without the thread; std::async throws.
CreateFails ==
  /\ MayFail /\ At("create") /\ next < threads
  /\ IF C THEN Goto(next, "failed") /\ next' = next + 1 /\ UNCHANGED main
          ELSE main' = "unwind" /\ UNCHANGED <<next, pc>>
  /\ UNCHANGED <<program, own>>

AllCreated ==
  /\ At("create") /\ next = threads
  /\ main' = "join"
  /\ UNCHANGED <<program, next, pc, own>>

Finished(t) == pc[t] \in {"unborn", "done", "gone", "failed"}

\* The futures wait for their threads before the exception reaches main.
Unwind ==
  /\ At("unwind") /\ \A t \in Team : Finished(t)
  /\ main' = "exit"
  /\ UNCHANGED <<program, next, pc, own>>

\* future.get throws what a thread has thrown.  In C the handle of a thread
\* that was not created is undefined.
Join ==
  /\ At("join") /\ \A t \in Team : Finished(t)
  /\ LET failed == \E t \in Team : pc[t] = "failed" IN
       \/ (C \/ ~failed) /\ main' = "report"
       \/ C /\ failed /\ main' \in {"crashed", "blocked"}
       \/ Cpp /\ failed /\ main' = "exit"
  /\ UNCHANGED <<program, next, pc, own>>

Report ==
  /\ At("report")
  /\ IF phase < Len(Phases) THEN main' = "setup" /\ phase' = phase + 1
                            ELSE main' = "exit" /\ UNCHANGED phase
  /\ UNCHANGED <<program, next, pc, threads, arrived, cells, register, counted, estimate, seen>>

-----------------------------------------------------------------------------
Main == \/ Setup \/ NothingBounces \/ SetupFails \/ CreateThread \/ CreateFails
        \/ AllCreated \/ Unwind \/ Join \/ Report

Thread(t) == \/ Allocate(t) \/ AllocateFails(t) \/ ToBarrier(t) \/ Barrier(t)
             \/ Read(t) \/ Chase(t) \/ Load(t) \/ Store(t) \/ Overrun(t) \/ FetchAdd(t)
             \/ CountingEnds(t)

\* The threads of the C program wait for one that does not come; on macOS they
\* may wake up, and leave their arrivals in the count for the next group.
ShortOfThreads == C /\ \E t \in Team : pc[t] \in {"failed", "gone"}

\* The program has ended, or never will.
Ended == (C \/ Cpp) /\ (main \in {"exit", "crashed", "blocked"} \/ ShortOfThreads)
Over == Ended /\ UNCHANGED cacheVars

Next == Main \/ (\E t \in AllThreads : Thread(t) \/ LeaveSpuriously(t)) \/ Over

Spec == Init /\ [][Next]_cacheVars
Fairness == WF_cacheVars(Main) /\ \A t \in AllThreads : WF_cacheVars(Thread(t))

-----------------------------------------------------------------------------
(* Properties *)

\* Every variable has its type.
TypeOK ==
  /\ program \in {"cache_c", "cache_mac", "cache_cpp"}
  /\ main \in {"setup", "create", "join", "unwind", "report", "exit", "crashed", "blocked"}
  /\ next \in 0 .. MaxCacheThreads /\ threads \in 1 .. MaxCacheThreads
  /\ pc \in [AllThreads -> {"unborn", "begin", "arrive", "wait", "work", "store",
                            "done", "gone", "failed"}]
  /\ phase \in DOMAIN Phases /\ arrived \in 0 .. threads - 1
  /\ cells \in [DOMAIN NoCounts -> Nat]
  /\ register \in [AllThreads -> Nat] /\ counted \in [AllThreads -> 0 .. CountRounds]
  /\ estimate \in [AllThreads -> [accesses : Nat, l1 : Nat, l2 : Nat, l3 : Nat, memory : Nat]]
  /\ seen \in [AllThreads -> SUBSET NodesOf(ListLength)]

\* The threads are those of this phase.
InGroup == main \in {"create", "join", "unwind", "report"}

\* The barrier that false_sharing_analysis uses for two groups is empty when
\* the second one starts, and no thread of the C program works before the
\* last of its group has arrived.  Both are so with the barrier of pthreads; a
\* spurious wake-up of that of macOS breaks the second, and then, in a group
\* short of threads, the first.
GroupsDoNotMix ==
  /\ ~Mac /\ main = "create" /\ next = 0 => arrived = 0
  /\ C /\ ~Mac /\ InGroup => \A t \in Team : pc[t] \in {"work", "store"} =>
                \A u \in Team : pc[u] \in {"work", "store", "done"}
  /\ Cpp => arrived = 0

\* No increment is lost, though those of the C program are not atomic, and
\* what is printed as the final value of the bouncing counter is in C that of
\* the first thread alone.
NoCountLost ==
  InGroup /\ Counting => \A t \in Team :
    /\ Cpp /\ Now.what = "bouncing" => cells[0] = FoldFunction(+, 0, counted)
    /\ ~(Cpp /\ Now.what = "bouncing") => cells[Cell(t)] = counted[t]
    /\ main = "report" /\ pc[t] = "done" => counted[t] = CountRounds

\* In the cache-friendly test no two threads count in the same cache line,
\* and as long as there are no more threads than ints in a line all tests
\* stay within their memory: only then does none overrun it.
OwnLines ==
  Counting /\ threads <= CountsPerLine =>
    \A t, u \in Team :
      /\ InBuffer(Cell(t))
      /\ Now.what = "friendly" /\ t # u =>
           Cell(t) \div CountsPerLine # Cell(u) \div CountsPerLine

\* The estimated hits and misses of a thread are all of its accesses, and the
\* misses are not negative, where the unsigned difference would wrap.
EstimatesAddUp ==
  \A t \in AllThreads :
    LET e == estimate[t] IN
      e.memory >= 0 /\ e.l1 + e.l2 + e.l3 + e.memory = e.accesses

\* A thread that has chased the list as often as it has nodes has been at
\* every node.
ListIsOneRing ==
  InGroup /\ Now.what = "chase" => \A t \in Team : pc[t] = "done" => seen[t] = NodesOf(ListLength)
=============================================================================
