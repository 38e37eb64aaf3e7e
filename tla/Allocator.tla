------------------------------ MODULE Allocator ------------------------------
(***************************************************************************)
(* The memory allocator benchmarks, memory_allocator_benchmarker.c and     *)
(* .cpp: a speed test in the thread of main, a fragmentation test and a    *)
(* scalability test with groups of threads; what is allocated and freed is *)
(* accounted in statistics of their own and of all.                        *)
(***************************************************************************)
EXTENDS Integers, Sequences, FiniteSets, Functions

CONSTANTS ThreadCounts,       \* thread_counts: 1, 2, 4, 8, 16
          Iterations,         \* num_iterations, DEFAULT_ITERATIONS
          Sizes,              \* what get_allocation_size may return
          Blocks, Rounds,     \* num_allocations and the rounds of fragmentation_test
          MayFail             \* whether allocations and thread creation may fail

Threads == 0 .. ThreadCounts[Len(ThreadCounts)] - 1
Global == -1                  \* the index of global_stats

AllocatorAssumption ==
  /\ ThreadCounts \in Seq(Nat \ {0}) /\ ThreadCounts # <<>>
  /\ \A i \in DOMAIN ThreadCounts :
       ThreadCounts[1] <= ThreadCounts[i] /\ ThreadCounts[i] <= ThreadCounts[Len(ThreadCounts)]
  /\ Iterations \in Nat /\ Sizes \subseteq Nat \ {0}
  /\ Blocks \in Nat /\ Rounds \in Nat /\ MayFail \in BOOLEAN

VARIABLES
  program, main,   \* which program runs, and where its main is
  next, pc,        \* the index of main's loop; where each thread is
  tests,           \* the tests of -t
  group,           \* scalability_test: index into ThreadCounts
  open,            \* the barrier has let its threads through; ready
  iter, records,   \* per thread: i, and the blocks of local_records, allocations
  stats,           \* per thread and for Global: AllocatorStats, Statistics
  frag,            \* fragmentation_test: see FragRound
  printed          \* what the tests and the summary have printed

process == <<program, main, next, pc>>
own == <<tests, group, open, iter, records, stats, frag, printed>>
allocVars == <<process, own>>

\* The C program is built with the barrier of pthreads, or on macOS with its own.
Mac == program = "allocator_mac"
C == program = "allocator_c" \/ Mac
Cpp == program = "allocator_cpp"
Running == (C \/ Cpp) /\ main \notin {"crashed", "blocked"}
At(label) == Running /\ main = label
ThreadAt(t, label) == Running /\ pc[t] = label

NoStats == [total |-> 0, current |-> 0, peak |-> 0, allocs |-> 0, frees |-> 0, failed |-> 0]
Unused == [ptr |-> "wild", size |-> 0]
NoFrag == [round |-> 0, live |-> 0, past |-> 0, heap |-> 0, holes |-> 0]
NoBlocks == [i \in 0 .. Iterations - 1 |-> Unused]

AllocatorInit(chosen) ==
  /\ tests = chosen /\ group = 1 /\ open = FALSE
  /\ iter = [t \in Threads |-> 0] /\ records = [t \in Threads |-> NoBlocks]
  /\ stats = [t \in Threads \cup {Global} |-> NoStats]
  /\ frag = NoFrag
  /\ printed = [speed |-> 0, summary |-> NoStats]

AllTests == {"speed", "frag", "scale"}
Chosen == {{test} : test \in AllTests} \cup {AllTests}

Init ==
  /\ program \in {"allocator_c", "allocator_mac", "allocator_cpp"} /\ main = "speed" /\ next = 0
  /\ pc = [t \in Threads |-> "unborn"]
  /\ \E chosen \in Chosen : AllocatorInit(chosen)

Sum(f) == FoldFunction(LAMBDA x, y : x + y, 0, f)
Larger(x, y) == IF x > y THEN x ELSE y

-----------------------------------------------------------------------------
(* The statistics.  Each record is changed under a mutex, and by one thread *)
(* only, so that an update is one step with the call it accounts for.       *)

AccountAlloc(s, n) ==
  [s EXCEPT !.total = @ + n, !.current = @ + n, !.allocs = @ + 1,
            !.peak = Larger(@, s.current + n)]

AccountFree(s, n) == [s EXCEPT !.current = @ - n, !.frees = @ + 1]

\* update_stats of the C program is called with success when a block is freed,
\* too, and counts it as an allocation once more.  A free that takes no time
\* on the clock is not counted as one.
FreeOutcomes(s, n) ==
  IF C THEN {AccountFree(AccountAlloc(s, n), n), AccountAlloc(s, n)}
       ELSE {AccountFree(s, n)}

\* speed_test of the C++ program accounts in global_stats.
Slot(t) == IF Cpp /\ main = "speed" THEN Global ELSE t

\* The iterations of a thread.
Limit == IF main = "speed" THEN Iterations ELSE Iterations \div ThreadCounts[group]

-----------------------------------------------------------------------------
(* allocation_speed_test, speed_test, thread_work *)

\* The next iteration, or the end of the loop.
NextIteration(t) ==
  /\ iter' = [iter EXCEPT ![t] = @ + 1]
  /\ pc' = [pc EXCEPT ![t] = "run"]

\* Every second block, but not the first, a block is freed.  thread_work of
\* the C++ program frees each at once.
ThenFrees(t) ==
  IF Cpp /\ main # "speed" THEN "free_own"
  ELSE IF iter[t] % 2 = 0 /\ iter[t] > 0 THEN "free_one" ELSE "run"

Allocate(t) ==
  /\ ThreadAt(t, "run") /\ iter[t] < Limit
  /\ \E n \in Sizes :
       /\ records' = [records EXCEPT ![t][iter[t]] = [ptr |-> "live", size |-> n]]
       /\ stats' = [stats EXCEPT ![Slot(t)] = AccountAlloc(@, n)]
  /\ IF ThenFrees(t) = "run" THEN NextIteration(t)
     ELSE pc' = [pc EXCEPT ![t] = ThenFrees(t)] /\ UNCHANGED iter
  /\ UNCHANGED <<program, main, next, tests, group, open, frag, printed>>

\* The record keeps what malloc has left there.
AllocateFails(t) ==
  /\ MayFail /\ ThreadAt(t, "run") /\ iter[t] < Limit
  /\ stats' = [stats EXCEPT ![Slot(t)].failed = @ + 1]
  /\ NextIteration(t)
  /\ UNCHANGED <<program, main, next, tests, group, open, records, frag, printed>>

\* Where free_idx may fall.  The vector of the C++ program has the successful
\* allocations only, and the last one is never drawn.
Candidates(t) ==
  {j \in 0 .. iter[t] - 1 : Cpp => records[t][j].ptr # "wild"}

\* The size that is subtracted: the C++ program takes that of the new block.
SizeFreed(t, j) == IF Cpp THEN records[t][iter[t]].size ELSE records[t][j].size

\* Frees a block at random, unless it is freed already.  The pointer of a
\* failed allocation was never initialised: it is zero, or free crashes.
FreeOne(t) ==
  /\ ThreadAt(t, "free_one")
  /\ \E j \in Candidates(t) :
       \/ /\ records[t][j].ptr = "live"
          /\ records' = [records EXCEPT ![t][j].ptr = "null"]
          /\ \E s \in FreeOutcomes(stats[Slot(t)], SizeFreed(t, j)) :
               stats' = [stats EXCEPT ![Slot(t)] = s]
          /\ NextIteration(t) /\ UNCHANGED main
       \/ /\ records[t][j].ptr # "live"
          /\ NextIteration(t) /\ UNCHANGED <<main, records, stats>>
       \/ /\ records[t][j].ptr = "wild"
          /\ main' = "crashed" /\ UNCHANGED <<pc, iter, records, stats>>
  /\ UNCHANGED <<program, next, tests, group, open, frag, printed>>

\* local_records is not looked at; rng() % 0, if the new block is the only
\* one of the C++ vector.
Crashes(t) ==
  /\ \/ MayFail /\ C /\ ThreadAt(t, "run") /\ iter[t] = 0 /\ Limit > 0
     \/ ThreadAt(t, "free_one") /\ Candidates(t) = {}
  /\ main' = "crashed"
  /\ UNCHANGED <<program, next, pc, own>>

FreeOwn(t) ==
  /\ ThreadAt(t, "free_own")
  /\ records' = [records EXCEPT ![t][iter[t]].ptr = "null"]
  /\ stats' = [stats EXCEPT ![t] = AccountFree(@, records[t][iter[t]].size)]
  /\ NextIteration(t)
  /\ UNCHANGED <<program, main, next, tests, group, open, frag, printed>>

\* The C program frees what is left, block by block.  The vector of the C++
\* program does so without accounting it.
LoopEnds(t) ==
  /\ ThreadAt(t, "run") /\ iter[t] = Limit
  /\ IF C THEN /\ pc' = [pc EXCEPT ![t] = "drain"] /\ iter' = [iter EXCEPT ![t] = 0]
               /\ UNCHANGED records
          ELSE /\ pc' = [pc EXCEPT ![t] = "done"]
               /\ records' = [records EXCEPT ![t] = [j \in DOMAIN @ |->
                    IF @[j].ptr = "live" THEN [@[j] EXCEPT !.ptr = "null"] ELSE @[j]]]
               /\ UNCHANGED iter
  /\ UNCHANGED <<program, main, next, tests, group, open, stats, frag, printed>>

Drain(t) ==
  /\ ThreadAt(t, "drain") /\ iter[t] < Limit
  /\ LET j == iter[t] IN
       \/ /\ records[t][j].ptr = "live"
          /\ records' = [records EXCEPT ![t][j].ptr = "null"]
          /\ \E s \in FreeOutcomes(stats[t], records[t][j].size) :
               stats' = [stats EXCEPT ![t] = s]
          /\ UNCHANGED main
       \/ records[t][j].ptr # "live" /\ UNCHANGED <<main, records, stats>>
       \/ records[t][j].ptr = "wild" /\ main' = "crashed" /\ UNCHANGED <<records, stats>>
  /\ iter' = [iter EXCEPT ![t] = @ + 1]
  /\ UNCHANGED <<program, next, pc, tests, group, open, frag, printed>>

DrainEnds(t) ==
  /\ ThreadAt(t, "drain") /\ iter[t] = Limit
  /\ pc' = [pc EXCEPT ![t] = "done"]
  /\ UNCHANGED <<program, main, next, own>>

InGroup == 0 .. ThreadCounts[group] - 1

NotArrived == {"unborn", "arrive", "failed"}

\* The barrier of the C program opens with the last thread.  In C++ the
\* threads wait until main is ready.
Arrive(t) ==
  /\ ThreadAt(t, "arrive")
  /\ pc' = [pc EXCEPT ![t] = "wait"]
  /\ open' = (open \/ (C /\ \A u \in InGroup \ {t} : pc[u] \notin NotArrived))
  /\ UNCHANGED <<program, main, next, tests, group, iter, records, stats, frag, printed>>

Leave(t) ==
  /\ ThreadAt(t, "wait") /\ open
  /\ pc' = [pc EXCEPT ![t] = "run"]
  /\ UNCHANGED <<program, main, next, own>>

\* The barrier for macOS waits for its condition without a loop: a spurious
\* wake-up lets a thread through, which stays counted as arrived.
LeaveSpuriously(t) ==
  /\ Mac /\ ThreadAt(t, "wait") /\ ~open
  /\ pc' = [pc EXCEPT ![t] = "run"]
  /\ UNCHANGED <<program, main, next, own>>

-----------------------------------------------------------------------------
(* main, speed_test, fragmentation_test *)

SpeedTest ==
  /\ At("speed") /\ "speed" \in tests /\ pc[0] = "unborn"
  /\ pc' = [pc EXCEPT ![0] = "run"]
  /\ UNCHANGED <<program, main, next, own>>

\* "Operations per second" is printed; the C program makes the statistics of
\* the thread the global ones.
SpeedTestEnds ==
  /\ At("speed") /\ ("speed" \in tests => pc[0] = "done")
  /\ printed' = [printed EXCEPT !.speed = stats[Slot(0)].allocs + stats[Slot(0)].frees]
  /\ stats' = IF "frag" \in tests /\ C THEN [stats EXCEPT ![Global] = NoStats]
              ELSE [stats EXCEPT ![Global] = stats[Slot(0)]]
  /\ main' = "fragmentation"
  /\ records' = [records EXCEPT ![0] = NoBlocks] /\ iter' = [iter EXCEPT ![0] = 0]
  /\ pc' = [pc EXCEPT ![0] = "unborn"]
  /\ UNCHANGED <<program, next, tests, group, open, frag>>

\* One round: blocks are allocated; every second one is freed, or any of
\* them.  The C program then overwrites the pointers to the others, which
\* stay allocated; the C++ program frees them and leaves the count.  A failed
\* allocation is a hole for the C program only.
FragRound ==
  /\ At("fragmentation") /\ "frag" \in tests /\ frag.round < Rounds
  /\ \E got \in {S \in SUBSET (0 .. Blocks - 1) : MayFail \/ Cardinality(S) = Blocks} :
     \E drawn \in SUBSET got :
       LET freed == IF frag.round % 2 = 0 THEN {j \in got : j % 2 = 0} ELSE drawn
           kept == Cardinality(got \ freed) IN
       /\ frag' = [round |-> frag.round + 1, live |-> kept, past |-> frag.past + frag.live,
                   heap |-> IF C THEN frag.heap + kept ELSE 0,
                   holes |-> IF C THEN Blocks - kept ELSE Cardinality(freed)]
       /\ stats' = [stats EXCEPT ![Global].current = @ + kept,
                                 ![Global].total = IF C THEN @ + Cardinality(got) ELSE @]
  /\ UNCHANGED <<program, main, next, pc, tests, group, open, iter, records, printed>>

\* The C program frees the blocks of the last round.
FragEnds ==
  /\ At("fragmentation") /\ ("frag" \in tests => frag.round = Rounds)
  /\ frag' = [frag EXCEPT !.heap = IF C THEN @ - frag.live ELSE @]
  /\ main' = IF "scale" \in tests THEN "scale" ELSE "summary"
  /\ UNCHANGED <<program, next, pc, tests, group, open, iter, records, stats, printed>>

-----------------------------------------------------------------------------
(* scalability_test *)

GroupBegins ==
  /\ At("scale")
  /\ main' = "create" /\ next' = 0 /\ open' = FALSE
  /\ pc' = [t \in Threads |-> "unborn"]
  /\ stats' = [t \in DOMAIN stats |-> IF t = Global /\ Cpp THEN stats[t] ELSE NoStats]
  /\ iter' = [t \in Threads |-> 0] /\ records' = [t \in Threads |-> NoBlocks]
  /\ frag' = NoFrag
  /\ UNCHANGED <<program, tests, group, printed>>

CreateThread ==
  /\ At("create") /\ next \in InGroup
  /\ pc' = [pc EXCEPT ![next] = "arrive"] /\ next' = next + 1
  /\ UNCHANGED <<program, main, own>>

\* The C program goes on without the thread.  In C++ the exception ends it.
CreateFails ==
  /\ MayFail /\ At("create") /\ next \in InGroup
  /\ IF C THEN pc' = [pc EXCEPT ![next] = "failed"] /\ next' = next + 1 /\ UNCHANGED main
          ELSE main' = "crashed" /\ UNCHANGED <<next, pc>>
  /\ UNCHANGED <<program, own>>

\* Mutant: the threads are told as soon as the first one is there.
AllCreatedEarly ==
  /\ At("create") /\ next > 0
  /\ open' = Cpp
  /\ main' = IF next \in InGroup THEN "create" ELSE "join"
  /\ UNCHANGED <<program, next, pc, tests, group, iter, records, stats, frag, printed>>

\* In C++ ready is set, and everybody notified.
AllCreated ==
  /\ At("create") /\ next \notin InGroup
  /\ main' = "join" /\ open' = (open \/ Cpp)
  /\ UNCHANGED <<program, next, pc, tests, group, iter, records, stats, frag, printed>>

\* The handle of a thread that was not created is undefined.
Join ==
  /\ At("join") /\ \A t \in InGroup : pc[t] \in {"done", "failed"}
  /\ \/ main' = "report"
     \/ (\E t \in InGroup : pc[t] = "failed") /\ main' \in {"crashed", "blocked"}
  /\ UNCHANGED <<program, next, pc, own>>

\* The C program adds up what the threads have counted in global_stats, which
\* GroupBegins has cleared: allocated bytes and calls, but neither the current
\* bytes nor the peak.
Report ==
  /\ At("report")
  /\ LET S(f(_)) == Sum([t \in InGroup |-> f(stats[t])]) IN
       stats' = IF Cpp THEN stats
                ELSE [stats EXCEPT ![Global].total = S(LAMBDA s : s.total),
                                   ![Global].allocs = S(LAMBDA s : s.allocs),
                                   ![Global].frees = S(LAMBDA s : s.frees)]
  /\ IF group < Len(ThreadCounts) THEN main' = "scale" /\ group' = group + 1
                                  ELSE main' = "summary" /\ UNCHANGED group
  /\ UNCHANGED <<program, next, pc, tests, open, iter, records, frag, printed>>

Summary ==
  /\ At("summary")
  /\ printed' = [printed EXCEPT !.summary = IF "speed" \in tests THEN stats[Global] ELSE @]
  /\ main' = "exit"
  /\ UNCHANGED <<program, next, pc, tests, group, open, iter, records, stats, frag>>

-----------------------------------------------------------------------------
Main == \/ SpeedTest \/ SpeedTestEnds \/ FragRound \/ FragEnds
        \/ GroupBegins \/ CreateThread \/ CreateFails \/ AllCreated \/ Join \/ Report
        \/ Summary

Thread(t) == \/ Arrive(t) \/ Leave(t) \/ Allocate(t) \/ AllocateFails(t) \/ FreeOne(t)
             \/ Crashes(t) \/ FreeOwn(t) \/ LoopEnds(t) \/ Drain(t) \/ DrainEnds(t)

\* The program has ended, or a thread could not be created, for which others
\* of the C program may wait for ever.
Ended ==
  (C \/ Cpp) /\ (main \in {"exit", "crashed", "blocked"} \/ \E t \in Threads : pc[t] = "failed")
Over ==
  /\ Ended
  /\ At("join") \/ main \in {"exit", "crashed", "blocked"}
  /\ UNCHANGED allocVars

Next == Main \/ (\E t \in Threads : Thread(t) \/ LeaveSpuriously(t)) \/ Over

Spec == Init /\ [][Next]_allocVars
Fairness == WF_allocVars(Main) /\ \A t \in Threads : WF_allocVars(Thread(t))

-----------------------------------------------------------------------------
(* Properties *)

StatsType ==
  [total : Nat, current : Nat, peak : Nat, allocs : Nat, frees : Nat, failed : Nat]

\* Every variable has its type; no count goes below zero, where the code's
\* unsigned ones would wrap.
TypeOK ==
  /\ program \in {"allocator_c", "allocator_mac", "allocator_cpp"}
  /\ main \in {"speed", "fragmentation", "scale", "create", "join", "report", "summary",
               "exit", "crashed", "blocked"}
  /\ next \in 0 .. Cardinality(Threads) /\ group \in DOMAIN ThreadCounts
  /\ pc \in [Threads -> {"unborn", "arrive", "wait", "run", "free_one", "free_own",
                         "drain", "done", "failed"}]
  /\ tests \in Chosen /\ open \in BOOLEAN
  /\ iter \in [Threads -> 0 .. Iterations]
  /\ records \in [Threads -> [0 .. Iterations - 1 ->
                    [ptr : {"wild", "live", "null"}, size : Sizes \cup {0}]]]
  /\ stats \in [Threads \cup {Global} -> StatsType]
  /\ frag \in [round : Nat, live : Nat, past : Nat, heap : Nat, holes : Nat]
  /\ printed \in [speed : Nat, summary : StatsType]

\* What a thread has really done, by its records.
Made(t) == {j \in DOMAIN records[t] : records[t][j].ptr # "wild"}
FreedBy(t) == {j \in DOMAIN records[t] : records[t][j].ptr = "null"}
Bytes(t, S) == Sum([j \in S |-> records[t][j].size])
Working(t) == pc[t] \in {"run", "free_one", "free_own", "drain", "done"}

\* The counts of a thread that the code keeps are tied to what the thread has
\* done, by the records it keeps for the frees: C counts a free as an allocation
\* as well, so that "current" lies between all bytes ever allocated and twice
\* that; C++ counts allocations as they are made, and after thread_work, which
\* frees each block with its own size, nothing is left as current.  That the
\* C count does not fall, and that speed_test of C++ takes off the size of
\* another block, is what the code does: neither is claimed to be right.
StatisticsAddUp ==
  \A t \in Threads :
    LET s == stats[Slot(t)] IN
    (Working(t) /\ main \in {"speed", "create", "join"}) =>
      /\ s.peak >= s.current /\ s.frees <= Cardinality(FreedBy(t))
      /\ C => /\ s.allocs = Cardinality(Made(t)) + Cardinality(FreedBy(t))
              /\ s.total = Bytes(t, Made(t)) + Bytes(t, FreedBy(t))
              /\ Bytes(t, Made(t)) <= s.current /\ s.current <= s.total
      /\ Cpp => /\ s.allocs = Cardinality(Made(t)) /\ s.total = Bytes(t, Made(t))
                /\ 0 <= s.current /\ s.current <= s.total
                /\ (main # "speed" /\ pc[t] = "done") => s.current = 0 /\ s.frees = s.allocs

\* A thread of the scalability test does nothing before all threads of its
\* group are created; in C they have also arrived at the barrier.  This is so
\* with the barrier of pthreads; that of macOS lets threads through too early.
GroupStartsTogether ==
  ~Mac /\ main \in {"create", "join", "report"} =>
    \A t, u \in InGroup : Working(t) => pc[u] \notin {"unborn", "failed"}
                                        /\ (C => pc[u] # "arrive")

\* While the fragmentation test of the C program runs, what global_stats counts
\* as current is what the heap holds, the blocks included whose pointers later
\* rounds have overwritten; after it the heap still holds these, which is a
\* leak, and nothing else.  The count of the C++ program, which fragmentation_test
\* never lowers for the blocks the vector frees, drifts: nothing is said of it.
FragmentationCounts ==
  /\ C /\ main = "fragmentation" /\ "frag" \in tests => frag.heap = stats[Global].current
  /\ C /\ main \in {"scale", "summary"} => frag.heap = frag.past

\* The summary counts the operations whose rate the speed test has printed,
\* whichever tests came after it in the C++ program, or if the C program was
\* asked for that test alone.  With -t all the C program prints the last group
\* of the scalability test there, with a peak of 0: nothing is said of it.
SummaryOfSpeedTest ==
  main = "exit" /\ "speed" \in tests /\ (Cpp \/ tests = {"speed"}) =>
    printed.summary.allocs + printed.summary.frees = printed.speed
=============================================================================
