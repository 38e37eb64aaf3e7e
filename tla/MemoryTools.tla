----------------------------- MODULE MemoryTools -----------------------------
(***************************************************************************)
(* The tools about memory, each in C and in C++: allocator benchmarks,     *)
(* cache analyzers and virtual memory explorers.  The user starts one of   *)
(* the six programs, which then runs alone.                                *)
(***************************************************************************)
EXTENDS Integers, Sequences

CONSTANTS Groups, Iterations, Sizes, Blocks, Rounds,    \* Allocator
          MaxCacheThreads, CountsPerLine, CountRounds, Accesses,    \* CacheTool
          HalfPages,    \* VmExplorer
          ListLength, MayFail

\* thread_counts: 1, 2, 4, 8, 16, or the first of them.
ThreadCounts == [g \in 1 .. Groups |-> 2 ^ (g - 1)]

VARIABLES program, main, next, pc,
          tests, group, open, iter, records, stats, frag, printed,
          threads, phase, arrived, cells, register, counted, estimate, seen,
          test, live, memory, copy, pipe, writers, got,
          redirected, unflushed, inherited, written

A == INSTANCE Allocator
K == INSTANCE CacheTool
V == INSTANCE VmExplorer

ASSUME ToolsAssumption ==
  A!AllocatorAssumption /\ K!CacheAssumption /\ V!VmAssumption

allocatorOwn == <<tests, group, open, iter, records, stats, frag, printed>>
cacheOwn == <<threads, phase, arrived, cells, register, counted, estimate, seen>>
vmOwn == <<test, live, memory, copy, pipe, writers, got, redirected, unflushed,
           inherited, written>>
vars == <<program, main, next, pc, allocatorOwn, cacheOwn, vmOwn>>

NoAllocator == A!AllocatorInit({"speed"})
NoCache == K!CacheInit(1)
NoVm == V!VmInit(FALSE)

Init == \/ A!Init /\ NoCache /\ NoVm
        \/ K!Init /\ NoAllocator /\ NoVm
        \/ V!Init /\ NoAllocator /\ NoCache

Next == \/ A!Next /\ UNCHANGED <<cacheOwn, vmOwn>>
        \/ K!Next /\ UNCHANGED <<allocatorOwn, vmOwn>>
        \/ V!Next /\ UNCHANGED <<allocatorOwn, cacheOwn>>

\* The scheduler lets every thread and process that can go on do so.
Fairness ==
  /\ WF_vars((A!Main \/ K!Main \/ V!Main) /\ Next) /\ WF_vars(V!ChildSteps /\ Next)
  /\ \A t \in A!Threads : WF_vars(A!Thread(t) /\ Next)
  /\ \A t \in K!AllThreads : WF_vars(K!Thread(t) /\ Next)

Spec == Init /\ [][Next]_vars /\ Fairness

-----------------------------------------------------------------------------
(* Properties: those of the program that runs *)

\* The allocator benchmarks: each thread's counts are tied to what it has done,
\* the threads of a group start together at a barrier of pthreads, the C program
\* counts what its fragmentation test holds while it holds it, and the summary
\* is of the speed test where no later test has overwritten it.
AllocatorInv ==
  A!C \/ A!Cpp => /\ A!TypeOK /\ A!StatisticsAddUp /\ A!GroupStartsTogether
                  /\ A!FragmentationCounts /\ A!SummaryOfSpeedTest

\* The cache analyzers: groups do not mix at a barrier of pthreads, no increment is
\* lost, nobody leaves the shared memory or another's cache line with as few
\* threads as a line has counters, estimates add up and a list is one ring.
CacheInv ==
  K!C \/ K!Cpp => /\ K!TypeOK /\ K!GroupsDoNotMix /\ K!NoCountLost /\ K!OwnLines
                  /\ K!EstimatesAddUp /\ K!ListIsOneRing

\* The memory explorers: no block is left behind, parent and child do not see
\* each other's writes, the result is the child's, and a line is written once.
VmInv ==
  V!C \/ V!Cpp => /\ V!TypeOK /\ V!NothingLeftBehind /\ V!CopiesAreSeparate
                  /\ V!ResultIsOfTheChild /\ V!OutputOnce /\ V!WalkComesBack

\* Every program ends, or it is a C program that waits for a thread that could
\* not be created or went away before the barrier, or reads no pipe.
Terminates == <>(A!Ended \/ K!Ended \/ V!Ended)
=============================================================================
