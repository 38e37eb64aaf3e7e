-------------------------------- MODULE DiskIO --------------------------------
(***************************************************************************)
(* The disk benchmarks, src/disk_io_analyzer.c (C) and                     *)
(* src/disk_io_analyzer_cpp.cpp (C++): their tests run one round of        *)
(* threads after another.  In a round main creates a file and a thread     *)
(* per index, the threads open their files and meet at a barrier, work     *)
(* until stop_flag is set, and are joined; the statistics are printed and  *)
(* the files removed.  File positions and lengths are counted in blocks.   *)
(***************************************************************************)
EXTENDS Integers, Sequences, FiniteSets, Functions

CONSTANTS NumThreads,   \* num_threads (-T)
          Tests,        \* the test types main may be started with (-t)
          Platforms,    \* the C program on "linux" has pthread_barrier_wait, on "apple"
                        \* the shim; "cpp" is the C++ program with std::barrier
          Blocks,       \* file_size / block_size
          MaxFaults,    \* bound: failing opens, allocations and creations in a run
          MaxOps        \* bound: counted operations of one thread in a round

Threads == 0 .. NumThreads - 1

ASSUME DiskAssumption ==
  /\ NumThreads \in Nat \ {0} /\ Blocks \in Nat \ {0}
  /\ MaxFaults \in Nat /\ MaxOps \in Nat
  /\ Tests \subseteq {"pattern", "block", "sync", "modes", "all"}
  /\ Platforms \subseteq {"linux", "apple", "cpp"}

\* The rounds of a test: the pattern of its threads, whether main creates the
\* files and looks at the result ("thrown": an exception), and whether it prints
\* and removes the files at the end.  "sync" is the thread function sync_overhead_test.  One of the
\* nine block sizes stands for all.
Round(pattern, create, unlink) ==
  [pattern |-> pattern, create |-> create, unlink |-> unlink]

Patterns == <<"seq_read", "seq_write", "random_read", "random_write", "mixed">>

PatternRounds == [p \in 1..5 |-> Round(Patterns[p], "checked", TRUE)]
BlockRounds   == <<Round("seq_read", "ignored", FALSE), Round("seq_write", "none", TRUE)>>
SyncRounds    == <<Round("sync", "ignored", TRUE)>>
ModeRounds    == [m \in 1..3 |-> Round("mixed", "ignored", TRUE)]

RoundsOf(test) ==
  CASE test = "pattern" -> PatternRounds
    [] test = "block"   -> BlockRounds
    [] test = "sync"    -> SyncRounds
    [] test = "modes"   -> ModeRounds
    [] test = "all"     -> PatternRounds \o BlockRounds \o SyncRounds \o ModeRounds

\* The tests of DiskIOAnalyzer; run_io_test creates and removes the files of
\* each round.
CppRounds(patterns) == [p \in DOMAIN patterns |-> Round(patterns[p], "thrown", TRUE)]
CppPattern == CppRounds(Patterns)
CppBlock   == CppRounds(<<"seq_read", "seq_write">>)
CppSync    == CppRounds(<<"seq_write", "seq_write">>)
CppModes   == CppRounds(<<"mixed", "mixed", "mixed">>)

CppRoundsOf(test) ==
  CASE test = "pattern" -> CppPattern
    [] test = "block"   -> CppBlock
    [] test = "sync"    -> CppSync
    [] test = "modes"   -> CppModes
    [] test = "all"     -> CppPattern \o CppBlock \o CppSync \o CppModes

Absent == -1    \* the length of a file that does not exist

VARIABLES
  platform, rounds,   \* fixed; the rounds still to do, the current one first
  main, i,            \* where main is, and the index of its loop
  made,               \* the indexes of this round whose thread was created
  stop_flag,
  count,              \* the barrier's count
  pc,                 \* where each thread is
  file,               \* the length of each thread's file
  offset,             \* per thread: file_offset
  operations, reads, writes,    \* per thread: its local count and its IOStatistics
  faults              \* the failures so far

mainVars   == <<rounds, main, i, made, stop_flag>>
threadVars == <<pc, offset, operations, reads, writes>>
vars == <<platform, mainVars, count, threadVars, file, faults>>

round == Head(rounds)

\* calloc of statistics and arguments, a new barrier, stop_flag = 0.
FreshRound ==
  /\ i' = 0 /\ made' = {} /\ stop_flag' = FALSE /\ count' = 0
  /\ pc' = [t \in Threads |-> "unborn"]
  /\ offset' = [t \in Threads |-> 0] /\ operations' = [t \in Threads |-> 0]
  /\ reads' = [t \in Threads |-> 0] /\ writes' = [t \in Threads |-> 0]

Init ==
  /\ platform \in Platforms
  /\ rounds \in {IF platform = "cpp" THEN CppRoundsOf(test) ELSE RoundsOf(test) : test \in Tests}
  /\ main = "file" /\ i = 0 /\ made = {} /\ stop_flag = FALSE /\ count = 0
  /\ pc = [t \in Threads |-> "unborn"] /\ file = [t \in Threads |-> Absent]
  /\ offset = [t \in Threads |-> 0] /\ operations = [t \in Threads |-> 0]
  /\ reads = [t \in Threads |-> 0] /\ writes = [t \in Threads |-> 0]
  /\ faults = 0

Fault == faults < MaxFaults /\ faults' = faults + 1

-----------------------------------------------------------------------------
(* the test functions in main *)

\* create_test_file for index i.
CreateFile ==
  /\ main = "file" /\ i < NumThreads /\ round.create # "thrown"
  /\ main' = "thread"
  /\ IF round.create = "none" THEN UNCHANGED file
                              ELSE file' = [file EXCEPT ![i] = Blocks]
  /\ UNCHANGED <<platform, rounds, i, made, stop_flag, count, threadVars, faults>>

\* It fails: the file cannot be opened or has become too short.  Only the
\* pattern test looks; it goes to the clean-up at once, with the threads of the
\* indexes below i neither stopped nor joined.
CreateFileFails ==
  /\ main = "file" /\ i < NumThreads /\ round.create \in {"checked", "ignored"}
  /\ Fault
  /\ \E length \in {file[i]} \cup 0 .. Blocks - 1 : file' = [file EXCEPT ![i] = length]
  /\ main' = IF round.create = "ignored" THEN "thread" ELSE "cleanup"
  /\ UNCHANGED <<platform, rounds, i, made, stop_flag, count, threadVars>>

\* pthread_create for index i; nobody looks whether it failed.
CreateThread ==
  /\ main = "thread"
  /\ \/ /\ pc' = [pc EXCEPT ![i] = "open"] /\ made' = made \cup {i}
        /\ UNCHANGED faults
     \/ Fault /\ UNCHANGED <<pc, made>>
  /\ i' = i + 1
  /\ main' = "file"
  /\ UNCHANGED <<platform, rounds, stop_flag, count, offset, operations,
                 reads, writes, file>>

DurationOver ==
  /\ main = "file" /\ i = NumThreads
  /\ stop_flag' = TRUE /\ main' = "join" /\ i' = 0
  /\ UNCHANGED <<platform, rounds, made, count, threadVars, file, faults>>

\* Mutant: the last thread is not joined.
JoinAllButLast ==
  /\ main = "join" /\ i < NumThreads
  /\ i \in made /\ i < NumThreads - 1 => pc[i] = "done"
  /\ \/ i' = i + 1 /\ UNCHANGED main
     \/ i \notin made /\ main' = "crashed" /\ UNCHANGED i
  /\ UNCHANGED <<platform, rounds, made, stop_flag, count, threadVars, file, faults>>

\* The handle of a thread that was not created is the null of calloc: joining
\* it fails or crashes.
Join ==
  /\ main = "join" /\ i < NumThreads
  /\ i \in made => pc[i] = "done"
  /\ \/ i' = i + 1 /\ UNCHANGED main
     \/ i \notin made /\ main' = "crashed" /\ UNCHANGED i
  /\ UNCHANGED <<platform, rounds, made, stop_flag, count, threadVars, file, faults>>

\* print_io_statistics or the summary line of the test.
Report ==
  /\ main = "join" /\ i = NumThreads
  /\ main' = "cleanup"
  /\ UNCHANGED <<platform, rounds, i, made, stop_flag, count, threadVars, file, faults>>

\* Mutant: the files of the threads that never were are left.
CleanupMade ==
  /\ main = "cleanup"
  /\ file' = [t \in Threads |-> IF round.unlink /\ t \in made THEN Absent ELSE file[t]]
  /\ main' = "free"
  /\ UNCHANGED <<platform, rounds, i, made, stop_flag, count, threadVars, faults>>

\* unlink of every thread's file; in the C++ program cleanup_test_files.
Cleanup ==
  /\ main = "cleanup"
  /\ file' = [t \in Threads |-> IF round.unlink THEN Absent ELSE file[t]]
  /\ main' = "free"
  /\ UNCHANGED <<platform, rounds, i, made, stop_flag, count, threadVars, faults>>

Home(t) == pc[t] \in {"unborn", "done"}

\* pthread_barrier_destroy and free, or the end of the scope; on to the next
\* round, or return.  A thread that has not ended goes on with memory that is
\* gone and a barrier that is destroyed: anything may happen.
Free ==
  /\ main = "free"
  /\ \/ /\ \A t \in Threads : Home(t)
        /\ rounds' = Tail(rounds)
        /\ main' = IF Tail(rounds) = <<>> THEN "exit" ELSE "file"
        /\ FreshRound
     \/ /\ \E t \in Threads : ~Home(t)
        /\ main' = "undefined"
        /\ UNCHANGED <<rounds, i, made, stop_flag, count, threadVars>>
  /\ UNCHANGED <<platform, file, faults>>

-----------------------------------------------------------------------------
(* run_io_test of the C++ program *)

\* FileManager::create_test_file, which truncates what is there.
CppCreateFile ==
  /\ main = "file" /\ i < NumThreads /\ round.create = "thrown"
  /\ main' = "async" /\ file' = [file EXCEPT ![i] = Blocks]
  /\ UNCHANGED <<platform, rounds, i, made, stop_flag, count, threadVars, faults>>

\* An exception leaves run_io_test.  Its locals die in the reverse order of
\* their declaration: first the barrier, with the threads of lower indexes in
\* it or on their way, then the futures, whose destructors wait for those
\* threads.  Nobody sets stop_flag or removes the files.
Throw == main' = "futures"

CppFileThrows ==
  /\ main = "file" /\ i < NumThreads /\ round.create = "thrown"
  /\ Fault
  /\ \E length \in {file[i]} \cup 0 .. Blocks - 1 : file' = [file EXCEPT ![i] = length]
  /\ Throw
  /\ UNCHANGED <<platform, rounds, i, made, stop_flag, count, threadVars>>

\* std::async starts the worker, or throws when no thread can be had.
CppAsync ==
  /\ main = "async"
  /\ \/ /\ pc' = [pc EXCEPT ![i] = "open"] /\ made' = made \cup {i}
        /\ i' = i + 1 /\ main' = "file"
        /\ UNCHANGED faults
     \/ Fault /\ Throw /\ UNCHANGED <<pc, made, i>>
  /\ UNCHANGED <<platform, rounds, stop_flag, count, offset, operations,
                 reads, writes, file>>

\* The last future's destructor has returned; main catches the exception.
FuturesDone ==
  /\ main = "futures" /\ \A t \in made : pc[t] = "done"
  /\ main' = "failed"
  /\ UNCHANGED <<platform, rounds, i, made, stop_flag, count, threadVars, file, faults>>

\* A thread is in arrive_and_wait of the barrier that is no more: it waits there
\* for ever, which is no step, or anything may happen.
BarrierGone(t) ==
  /\ main = "futures" /\ pc[t] \in {"barrier", "asleep"}
  /\ main' = "undefined"
  /\ UNCHANGED <<platform, rounds, i, made, stop_flag, count, threadVars, file, faults>>

-----------------------------------------------------------------------------
(* sequential_io_test and sync_overhead_test *)

Running == main \notin {"crashed", "undefined"}

BarrierStands == Running /\ main # "futures"

Goto(t, from, to) == Running /\ pc[t] = from /\ pc' = [pc EXCEPT ![t] = to]

\* open without O_CREAT, and posix_memalign.
Open(t) ==
  /\ file[t] # Absent
  /\ Goto(t, "open", "barrier")
  /\ UNCHANGED <<platform, mainVars, count, offset, operations, reads, writes,
                 file, faults>>

\* The thread returns without going to the barrier.
OpenFails(t) ==
  /\ \/ file[t] = Absent /\ UNCHANGED faults
     \/ Fault
  /\ Goto(t, "open", "done")
  /\ UNCHANGED <<platform, mainVars, count, offset, operations, reads, writes, file>>

\* Mutant: the barrier opens one thread early.
BarrierArriveEarly(t) ==
  /\ BarrierStands /\ pc[t] = "barrier"
  /\ IF count + 2 >= NumThreads
     THEN /\ count' = 0
          /\ pc' = [u \in Threads |-> IF u = t \/ pc[u] = "asleep" THEN "loop" ELSE pc[u]]
     ELSE /\ count' = count + 1
          /\ pc' = [pc EXCEPT ![t] = "asleep"]
  /\ UNCHANGED <<platform, mainVars, offset, operations, reads, writes, file, faults>>

\* Mutant: the last one to arrive leaves without the broadcast.
BarrierArriveSilently(t) ==
  /\ BarrierStands /\ pc[t] = "barrier"
  /\ IF count + 1 >= NumThreads
     THEN count' = 0 /\ pc' = [pc EXCEPT ![t] = "loop"]
     ELSE count' = count + 1 /\ pc' = [pc EXCEPT ![t] = "asleep"]
  /\ UNCHANGED <<platform, mainVars, offset, operations, reads, writes, file, faults>>

\* Mutant: the count stays when the barrier opens.
BarrierArriveNoReset(t) ==
  /\ BarrierStands /\ pc[t] = "barrier"
  /\ count' = count + 1
  /\ pc' = IF count + 1 >= NumThreads
           THEN [u \in Threads |-> IF u = t \/ pc[u] = "asleep" THEN "loop" ELSE pc[u]]
           ELSE [pc EXCEPT ![t] = "asleep"]
  /\ UNCHANGED <<platform, mainVars, offset, operations, reads, writes, file, faults>>

\* pthread_barrier_wait up to its wait or its broadcast.
BarrierArrive(t) ==
  /\ BarrierStands /\ pc[t] = "barrier"
  /\ IF count + 1 >= NumThreads
     THEN /\ count' = 0
          /\ pc' = [u \in Threads |-> IF u = t \/ pc[u] = "asleep" THEN "loop" ELSE pc[u]]
     ELSE /\ count' = count + 1
          /\ pc' = [pc EXCEPT ![t] = "asleep"]
  /\ UNCHANGED <<platform, mainVars, offset, operations, reads, writes, file, faults>>

\* The shim has no loop around pthread_cond_wait: a spurious wake-up leaves
\* the barrier.
SpuriousWake(t) ==
  /\ platform = "apple"
  /\ Goto(t, "asleep", "loop")
  /\ UNCHANGED <<platform, mainVars, count, offset, operations, reads, writes,
                 file, faults>>

Stops(t) ==
  /\ stop_flag
  /\ Goto(t, "loop", "done")
  /\ UNCHANGED <<platform, mainVars, count, offset, operations, reads, writes,
                 file, faults>>

\* Mutant: the write comes last of the three.
IsWriteLate(t) ==
  \/ round.pattern \in {"seq_write", "random_write", "sync"}
  \/ round.pattern = "mixed" /\ operations[t] % 3 = 2

\* Whether the operation of thread t writes: the mixed pattern writes at every
\* third operation.
IsWrite(t) ==
  \/ round.pattern \in {"seq_write", "random_write", "sync"}
  \/ round.pattern = "mixed" /\ operations[t] % 3 = 0

\* Where it reads or writes, and where it goes on.
Sequential == round.pattern \in {"seq_read", "seq_write", "sync"}
Positions(t) == IF Sequential THEN {offset[t]} ELSE 0 .. Blocks - 1

\* Mutant: the wrap is one block late.
NextOffsetPastEnd(p) ==
  IF Sequential THEN (IF p + 1 > Blocks THEN 0 ELSE p + 1) ELSE 0

\* The random patterns draw file_offset anew each time.
NextOffset(p) == IF Sequential THEN (IF p + 1 >= Blocks THEN 0 ELSE p + 1) ELSE 0

\* The length of a file after a write at p; a file that main has removed keeps
\* its blocks for those who have it open, and stays removed.
Written(t, p) == IF file[t] # Absent /\ p >= file[t] THEN p + 1 ELSE file[t]

Readable(t, p) == p < file[t] \/ file[t] = Absent

\* One round of the loop: pread or pwrite (then fsync) and the statistics.  A
\* read at or behind the end returns 0, and either call may fail; neither is
\* counted.
Operate(t) ==
  /\ platform # "cpp"
  /\ Running /\ pc[t] = "loop" /\ ~stop_flag /\ operations[t] < MaxOps
  /\ \E p \in Positions(t), ok \in BOOLEAN :
       /\ ok /\ ~IsWrite(t) => Readable(t, p)
       /\ offset' = [offset EXCEPT ![t] = NextOffset(p)]
       /\ IF ok
          THEN /\ operations' = [operations EXCEPT ![t] = @ + 1]
               /\ IF IsWrite(t)
                  THEN /\ writes' = [writes EXCEPT ![t] = @ + 1]
                       /\ file' = [file EXCEPT ![t] = Written(t, p)]
                       /\ UNCHANGED reads
                  ELSE /\ reads' = [reads EXCEPT ![t] = @ + 1]
                       /\ UNCHANGED <<writes, file>>
          ELSE UNCHANGED <<operations, reads, writes, file>>
  /\ UNCHANGED <<platform, mainVars, count, pc, faults>>

\* IOPatternExecutor::execute of the C++ program: the offset of a sequential
\* pattern wraps by the length of the file, a random one is drawn anew.  What
\* fails or reads nothing is not counted.
CppNextOffset(p) == IF Sequential THEN (p + 1) % Blocks ELSE 0

CppOperate(t) ==
  /\ platform = "cpp"
  /\ Running /\ pc[t] = "loop" /\ ~stop_flag /\ operations[t] < MaxOps
  /\ \E p \in Positions(t) :
       /\ offset' = [offset EXCEPT ![t] = CppNextOffset(p)]
       /\ \/ /\ IsWrite(t)
             /\ writes' = [writes EXCEPT ![t] = @ + 1]
             /\ file' = [file EXCEPT ![t] = Written(t, p)]
             /\ operations' = [operations EXCEPT ![t] = @ + 1]
             /\ UNCHANGED reads
          \/ /\ ~IsWrite(t) /\ Readable(t, p)
             /\ reads' = [reads EXCEPT ![t] = @ + 1]
             /\ operations' = [operations EXCEPT ![t] = @ + 1]
             /\ UNCHANGED <<writes, file>>
          \/ UNCHANGED <<operations, reads, writes, file>>
  /\ UNCHANGED <<platform, mainVars, count, pc, faults>>

-----------------------------------------------------------------------------
CppMain == platform = "cpp" /\ (CppCreateFile \/ CppFileThrows \/ CppAsync \/ FuturesDone)

Main == \/ CreateFile \/ CreateFileFails \/ CreateThread \/ DurationOver
        \/ Join \/ Report \/ Cleanup \/ Free \/ CppMain

Thread(t) == Open(t) \/ OpenFails(t) \/ BarrierArrive(t) \/ Stops(t)
             \/ Operate(t) \/ CppOperate(t)

\* The program has ended, or hangs: main joins a thread that waits at a
\* barrier where the others never come.
Over ==
  /\ \/ main \in {"exit", "failed", "crashed", "undefined"}
     \/ /\ main = "join" /\ i \in made /\ pc[i] = "asleep"
        /\ \A t \in Threads : pc[t] \in {"unborn", "asleep", "done"}
  /\ UNCHANGED vars

Next == \/ Main
        \/ \E t \in Threads : Thread(t) \/ SpuriousWake(t) \/ BarrierGone(t)
        \/ Over

Spec == Init /\ [][Next]_vars

\* Every thread that can go on does so some time; I/O calls return.
FairSpec == Spec /\ WF_vars(Main) /\ \A t \in Threads : WF_vars(Thread(t))
-----------------------------------------------------------------------------
(* Properties *)

\* Every variable has its type; the barrier's count never stays full.
TypeOK ==
  /\ platform \in Platforms
  /\ main \in {"file", "thread", "async", "join", "cleanup", "free", "futures",
               "exit", "failed", "crashed", "undefined"}
  /\ i \in 0..NumThreads /\ made \subseteq Threads /\ stop_flag \in BOOLEAN
  /\ count \in 0..NumThreads - 1
  /\ pc \in [Threads -> {"unborn", "open", "barrier", "asleep", "loop", "done"}]
  /\ file \in [Threads -> Int] /\ offset \in [Threads -> Nat]
  /\ operations \in [Threads -> Nat]
  /\ reads \in [Threads -> Nat] /\ writes \in [Threads -> Nat]
  /\ faults \in 0..MaxFaults

\* "Wait for all threads to be ready" (line 236): a thread works only when all
\* num_threads threads have come to the barrier, so results of a part of the
\* threads are never printed.
StartTogether ==
  \A t \in Threads :
    pc[t] = "loop" \/ operations[t] > 0 =>
      made = Threads /\ \A u \in Threads : pc[u] \in {"loop", "done"}

\* It holds where system or library have barriers, whatever calls fail.
OthersStartTogether == platform # "apple" => StartTogether

\* "Mixed (33% write, 67% read)" (line 471): at any time the writes of a thread
\* are a third of its operations, rounded up, and none of them is counted
\* twice, also when calls fail and are repeated.
MixedIsOneThird ==
  \A t \in Threads :
    /\ operations[t] = reads[t] + writes[t]
    /\ pc[t] = "loop" /\ round.pattern = "mixed" =>
         writes[t] = (operations[t] + 2) \div 3

\* The benchmark works within the files it created, although each operation
\* moves the offset whether it succeeds or not.
WithinFile ==
  \A t \in Threads : file[t] <= Blocks /\ offset[t] < Blocks

\* Main has left the round by the goto of line 490 or by an exception of
\* run_io_test, before it slept: a file or a thread could not be had.
LeftEarly ==
  /\ round.create \in {"checked", "thrown"} /\ i < NumThreads
  /\ ~stop_flag /\ faults > 0

\* Main does remove files, destroy the barrier and free the statistics under
\* threads that have not ended (lines 515-526, and 302 of the C++ program), but
\* in one way only: it has left the round early.  Those threads are the ones of
\* lower indexes, still on their way to the barrier or in it; none is past it
\* and doing I/O, unless the shim has let it go.  The program itself never
\* ends, and main never prints, before all threads have ended.
JoinedOrLeftEarly ==
  /\ main \in {"exit", "failed"} => \A t \in Threads : Home(t)
  /\ main \in {"cleanup", "free", "futures", "undefined"} =>
       \A t \in Threads : \/ Home(t)
                          \/ LeftEarly /\ t < i /\ (pc[t] = "loop" => platform = "apple")

\* A program that returns from its tests leaves no file behind, and the C
\* program removes them also when it leaves a round early and its threads are
\* undone by that; until main cleans up, no file vanishes from under a thread
\* that has it open, whichever calls fail and whichever round made it.  (A C++
\* run that an exception ends, and a join that crashes, leave the files.)
NoFileLeft ==
  /\ main = "exit" => \A t \in Threads : file[t] = Absent
  /\ platform # "cpp" /\ main \in {"free", "undefined"} /\ round.unlink =>
       \A t \in Threads : file[t] = Absent
  /\ main \in {"file", "thread", "async", "join"} =>
       \A t \in Threads : ~Home(t) /\ pc[t] # "open" => file[t] # Absent

\* The program ends when nothing fails but reads and writes.
Terminates == <>(main = "exit" \/ faults > 0)

\* "-d <duration>  Test duration in seconds" (line 787): the program ends.
EndsInAnyCase == <>(main \in {"exit", "failed", "crashed", "undefined"})
=============================================================================
