------------------------------ MODULE Scheduler ------------------------------
(***************************************************************************)
(* The scheduler benchmarks: threads with different workloads run until a  *)
(* flag stops them, and what each has done is compared.                    *)
(*   "c"     src/scheduler_analyzer.c: iterations, with a pipe for I/O     *)
(*   "cpp"   src/scheduler_analyzer_cpp.cpp: operations, which are added   *)
(*           up in a local variable and published in batches               *)
(***************************************************************************)
EXTENDS Integers, FiniteSets, Functions

CONSTANTS NumThreads,     \* config.num_threads, num_threads_
          Programs,       \* the programs that are explored
          PipeSize,       \* writes of IO_BUFFER_SIZE that fit into a pipe
          CpuBatch,       \* 100000 operations in units of the 1000 of a round
          IoBatch,        \* 100 operations
          MixedStep,      \* the operations of a computing round of mixed_work, 100
          MixedBatch,     \* 1000 operations
          MemoryStep,     \* the operations of a round of memory_intensive_work, 17384
          MemoryBatch,    \* 10000 operations
          MayFail,        \* whether pipe and thread creation may fail
          MaxRounds       \* bound: rounds of a worker before it waits for the stop

Workers == 0 .. NumThreads - 1

ASSUME SchedulerAssumption ==
  /\ NumThreads \in Nat \ {0} /\ Programs \subseteq {"c", "cpp"}
  /\ PipeSize \in Nat \ {0}
  /\ CpuBatch \in Nat \ {0} /\ IoBatch \in Nat \ {0}
  /\ MixedStep \in Nat \ {0} /\ MixedBatch \in Nat \ {0}
  /\ MemoryStep \in Nat \ {0} /\ MemoryBatch \in Nat \ {0}
  /\ MayFail \in BOOLEAN /\ MaxRounds \in Nat

VARIABLES
  program,
  kind,               \* per worker: its workload
  main, next,         \* where main is, and the index of its loop
  stop,               \* g_stop_all, stop_flag_
  pc,                 \* where each worker is
  has_pipe, in_pipe,  \* C, per worker: whether it has a pipe, writes not yet read
  rounds,             \* per worker: iterations of its loop
  done,               \* per worker: operations it has performed
  local,              \* C++, per worker: operations not yet published
  counted,            \* C++, per worker: the published counters of ThreadStats
  usage,              \* C++, per worker: what getrusage told it, in operations
  report              \* what is printed: the total and Jain's index, a fraction,
                      \* of the operations and, in C++, of the processor times

pipeVars == <<has_pipe, in_pipe>>
countVars == <<rounds, done, local, counted>>
vars == <<program, kind, main, next, stop, pc, pipeVars, countVars, usage, report>>

Kinds == {"cpu", "io", "mixed", "memory"}
UsesPipe(t) == program = "c" /\ kind[t] \in {"io", "mixed"}

\* main of the C program lines up the CPU threads, the I/O threads and the
\* mixed ones; configure_workloads of the C++ program draws each workload.
Assigned ==
  IF program = "cpp" THEN [Workers -> Kinds]
  ELSE {k \in [Workers -> {"cpu", "io", "mixed"}] :
          \A t, u \in Workers : t < u => /\ k[u] = "cpu" => k[t] = "cpu"
                                         /\ k[t] = "mixed" => k[u] = "mixed"}

NoIndex == [total |-> 0, num |-> 0, den |-> 0]

Init ==
  /\ program \in Programs /\ kind \in Assigned
  /\ main = (IF program = "c" THEN "init" ELSE "create") /\ next = 0
  /\ stop = FALSE
  /\ pc = [t \in Workers |-> "unborn"]
  /\ has_pipe = [t \in Workers |-> FALSE] /\ in_pipe = [t \in Workers |-> 0]
  /\ rounds = [t \in Workers |-> 0] /\ done = [t \in Workers |-> 0]
  /\ local = [t \in Workers |-> 0] /\ counted = [t \in Workers |-> 0]
  /\ usage = [t \in Workers |-> 0]
  /\ report = [ops |-> NoIndex, cpu |-> NoIndex]

Sum(f) == FoldFunction(LAMBDA x, y : x + y, 0, f)
Running == main \notin {"crashed", "blocked"}
Goto(t, from, to) == Running /\ pc[t] = from /\ pc' = [pc EXCEPT ![t] = to]

-----------------------------------------------------------------------------
(* main, run_benchmark *)

\* init_thread; main does not look whether the pipe could be made.  Without
\* it the descriptors are 0, as memset has left them.
InitThread ==
  /\ main = "init" /\ next < NumThreads
  /\ next' = next + 1
  /\ \/ has_pipe' = [has_pipe EXCEPT ![next] = UsesPipe(next)]
     \/ MayFail /\ UsesPipe(next) /\ UNCHANGED has_pipe
  /\ UNCHANGED <<program, kind, main, stop, pc, in_pipe, countVars, usage, report>>

AllInit ==
  /\ main = "init" /\ next = NumThreads
  /\ main' = "create" /\ next' = 0
  /\ UNCHANGED <<program, kind, stop, pc, pipeVars, countVars, usage, report>>

\* Mutant: one thread too many.
CreateThreadPastTheEnd ==
  /\ main = "create" /\ next <= NumThreads
  /\ pc' = [pc EXCEPT ![next] = "loop"]
  /\ next' = next + 1
  /\ UNCHANGED <<program, kind, main, stop, pipeVars, countVars, usage, report>>

CreateThread ==
  /\ main = "create" /\ next < NumThreads
  /\ pc' = [pc EXCEPT ![next] = "loop"]
  /\ next' = next + 1
  /\ UNCHANGED <<program, kind, main, stop, pipeVars, countVars, usage, report>>

\* The C program stops the others.  In C++ the exception destroys joinable
\* threads, which ends the process.
CreateFails ==
  /\ MayFail /\ main = "create" /\ next < NumThreads
  /\ IF program = "c" THEN main' = "join_some" /\ stop' = TRUE
                      ELSE main' = "crashed" /\ UNCHANGED stop
  /\ UNCHANGED <<program, kind, next, pc, pipeVars, countVars, usage, report>>

\* SIGINT or SIGTERM; the C++ program has no handler.
Signal ==
  /\ program = "c" /\ main \in {"init", "create", "sleep"} /\ ~stop
  /\ stop' = TRUE
  /\ UNCHANGED <<program, kind, main, next, pc, pipeVars, countVars, usage, report>>

AllCreated ==
  /\ main = "create" /\ next = NumThreads
  /\ main' = IF stop THEN "join" ELSE "sleep"
  /\ UNCHANGED <<program, kind, next, stop, pc, pipeVars, countVars, usage, report>>

DurationOver ==
  /\ main = "sleep"
  /\ stop' = TRUE /\ main' = "join"
  /\ UNCHANGED <<program, kind, next, pc, pipeVars, countVars, usage, report>>

JoinsAll ==
  /\ main = "join" /\ \A t \in Workers : pc[t] = "done"
  /\ main' = "report"
  /\ UNCHANGED <<program, kind, next, stop, pc, pipeVars, countVars, usage, report>>

\* After a failure the C program joins whoever has a handle.  The handle of
\* the thread that was not created is undefined: 0, which main skips, or one
\* whose join fails, crashes or blocks.
JoinsSome ==
  /\ main = "join_some" /\ \A t \in 0 .. next - 1 : pc[t] = "done"
  /\ main' \in {"report", "crashed", "blocked"}
  /\ UNCHANGED <<program, kind, next, stop, pc, pipeVars, countVars, usage, report>>

\* Mutant: the mean is that of the threads that have run.
JainOfThoseThatRan(f) ==
  [total |-> Sum(f), num |-> Sum(f) * Sum(f),
   den |-> Cardinality({t \in Workers : f[t] > 0}) * Sum([t \in Workers |-> f[t] * f[t]])]

\* Jain's index of n values: the square of their sum, divided by n times the
\* sum of their squares.  The total is printed beside it.
Jain(f) ==
  [total |-> Sum(f), num |-> Sum(f) * Sum(f),
   den |-> NumThreads * Sum([t \in Workers |-> f[t] * f[t]])]

\* print_results: the processor time of a thread is taken as its iterations,
\* and is 0 if it was not created.  cleanup_thread closes the pipes.
PrintResults ==
  /\ program = "c" /\ main = "report"
  /\ main' = "exit" /\ report' = [report EXCEPT !.ops = Jain(done)]
  /\ UNCHANGED <<program, kind, next, stop, pc, pipeVars, countVars, usage>>

\* analyze_fairness: an index of the operations, and one of the processor times
\* that the threads were told.
AnalyzeFairness == [ops |-> Jain(counted), cpu |-> Jain(usage)]

\* analyze_results, with print_summary.
AnalyzeResults ==
  /\ program = "cpp" /\ main = "report"
  /\ main' = "exit" /\ report' = AnalyzeFairness
  /\ UNCHANGED <<program, kind, next, stop, pc, pipeVars, countVars, usage>>

-----------------------------------------------------------------------------
(* thread_worker of the C program *)

Iterate(t) ==
  /\ rounds' = [rounds EXCEPT ![t] = @ + 1] /\ done' = [done EXCEPT ![t] = @ + 1]
  /\ UNCHANGED <<local, counted>>

InC(t) == program = "c" /\ ~stop /\ rounds[t] < MaxRounds
DoesIo(t) == kind[t] = "io" \/ (kind[t] = "mixed" /\ rounds[t] % 3 = 0)

CpuWork(t) ==
  /\ InC(t) /\ ~DoesIo(t) /\ Goto(t, "loop", "loop")
  /\ Iterate(t)
  /\ UNCHANGED <<program, kind, main, next, stop, pipeVars, usage, report>>

IoBegin(t) ==
  /\ InC(t) /\ DoesIo(t) /\ Goto(t, "loop", "write")
  /\ UNCHANGED <<program, kind, main, next, stop, pipeVars, countVars, usage, report>>

\* io_intensive_work: a write that blocks while the pipe is full.  Descriptor
\* 0 takes the write or refuses it.
IoWrite(t) ==
  /\ Goto(t, "write", "read")
  /\ IF has_pipe[t]
     THEN in_pipe[t] < PipeSize /\ in_pipe' = [in_pipe EXCEPT ![t] = @ + 1]
     ELSE UNCHANGED in_pipe
  /\ UNCHANGED <<program, kind, main, next, stop, has_pipe, countVars, usage, report>>

\* Mutant: the read asks for a byte only, so that the pipe fills.
IoReadByte(t) ==
  /\ has_pipe[t] /\ Goto(t, "read", "loop")
  /\ Iterate(t)
  /\ UNCHANGED <<program, kind, main, next, stop, pipeVars, usage, report>>

\* The non-blocking read of all that a write has put there.
IoRead(t) ==
  /\ has_pipe[t] /\ Goto(t, "read", "loop")
  /\ in_pipe' = [in_pipe EXCEPT ![t] = IF @ > 0 THEN @ - 1 ELSE 0]
  /\ Iterate(t)
  /\ UNCHANGED <<program, kind, main, next, stop, has_pipe, usage, report>>

\* Without a pipe the thread reads descriptor 0, the standard input of the
\* program, which may never bring anything.
ReadStdin(t) ==
  /\ ~has_pipe[t] /\ Goto(t, "read", "loop")
  /\ Iterate(t)
  /\ UNCHANGED <<program, kind, main, next, stop, pipeVars, usage, report>>

Stops(t) ==
  /\ program = "c" /\ stop /\ Goto(t, "loop", "done")
  /\ UNCHANGED <<program, kind, main, next, stop, pipeVars, countVars, usage, report>>

-----------------------------------------------------------------------------
(* WorkloadGenerator and ResourceMonitor of the C++ program *)

Batch(t) == CASE kind[t] = "cpu" -> CpuBatch [] kind[t] = "io" -> IoBatch
              [] kind[t] = "mixed" -> MixedBatch [] OTHER -> MemoryBatch

RoundSizes(t) == CASE kind[t] = "mixed"  -> {1, MixedStep}
                   [] kind[t] = "memory" -> {MemoryStep}
                   [] OTHER              -> {1}

\* Mutant: mixed_work publishes a whole batch, like the others.
PublishBatch(t, n) == IF n % Batch(t) = 0 THEN Batch(t) ELSE 0

\* What is published of n local operations: all of them by mixed_work, one
\* batch by the others, which forget the rest.
Published(t, n) ==
  IF n % Batch(t) # 0 THEN 0 ELSE IF kind[t] = "mixed" THEN n ELSE Batch(t)

WorkRound(t) ==
  /\ program = "cpp" /\ ~stop /\ rounds[t] < MaxRounds /\ Goto(t, "loop", "loop")
  /\ \E n \in RoundSizes(t) :
       /\ done' = [done EXCEPT ![t] = @ + n]
       /\ counted' = [counted EXCEPT ![t] = @ + Published(t, local[t] + n)]
       /\ local' = [local EXCEPT ![t] = IF (@ + n) % Batch(t) = 0 THEN 0 ELSE @ + n]
  /\ rounds' = [rounds EXCEPT ![t] = @ + 1]
  /\ UNCHANGED <<program, kind, main, next, stop, pipeVars, usage, report>>

\* The loop ends: the rest is published.
PublishRest(t) ==
  /\ program = "cpp" /\ stop /\ Goto(t, "loop", "measure")
  /\ counted' = [counted EXCEPT ![t] = @ + local[t]]
  /\ local' = [local EXCEPT ![t] = 0]
  /\ UNCHANGED <<program, kind, main, next, stop, pipeVars, rounds, done, usage, report>>

\* get_thread_stats asks for RUSAGE_SELF: all that the process has used so far,
\* which is printed as the thread's "CPU Time" and "Ctx Switch".
GetThreadStats(t) ==
  /\ Goto(t, "measure", "done")
  /\ usage' = [usage EXCEPT ![t] = Sum(done)]
  /\ UNCHANGED <<program, kind, main, next, stop, pipeVars, countVars, report>>

-----------------------------------------------------------------------------
Main == \/ InitThread \/ AllInit \/ CreateThread \/ CreateFails \/ AllCreated
        \/ DurationOver \/ JoinsAll \/ JoinsSome \/ PrintResults \/ AnalyzeResults

Worker(t) == \/ CpuWork(t) \/ IoBegin(t) \/ IoWrite(t) \/ IoRead(t) \/ Stops(t)
             \/ WorkRound(t) \/ PublishRest(t) \/ GetThreadStats(t)

\* The process has ended, or main waits for a thread at the standard input or
\* for one that never was.
Over ==
  /\ \/ main \in {"exit", "crashed", "blocked"}
     \/ /\ main \in {"join", "join_some"}
        /\ \E t \in Workers : pc[t] = "read" /\ ~has_pipe[t]
  /\ UNCHANGED vars

Next == \/ Main \/ Signal
        \/ \E t \in Workers : Worker(t) \/ ReadStdin(t)
        \/ Over

Spec == Init /\ [][Next]_vars

\* Threads are scheduled some time.  Nobody has to type anything.
FairSpec == Spec /\ WF_vars(Main) /\ \A t \in Workers : WF_vars(Worker(t))

-----------------------------------------------------------------------------
(* Properties *)

Index == [total : Nat, num : Nat, den : Nat]

\* Every variable has its type.
TypeOK ==
  /\ program \in Programs /\ kind \in [Workers -> Kinds]
  /\ main \in {"init", "create", "sleep", "join", "join_some", "report", "exit",
               "crashed", "blocked"}
  /\ next \in 0..NumThreads /\ stop \in BOOLEAN
  /\ pc \in [Workers -> {"unborn", "loop", "write", "read", "measure", "done"}]
  /\ has_pipe \in [Workers -> BOOLEAN] /\ in_pipe \in [Workers -> 0..PipeSize]
  /\ rounds \in [Workers -> Nat] /\ done \in [Workers -> Nat]
  /\ local \in [Workers -> Nat] /\ counted \in [Workers -> Nat]
  /\ usage \in [Workers -> Nat]
  /\ report \in [ops : Index, cpu : Index]

\* Publishing in batches loses no operation of three workloads and invents
\* none of the fourth: memory_intensive_work publishes at most what it has
\* done, and forgets all but 10000 operations whenever their number happens to
\* be a multiple of it.
BatchesLoseNothing ==
  \A t \in Workers : program = "cpp" =>
    IF kind[t] = "memory" THEN counted[t] + local[t] <= done[t]
                          ELSE counted[t] + local[t] = done[t]

\* A worker that writes to a pipe nobody else reads never finds it full, so
\* that the blocking write cannot keep it from the flag: each iteration leaves
\* the pipe as empty as it found it.
PipeIsDrained ==
  \A t \in Workers : in_pipe[t] = IF pc[t] = "read" /\ has_pipe[t] THEN 1 ELSE 0

\* A printed index is between 1/n and 1, and 1 exactly if all values are the
\* same.  If all are 0 it is no number.
IsIndexOf(index, f) ==
  /\ index.num <= index.den /\ index.den <= NumThreads * index.num
  /\ index.den > 0 =>
       (index.num = index.den <=> \A t, u \in Workers : f[t] = f[u])

\* The report is made, and the pipes are closed, when every thread that was
\* created has ended and published its rest.  The index of operations is 1,
\* "perfect fairness" (line 291 of the C program), exactly if all threads have
\* done the same, those that were never created included, and it is at least
\* 1/n.  The second index of the C++ program, "Jain's Fairness Index (CPU
\* time)", is an index of what getrusage told the threads at their ends.  That
\* these are their own processor times, as the label says, is not claimed: it
\* is not so (GetThreadStats).
ReportIsRight ==
  main = "exit" =>
    /\ \A t \in Workers : pc[t] \in {"unborn", "done"} /\ local[t] = 0
    /\ program = "c" => report.ops.total = Sum(done) /\ IsIndexOf(report.ops, done)
    /\ program = "cpp" => IsIndexOf(report.ops, counted) /\ IsIndexOf(report.cpu, usage)

\* The program ends, if the pipes and the threads could be made.
Failed == \/ \E t \in Workers : UsesPipe(t) /\ ~has_pipe[t] /\ main # "init"
          \/ main \in {"join_some", "crashed"}
Terminates == <>(main = "exit" \/ Failed)
=============================================================================
