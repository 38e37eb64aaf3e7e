-------------------------- MODULE SchedulerProofs --------------------------
(***************************************************************************)
(* What Scheduler guarantees for every number of threads, every size of    *)
(* the pipes and of the batches, and every bound on the rounds.            *)
(***************************************************************************)
EXTENDS Scheduler, SumTheorems

\* The types of the variables, but for those that hold sums over all threads.
Typed ==
  /\ program \in Programs /\ kind \in [Workers -> Kinds]
  /\ main \in {"init", "create", "sleep", "join", "join_some", "report", "exit",
               "crashed", "blocked"}
  /\ next \in 0..NumThreads /\ stop \in BOOLEAN
  /\ pc \in [Workers -> {"unborn", "loop", "write", "read", "measure", "done"}]
  /\ has_pipe \in [Workers -> BOOLEAN] /\ in_pipe \in [Workers -> 0..PipeSize]
  /\ rounds \in [Workers -> Nat] /\ done \in [Workers -> Nat]
  /\ local \in [Workers -> Nat] /\ counted \in [Workers -> Nat]

\* Whom main has not created yet, or never will, has not begun.
NotYetBorn ==
  \A t \in Workers :
    main = "init" \/ (main \in {"create", "join_some"} /\ next <= t) => pc[t] = "unborn"

\* Pipes are used by the C program only.
PipesAreOfC == \A t \in Workers : pc[t] \in {"write", "read"} => program = "c"

\* main reports when nobody works any more.
AllEnded == main \in {"report", "exit"} => \A t \in Workers : pc[t] \in {"unborn", "done"}

\* What is not published is less than a batch where a round is one operation
\* (or one unit of the batch), and nothing outside of the loop or in C.
LessThanABatch ==
  \A t \in Workers :
    /\ kind[t] \in {"cpu", "io"} => local[t] < Batch(t)
    /\ program = "c" \/ pc[t] \in {"unborn", "measure", "done"} => local[t] = 0

\* The inductive invariant.
SchedulerInv == Typed /\ NotYetBorn /\ PipesAreOfC /\ AllEnded /\ LessThanABatch
                /\ BatchesLoseNothing /\ PipeIsDrained

\* A number that a batch divides is a batch at least.
LEMMA DivisibleIsABatch ==
  ASSUME NEW n \in Nat \ {0}, NEW d \in Nat \ {0}, n % d = 0
  PROVE  d <= n
<1>1. CASE n < d
  BY <1>1
<1> QED
  BY <1>1

\* Every workload publishes in batches of at least one operation.
LEMMA BatchIsPositive ==
  ASSUME Typed, NEW t \in Workers
  PROVE  Batch(t) \in Nat \ {0}
BY SchedulerAssumption DEF SchedulerAssumption, Batch, Typed, Kinds

\* SchedulerInv holds in every state of both programs: the heart of what is
\* claimed below about the counters, the pipes and the report.
THEOREM SchedulerInvariant == Spec => []SchedulerInv
<1>1. Init => SchedulerInv
  <2> SUFFICES ASSUME Init PROVE SchedulerInv
    OBVIOUS
  <2> USE SchedulerAssumption DEF SchedulerAssumption, Init
  <2>1. Typed
    <3>1. kind \in [Workers -> Kinds]
      BY DEF Assigned, Kinds
    <3>2. /\ 0 \in 0..NumThreads /\ 0 \in 0..PipeSize
          /\ main \in {"init", "create"}
      OBVIOUS
    <3>3. in_pipe \in [Workers -> 0..PipeSize]
      BY <3>2
    <3> QED
      BY <3>1, <3>2, <3>3 DEF Typed
  <2>2. NotYetBorn /\ PipesAreOfC /\ AllEnded
    BY DEF NotYetBorn, PipesAreOfC, AllEnded
  <2>3. LessThanABatch
    BY <2>1, BatchIsPositive DEF LessThanABatch
  <2>4. BatchesLoseNothing /\ PipeIsDrained
    BY DEF BatchesLoseNothing, PipeIsDrained
  <2> QED
    BY <2>1, <2>2, <2>3, <2>4 DEF SchedulerInv
<1>2. SchedulerInv /\ [Next]_vars => SchedulerInv'
  <2> SUFFICES ASSUME SchedulerInv, [Next]_vars PROVE SchedulerInv'
    OBVIOUS
  <2> USE DEF SchedulerInv, Typed, NotYetBorn, PipesAreOfC, AllEnded, LessThanABatch,
              BatchesLoseNothing, PipeIsDrained, Goto, Batch, pipeVars, countVars
  <2>1. CASE Main
    <3>1. CASE InitThread
      <4>1. next' \in 0..NumThreads /\ has_pipe' \in [Workers -> BOOLEAN]
        <5>1. next' \in 0..NumThreads
          BY <3>1, SchedulerAssumption DEF SchedulerAssumption, InitThread
        <5>2. UsesPipe(next) \in BOOLEAN
          BY DEF UsesPipe
        <5>3. has_pipe' \in [Workers -> BOOLEAN]
          BY <3>1, <5>2 DEF InitThread
        <5> QED
          BY <5>1, <5>3
      <4>2. UNCHANGED <<program, kind, main, stop, pc, in_pipe, countVars>>
        BY <3>1 DEF InitThread
      <4>3. \A t \in Workers : pc[t] = "unborn"
        BY <3>1 DEF InitThread
      <4> QED
        BY <4>1, <4>2, <4>3, <3>1 DEF InitThread
    <3>2. CASE AllInit
      BY <3>2, SchedulerAssumption DEF SchedulerAssumption, AllInit
    <3>3. CASE CreateThread
      <4>1. next \in Workers
        BY <3>3, SchedulerAssumption DEF SchedulerAssumption, CreateThread, Workers
      <4> QED
        <5>1. /\ next' = next + 1 /\ next' \in 0..NumThreads
              /\ pc' = [pc EXCEPT ![next] = "loop"]
              /\ UNCHANGED <<program, kind, main, stop, pipeVars, countVars>>
          BY <3>3, SchedulerAssumption DEF SchedulerAssumption, CreateThread
        <5>2. Typed'
          BY <5>1
        <5>3. pc[next] = "unborn" /\ main = "create"
          BY <3>3, <4>1 DEF CreateThread, Workers
        <5>4. NotYetBorn'
          BY <5>1, <5>3 DEF Workers
        <5>5. PipesAreOfC' /\ AllEnded' /\ LessThanABatch'
          BY <4>1, <5>1, <5>3
        <5> QED
          BY <4>1, <5>1, <5>2, <5>3, <5>4, <5>5
    <3>4. CASE CreateFails
      BY <3>4 DEF CreateFails
    <3>5. CASE AllCreated \/ DurationOver
      BY <3>5 DEF AllCreated, DurationOver
    <3>6. CASE JoinsAll
      BY <3>6 DEF JoinsAll
    <3>7. CASE JoinsSome
      <4>1. /\ \A t \in Workers : t < next => pc[t] = "done"
            /\ \A t \in Workers : next <= t => pc[t] = "unborn"
        <5>1. \A t \in Workers : t < next => t \in 0 .. next - 1
          BY SchedulerAssumption DEF SchedulerAssumption, Workers
        <5> QED
          BY <3>7, <5>1 DEF JoinsSome
      <4>2. \A t \in Workers : t < next \/ next <= t
        BY SchedulerAssumption DEF SchedulerAssumption, Workers
      <4>3. /\ main' \in {"report", "crashed", "blocked"}
            /\ UNCHANGED <<program, kind, next, stop, pc, pipeVars, countVars>>
        BY <3>7 DEF JoinsSome
      <4>4. Typed' /\ NotYetBorn'
        BY <4>3
      <4>5. AllEnded'
        BY <4>1, <4>2, <4>3
      <4>6. PipesAreOfC' /\ LessThanABatch' /\ BatchesLoseNothing' /\ PipeIsDrained'
        BY <4>3
      <4> QED
        BY <4>4, <4>5, <4>6
    <3>8. CASE PrintResults \/ AnalyzeResults
      BY <3>8 DEF PrintResults, AnalyzeResults
    <3> QED
      BY <2>1, <3>1, <3>2, <3>3, <3>4, <3>5, <3>6, <3>7, <3>8 DEF Main
  <2>2. CASE Signal
    BY <2>2 DEF Signal
  <2>3. ASSUME NEW t \in Workers, Worker(t) \/ ReadStdin(t) PROVE SchedulerInv'
    <3>1. CASE CpuWork(t)
      BY <3>1 DEF CpuWork, InC, Iterate
    <3>2. CASE IoBegin(t)
      BY <3>2 DEF IoBegin, InC
    <3>3. CASE IoWrite(t)
      BY <3>3, SchedulerAssumption DEF SchedulerAssumption, IoWrite
    <3>4. CASE IoRead(t)
      BY <3>4, SchedulerAssumption DEF SchedulerAssumption, IoRead, Iterate
    <3>5. CASE ReadStdin(t)
      BY <3>5 DEF ReadStdin, Iterate
    <3>6. CASE Stops(t)
      BY <3>6 DEF Stops
    <3>7. CASE WorkRound(t)
      <4>1. PICK n \in RoundSizes(t) :
              /\ done' = [done EXCEPT ![t] = @ + n]
              /\ counted' = [counted EXCEPT ![t] = @ + Published(t, local[t] + n)]
              /\ local' = [local EXCEPT ![t] = IF (@ + n) % Batch(t) = 0 THEN 0 ELSE @ + n]
        BY <3>7 DEF WorkRound
      <4> DEFINE m == local[t] + n
      <4>2. n \in Nat \ {0} /\ m \in Nat \ {0} /\ Batch(t) \in Nat \ {0}
        <5>1. n \in Nat \ {0}
          BY SchedulerAssumption DEF SchedulerAssumption, RoundSizes
        <5> QED
          BY <5>1, BatchIsPositive
      <4>3. Published(t, m) \in Nat /\ Published(t, m) <= m
        BY <4>2, DivisibleIsABatch DEF Published
      <4>4. /\ kind[t] \in {"cpu", "io"} /\ m % Batch(t) # 0 => m < Batch(t)
            /\ kind[t] # "memory" /\ m % Batch(t) = 0 => Published(t, m) = m
            /\ m % Batch(t) # 0 => Published(t, m) = 0
        <5>1. ASSUME kind[t] \in {"cpu", "io"} PROVE m <= Batch(t)
          BY <4>2, <5>1 DEF RoundSizes
        <5>2. Batch(t) % Batch(t) = 0
          BY <4>2
        <5>3. kind[t] \in {"cpu", "io", "mixed", "memory"}
          BY DEF Kinds
        <5> QED
          BY <4>2, <5>1, <5>2, <5>3, DivisibleIsABatch DEF Published
      <4>5. /\ UNCHANGED <<program, kind, main, next, stop, pipeVars>>
            /\ rounds' = [rounds EXCEPT ![t] = @ + 1]
            /\ pc[t] = "loop" /\ pc' = [pc EXCEPT ![t] = "loop"] /\ program = "cpp"
        BY <3>7 DEF WorkRound
      <4>6. /\ done' = [done EXCEPT ![t] = done[t] + n]
            /\ counted' = [counted EXCEPT ![t] = counted[t] + Published(t, m)]
            /\ local' = [local EXCEPT ![t] = IF m % Batch(t) = 0 THEN 0 ELSE m]
        BY <4>1
      <4> HIDE DEF m, Batch
      <4>7. Typed'
        BY <4>2, <4>3, <4>5, <4>6
      <4>8. NotYetBorn' /\ PipesAreOfC' /\ AllEnded' /\ PipeIsDrained'
        BY <4>5
      <4>9. \A u \in Workers : Batch(u)' = Batch(u)
        BY <4>5 DEF Batch
      <4>10. LessThanABatch'
        BY <4>2, <4>4, <4>5, <4>6, <4>9
      <4>11. BatchesLoseNothing'
        <5>1. m = local[t] + n
          BY DEF m
        <5> QED
          BY <4>2, <4>3, <4>4, <4>5, <4>6, <5>1
      <4> QED
        BY <4>7, <4>8, <4>10, <4>11
    <3>8. CASE PublishRest(t)
      <4>1. \A u \in Workers : Batch(u) \in Nat \ {0}
        BY BatchIsPositive
      <4> QED
        BY <3>8, <4>1 DEF PublishRest
    <3>9. CASE GetThreadStats(t)
      BY <3>9 DEF GetThreadStats
    <3> QED
      BY <2>3, <3>1, <3>2, <3>3, <3>4, <3>5, <3>6, <3>7, <3>8, <3>9 DEF Worker
  <2>4. CASE Over \/ UNCHANGED vars
    BY <2>4 DEF Over, vars
  <2> QED
    BY <2>1, <2>2, <2>3, <2>4 DEF Next
<1> QED
  BY <1>1, <1>2, PTL DEF Spec

\* Publishing in batches (execute_workload and the four work functions of the
\* C++ program) loses no operation of three workloads and invents none of the
\* fourth, whatever the sizes of rounds and batches: the sizes of the code are
\* one choice of the constants.
THEOREM NothingIsLost == Spec => []BatchesLoseNothing
<1>1. SchedulerInv => BatchesLoseNothing
  BY DEF SchedulerInv
<1> QED
  BY <1>1, SchedulerInvariant, PTL

\* The blocking write of io_intensive_work always finds its pipe empty.
THEOREM PipesDoNotFill == Spec => []PipeIsDrained
<1>1. SchedulerInv => PipeIsDrained
  BY DEF SchedulerInv
<1> QED
  BY <1>1, SchedulerInvariant, PTL

\* What is printed is final: whoever was created has ended and published all
\* it has counted, so a worker's counter is what it did (at most, for
\* memory_intensive_work).
ReportIsFinal ==
  main \in {"report", "exit"} =>
    \A t \in Workers :
      /\ pc[t] \in {"unborn", "done"} /\ local[t] = 0
      /\ program = "cpp" /\ kind[t] # "memory" => counted[t] = done[t]

\* What is printed are the counters of threads that have ended.
THEOREM ReportsAreFinal == Spec => []ReportIsFinal
<1>1. SchedulerInv => ReportIsFinal
  BY DEF SchedulerInv, Typed, AllEnded, LessThanABatch, BatchesLoseNothing, ReportIsFinal
<1> QED
  BY <1>1, SchedulerInvariant, PTL


-----------------------------------------------------------------------------
(* What is summed over all threads *)

\* The counters that the report is made of.
Told == IF program = "c" THEN done ELSE counted

\* What is printed are Jain's indices of the counters and of what the threads
\* were told, which nobody changes after.
ReportInv ==
  /\ usage \in [Workers -> Nat] /\ report \in [ops : Index, cpu : Index]
  /\ main = "exit" => /\ report.ops = Jain(Told)
                      /\ program = "cpp" => report.cpu = Jain(usage)

LEMMA WorkersFinite == IsFiniteSet(Workers) /\ Workers # {} /\ Cardinality(Workers) = NumThreads
<1>1. 0 \in Workers
  BY SchedulerAssumption DEF SchedulerAssumption, Workers
<1>2. IsFiniteSet(0 .. NumThreads - 1) /\ Cardinality(0 .. NumThreads - 1) = NumThreads
  BY FS_Interval, SchedulerAssumption DEF SchedulerAssumption
<1> QED
  BY <1>1, <1>2 DEF Workers

\* The sum of natural numbers, one per worker, is none less than they are.
LEMMA SumOfWorkers ==
  ASSUME NEW f \in [Workers -> Nat]
  PROVE  /\ Sum(f) = Total(f, Workers)
         /\ Sum(f) \in Nat /\ \A t \in Workers : f[t] <= Sum(f)
<1>1. Sum(f) = Total(f, Workers)
  BY DEF Sum, Total, FoldFunction
<1> QED
  BY <1>1, TotalOfNaturals, WorkersFinite

\* Jain's index, as a fraction, lies between 1/n and 1, and is 1 exactly when
\* all values are the same.
LEMMA JainsIndex ==
  ASSUME NEW f \in [Workers -> Nat]
  PROVE  Jain(f) \in Index /\ Jain(f).total = Sum(f) /\ IsIndexOf(Jain(f), f)
<1> DEFINE q == [t \in Workers |-> f[t] * f[t]]
<1>1. q \in [Workers -> Nat] /\ NumThreads \in Nat
  <2>1. \A t \in Workers : f[t] * f[t] \in Nat
    <3>1. \A n \in Nat : n * n \in Nat
      OBVIOUS
    <3> QED
      BY <3>1
  <2> QED
    BY <2>1, SchedulerAssumption DEF SchedulerAssumption
<1>2. /\ Sum(f) \in Nat /\ Sum(q) \in Nat
      /\ Sum(f) = Total(f, Workers) /\ Sum(q) = Total(q, Workers)
  BY <1>1, SumOfWorkers
<1>3. /\ Sum(f) * Sum(f) <= NumThreads * Sum(q)
      /\ Sum(f) * Sum(f) = NumThreads * Sum(q) <=> \A t, u \in Workers : f[t] = f[u]
  <2>1. \A t \in Workers : f[t] \in Int /\ q[t] = f[t] * f[t]
    OBVIOUS
  <2> HIDE DEF q
  <2>2. IsFiniteSet(Workers) /\ Workers # {}
    BY WorkersFinite
  <2>3. Total(f, Workers) * Total(f, Workers) <= Cardinality(Workers) * Total(q, Workers)
    BY <2>1, <2>2, MeanOfSquares, Zenon
  <2>4. Total(f, Workers) * Total(f, Workers) = Cardinality(Workers) * Total(q, Workers)
          <=> AllSame(f, Workers)
    BY <2>1, <2>2, MeanOfSquares, Zenon
  <2> QED
    BY <1>2, <2>3, <2>4, WorkersFinite, Zenon DEF AllSame
<1>4. Sum(q) <= Sum(f) * Sum(f)
  <2>1. \A t \in Workers : f[t] \in Nat /\ q[t] = f[t] * f[t]
    OBVIOUS
  <2> HIDE DEF q
  <2> QED
    BY <1>2, <2>1, SquaresBelowSquare, WorkersFinite
<1>5. Jain(f) = [total |-> Sum(f), num |-> Sum(f) * Sum(f), den |-> NumThreads * Sum(q)]
  BY DEF Jain
<1>6. \A n, a, b \in Nat : /\ a * a \in Nat /\ n * b \in Nat
                           /\ b <= a * a => n * b <= n * (a * a)
  OBVIOUS
<1> HIDE DEF q
<1>7. /\ Sum(f) * Sum(f) \in Nat /\ NumThreads * Sum(q) \in Nat
      /\ NumThreads * Sum(q) <= NumThreads * (Sum(f) * Sum(f))
  BY <1>1, <1>2, <1>4, <1>6
<1> QED
  BY <1>2, <1>3, <1>5, <1>7 DEF Index, IsIndexOf

LEMMA ReportInvStep == SchedulerInv /\ ReportInv /\ [Next]_vars => ReportInv'
<1> SUFFICES ASSUME SchedulerInv, ReportInv, [Next]_vars PROVE ReportInv'
  OBVIOUS
<1> USE DEF pipeVars, countVars
<1>1. ASSUME UNCHANGED <<report, usage>>, main' # "exit" PROVE ReportInv'
  BY <1>1 DEF ReportInv
<1>2. ASSUME UNCHANGED <<program, main, done, counted, usage, report>> PROVE ReportInv'
  <2>1. Told' = Told
    BY <1>2 DEF Told
  <2>2. Jain(Told)' = Jain(Told) /\ Jain(usage)' = Jain(usage)
    BY <1>2, <2>1
  <2> QED
    BY <1>2, <2>2 DEF ReportInv
<1>3. CASE Main
  <2>1. CASE InitThread \/ AllInit \/ CreateThread \/ CreateFails
    BY <1>1, <2>1 DEF InitThread, AllInit, CreateThread, CreateFails
  <2>2. CASE AllCreated \/ DurationOver \/ JoinsAll \/ JoinsSome
    BY <1>1, <2>2 DEF AllCreated, DurationOver, JoinsAll, JoinsSome
  <2>3. CASE PrintResults \/ AnalyzeResults
    <3>1. /\ UNCHANGED <<program, done, counted, usage>>
          /\ \/ program = "c" /\ report' = [report EXCEPT !.ops = Jain(Told)]
             \/ program = "cpp" /\ report' = [ops |-> Jain(Told), cpu |-> Jain(usage)]
      BY <2>3 DEF PrintResults, AnalyzeResults, AnalyzeFairness, Told
    <3>2. Told' = Told
      BY <3>1 DEF Told
    <3>3. Jain(Told)' = Jain(Told) /\ Jain(usage)' = Jain(usage)
      BY <3>1, <3>2
    <3>4. Told \in [Workers -> Nat] /\ usage \in [Workers -> Nat]
      BY DEF SchedulerInv, Typed, Told, ReportInv
    <3>5. Jain(Told) \in Index /\ Jain(usage) \in Index
      BY <3>4, JainsIndex
    <3>6. program = "c" => program # "cpp"
      OBVIOUS
    <3> HIDE DEF Index
    <3> QED
      BY <3>1, <3>3, <3>5, <3>6 DEF ReportInv
  <2> QED
    BY <1>3, <2>1, <2>2, <2>3 DEF Main
<1>4. CASE Signal \/ Over \/ UNCHANGED vars
  BY <1>2, <1>4 DEF Signal, Over, vars
<1>5. ASSUME NEW t \in Workers, Worker(t) \/ ReadStdin(t) PROVE ReportInv'
  <2>1. UNCHANGED <<main, report>> /\ pc[t] \notin {"unborn", "done"}
    BY <1>5 DEF Worker, Goto, CpuWork, IoBegin, IoWrite, IoRead, ReadStdin, Stops, WorkRound,
       PublishRest, GetThreadStats
  <2>2. main # "exit"
    BY <2>1 DEF SchedulerInv, AllEnded
  <2>3. usage' = usage \/ usage' = [usage EXCEPT ![t] = Sum(done)]
    BY <1>5 DEF Worker, CpuWork, IoBegin, IoWrite, IoRead, ReadStdin, Stops, WorkRound,
       PublishRest, GetThreadStats
  <2>4. Sum(done) \in Nat
    BY SumOfWorkers DEF SchedulerInv, Typed
  <2> QED
    BY <2>1, <2>2, <2>3, <2>4 DEF ReportInv
<1> QED
  BY <1>3, <1>4, <1>5 DEF Next

\* What threads are told and what is printed has its type and its sums.
LEMMA ReportInvariant == Spec => []ReportInv
<1>1. Init => ReportInv
  BY DEF Init, ReportInv, Index, NoIndex
<1> QED
  BY <1>1, ReportInvStep, SchedulerInvariant, PTL DEF Spec

\* Every variable keeps its type, the sums in the report included.
THEOREM TypeCorrect == Spec => []TypeOK
<1>1. SchedulerInv /\ ReportInv => TypeOK
  BY DEF SchedulerInv, Typed, ReportInv, TypeOK
<1> QED
  BY <1>1, SchedulerInvariant, ReportInvariant, PTL

\* The report is right for every number of threads: made when all have ended
\* and published, with an index between 1/n and 1 that says "perfect fairness"
\* of equal threads only; the index of processor times is one of what getrusage
\* told the threads, which is not their own.
THEOREM TheReportIsRight == Spec => []ReportIsRight
<1>1. SchedulerInv /\ ReportInv => ReportIsRight
  <2> SUFFICES ASSUME SchedulerInv, ReportInv, main = "exit" PROVE ReportIsRight
    BY DEF ReportIsRight
  <2>1. \A t \in Workers : pc[t] \in {"unborn", "done"} /\ local[t] = 0
    BY DEF SchedulerInv, AllEnded, LessThanABatch
  <2>2. report.ops = Jain(Told) /\ (program = "cpp" => report.cpu = Jain(usage))
    BY DEF ReportInv
  <2>3. Told \in [Workers -> Nat] /\ usage \in [Workers -> Nat]
    BY DEF SchedulerInv, Typed, Told, ReportInv
  <2>4. /\ program = "c" => Told = done
        /\ program = "cpp" => Told = counted
    BY DEF Told
  <2> HIDE DEF IsIndexOf, Jain
  <2> QED
    BY <2>1, <2>2, <2>3, <2>4, JainsIndex DEF ReportIsRight
<1> QED
  BY <1>1, SchedulerInvariant, ReportInvariant, PTL

-----------------------------------------------------------------------------
(* Nobody waits for ever, but for the standard input *)

\* The flag is up when main joins, whom it joins has begun, and who uses a
\* pipe has one unless pipe has failed.
JoinInv ==
  /\ main \in {"join", "join_some"} => stop
  /\ \A t \in Workers :
       /\ main \in {"sleep", "join"} \/ (main \in {"create", "join_some"} /\ t < next)
            => pc[t] # "unborn"
       /\ pc[t] \in {"write", "read"} => UsesPipe(t)
       /\ UsesPipe(t) /\ (main # "init" \/ t < next) => has_pipe[t] \/ MayFail

\* Worker t waits for nothing.
CanGoOn(t) ==
  \/ pc[t] = "loop" /\ stop
  \/ pc[t] = "write" /\ (has_pipe[t] => in_pipe[t] < PipeSize)
  \/ pc[t] = "read" /\ has_pipe[t]
  \/ pc[t] = "measure"

\* It reads descriptor 0 because it was to have a pipe and pipe has failed.
AtStandardInput(t) == pc[t] = "read" /\ UsesPipe(t) /\ ~has_pipe[t] /\ MayFail

\* Whom main joins has ended or can go on.
NobodyHangs ==
  \A t \in Workers :
    main = "join" \/ (main = "join_some" /\ t < next) =>
      pc[t] = "done" \/ CanGoOn(t) \/ AtStandardInput(t)

LEMMA JoinInvStep == SchedulerInv /\ JoinInv /\ [Next]_vars => JoinInv'
<1> SUFFICES ASSUME SchedulerInv, JoinInv, [Next]_vars PROVE JoinInv'
  OBVIOUS
<1> USE DEF pipeVars, countVars, Goto
<1>1. pc \in [Workers -> {"unborn", "loop", "write", "read", "measure", "done"}]
      /\ has_pipe \in [Workers -> BOOLEAN] /\ next \in 0..NumThreads /\ NumThreads \in Nat \ {0}
  BY SchedulerAssumption DEF SchedulerAssumption, SchedulerInv, Typed
<1>2. \A t \in Workers : t \in Int /\ 0 <= t /\ t < NumThreads
  BY <1>1 DEF Workers
<1>3. ASSUME UNCHANGED <<program, kind, main, next, has_pipe>>, stop => stop',
             \A t \in Workers : /\ pc'[t] = "unborn" => pc[t] = "unborn"
                                /\ pc'[t] \in {"write", "read"} => UsesPipe(t)
      PROVE  JoinInv'
  BY <1>3 DEF JoinInv, UsesPipe
<1>4. CASE InitThread
  <2>1. /\ main = "init" /\ UNCHANGED <<program, kind, main, stop, pc>>
        /\ next' = next + 1 /\ next \in Workers
        /\ \/ has_pipe' = [has_pipe EXCEPT ![next] = UsesPipe(next)]
           \/ MayFail /\ has_pipe' = has_pipe
    BY <1>1, <1>4 DEF InitThread, Workers
  <2>2. ASSUME NEW t \in Workers, UsesPipe(t), t < next + 1
        PROVE  has_pipe'[t] \/ MayFail
    <3>1. t < next \/ t = next
      BY <1>1, <1>2, <2>2
    <3>2. CASE t = next
      BY <1>1, <2>1, <2>2, <3>2
    <3>3. CASE t # next
      BY <1>1, <2>1, <2>2, <3>1, <3>3 DEF JoinInv
    <3> QED
      BY <3>2, <3>3
  <2> QED
    BY <2>1, <2>2 DEF JoinInv, UsesPipe
<1>5. CASE AllInit
  <2>1. /\ main = "init" /\ main' = "create" /\ next = NumThreads /\ next' = 0
        /\ UNCHANGED <<program, kind, pc, has_pipe>>
    BY <1>5 DEF AllInit
  <2> QED
    BY <1>2, <2>1 DEF JoinInv, UsesPipe
<1>6. CASE CreateThread
  <2>1. /\ main = "create" /\ UNCHANGED <<program, kind, main, stop, has_pipe>>
        /\ next' = next + 1 /\ pc' = [pc EXCEPT ![next] = "loop"]
    BY <1>6 DEF CreateThread
  <2>2. \A t \in Workers : t < next + 1 => t < next \/ t = next
    BY <1>1, <1>2
  <2>3. \A t \in Workers : pc'[t] = IF t = next THEN "loop" ELSE pc[t]
    BY <1>1, <2>1
  <2> QED
    BY <2>1, <2>2, <2>3 DEF JoinInv, UsesPipe
<1>7. CASE CreateFails \/ Signal \/ DurationOver
  BY <1>7 DEF CreateFails, Signal, DurationOver, JoinInv, UsesPipe
<1>8. CASE AllCreated
  <2>1. /\ main = "create" /\ next = NumThreads /\ main' = IF stop THEN "join" ELSE "sleep"
        /\ UNCHANGED <<program, kind, next, stop, pc, has_pipe>>
    BY <1>8 DEF AllCreated
  <2> QED
    BY <1>2, <2>1 DEF JoinInv, UsesPipe
<1>9. CASE JoinsAll \/ JoinsSome \/ PrintResults \/ AnalyzeResults
  BY <1>9 DEF JoinsAll, JoinsSome, PrintResults, AnalyzeResults, JoinInv, UsesPipe
<1>10. ASSUME NEW t \in Workers, Worker(t) \/ ReadStdin(t) PROVE JoinInv'
  <2>1. DoesIo(t) /\ program = "c" => UsesPipe(t)
    BY DEF DoesIo, UsesPipe
  <2>2. pc[t] \in {"write", "read"} => UsesPipe(t)
    BY DEF JoinInv
  <2>3. CASE CpuWork(t) \/ Stops(t) \/ WorkRound(t)
    BY <1>1, <1>3, <2>3 DEF CpuWork, Stops, WorkRound, JoinInv
  <2>4. CASE IoBegin(t)
    BY <1>1, <1>3, <2>1, <2>4 DEF IoBegin, InC, JoinInv
  <2>5. CASE IoWrite(t)
    BY <1>1, <1>3, <2>2, <2>5 DEF IoWrite, JoinInv
  <2>6. CASE IoRead(t) \/ ReadStdin(t)
    BY <1>1, <1>3, <2>6 DEF IoRead, ReadStdin, JoinInv
  <2>7. CASE PublishRest(t) \/ GetThreadStats(t)
    BY <1>1, <1>3, <2>7 DEF PublishRest, GetThreadStats, JoinInv
  <2> QED
    BY <1>10, <2>3, <2>4, <2>5, <2>6, <2>7 DEF Worker
<1>11. CASE UNCHANGED vars
  BY <1>3, <1>11 DEF vars, JoinInv
<1> QED
  BY <1>4, <1>5, <1>6, <1>7, <1>8, <1>9, <1>10, <1>11 DEF Next, Main, Over

\* main's joins wait for nobody who waits himself: the pipe of an I/O thread
\* has room for its blocking write in every iteration, so that it comes back to
\* the flag.  The one exception is a thread whose pipe could not be made, which
\* nobody checks: it waits for the standard input of the program.
THEOREM NobodyWaitsForEver == Spec => []NobodyHangs
<1>1. Init => JoinInv
  <2> SUFFICES ASSUME Init PROVE JoinInv
    OBVIOUS
  <2>1. /\ main \in {"init", "create"} /\ (main = "create" => program # "c") /\ next = 0
        /\ \A t \in Workers : pc[t] = "unborn" /\ ~(t < next)
    BY SchedulerAssumption DEF SchedulerAssumption, Init, Workers
  <2> QED
    BY <2>1 DEF JoinInv, UsesPipe
<1>2. SchedulerInv /\ JoinInv => NobodyHangs
  <2> SUFFICES ASSUME SchedulerInv, JoinInv, NEW t \in Workers,
                      main = "join" \/ (main = "join_some" /\ t < next), pc[t] # "done",
                      ~AtStandardInput(t)
               PROVE  CanGoOn(t)
    BY DEF NobodyHangs
  <2>1. stop /\ pc[t] # "unborn" /\ main # "init"
    BY DEF JoinInv
  <2>2. pc[t] \in {"loop", "write", "read", "measure"}
    BY <2>1 DEF SchedulerInv, Typed
  <2>3. pc[t] = "write" => in_pipe[t] = 0 /\ 0 < PipeSize
    BY SchedulerAssumption DEF SchedulerAssumption, SchedulerInv, PipeIsDrained
  <2>4. pc[t] = "read" => has_pipe[t]
    BY <2>1 DEF JoinInv, AtStandardInput
  <2> QED
    BY <2>1, <2>2, <2>3, <2>4 DEF CanGoOn
<1> QED
  BY <1>1, <1>2, JoinInvStep, SchedulerInvariant, PTL DEF Spec

=============================================================================
