---------------------------- MODULE DiskIOProofs ----------------------------
(***************************************************************************)
(* What DiskIO guarantees for every number of threads, every selection of  *)
(* tests and platforms, files of any length, and any number of failures    *)
(* and operations.                                                         *)
(***************************************************************************)
EXTENDS DiskIO, FiniteSetTheorems, SequenceTheorems, TLAPS

Sleeping == {t \in Threads : pc[t] = "asleep"}

\* Main creates the threads in the order of their indexes, and joins them so.
InOrder ==
  /\ main \in {"file", "thread", "async", "cleanup", "free", "futures", "undefined"} =>
       \A t \in made : t < i
  /\ main \in {"file", "thread", "async"} => ~stop_flag
  /\ main = "async" => round.create = "thrown"
  /\ main \in {"thread", "async"} => i < NumThreads
  /\ main = "join" => \A t \in Threads : t < i => pc[t] \in {"unborn", "done"}
  /\ \A t \in Threads : t \in made \/ pc[t] = "unborn"

\* A thread counts nothing before the barrier.
NotBeforeTheBarrier ==
  \A t \in Threads : pc[t] \in {"unborn", "open", "barrier", "asleep"} => operations[t] = 0

\* Where waits do not end by themselves the barrier has counted who sleeps.
SleepersCounted == platform # "apple" => count = Cardinality(Sleeping)

\* Main leaves a round when all threads have ended, or early.
EndsQuietly ==
  /\ main \in {"exit", "failed"} => \A t \in Threads : Home(t)
  /\ main \in {"cleanup", "free", "futures", "undefined"} =>
       LeftEarly \/ \A t \in Threads : Home(t)
  /\ main = "futures" => platform = "cpp"

\* The inductive invariant, beside the types.
DiskInv == /\ InOrder /\ NotBeforeTheBarrier /\ SleepersCounted
           /\ OthersStartTogether /\ MixedIsOneThird /\ WithinFile /\ EndsQuietly

-----------------------------------------------------------------------------
\* Every variable keeps its type.
THEOREM TypeCorrect == Spec => []TypeOK
<1>1. Init => TypeOK
  <2> SUFFICES ASSUME Init PROVE TypeOK
    OBVIOUS
  <2>1. 0 \in 0..NumThreads /\ 0 \in 0..NumThreads - 1 /\ 0 \in 0..MaxFaults /\ Absent \in Int
    BY DiskAssumption DEF DiskAssumption, Absent
  <2> QED
    BY <2>1 DEF Init, TypeOK
<1>2. TypeOK /\ (main \in {"thread", "async"} => i < NumThreads) /\ [Next]_vars
        => TypeOK' /\ (main \in {"thread", "async"} => i < NumThreads)'
  <2> SUFFICES ASSUME TypeOK, main \in {"thread", "async"} => i < NumThreads, [Next]_vars
               PROVE  TypeOK' /\ (main' \in {"thread", "async"} => i' < NumThreads)
    OBVIOUS
  <2> USE DiskAssumption DEF DiskAssumption, TypeOK, Fault, mainVars, threadVars
  <2>1. CASE CreateFile \/ CppCreateFile
    <3>1. file' \in [Threads -> Int]
      BY <2>1 DEF CreateFile, CppCreateFile
    <3> QED
      BY <2>1, <3>1 DEF CreateFile, CppCreateFile
  <2>2. CASE CreateFileFails
    <3>1. file' \in [Threads -> Int]
      <4>1. PICK length \in {file[i]} \cup 0 .. Blocks - 1 : file' = [file EXCEPT ![i] = length]
        BY <2>2 DEF CreateFileFails
      <4>2. i \in Threads
        BY <2>2 DEF CreateFileFails, Threads
      <4> QED
        BY <4>1, <4>2
    <3>2. faults' \in 0..MaxFaults /\ main' \in {"thread", "cleanup"}
      BY <2>2 DEF CreateFileFails
    <3> QED
      BY <2>2, <3>1, <3>2 DEF CreateFileFails
  <2>3. CASE CppFileThrows
    <3>1. file' \in [Threads -> Int]
      <4>1. PICK length \in {file[i]} \cup 0 .. Blocks - 1 : file' = [file EXCEPT ![i] = length]
        BY <2>3 DEF CppFileThrows
      <4>2. i \in Threads
        BY <2>3 DEF CppFileThrows, Threads
      <4> QED
        BY <4>1, <4>2
    <3>2. faults' \in 0..MaxFaults /\ main' = "futures"
      BY <2>3 DEF CppFileThrows, Throw
    <3> QED
      BY <2>3, <3>1, <3>2 DEF CppFileThrows
  <2>4. CASE CreateThread \/ CppAsync
    <3>1. i \in Threads /\ i + 1 \in 0..NumThreads
      BY <2>4 DEF CreateThread, CppAsync, Threads
    <3>2. pc' \in [Threads -> {"unborn", "open", "barrier", "asleep", "loop", "done"}]
          /\ made' \subseteq Threads
      BY <2>4, <3>1 DEF CreateThread, CppAsync
    <3>3. faults' \in 0..MaxFaults
      BY <2>4 DEF CreateThread, CppAsync
    <3>4. i' \in 0..NumThreads /\ main' \in {"file", "futures"}
      BY <2>4, <3>1 DEF CreateThread, CppAsync, Throw
    <3> QED
      BY <2>4, <3>2, <3>3, <3>4 DEF CreateThread, CppAsync
  <2>5. CASE DurationOver \/ Join \/ Report
    <3>1. CASE DurationOver
      BY <3>1 DEF DurationOver
    <3>2. CASE Join
      <4>1. i' \in 0..NumThreads /\ main' \in {"join", "crashed"}
        BY <3>2 DEF Join
      <4> QED
        BY <3>2, <4>1 DEF Join
    <3>3. CASE Report
      BY <3>3 DEF Report
    <3> QED
      BY <2>5, <3>1, <3>2, <3>3
  <2>6. CASE Cleanup \/ FuturesDone
    <3>1. CASE Cleanup
      <4>1. Absent \in Int
        BY DEF Absent
      <4>2. file' \in [Threads -> Int]
        BY <3>1, <4>1 DEF Cleanup
      <4> QED
        BY <3>1, <4>2 DEF Cleanup
    <3> QED
      BY <2>6, <3>1 DEF FuturesDone
  <2>f. CASE Free
    <3>1. CASE main' = "undefined" /\ UNCHANGED <<rounds, i, made, stop_flag, count, threadVars>>
      BY <2>f, <3>1 DEF Free
    <3>2. ASSUME main' \in {"exit", "file"}, FreshRound
          PROVE  TypeOK' /\ (main' \in {"thread", "async"} => i' < NumThreads)
      <4>1. /\ i' \in 0..NumThreads /\ made' \subseteq Threads /\ stop_flag' \in BOOLEAN
            /\ count' \in 0..NumThreads - 1
        <5>1. i' = 0 /\ made' = {} /\ stop_flag' = FALSE /\ count' = 0
          BY <3>2 DEF FreshRound
        <5>2. 0 \in 0..NumThreads /\ 0 \in 0..NumThreads - 1
          OBVIOUS
        <5> QED
          BY <5>1, <5>2
      <4>2. pc' \in [Threads -> {"unborn", "open", "barrier", "asleep", "loop", "done"}]
        BY <3>2 DEF FreshRound
      <4>3. /\ offset' \in [Threads -> Nat] /\ operations' \in [Threads -> Nat]
            /\ reads' \in [Threads -> Nat] /\ writes' \in [Threads -> Nat]
        <5> HIDE DEF TypeOK
        <5> QED
          BY <3>2 DEF FreshRound
      <4>4. UNCHANGED <<platform, file, faults>>
        BY <2>f DEF Free
      <4> QED
        BY <3>2, <4>1, <4>2, <4>3, <4>4
    <3> QED
      BY <2>f, <3>1, <3>2 DEF Free
  <2>7. ASSUME NEW t \in Threads, Thread(t) \/ SpuriousWake(t) \/ BarrierGone(t)
        PROVE  TypeOK' /\ (main' \in {"thread", "async"} => i' < NumThreads)
    <3> USE DEF Goto
    <3>1. CASE Open(t) \/ SpuriousWake(t) \/ Stops(t)
      BY <3>1 DEF Open, SpuriousWake, Stops
    <3>2. CASE OpenFails(t)
      BY <3>2 DEF OpenFails
    <3>3. CASE BarrierArrive(t)
      <4>1. count' \in 0..NumThreads - 1
        BY <3>3 DEF BarrierArrive
      <4> QED
        BY <3>3, <4>1 DEF BarrierArrive
    <3>4. CASE Operate(t)
      <4>1. PICK p \in Positions(t), ok \in BOOLEAN :
              /\ offset' = [offset EXCEPT ![t] = NextOffset(p)]
              /\ IF ok
                 THEN /\ operations' = [operations EXCEPT ![t] = @ + 1]
                      /\ IF IsWrite(t)
                         THEN /\ writes' = [writes EXCEPT ![t] = @ + 1]
                              /\ file' = [file EXCEPT ![t] = Written(t, p)]
                              /\ UNCHANGED reads
                         ELSE /\ reads' = [reads EXCEPT ![t] = @ + 1]
                              /\ UNCHANGED <<writes, file>>
                 ELSE UNCHANGED <<operations, reads, writes, file>>
        BY <3>4 DEF Operate
      <4>2. p \in Nat /\ NextOffset(p) \in Nat /\ Written(t, p) \in Int
        BY DEF Positions, NextOffset, Written
      <4> QED
        BY <3>4, <4>1, <4>2 DEF Operate
    <3>5. CASE CppOperate(t)
      <4>1. PICK p \in Positions(t) :
              /\ offset' = [offset EXCEPT ![t] = CppNextOffset(p)]
              /\ \/ /\ writes' = [writes EXCEPT ![t] = @ + 1]
                    /\ file' = [file EXCEPT ![t] = Written(t, p)]
                    /\ operations' = [operations EXCEPT ![t] = @ + 1]
                    /\ UNCHANGED reads
                 \/ /\ reads' = [reads EXCEPT ![t] = @ + 1]
                    /\ operations' = [operations EXCEPT ![t] = @ + 1]
                    /\ UNCHANGED <<writes, file>>
                 \/ UNCHANGED <<operations, reads, writes, file>>
        BY <3>5 DEF CppOperate
      <4>2. p \in Nat /\ CppNextOffset(p) \in Nat /\ Written(t, p) \in Int
        BY DEF Positions, CppNextOffset, Written
      <4> QED
        BY <3>5, <4>1, <4>2 DEF CppOperate
    <3>6. CASE BarrierGone(t)
      BY <3>6 DEF BarrierGone
    <3> QED
      BY <2>7, <3>1, <3>2, <3>3, <3>4, <3>5, <3>6 DEF Thread
  <2>8. CASE Over \/ UNCHANGED vars
    BY <2>8 DEF Over, vars
  <2> QED
    BY <2>1, <2>2, <2>3, <2>4, <2>5, <2>6, <2>f, <2>7, <2>8 DEF Next, Main, CppMain
<1>3. Init => (main \in {"thread", "async"} => i < NumThreads)
  BY DEF Init
<1> QED
  BY <1>1, <1>2, <1>3, PTL DEF Spec

-----------------------------------------------------------------------------
(* The barrier and the work *)

LEMMA SetOfThreads ==
  ASSUME NEW S \in SUBSET Threads
  PROVE  /\ IsFiniteSet(S) /\ Cardinality(S) \in Nat /\ Cardinality(S) <= NumThreads
         /\ Cardinality(S) = NumThreads => S = Threads
<1>1. IsFiniteSet(Threads) /\ Cardinality(Threads) = NumThreads
  BY FS_Interval, DiskAssumption DEF DiskAssumption, Threads
<1>2. IsFiniteSet(S) /\ Cardinality(S) <= NumThreads
      /\ (Cardinality(S) = NumThreads => S = Threads)
  BY <1>1, FS_Subset
<1> QED
  BY <1>2, FS_CardinalityType

\* A step of main that leaves the threads and their files alone, or gives a
\* file the length of its size or less.
LEMMA MainStep ==
  ASSUME TypeOK, TypeOK', DiskInv, InOrder',
         UNCHANGED <<platform, rounds, made, count, threadVars>>,
         \A t \in Threads : file'[t] <= file[t] \/ file'[t] <= Blocks,
         EndsQuietly'
  PROVE  DiskInv'
<1> USE DEF DiskInv, threadVars
<1>1. NotBeforeTheBarrier' /\ SleepersCounted'
  BY DEF NotBeforeTheBarrier, SleepersCounted, Sleeping
<1>2. OthersStartTogether' /\ MixedIsOneThird'
  BY DEF OthersStartTogether, StartTogether, MixedIsOneThird, round
<1>3. WithinFile'
  <2> SUFFICES ASSUME NEW t \in Threads PROVE file'[t] <= Blocks /\ offset'[t] < Blocks
    BY DEF WithinFile
  <2>1. file[t] <= Blocks /\ offset[t] < Blocks
    BY DEF WithinFile
  <2>2. CASE file'[t] <= Blocks
    BY <2>1, <2>2
  <2>3. CASE file'[t] <= file[t]
    BY <2>1, <2>3, DiskAssumption DEF DiskAssumption, TypeOK
  <2> QED
    BY <2>2, <2>3
<1> QED
  BY <1>1, <1>2, <1>3

\* A thread that has not ended takes a step; whether main may be where it is
\* does not depend on it.
LEMMA StaysQuiet ==
  ASSUME EndsQuietly, NEW t \in Threads, ~Home(t), UNCHANGED <<platform, mainVars>>,
         \A u \in Threads : u = t \/ Home(u) => u = t \/ Home(u)',
         faults' = faults \/ faults' > 0
  PROVE  EndsQuietly'
<1>1. UNCHANGED <<platform, rounds, main, i, made, stop_flag>>
  BY DEF mainVars
<1>2. LeftEarly => LeftEarly'
  BY <1>1 DEF LeftEarly, round
<1> QED
  BY <1>1, <1>2 DEF EndsQuietly

\* A step of a thread that does no work and stays on its side of the barrier.
LEMMA ThreadStep ==
  ASSUME TypeOK, DiskInv, NEW t \in Threads, NEW from, NEW to, Goto(t, from, to),
         UNCHANGED <<platform, mainVars, offset, operations, reads, writes, file>>,
         platform # "apple" => count' = count, faults' = faults \/ faults' > 0,
         \/ from = "open" /\ to \in {"barrier", "done"}
         \/ from = "loop" /\ to = "done"
         \/ from = "asleep" /\ to = "loop" /\ platform = "apple"
  PROVE  DiskInv'
<1> USE DEF TypeOK, DiskInv, Goto, mainVars
<1>1. pc[t] = from /\ pc' = [pc EXCEPT ![t] = to]
  OBVIOUS
<1>2. InOrder' /\ NotBeforeTheBarrier'
  BY <1>1 DEF InOrder, NotBeforeTheBarrier, round
<1>q. EndsQuietly'
  <2>1. ~Home(t) /\ \A u \in Threads : u # t => pc'[u] = pc[u]
    BY <1>1 DEF Home
  <2> QED
    BY <2>1, StaysQuiet DEF Home
<1>3. SleepersCounted'
  <2>1. platform # "apple" => Sleeping' = Sleeping
    BY <1>1 DEF Sleeping
  <2> QED
    BY <2>1 DEF SleepersCounted
<1>4. OthersStartTogether'
  BY <1>1 DEF OthersStartTogether, StartTogether, NotBeforeTheBarrier
<1>5. MixedIsOneThird'
  <2>1. from = "asleep" => operations[t] = 0 /\ writes[t] = 0
    BY <1>1 DEF NotBeforeTheBarrier, MixedIsOneThird
  <2>2. (0 + 2) \div 3 = 0
    OBVIOUS
  <2> QED
    BY <1>1, <2>1, <2>2 DEF MixedIsOneThird, round
<1>6. WithinFile'
  BY DEF WithinFile
<1> QED
  BY <1>2, <1>q, <1>3, <1>4, <1>5, <1>6

\* A round of the loop: one operation more, or none.
LEMMA WorkStep ==
  ASSUME TypeOK, TypeOK', DiskInv, NEW t \in Threads, pc[t] = "loop",
         UNCHANGED <<platform, mainVars, count, pc, faults>>,
         NEW p \in Positions(t), NEW q \in 0 .. Blocks - 1,
         offset' = [offset EXCEPT ![t] = q],
         \/ UNCHANGED <<operations, reads, writes, file>>
         \/ /\ operations' = [operations EXCEPT ![t] = @ + 1]
            /\ IsWrite(t) /\ writes' = [writes EXCEPT ![t] = @ + 1] /\ reads' = reads
            /\ file' = [file EXCEPT ![t] = Written(t, p)]
         \/ /\ operations' = [operations EXCEPT ![t] = @ + 1]
            /\ ~IsWrite(t) /\ reads' = [reads EXCEPT ![t] = @ + 1] /\ UNCHANGED <<writes, file>>
  PROVE  DiskInv'
<1> USE DEF TypeOK, DiskInv, mainVars
<1>1. InOrder' /\ NotBeforeTheBarrier' /\ SleepersCounted' /\ EndsQuietly'
  BY DEF InOrder, NotBeforeTheBarrier, SleepersCounted, Sleeping, EndsQuietly, LeftEarly, Home,
         round
<1>2. OthersStartTogether'
  BY DEF OthersStartTogether, StartTogether
<1>3. p \in 0 .. Blocks - 1
  BY DiskAssumption DEF DiskAssumption, Positions, WithinFile
<1>4. WithinFile'
  <2>1. \A u \in Threads : offset'[u] < Blocks
    BY DiskAssumption DEF DiskAssumption, WithinFile
  <2>2. \A u \in Threads : file'[u] <= Blocks
    BY <1>3, DiskAssumption DEF DiskAssumption, WithinFile, Written
  <2> QED
    BY <2>1, <2>2 DEF WithinFile
<1>5. MixedIsOneThird'
  <2> SUFFICES ASSUME NEW u \in Threads
               PROVE  /\ operations'[u] = reads'[u] + writes'[u]
                      /\ pc'[u] = "loop" /\ round'.pattern = "mixed" =>
                           writes'[u] = (operations'[u] + 2) \div 3
    BY DEF MixedIsOneThird
  <2>1. round' = round /\ pc' = pc
    BY DEF round
  <2>2. operations[u] = reads[u] + writes[u]
        /\ (pc[u] = "loop" /\ round.pattern = "mixed" =>
              writes[u] = (operations[u] + 2) \div 3)
    BY DEF MixedIsOneThird
  <2>3. round.pattern = "mixed" => (IsWrite(t) <=> operations[t] % 3 = 0)
    BY DEF IsWrite
  <2>4. CASE u # t
    BY <2>1, <2>2, <2>4
  <2>5. CASE u = t
    <3>1. operations[t] \in Nat /\ writes[t] \in Nat /\ reads[t] \in Nat
      OBVIOUS
    <3>2. \/ operations'[t] = operations[t] /\ reads'[t] = reads[t] /\ writes'[t] = writes[t]
          \/ /\ operations'[t] = operations[t] + 1 /\ IsWrite(t)
             /\ reads'[t] = reads[t] /\ writes'[t] = writes[t] + 1
          \/ /\ operations'[t] = operations[t] + 1 /\ ~IsWrite(t)
             /\ reads'[t] = reads[t] + 1 /\ writes'[t] = writes[t]
      OBVIOUS
    <3>3. /\ operations[t] % 3 = 0 =>
               (operations[t] + 1 + 2) \div 3 = (operations[t] + 2) \div 3 + 1
          /\ operations[t] % 3 # 0 =>
               (operations[t] + 1 + 2) \div 3 = (operations[t] + 2) \div 3
      BY <3>1
    <3> QED
      BY <2>1, <2>2, <2>3, <2>5, <3>1, <3>2, <3>3
  <2> QED
    BY <2>4, <2>5
<1> QED
  BY <1>1, <1>2, <1>4, <1>5

\* Whom the barrier counts in full finds all the others asleep, and only the
\* one who completes the round does.
LEMMA LastToArrive ==
  ASSUME TypeOK, SleepersCounted, platform # "apple",
         NEW t \in Threads, pc[t] = "barrier"
  PROVE  count + 1 >= NumThreads <=> Sleeping \cup {t} = Threads
<1>1. Sleeping \cup {t} \in SUBSET Threads /\ t \notin Sleeping
  BY DEF Sleeping
<1>2. Cardinality(Sleeping \cup {t}) = count + 1
  BY <1>1, SetOfThreads, FS_AddElement DEF SleepersCounted, Sleeping
<1>3. Cardinality(Threads) = NumThreads
  BY FS_Interval, DiskAssumption DEF DiskAssumption, Threads
<1>4. Cardinality(Sleeping \cup {t}) <= NumThreads
  BY <1>1, SetOfThreads
<1>5. NumThreads \in Nat /\ count \in Nat
  BY DiskAssumption DEF DiskAssumption, TypeOK
<1>6. CASE count + 1 >= NumThreads
  <2>1. Cardinality(Sleeping \cup {t}) = NumThreads
    BY <1>2, <1>4, <1>5, <1>6
  <2> QED
    BY <1>1, <1>6, <2>1, SetOfThreads
<1>7. CASE Sleeping \cup {t} = Threads
  BY <1>2, <1>3, <1>5, <1>7
<1> QED
  BY <1>6, <1>7

\* The last to arrive finds all the others asleep, and all go on; whoever
\* arrives earlier sleeps.
LEMMA BarrierStep ==
  ASSUME TypeOK, TypeOK', DiskInv, NEW t \in Threads, BarrierArrive(t)
  PROVE  DiskInv'
<1> USE DEF TypeOK, DiskInv, mainVars
<1>1. /\ pc[t] = "barrier"
      /\ UNCHANGED <<platform, rounds, main, i, made, stop_flag, offset, operations, reads,
                    writes, file, faults>>
  BY DEF BarrierArrive
<1>q. EndsQuietly'
  <2>1. ~Home(t) /\ \A u \in Threads : Home(u) => Home(u)'
    BY <1>1 DEF BarrierArrive, Home
  <2> QED
    BY <1>1, <2>1, StaysQuiet
<1>2. operations[t] = 0 /\ t \notin Sleeping
  BY <1>1 DEF NotBeforeTheBarrier, Sleeping
<1>3. \A u \in Threads : pc[u] \in {"asleep", "barrier"} =>
        operations[u] = 0 /\ writes[u] = (operations[u] + 2) \div 3
  BY DEF NotBeforeTheBarrier, MixedIsOneThird
<1>4. CASE count + 1 >= NumThreads
  <2>1. /\ count' = 0
        /\ pc' = [u \in Threads |-> IF u = t \/ pc[u] = "asleep" THEN "loop" ELSE pc[u]]
    BY <1>4 DEF BarrierArrive
  <2>2. InOrder' /\ NotBeforeTheBarrier' /\ EndsQuietly'
    BY <1>1, <1>q, <2>1 DEF InOrder, NotBeforeTheBarrier, round
  <2>3. SleepersCounted'
    <3>1. Sleeping' = {}
      BY <2>1 DEF Sleeping
    <3> QED
      BY <2>1, <3>1, FS_EmptySet DEF SleepersCounted
  <2>4. OthersStartTogether'
    <3> SUFFICES ASSUME platform # "apple"
                 PROVE  made = Threads /\ \A u \in Threads : pc'[u] = "loop"
      BY <1>1 DEF OthersStartTogether, StartTogether
    <3>1. Sleeping \cup {t} = Threads
      BY <1>1, <1>4, LastToArrive
    <3> QED
      BY <1>1, <2>1, <3>1 DEF InOrder, Sleeping
  <2>5. MixedIsOneThird' /\ WithinFile'
    BY <1>1, <1>3, <2>1 DEF MixedIsOneThird, WithinFile, round
  <2> QED
    BY <2>2, <2>3, <2>4, <2>5
<1>5. CASE ~(count + 1 >= NumThreads)
  <2>1. count' = count + 1 /\ pc' = [pc EXCEPT ![t] = "asleep"]
    BY <1>5 DEF BarrierArrive
  <2>2. InOrder' /\ NotBeforeTheBarrier' /\ EndsQuietly'
    BY <1>1, <1>q, <1>2, <2>1 DEF InOrder, NotBeforeTheBarrier, round
  <2>3. SleepersCounted'
    <3>1. Sleeping' = Sleeping \cup {t}
      BY <2>1 DEF Sleeping
    <3>2. Cardinality(Sleeping \cup {t}) = Cardinality(Sleeping) + 1
      BY <1>2, SetOfThreads, FS_AddElement DEF Sleeping
    <3> QED
      BY <1>1, <2>1, <3>1, <3>2 DEF SleepersCounted
  <2>4. OthersStartTogether'
    BY <1>1, <2>1 DEF OthersStartTogether, StartTogether
  <2>5. MixedIsOneThird' /\ WithinFile'
    BY <1>1, <2>1 DEF MixedIsOneThird, WithinFile, round
  <2> QED
    BY <2>2, <2>3, <2>4, <2>5
<1> QED
  BY <1>4, <1>5

\* A new thread, or an exception that leaves run_io_test.
LEMMA CreateStep ==
  ASSUME TypeOK, TypeOK', DiskInv, CreateThread \/ (CppAsync /\ platform = "cpp")
  PROVE  DiskInv'
<1> USE DEF TypeOK, DiskInv, mainVars
<1>1. CASE \/ CreateThread /\ UNCHANGED <<pc, made>>
           \/ CppAsync /\ UNCHANGED <<pc, made, i>>
  <2>1. UNCHANGED <<platform, rounds, made, stop_flag, count, threadVars, file>>
    BY <1>1 DEF CreateThread, CppAsync, threadVars
  <2>2. \/ main' = "file" /\ i' = i + 1 /\ main \in {"thread", "async"}
        \/ main = "async" /\ main' = "futures" /\ i' = i /\ faults' > 0 /\ platform = "cpp"
    BY <1>1 DEF CreateThread, CppAsync, Throw, Fault
  <2>3. InOrder'
    BY <2>1, <2>2 DEF InOrder, threadVars, Threads
  <2>4. EndsQuietly'
    <3>1. main' = "futures" => round'.create = "thrown"
      BY <2>1, <2>2 DEF InOrder, round
    <3> QED
      BY <2>1, <2>2, <3>1 DEF EndsQuietly, LeftEarly, InOrder
  <2> QED
    BY <2>1, <2>2, <2>3, <2>4, MainStep
<1>2. ASSUME pc' = [pc EXCEPT ![i] = "open"], made' = made \cup {i}, i' = i + 1, main' = "file"
      PROVE  DiskInv'
  <2>1. i \in Threads /\ i \notin made /\ pc[i] = "unborn" /\ i < NumThreads
    <3>1. main \in {"thread", "async"}
      BY DEF CreateThread, CppAsync
    <3>2. i \in Nat /\ i < NumThreads
      BY <3>1, DiskAssumption DEF DiskAssumption, InOrder
    <3>3. i \in Threads
      BY <3>2, DiskAssumption DEF DiskAssumption, Threads
    <3>4. i \notin made
      BY <3>1, <3>2 DEF InOrder
    <3> QED
      BY <3>2, <3>3, <3>4 DEF InOrder
  <2>2. UNCHANGED <<platform, rounds, count, offset, operations, reads, writes, file>>
    BY DEF CreateThread, CppAsync
  <2>3. InOrder' /\ NotBeforeTheBarrier' /\ EndsQuietly'
    <3>1. NotBeforeTheBarrier' /\ EndsQuietly'
      BY <1>2, <2>1, <2>2 DEF NotBeforeTheBarrier, EndsQuietly
    <3>2. \A t \in made' : t < i'
      <4>1. \A t \in made : t < i
        BY DEF CreateThread, CppAsync, InOrder
      <4>2. \A t \in made \cup {i} : t \in Int /\ i \in Int
        BY <2>1 DEF Threads
      <4> QED
        BY <1>2, <4>1, <4>2
    <3>3. \A t \in Threads : t \in made' \/ pc'[t] = "unborn"
      BY <1>2, <2>1 DEF InOrder
    <3>4. ~stop_flag'
      BY DEF CreateThread, CppAsync, InOrder
    <3> QED
      BY <1>2, <3>1, <3>2, <3>3, <3>4 DEF InOrder
  <2>4. SleepersCounted'
    <3>1. Sleeping' = Sleeping
      BY <1>2, <2>1 DEF Sleeping
    <3> QED
      BY <2>2, <3>1 DEF SleepersCounted
  <2>5. OthersStartTogether'
    BY <1>2, <2>1, <2>2 DEF OthersStartTogether, StartTogether, NotBeforeTheBarrier
  <2>6. MixedIsOneThird' /\ WithinFile'
    BY <1>2, <2>1, <2>2 DEF MixedIsOneThird, WithinFile, round
  <2> QED
    BY <2>3, <2>4, <2>5, <2>6
<1> QED
  BY <1>1, <1>2 DEF CreateThread, CppAsync

LEMMA DiskInvStep == TypeOK /\ TypeOK' /\ DiskInv /\ [Next]_vars => DiskInv'
<1> SUFFICES ASSUME TypeOK, TypeOK', DiskInv, [Next]_vars PROVE DiskInv'
  OBVIOUS
<1>1. CASE CreateFile \/ CppCreateFile
  <2>1. UNCHANGED <<platform, rounds, made, count, threadVars, i>> /\ i < NumThreads
        /\ main = "file" /\ main' \in {"thread", "async"} /\ stop_flag' = stop_flag
        /\ (main' = "async" => round.create = "thrown")
    BY <1>1 DEF CreateFile, CppCreateFile
  <2>2. InOrder' /\ EndsQuietly'
    BY <2>1 DEF DiskInv, InOrder, threadVars, EndsQuietly, round
  <2>3. \A t \in Threads : file'[t] <= file[t] \/ file'[t] <= Blocks
    BY <1>1, DiskAssumption DEF DiskAssumption, CreateFile, CppCreateFile, TypeOK
  <2> QED
    BY <2>1, <2>2, <2>3, MainStep
<1>2. CASE CreateFileFails \/ (platform = "cpp" /\ CppFileThrows)
  <2>1. /\ UNCHANGED <<platform, rounds, made, stop_flag, count, threadVars, i>>
        /\ i < NumThreads /\ main = "file" /\ faults' > 0
        /\ \/ main' = "thread"
           \/ main' = "cleanup" /\ round.create = "checked"
           \/ main' = "futures" /\ round.create = "thrown" /\ platform = "cpp"
    BY <1>2 DEF CreateFileFails, CppFileThrows, Throw, Fault, TypeOK
  <2>2. InOrder'
    BY <2>1 DEF DiskInv, InOrder, threadVars, round
  <2>3. \A t \in Threads : file'[t] <= file[t] \/ file'[t] <= Blocks
    <3>1. PICK length \in {file[i]} \cup 0 .. Blocks - 1 : file' = [file EXCEPT ![i] = length]
      BY <1>2 DEF CreateFileFails, CppFileThrows
    <3> QED
      BY <3>1, DiskAssumption DEF DiskAssumption, TypeOK
  <2>4. EndsQuietly'
    BY <2>1 DEF EndsQuietly, LeftEarly, round, DiskInv, InOrder
  <2> QED
    BY <2>1, <2>2, <2>3, <2>4, MainStep
<1>3. CASE CreateThread \/ (platform = "cpp" /\ CppAsync)
  BY <1>3, CreateStep
<1>4. CASE DurationOver \/ Report
  <2>1. UNCHANGED <<platform, rounds, made, count, threadVars, file>>
    BY <1>4 DEF DurationOver, Report
  <2>2. \/ main' = "join" /\ i' = 0
        \/ main' = "cleanup" /\ main = "join" /\ i = NumThreads /\ i' = i
    BY <1>4 DEF DurationOver, Report
  <2>3. InOrder'
    BY <2>1, <2>2, DiskAssumption
    DEF DiskAssumption, DiskInv, InOrder, threadVars, Threads, round, TypeOK
  <2>4. EndsQuietly'
    <3>1. main' = "cleanup" => \A t \in Threads : pc[t] \in {"unborn", "done"}
      BY <2>2, DiskAssumption DEF DiskAssumption, DiskInv, InOrder, Threads
    <3> QED
      BY <2>1, <2>2, <3>1 DEF EndsQuietly, Home, threadVars
  <2>5. \A t \in Threads : file'[t] <= Blocks
    BY <2>1 DEF DiskInv, WithinFile
  <2> QED
    BY <2>1, <2>2, <2>3, <2>4, <2>5, MainStep
<1>5. CASE Join
  <2>1. /\ UNCHANGED <<platform, rounds, made, count, threadVars, file>>
        /\ main = "join" /\ i < NumThreads /\ (i \in made => pc[i] = "done")
        /\ \/ i' = i + 1 /\ main' = main
           \/ i' = i /\ main' = "crashed"
    BY <1>5 DEF Join
  <2>2. \A t \in Threads : t < i + 1 => t < i \/ t = i
    BY DiskAssumption DEF DiskAssumption, TypeOK, Threads
  <2>3. InOrder' /\ EndsQuietly'
    BY <2>1, <2>2 DEF DiskInv, InOrder, threadVars, EndsQuietly
  <2>4. \A t \in Threads : file'[t] <= Blocks
    BY <2>1 DEF DiskInv, WithinFile
  <2> QED
    BY <2>1, <2>3, <2>4, MainStep
<1>6. CASE Cleanup \/ FuturesDone
  <2>1. /\ UNCHANGED <<platform, rounds, i, made, stop_flag, count, threadVars, faults>>
        /\ \/ main = "cleanup" /\ main' = "free"
           \/ main = "futures" /\ main' = "failed" /\ \A t \in made : pc[t] = "done"
    BY <1>6 DEF Cleanup, FuturesDone
  <2>2. InOrder' /\ EndsQuietly'
    BY <2>1 DEF DiskInv, InOrder, threadVars, EndsQuietly, LeftEarly, Home, round
  <2>3. \A t \in Threads : file'[t] <= Blocks
    BY <1>6, DiskAssumption
    DEF DiskAssumption, Cleanup, FuturesDone, DiskInv, WithinFile, Absent
  <2> QED
    BY <2>1, <2>2, <2>3, MainStep
<1>f. CASE Free
  <2>1. CASE main' = "undefined" /\ UNCHANGED <<rounds, i, made, stop_flag, count, threadVars>>
    <3>1. main = "free" /\ UNCHANGED <<platform, file, faults>>
      BY <1>f DEF Free
    <3>2. InOrder' /\ EndsQuietly'
      BY <2>1, <3>1 DEF DiskInv, InOrder, threadVars, EndsQuietly, LeftEarly, Home, round
    <3>3. \A t \in Threads : file'[t] <= Blocks
      BY <3>1 DEF DiskInv, WithinFile
    <3> QED
      BY <2>1, <3>1, <3>2, <3>3, MainStep
  <2>2. ASSUME main' \in {"exit", "file"}, FreshRound PROVE DiskInv'
    <3>1. /\ made' = {} /\ count' = 0 /\ i' = 0 /\ stop_flag' = FALSE /\ file' = file
          /\ pc' = [t \in Threads |-> "unborn"]
          /\ offset' = [t \in Threads |-> 0] /\ operations' = [t \in Threads |-> 0]
          /\ reads' = [t \in Threads |-> 0] /\ writes' = [t \in Threads |-> 0]
      BY <1>f, <2>2 DEF Free, FreshRound
    <3>2. InOrder' /\ NotBeforeTheBarrier' /\ EndsQuietly' /\ OthersStartTogether'
      BY <2>2, <3>1
      DEF InOrder, NotBeforeTheBarrier, EndsQuietly, Home, OthersStartTogether, StartTogether
    <3>3. SleepersCounted'
      <4>1. Sleeping' = {}
        BY <3>1 DEF Sleeping
      <4> QED
        BY <3>1, <4>1, FS_EmptySet DEF SleepersCounted
    <3>4. MixedIsOneThird' /\ WithinFile'
      BY <3>1, DiskAssumption DEF DiskAssumption, MixedIsOneThird, DiskInv, WithinFile
    <3> QED
      BY <3>2, <3>3, <3>4 DEF DiskInv
  <2> QED
    BY <1>f, <2>1, <2>2 DEF Free
<1>7. ASSUME NEW t \in Threads, Thread(t) \/ SpuriousWake(t) \/ BarrierGone(t) PROVE DiskInv'
  <2>1. CASE Open(t) \/ OpenFails(t) \/ Stops(t)
    <3>1. faults' = faults \/ faults' > 0
      BY <2>1 DEF Open, OpenFails, Stops, Fault, TypeOK
    <3> QED
      BY <2>1, <3>1, ThreadStep DEF Open, OpenFails, Stops
  <2>6. CASE BarrierGone(t)
    <3>1. /\ UNCHANGED <<platform, rounds, i, made, stop_flag, count, threadVars, file, faults>>
          /\ main = "futures" /\ main' = "undefined"
      BY <2>6 DEF BarrierGone
    <3>2. InOrder' /\ EndsQuietly'
      BY <3>1 DEF DiskInv, InOrder, threadVars, EndsQuietly, LeftEarly, Home, round
    <3>3. \A u \in Threads : file'[u] <= Blocks
      BY <3>1 DEF DiskInv, WithinFile
    <3> QED
      BY <3>1, <3>2, <3>3, MainStep
  <2>2. CASE SpuriousWake(t)
    BY <2>2, ThreadStep DEF SpuriousWake
  <2>3. CASE BarrierArrive(t)
    BY <2>3, BarrierStep
  <2>4. CASE Operate(t)
    <3>1. PICK p \in Positions(t), ok \in BOOLEAN :
            /\ offset' = [offset EXCEPT ![t] = NextOffset(p)]
            /\ IF ok
               THEN /\ operations' = [operations EXCEPT ![t] = @ + 1]
                    /\ IF IsWrite(t)
                       THEN /\ writes' = [writes EXCEPT ![t] = @ + 1]
                            /\ file' = [file EXCEPT ![t] = Written(t, p)]
                            /\ UNCHANGED reads
                       ELSE /\ reads' = [reads EXCEPT ![t] = @ + 1]
                            /\ UNCHANGED <<writes, file>>
               ELSE UNCHANGED <<operations, reads, writes, file>>
      BY <2>4 DEF Operate
    <3>2. NextOffset(p) \in 0 .. Blocks - 1
      BY DiskAssumption
      DEF DiskAssumption, Positions, NextOffset, TypeOK, DiskInv, WithinFile
    <3>3. pc[t] = "loop" /\ UNCHANGED <<platform, mainVars, count, pc, faults>>
      BY <2>4 DEF Operate
    <3> QED
      BY <3>1, <3>2, <3>3, WorkStep
  <2>5. CASE CppOperate(t)
    <3>1. PICK p \in Positions(t) :
            /\ offset' = [offset EXCEPT ![t] = CppNextOffset(p)]
            /\ \/ /\ IsWrite(t)
                  /\ writes' = [writes EXCEPT ![t] = @ + 1]
                  /\ file' = [file EXCEPT ![t] = Written(t, p)]
                  /\ operations' = [operations EXCEPT ![t] = @ + 1]
                  /\ UNCHANGED reads
               \/ /\ ~IsWrite(t)
                  /\ reads' = [reads EXCEPT ![t] = @ + 1]
                  /\ operations' = [operations EXCEPT ![t] = @ + 1]
                  /\ UNCHANGED <<writes, file>>
               \/ UNCHANGED <<operations, reads, writes, file>>
      BY <2>5 DEF CppOperate
    <3>2. CppNextOffset(p) \in 0 .. Blocks - 1
      BY DiskAssumption DEF DiskAssumption, Positions, CppNextOffset, TypeOK
    <3>3. pc[t] = "loop" /\ UNCHANGED <<platform, mainVars, count, pc, faults>>
      BY <2>5 DEF CppOperate
    <3> QED
      BY <3>1, <3>2, <3>3, WorkStep
  <2> QED
    BY <1>7, <2>1, <2>2, <2>3, <2>4, <2>5, <2>6 DEF Thread
<1>8. CASE Over \/ UNCHANGED vars
  <2>1. UNCHANGED <<platform, mainVars, count, threadVars, file, faults>>
    BY <1>8 DEF Over, vars
  <2>2. EndsQuietly' /\ InOrder'
    BY <2>1 DEF mainVars, threadVars, DiskInv, EndsQuietly, LeftEarly, Home, InOrder, round
  <2>3. \A t \in Threads : file'[t] <= Blocks
    BY <2>1 DEF DiskInv, WithinFile
  <2> QED
    BY <2>1, <2>2, <2>3, MainStep DEF mainVars
<1> QED
  BY <1>1, <1>2, <1>3, <1>4, <1>5, <1>6, <1>f, <1>7, <1>8 DEF Next, Main, CppMain

\* DiskInv holds in every state of the three programs.
THEOREM DiskInvariant == Spec => []DiskInv
<1>1. Init => DiskInv
  <2> SUFFICES ASSUME Init PROVE DiskInv
    OBVIOUS
  <2> USE DEF Init
  <2>1. InOrder /\ NotBeforeTheBarrier /\ EndsQuietly
    BY DEF InOrder, NotBeforeTheBarrier, EndsQuietly
  <2>2. SleepersCounted
    <3>1. Sleeping = {}
      BY DEF Sleeping
    <3> QED
      BY <3>1, FS_EmptySet DEF SleepersCounted
  <2>3. OthersStartTogether /\ MixedIsOneThird /\ WithinFile
    BY DiskAssumption
    DEF DiskAssumption, OthersStartTogether, StartTogether, MixedIsOneThird, WithinFile, Absent
  <2> QED
    BY <2>1, <2>2, <2>3 DEF DiskInv
<1> QED
  BY <1>1, DiskInvStep, TypeCorrect, PTL DEF Spec

\* "Wait for all threads to be ready" (line 236 of the C program) and the
\* arrive_and_wait of the C++ program: nobody works before all threads of the
\* round are there, whichever calls fail.
THEOREM TheyStartTogether == Spec => []OthersStartTogether
<1>1. DiskInv => OthersStartTogether
  BY DEF DiskInv
<1> QED
  BY <1>1, DiskInvariant, PTL

-----------------------------------------------------------------------------
(* The barrier implements AbstractBarrier *)

Waiting == {t \in Threads : platform # "apple" /\ pc[t] = "asleep"}
Working == {t \in Threads : platform # "apple" /\ pc[t] = "loop"}

\* The barrier of the system and of the C++ library; nothing is said of the
\* shim, whose waits may end by themselves.
Barrier == INSTANCE AbstractBarrier
           WITH Parties <- Threads, waiting <- Waiting, working <- Working

\* Steps that neither put a thread to sleep nor begin or end its work.
LEMMA NotAtTheBarrier ==
  ASSUME UNCHANGED platform,
         \A t \in Threads : \/ pc'[t] = pc[t]
                            \/ platform = "apple"
                            \/ {pc[t], pc'[t]} \cap {"asleep", "loop"} = {}
  PROVE  UNCHANGED Barrier!barrierVars
BY DEF Barrier!barrierVars, Waiting, Working

LEMMA CreationIsBefore ==
  ASSUME TypeOK, DiskInv, CreateThread \/ CppAsync
  PROVE  UNCHANGED Barrier!barrierVars
<1>1. platform' = platform /\ main \in {"thread", "async"}
      /\ (pc' = pc \/ pc' = [pc EXCEPT ![i] = "open"])
  BY DEF CreateThread, CppAsync
<1>2. \A t \in Threads : t = i => pc[t] = "unborn"
  BY <1>1 DEF DiskInv, InOrder, Threads
<1>3. \A t \in Threads : pc'[t] = pc[t] \/ (pc[t] = "unborn" /\ pc'[t] = "open")
  BY <1>1, <1>2 DEF TypeOK
<1> QED
  BY <1>1, <1>3, NotAtTheBarrier

LEMMA ArrivalIsOne ==
  ASSUME TypeOK, DiskInv, NEW t \in Threads, BarrierArrive(t), platform # "apple"
  PROVE  Barrier!Arrive(t) \/ Barrier!Release(t)
<1>1. pc[t] = "barrier" /\ platform' = platform
  BY DEF BarrierArrive
<1>2. Working = {} /\ Waiting = Sleeping /\ t \notin Waiting
  BY <1>1 DEF DiskInv, OthersStartTogether, StartTogether, Working, Waiting, Sleeping
<1>3. count + 1 >= NumThreads <=> Waiting \cup {t} = Threads
  BY <1>1, <1>2, LastToArrive DEF DiskInv
<1>4. Barrier!Comes(t)
  BY <1>2 DEF Barrier!Comes
<1>5. CASE count + 1 >= NumThreads
  <2>1. pc' = [u \in Threads |-> IF u = t \/ pc[u] = "asleep" THEN "loop" ELSE pc[u]]
    BY <1>5 DEF BarrierArrive
  <2>2. \A u \in Threads : u = t \/ pc[u] = "asleep"
    BY <1>2, <1>3, <1>5 DEF Sleeping
  <2>3. \A u \in Threads : pc'[u] = "loop"
    BY <2>1, <2>2
  <2>4. Waiting' = {} /\ Working' = Threads
    BY <1>1, <2>3 DEF Waiting, Working
  <2> QED
    BY <1>3, <1>4, <1>5, <2>4 DEF Barrier!Release
<1>6. CASE ~(count + 1 >= NumThreads)
  <2>1. pc' = [pc EXCEPT ![t] = "asleep"]
    BY <1>6 DEF BarrierArrive
  <2>2. Waiting' = Waiting \cup {t} /\ Working' = Working
    BY <1>1, <2>1 DEF TypeOK, Waiting, Working
  <2> QED
    BY <1>3, <1>4, <1>6, <2>2 DEF Barrier!Arrive
<1> QED
  BY <1>5, <1>6

LEMMA BarrierSimulated ==
  TypeOK /\ DiskInv /\ [Next]_vars => [Barrier!Next]_Barrier!barrierVars
<1> SUFFICES ASSUME TypeOK, DiskInv, [Next]_vars
             PROVE  Barrier!Next \/ UNCHANGED Barrier!barrierVars
  OBVIOUS
<1>1. CASE \/ CreateFile \/ CreateFileFails \/ CppCreateFile \/ CppFileThrows
           \/ DurationOver \/ Join \/ Report \/ Cleanup \/ FuturesDone \/ Over
           \/ UNCHANGED vars
  <2>1. UNCHANGED <<platform, pc>>
    BY <1>1 DEF CreateFile, CreateFileFails, CppCreateFile, CppFileThrows, DurationOver,
                Join, Report, Cleanup, FuturesDone, Over, vars, threadVars
  <2> QED
    BY <2>1, NotAtTheBarrier
<1>2. CASE CreateThread \/ CppAsync
  BY <1>2, CreationIsBefore
<1>3. CASE Free
  <2>1. /\ platform' = platform
        /\ \/ pc' = pc
           \/ /\ \A t \in Threads : pc[t] \in {"unborn", "done"}
              /\ pc' = [t \in Threads |-> "unborn"]
    BY <1>3 DEF Free, FreshRound, threadVars, Home
  <2> QED
    BY <2>1, NotAtTheBarrier
<1>4. ASSUME NEW t \in Threads, Thread(t) \/ SpuriousWake(t) \/ BarrierGone(t)
      PROVE  Barrier!Next \/ UNCHANGED Barrier!barrierVars
  <2>1. CASE Open(t) \/ OpenFails(t) \/ SpuriousWake(t)
    BY <2>1, NotAtTheBarrier DEF Open, OpenFails, SpuriousWake, Goto, TypeOK
  <2>2. CASE BarrierArrive(t)
    <3>1. CASE platform = "apple"
      BY <2>2, <3>1, NotAtTheBarrier DEF BarrierArrive
    <3> QED
      BY <2>2, <3>1, ArrivalIsOne DEF Barrier!Next
  <2>3. CASE Stops(t)
    <3>1. platform' = platform /\ pc[t] = "loop" /\ pc' = [pc EXCEPT ![t] = "done"]
      BY <2>3 DEF Stops, Goto
    <3>2. CASE platform = "apple"
      BY <3>1, <3>2, NotAtTheBarrier
    <3>3. CASE platform # "apple"
      <4>1. t \in Working /\ Working' = Working \ {t} /\ Waiting' = Waiting
        BY <3>1, <3>3 DEF TypeOK, Working, Waiting
      <4> QED
        BY <4>1 DEF Barrier!Next, Barrier!Leave
    <3> QED
      BY <3>2, <3>3
  <2>4. CASE Operate(t) \/ CppOperate(t) \/ BarrierGone(t)
    <3>1. UNCHANGED <<platform, pc>>
      BY <2>4 DEF Operate, CppOperate, BarrierGone, threadVars
    <3> QED
      BY <3>1, NotAtTheBarrier
  <2> QED
    BY <1>4, <2>1, <2>2, <2>3, <2>4 DEF Thread
<1> QED
  BY <1>1, <1>2, <1>3, <1>4 DEF Next, Main, CppMain

\* pthread_barrier_wait (line 237 of disk_io_analyzer.c) and the
\* arrive_and_wait of disk_io_analyzer_cpp.cpp give what a barrier promises,
\* round after round and whichever calls fail: the threads go to work all at
\* once, and nobody comes to the next meeting while one of them is at work.
THEOREM BarrierImplemented == Spec => Barrier!Spec
<1>1. Init => Barrier!Init
  BY DEF Init, Barrier!Init, Waiting, Working
<1> QED
  BY <1>1, BarrierSimulated, TypeCorrect, DiskInvariant, PTL DEF Spec, Barrier!Spec

\* The mixed pattern of disk_io_analyzer.c is a third of writes, after however
\* many operations, failed ones included.
THEOREM OneThirdIsWritten == Spec => []MixedIsOneThird
<1>1. DiskInv => MixedIsOneThird
  BY DEF DiskInv
<1> QED
  BY <1>1, DiskInvariant, PTL

\* The files keep the size they were created with, and every thread's offset
\* stays within them, although it moves when an operation fails as well.
THEOREM OffsetsStayWithin == Spec => []WithinFile
<1>1. DiskInv => WithinFile
  BY DEF DiskInv
<1> QED
  BY <1>1, DiskInvariant, PTL

\* Main removes files, destroys the barrier and frees the statistics when all
\* threads of the round have ended, or else has left the round early: a file or
\* a thread could not be had (line 490, and lines 313 and 316 of the C++
\* program), the threads of lower indexes are then under way, and none of them
\* is past the barrier of the system or library.  No run ends, failed or not,
\* before all of its threads.
THEOREM ThreadsEndFirstOrLeftEarly == Spec => []JoinedOrLeftEarly
<1>1. TypeOK /\ DiskInv => JoinedOrLeftEarly
  <2> SUFFICES ASSUME TypeOK, DiskInv, main \in {"cleanup", "free", "futures", "undefined"},
                      NEW t \in Threads, ~Home(t)
               PROVE  LeftEarly /\ t < i /\ (pc[t] = "loop" => platform = "apple")
    BY DEF JoinedOrLeftEarly, DiskInv, EndsQuietly
  <2>1. LeftEarly /\ t \in made
    BY DEF DiskInv, EndsQuietly, InOrder, Home
  <2>2. t < i
    BY <2>1 DEF DiskInv, InOrder
  <2>3. i \in Threads /\ i \notin made
    <3>1. i \in Nat /\ i < NumThreads /\ ~(i < i)
      BY <2>1, DiskAssumption DEF DiskAssumption, LeftEarly, TypeOK
    <3> QED
      BY <3>1, DiskAssumption DEF DiskAssumption, Threads, DiskInv, InOrder
  <2> QED
    BY <2>1, <2>2, <2>3 DEF DiskInv, OthersStartTogether, StartTogether
<1> QED
  BY <1>1, DiskInvariant, TypeCorrect, PTL

-----------------------------------------------------------------------------
(* The files *)

PatternNames == {"seq_read", "seq_write", "random_read", "random_write", "mixed", "sync"}
CreateWays   == {"checked", "ignored", "none", "thrown"}
AnyRound == {Round(p, c, u) : p \in PatternNames, c \in CreateWays, u \in BOOLEAN}

\* A round that creates no files finds those of the round before.
FindsFiles(s) ==
  \A k \in 1 .. Len(s) - 1 : s[k + 1].create = "none" => s[k].unlink = FALSE

\* Rounds still to do, of which the last removes the files, and whole tests.
Remaining == {s \in Seq(AnyRound) : s # <<>> /\ s[Len(s)].unlink = TRUE /\ FindsFiles(s)}
Removing  == {s \in Remaining : s[1].create # "none"}

\* A round that makes its files and removes them.
Plain(r) == r \in AnyRound /\ r.unlink = TRUE /\ r.create # "none"

LEMMA RoundIsOne ==
  ASSUME NEW p \in PatternNames, NEW c \in CreateWays
  PROVE  /\ \A u \in BOOLEAN : Round(p, c, u) \in AnyRound /\ Round(p, c, u).unlink = u
         /\ c # "none" => Plain(Round(p, c, TRUE))
<1>1. \A u \in BOOLEAN : Round(p, c, u) \in AnyRound /\ Round(p, c, u).unlink = u
  BY DEF AnyRound, Round
<1>2. Round(p, c, TRUE).create = c
  BY DEF Round
<1> QED
  BY <1>1, <1>2 DEF Plain

\* A row of rounds each of which makes and removes its files.
LEMMA MadeOfRounds ==
  ASSUME NEW n \in Nat \ {0}, NEW s, s = [m \in 1..n |-> s[m]],
         \A m \in 1..n : Plain(s[m])
  PROVE  s \in Removing
<1>1. s \in [1..n -> AnyRound]
  BY Zenon DEF Plain
<1>2. s \in Seq(AnyRound)
  BY <1>1, SeqDef
<1>3. Len(s) = n
  BY <1>1, <1>2, LenProperties
<1>4. s # <<>> /\ s[Len(s)].unlink = TRUE /\ s[1].create # "none"
  BY <1>2, <1>3, EmptySeq DEF Plain
<1>5. FindsFiles(s)
  <2>1. \A k \in 1 .. n - 1 : k + 1 \in 1 .. n
    OBVIOUS
  <2> QED
    BY <1>3, <2>1 DEF FindsFiles, Plain
<1> QED
  BY <1>2, <1>4, <1>5 DEF Removing, Remaining

LEMMA OneOrTwoRounds ==
  ASSUME NEW r \in AnyRound, r.create # "none", NEW last \in AnyRound, last.unlink = TRUE
  PROVE  /\ last.create # "none" => <<last>> \in Removing
         /\ r.unlink = FALSE => <<r, last>> \in Removing
<1>1. <<last>> \in Seq(AnyRound) /\ Len(<<last>>) = 1 /\ <<last>>[1] = last
  OBVIOUS
<1>2. /\ <<r, last>> \in Seq(AnyRound) /\ Len(<<r, last>>) = 2
      /\ <<r, last>>[1] = r /\ <<r, last>>[2] = last
  OBVIOUS
<1> DEFINE one == <<last>>
           two == <<r, last>>
<1>3. /\ one # <<>> /\ one[Len(one)].unlink = TRUE /\ FindsFiles(one)
      /\ two # <<>> /\ two[Len(two)].unlink = TRUE
  BY <1>1, <1>2 DEF FindsFiles
<1>4. r.unlink = FALSE => FindsFiles(two)
  <2>1. \A k \in 1 .. 2 - 1 : k = 1
    OBVIOUS
  <2> QED
    BY <1>2, <2>1 DEF FindsFiles
<1> QED
  BY <1>1, <1>2, <1>3, <1>4 DEF Removing, Remaining

LEMMA RemovingConcat ==
  ASSUME NEW s \in Removing, NEW t \in Removing
  PROVE  s \o t \in Removing
<1>1. /\ s \in Seq(AnyRound) /\ s # <<>> /\ s[1].create # "none" /\ FindsFiles(s)
      /\ t \in Seq(AnyRound) /\ t # <<>> /\ t[1].create # "none" /\ FindsFiles(t)
      /\ t[Len(t)].unlink = TRUE
  BY DEF Removing, Remaining
<1> HIDE DEF AnyRound
<1>2. s \o t \in Seq(AnyRound) /\ s \o t # <<>> /\ (s \o t)[Len(s \o t)] = t[Len(t)]
  BY <1>1
<1>3. (s \o t)[1] = s[1]
  BY <1>1
<1>4. FindsFiles(s \o t)
  <2> SUFFICES ASSUME NEW k \in 1 .. Len(s \o t) - 1, (s \o t)[k + 1].create = "none"
               PROVE  (s \o t)[k].unlink = FALSE
    BY DEF FindsFiles
  <2>1. /\ Len(s) \in Nat \ {0} /\ Len(t) \in Nat \ {0} /\ Len(s \o t) = Len(s) + Len(t)
        /\ \A j \in 1 .. Len(s) + Len(t) :
             (s \o t)[j] = IF j <= Len(s) THEN s[j] ELSE t[j - Len(s)]
    BY <1>1
  <2>2. CASE k < Len(s)
    <3>1. k \in 1 .. Len(s) - 1 /\ (s \o t)[k] = s[k] /\ (s \o t)[k + 1] = s[k + 1]
      BY <2>1, <2>2
    <3> QED
      BY <1>1, <3>1 DEF FindsFiles
  <2>3. CASE k = Len(s)
    <3>1. (s \o t)[k + 1] = t[1]
      BY <2>1, <2>3
    <3> QED
      BY <1>1, <3>1
  <2>4. CASE k > Len(s)
    <3> DEFINE j == k - Len(s)
    <3>1. j \in 1 .. Len(t) - 1 /\ (s \o t)[k] = t[j] /\ (s \o t)[k + 1] = t[j + 1]
      BY <2>1, <2>4
    <3> HIDE DEF j
    <3> QED
      BY <1>1, <3>1 DEF FindsFiles
  <2>5. k < Len(s) \/ k = Len(s) \/ k > Len(s)
    BY <2>1
  <2> QED
    BY <2>2, <2>3, <2>4, <2>5, Zenon
<1> QED
  BY <1>1, <1>2, <1>3, <1>4 DEF Removing, Remaining

\* Every test has rounds, and the last of them removes its files.
LEMMA TestsRemove ==
  ASSUME NEW test \in {"pattern", "block", "sync", "modes", "all"}
  PROVE  RoundsOf(test) \in Removing /\ CppRoundsOf(test) \in Removing
<1>1. /\ \A p \in 1..5 : Patterns[p] \in PatternNames
      /\ DOMAIN Patterns = 1..5
  BY DEF Patterns, PatternNames
<1>2. /\ \A p \in PatternNames : Plain(Round(p, "thrown", TRUE))
      /\ \A p \in PatternNames : Plain(Round(p, "checked", TRUE))
      /\ \A p \in PatternNames : Plain(Round(p, "ignored", TRUE))
      /\ Round("seq_read", "ignored", FALSE) \in AnyRound
      /\ Round("seq_read", "ignored", FALSE).unlink = FALSE
      /\ Round("seq_write", "none", TRUE) \in AnyRound
      /\ Round("seq_write", "none", TRUE).unlink = TRUE
  BY RoundIsOne DEF CreateWays, PatternNames
<1>3. {"seq_read", "seq_write", "mixed", "sync"} \subseteq PatternNames
  BY DEF PatternNames
<1>4. PatternRounds \in Removing
  <2>1. ASSUME NEW m \in 1..5
        PROVE  Plain(PatternRounds[m])
    BY <1>1, <1>2 DEF PatternRounds
  <2>2. PatternRounds = [m \in 1..5 |-> PatternRounds[m]]
    BY <1>1 DEF PatternRounds
  <2> HIDE DEF PatternRounds
  <2> QED
    BY <2>1, <2>2, MadeOfRounds, 5 \in Nat \ {0}
<1>5. BlockRounds \in Removing
  <2>1. Round("seq_read", "ignored", FALSE).create # "none"
    BY DEF Round
  <2> QED
    BY <1>2, <2>1, OneOrTwoRounds DEF BlockRounds
<1>6. SyncRounds \in Removing
  BY <1>2, <1>3, OneOrTwoRounds DEF SyncRounds, Plain
<1>7. ModeRounds \in Removing
  <2>1. ASSUME NEW m \in 1..3
        PROVE  Plain(ModeRounds[m])
    BY <1>2, <1>3 DEF ModeRounds
  <2>2. ModeRounds = [m \in 1..3 |-> ModeRounds[m]]
    BY <1>1 DEF ModeRounds
  <2> HIDE DEF ModeRounds
  <2> QED
    BY <2>1, <2>2, MadeOfRounds, 3 \in Nat \ {0}
<1>8. CppPattern \in Removing
  <2>1. ASSUME NEW m \in 1..5
        PROVE  Plain(CppPattern[m])
    BY <1>1, <1>2 DEF CppPattern, CppRounds
  <2>2. CppPattern = [m \in 1..5 |-> CppPattern[m]]
    BY <1>1 DEF CppPattern, CppRounds
  <2> HIDE DEF CppPattern, CppRounds
  <2> QED
    BY <2>1, <2>2, MadeOfRounds, 5 \in Nat \ {0}
<1>9. ASSUME NEW p \in PatternNames, NEW q \in PatternNames
      PROVE  CppRounds(<<p, q>>) \in Removing
  <2> DEFINE pair == <<p, q>>
             built == CppRounds(pair)
  <2>1. DOMAIN pair = 1..2 /\ \A m \in 1..2 : pair[m] \in PatternNames
    OBVIOUS
  <2> HIDE DEF pair
  <2>2. built = [m \in 1..2 |-> Round(pair[m], "thrown", TRUE)]
    BY <2>1 DEF CppRounds
  <2>3. ASSUME NEW m \in 1..2 PROVE Plain(built[m])
    BY <1>2, <2>1, <2>2
  <2>4. built = [m \in 1..2 |-> built[m]]
    BY <2>2
  <2> HIDE DEF built
  <2>5. built \in Removing
    BY <2>3, <2>4, MadeOfRounds, 2 \in Nat \ {0}
  <2> QED
    BY <2>5 DEF built, pair
<1>10. CppBlock \in Removing /\ CppSync \in Removing
  BY <1>3, <1>9 DEF CppBlock, CppSync
<1>11. CppModes \in Removing
  <2> DEFINE modes == <<"mixed", "mixed", "mixed">>
  <2>1. DOMAIN modes = 1..3 /\ \A m \in 1..3 : modes[m] \in PatternNames
    BY <1>3
  <2> HIDE DEF modes
  <2>2. CppModes = [m \in 1..3 |-> Round(modes[m], "thrown", TRUE)]
    BY <2>1 DEF CppModes, CppRounds, modes
  <2>3. ASSUME NEW m \in 1..3 PROVE Plain(CppModes[m])
    BY <1>2, <2>1, <2>2
  <2>4. CppModes = [m \in 1..3 |-> CppModes[m]]
    BY <2>2
  <2> QED
    BY <2>3, <2>4, MadeOfRounds, 3 \in Nat \ {0}
<1>12. PatternRounds \o BlockRounds \o SyncRounds \o ModeRounds \in Removing
  BY <1>4, <1>5, <1>6, <1>7, RemovingConcat
<1>13. CppPattern \o CppBlock \o CppSync \o CppModes \in Removing
  BY <1>8, <1>10, <1>11, RemovingConcat
<1> QED
  BY <1>4, <1>5, <1>6, <1>7, <1>8, <1>10, <1>11, <1>12, <1>13 DEF RoundsOf, CppRoundsOf

\* One round less.
LEMMA TailRemoves ==
  ASSUME NEW s \in Remaining
  PROVE  /\ Tail(s) # <<>> => Tail(s) \in Remaining /\ (Tail(s)[1].create = "none" => Head(s).unlink = FALSE)
         /\ Tail(s) = <<>> => Head(s).unlink = TRUE
<1>1. s \in Seq(AnyRound) /\ s # <<>> /\ s[Len(s)].unlink = TRUE /\ FindsFiles(s)
  BY DEF Remaining
<1>2. /\ Tail(s) \in Seq(AnyRound) /\ Len(Tail(s)) = Len(s) - 1
      /\ \A j \in 1 .. Len(Tail(s)) : Tail(s)[j] = s[j + 1]
  BY <1>1, HeadTailProperties
<1>3. Len(s) \in Nat \ {0}
  BY <1>1, EmptySeq
<1>4. ASSUME Tail(s) # <<>> PROVE Tail(s)[Len(Tail(s))] = s[Len(s)]
  <2>1. Len(Tail(s)) \in Nat \ {0}
    BY <1>2, <1>4, EmptySeq
  <2> QED
    BY <1>2, <1>3, <2>1
<1>5. ASSUME Tail(s) = <<>> PROVE Head(s) = s[Len(s)]
  <2>1. Len(Tail(s)) = 0
    BY <1>2, <1>5, EmptySeq
  <2>2. Len(s) = 1
    <3>1. Len(s) - 1 = 0
      BY <1>2, <2>1
    <3> QED
      BY <1>3, <3>1
  <2> QED
    BY <1>1, <2>2
<1>6. FindsFiles(Tail(s))
  <2> SUFFICES ASSUME NEW k \in 1 .. Len(Tail(s)) - 1, Tail(s)[k + 1].create = "none"
               PROVE  Tail(s)[k].unlink = FALSE
    BY DEF FindsFiles
  <2>1. /\ k + 1 \in 1 .. Len(s) - 1 /\ k \in 1 .. Len(Tail(s))
        /\ k + 1 \in 1 .. Len(Tail(s))
    BY <1>2, <1>3
  <2>2. Tail(s)[k] = s[k + 1] /\ Tail(s)[k + 1] = s[(k + 1) + 1]
    BY <1>2, <2>1
  <2> QED
    BY <1>1, <2>1, <2>2 DEF FindsFiles
<1>7. ASSUME Tail(s) # <<>>, Tail(s)[1].create = "none" PROVE Head(s).unlink = FALSE
  <2>1. 1 \in 1 .. Len(Tail(s)) /\ 1 \in 1 .. Len(s) - 1
    BY <1>2, <1>3, <1>7, EmptySeq
  <2>2. Tail(s)[1] = s[1 + 1] /\ Head(s) = s[1]
    BY <1>1, <1>2, <2>1
  <2> QED
    BY <1>1, <1>7, <2>1, <2>2 DEF FindsFiles
<1> QED
  BY <1>1, <1>2, <1>4, <1>5, <1>6, <1>7 DEF Remaining

\* While there is a round to do, the last one removes the files.
LastRemoves ==
  /\ main # "exit" => rounds \in Remaining
  /\ main = "free" /\ round.unlink => \A t \in Threads : file[t] = Absent
  /\ NoFileLeft

LEMMA TheLastRemoves == Spec => []LastRemoves
<1>1. Init => LastRemoves
  <2> SUFFICES ASSUME Init PROVE LastRemoves
    OBVIOUS
  <2>1. rounds \in Remaining
    <3>1. rounds \in Removing
      BY DiskAssumption, TestsRemove DEF DiskAssumption, Init
    <3> QED
      BY <3>1 DEF Removing
  <2> QED
    BY <2>1 DEF Init, LastRemoves, NoFileLeft, Home
<1>2. TypeOK /\ DiskInv /\ LastRemoves /\ [Next]_vars => LastRemoves'
  <2> SUFFICES ASSUME TypeOK, DiskInv, LastRemoves, [Next]_vars PROVE LastRemoves'
    OBVIOUS
  <2> DEFINE Creating == {"file", "thread", "async", "join"}
  <2>1. CASE Cleanup
    <3>1. /\ main = "cleanup" /\ main' = "free" /\ UNCHANGED <<platform, rounds>>
          /\ file' = [t \in Threads |-> IF round.unlink THEN Absent ELSE file[t]]
      BY <2>1 DEF Cleanup
    <3> QED
      BY <3>1 DEF LastRemoves, NoFileLeft, round
  <2>2. CASE Free
    <3>1. CASE main' = "undefined"
      <4>1. main = "free" /\ UNCHANGED <<platform, rounds, file>>
        BY <2>2, <3>1 DEF Free
      <4> QED
        BY <3>1, <4>1 DEF LastRemoves, NoFileLeft, round
    <3>2. CASE main' # "undefined"
      <4>1. /\ main = "free" /\ rounds' = Tail(rounds) /\ file' = file
            /\ main' = IF Tail(rounds) = <<>> THEN "exit" ELSE "file"
            /\ \A t \in Threads : pc'[t] = "unborn"
        BY <2>2, <3>2 DEF Free, FreshRound
      <4>2. /\ main' # "exit" => rounds' \in Remaining
            /\ main' = "exit" => \A t \in Threads : file[t] = Absent
        BY <4>1, TailRemoves DEF LastRemoves, round
      <4> QED
        BY <4>1, <4>2 DEF LastRemoves, NoFileLeft, Home
    <3> QED
      BY <3>1, <3>2
  <2>3. ASSUME rounds' = rounds, platform' = platform,
               main # "exit" /\ main' \notin {"exit", "free"},
               main' = "undefined" => platform = "cpp",
               main' \in Creating => main \in Creating,
               \A t \in Threads : file'[t] # Absent \/ file'[t] = file[t],
               \A t \in Threads : ~Home(t)' /\ pc'[t] # "open" => ~Home(t) /\ pc[t] # "open"
        PROVE  LastRemoves'
    BY <2>3 DEF LastRemoves, NoFileLeft
  <2>4. CASE CreateFile \/ CreateFileFails \/ DurationOver \/ Join \/ Report
    <3>1. /\ UNCHANGED <<rounds, platform, pc>> /\ main # "exit"
          /\ main' \notin {"exit", "free", "undefined"} /\ main \in Creating
      BY <2>4 DEF CreateFile, CreateFileFails, DurationOver, Join, Report, threadVars
    <3>2. \A t \in Threads : file'[t] # Absent \/ file'[t] = file[t]
      BY <2>4, DiskAssumption
      DEF DiskAssumption, CreateFile, CreateFileFails, DurationOver, Join, Report, TypeOK, Absent
    <3> QED
      BY <2>3, <3>1, <3>2 DEF Home
  <2>5. CASE CreateThread \/ CppAsync
    <3>1. /\ UNCHANGED <<rounds, platform, file>> /\ main \in {"thread", "async"}
          /\ main' \in {"file", "futures"} /\ (pc' = pc \/ pc' = [pc EXCEPT ![i] = "open"])
      BY <2>5 DEF CreateThread, CppAsync, Throw
    <3>2. \A t \in Threads : pc'[t] = pc[t] \/ pc'[t] = "open"
      BY <3>1 DEF TypeOK
    <3> QED
      BY <2>3, <3>1, <3>2 DEF Home
  <2>6. CASE platform = "cpp" /\ (CppCreateFile \/ CppFileThrows \/ FuturesDone)
    <3>1. /\ UNCHANGED <<rounds, platform, pc>> /\ main \in {"file", "futures"}
          /\ main' \in {"async", "futures", "failed"} /\ (main = "futures" => main' = "failed")
      BY <2>6 DEF CppCreateFile, CppFileThrows, FuturesDone, Throw, threadVars
    <3>2. \A t \in Threads : file'[t] # Absent \/ file'[t] = file[t]
      BY <2>6, DiskAssumption
      DEF DiskAssumption, CppCreateFile, CppFileThrows, FuturesDone, TypeOK, Absent
    <3> QED
      BY <2>3, <3>1, <3>2 DEF Home
  <2>7. ASSUME NEW t \in Threads, BarrierGone(t) PROVE LastRemoves'
    <3>1. /\ UNCHANGED <<rounds, platform, pc, file>> /\ main = "futures"
          /\ main' = "undefined" /\ platform = "cpp"
      BY <2>7 DEF BarrierGone, threadVars, DiskInv, EndsQuietly
    <3> QED
      BY <2>3, <3>1 DEF Home
  <2>8. ASSUME NEW t \in Threads, Thread(t) \/ SpuriousWake(t) PROVE LastRemoves'
    <3>1. /\ UNCHANGED <<platform, rounds, main>> /\ ~Home(t) /\ main # "undefined"
      BY <2>8 DEF Thread, SpuriousWake, Open, OpenFails, BarrierArrive, Stops, Operate,
                  CppOperate, mainVars, Goto, Running, BarrierStands, Home
    <3>2. main # "exit"
      BY <3>1 DEF DiskInv, EndsQuietly
    <3>3. ASSUME NEW u \in Threads
          PROVE  /\ file'[u] = file[u] \/ (file[u] # Absent /\ file'[u] # Absent)
                 /\ ~Home(u)' /\ pc'[u] # "open" =>
                      (~Home(u) /\ pc[u] # "open") \/ file'[u] # Absent
      <4>1. CASE Operate(t) \/ CppOperate(t)
        <5>1. pc' = pc /\ \E p \in Positions(t) :
                file' = file \/ file' = [file EXCEPT ![t] = Written(t, p)]
          BY <4>1 DEF Operate, CppOperate
        <5>2. \A p \in Positions(t) : /\ Written(t, p) = Absent <=> file[t] = Absent
          BY DiskAssumption DEF DiskAssumption, Positions, TypeOK, Absent, Written
        <5> QED
          BY <5>1, <5>2 DEF TypeOK, Home
      <4>2. CASE Open(t) \/ OpenFails(t) \/ SpuriousWake(t) \/ Stops(t)
        BY <4>2 DEF Open, OpenFails, SpuriousWake, Stops, Goto, Home, TypeOK
      <4>3. CASE BarrierArrive(t)
        BY <4>3 DEF BarrierArrive, Home, TypeOK
      <4> QED
        BY <2>8, <4>1, <4>2, <4>3 DEF Thread
    <3> QED
      BY <3>1, <3>2, <3>3 DEF LastRemoves, NoFileLeft, round
  <2>9. CASE Over \/ UNCHANGED vars
    <3>1. UNCHANGED <<platform, rounds, main, pc, file>>
      BY <2>9 DEF Over, vars, mainVars, threadVars
    <3> QED
      BY <3>1 DEF LastRemoves, NoFileLeft, Home, round
  <2> QED
    BY <2>1, <2>2, <2>4, <2>5, <2>6, <2>7, <2>8, <2>9 DEF Next, Main, CppMain
<1> QED
  BY <1>1, <1>2, DiskInvariant, TypeCorrect, PTL DEF Spec

\* A program that returns from its tests leaves no test file behind: the last
\* round of each test removes its own and those that the round before has left.
\* The C program removes them also from under threads it has not joined, and
\* only there can a thread lose the file it has open.
THEOREM FilesAreRemoved == Spec => []NoFileLeft
<1>1. LastRemoves => NoFileLeft
  BY DEF LastRemoves
<1> QED
  BY <1>1, TheLastRemoves, PTL

-----------------------------------------------------------------------------
(* Nobody waits for ever where nothing fails *)

\* Who has come to the barrier.
Arrived == {t \in Threads : pc[t] \in {"asleep", "loop", "done"}}

\* Main has made the threads it has passed, and joins them when all are told to stop.
AllCreated ==
  /\ main \in {"file", "thread", "async"} => \A t \in Threads : t < i => t \in made
  /\ main \in {"join", "cleanup", "free"} => made = Threads
  /\ \A t \in made : pc[t] # "unborn"
  /\ main = "join" => stop_flag

\* The file is there when a thread is made to open it.
FilesThere ==
  /\ main \notin {"free", "undefined"} => \A t \in made : file[t] # Absent
  /\ main = "free" /\ ~round.unlink => \A t \in Threads : file[t] # Absent
  /\ main \in {"thread", "async"} => file[i] # Absent
  /\ main \in {"file", "thread", "async"} /\ round.create = "none" =>
       \A t \in Threads : file[t] # Absent

\* The barrier counts all who come to it, also those whose wait has ended by
\* itself, until they are all.
ArrivalsCounted ==
  \/ Arrived = Threads /\ count = 0 /\ \A t \in Threads : pc[t] # "asleep"
  \/ count = Cardinality(Arrived) /\ Arrived # Threads

\* As long as nothing has failed.
GoesWell == faults = 0 => AllCreated /\ FilesThere /\ ArrivalsCounted

LEMMA ArrivedAre ==
  ASSUME TypeOK, ArrivalsCounted
  PROVE  Arrived # Threads => count = Cardinality(Arrived) /\ count < NumThreads
<1>1. Arrived \in SUBSET Threads
  BY DEF Arrived
<1> QED
  BY <1>1, SetOfThreads, DiskAssumption DEF DiskAssumption, ArrivalsCounted

\* A step of main that makes no thread.
LEMMA MainGoesWell ==
  ASSUME GoesWell, faults = 0,
         UNCHANGED <<made, pc, count>>, \A t \in Threads : file'[t] = file[t] \/ file'[t] # Absent,
         made \subseteq Threads, AllCreated',
         main' \in {"thread", "async"} => file'[i'] # Absent,
         main' \in {"file", "thread", "async"} =>
           main \in {"file", "thread", "async"} /\ round' = round,
         main' \notin {"free", "undefined"} => main \notin {"free", "undefined"},
         main' = "free" /\ ~round'.unlink => \A t \in Threads : file'[t] # Absent
  PROVE  AllCreated' /\ FilesThere' /\ ArrivalsCounted'
<1>1. Arrived' = Arrived
  BY DEF Arrived
<1>2. ArrivalsCounted'
  BY <1>1 DEF GoesWell, ArrivalsCounted
<1>3. FilesThere'
  BY DEF GoesWell, FilesThere
<1> QED
  BY <1>2, <1>3

\* A step of a thread that has opened its file or is past the barrier.
LEMMA ThreadGoesWell ==
  ASSUME GoesWell, faults = 0, UNCHANGED <<mainVars, count>>,
         \A t \in Threads : file'[t] = file[t] \/ file'[t] # Absent,
         made \subseteq Threads, main \in {"thread", "async"} => i \in Threads,
         Arrived' = Arrived,
         \A t \in Threads : /\ pc'[t] = "unborn" => pc[t] = "unborn"
                            /\ pc'[t] = "asleep" => pc[t] = "asleep"
  PROVE  AllCreated' /\ FilesThere' /\ ArrivalsCounted'
<1>1. AllCreated'
  BY DEF GoesWell, AllCreated, mainVars
<1>2. FilesThere'
  <2>1. /\ main' \notin {"free", "undefined"} => \A t \in made' : file'[t] # Absent
        /\ main' = "free" /\ ~round'.unlink => \A t \in Threads : file'[t] # Absent
    BY DEF GoesWell, FilesThere, mainVars, round
  <2>2. main' \in {"thread", "async"} => file'[i'] # Absent
    BY DEF GoesWell, FilesThere, mainVars
  <2> QED
    BY <2>1, <2>2 DEF GoesWell, FilesThere, mainVars, round
<1>3. ArrivalsCounted'
  BY DEF GoesWell, ArrivalsCounted
<1> QED
  BY <1>1, <1>2, <1>3

LEMMA ArrivalGoesWell ==
  ASSUME TypeOK, GoesWell, faults = 0, NEW t \in Threads, BarrierArrive(t)
  PROVE  AllCreated' /\ FilesThere' /\ ArrivalsCounted'
<1>1. /\ pc[t] = "barrier" /\ UNCHANGED <<mainVars, file>>
      /\ \A u \in Threads : pc'[u] = "unborn" => pc[u] = "unborn"
  BY DEF BarrierArrive, TypeOK
<1>2. AllCreated' /\ FilesThere'
  BY <1>1 DEF GoesWell, AllCreated, FilesThere, mainVars, round, TypeOK
<1>3. t \notin Arrived /\ Arrived \in SUBSET Threads /\ Arrived \cup {t} \in SUBSET Threads
  BY <1>1 DEF Arrived
<1>4. /\ count = Cardinality(Arrived) /\ count \in Nat /\ count + 1 <= NumThreads
      /\ Cardinality(Arrived \cup {t}) = count + 1
  BY <1>3, ArrivedAre, SetOfThreads, FS_AddElement DEF GoesWell
<1>5. CASE count + 1 >= NumThreads
  <2>1. /\ count' = 0
        /\ pc' = [u \in Threads |-> IF u = t \/ pc[u] = "asleep" THEN "loop" ELSE pc[u]]
    BY <1>5 DEF BarrierArrive
  <2>2. Arrived \cup {t} = Threads
    <3>1. Cardinality(Arrived \cup {t}) = NumThreads
      BY <1>4, <1>5, DiskAssumption DEF DiskAssumption
    <3> QED
      BY <1>3, <3>1, SetOfThreads
  <2>3. Arrived' = Threads /\ \A u \in Threads : pc'[u] # "asleep"
    BY <2>1, <2>2 DEF Arrived
  <2> QED
    BY <1>2, <2>1, <2>3 DEF ArrivalsCounted
<1>6. CASE ~(count + 1 >= NumThreads)
  <2>1. count' = count + 1 /\ pc' = [pc EXCEPT ![t] = "asleep"]
    BY <1>6 DEF BarrierArrive
  <2>2. Arrived' = Arrived \cup {t}
    BY <1>1, <2>1 DEF Arrived, TypeOK
  <2>3. Arrived' # Threads
    <3>1. Cardinality(Threads) = NumThreads
      BY FS_Interval, DiskAssumption DEF DiskAssumption, Threads
    <3> QED
      BY <1>4, <1>6, <2>2, <3>1, DiskAssumption DEF DiskAssumption
  <2> QED
    BY <1>2, <1>4, <2>1, <2>2, <2>3 DEF ArrivalsCounted
<1> QED
  BY <1>5, <1>6

LEMMA CreationGoesWell ==
  ASSUME TypeOK, DiskInv, GoesWell, faults = 0,
         main \in {"thread", "async"}, pc' = [pc EXCEPT ![i] = "open"],
         made' = made \cup {i}, i' = i + 1, main' = "file", UNCHANGED <<rounds, count, file>>
  PROVE  AllCreated' /\ FilesThere' /\ ArrivalsCounted'
<1>1. i \in Threads /\ i \notin made /\ pc[i] = "unborn"
  <2>1. i \in Nat /\ i < NumThreads
    BY DiskAssumption DEF DiskAssumption, DiskInv, InOrder, TypeOK
  <2>2. i \in Threads
    BY <2>1, DiskAssumption DEF DiskAssumption, Threads
  <2>3. i \notin made
    BY <2>1 DEF DiskInv, InOrder
  <2> QED
    BY <2>2, <2>3 DEF DiskInv, InOrder
<1>2. AllCreated'
  <2>1. \A t \in Threads : t < i + 1 => t < i \/ t = i
    BY <1>1 DEF Threads
  <2> QED
    BY <1>1, <2>1 DEF GoesWell, AllCreated, TypeOK
<1>3. FilesThere'
  BY DEF GoesWell, FilesThere, round
<1>4. ArrivalsCounted'
  <2>1. Arrived' = Arrived /\ \A t \in Threads : pc'[t] = "asleep" => pc[t] = "asleep"
    BY <1>1 DEF Arrived, TypeOK
  <2> QED
    BY <2>1 DEF GoesWell, ArrivalsCounted
<1> QED
  BY <1>2, <1>3, <1>4

\* The files are removed where the round says so.
LEMMA CleanupGoesWell ==
  ASSUME TypeOK, GoesWell, faults = 0, Cleanup
  PROVE  AllCreated' /\ FilesThere' /\ ArrivalsCounted'
<1>1. /\ main = "cleanup" /\ main' = "free" /\ UNCHANGED <<rounds, made, count, pc>>
      /\ file' = [t \in Threads |-> IF round.unlink THEN Absent ELSE file[t]]
  BY DEF Cleanup, threadVars
<1>2. AllCreated' /\ FilesThere'
  BY <1>1 DEF GoesWell, AllCreated, FilesThere, round
<1>3. ArrivalsCounted'
  BY <1>1 DEF GoesWell, ArrivalsCounted, Arrived
<1> QED
  BY <1>2, <1>3

\* A new round.
LEMMA FreeGoesWell ==
  ASSUME TypeOK, DiskInv, LastRemoves, GoesWell, faults = 0, Free
  PROVE  AllCreated' /\ FilesThere' /\ ArrivalsCounted'
<1>0. \A t \in Threads : Home(t)
  BY DEF Free, DiskInv, EndsQuietly, LeftEarly
<1>1. /\ main = "free" /\ rounds' = Tail(rounds) /\ file' = file
      /\ main' = IF Tail(rounds) = <<>> THEN "exit" ELSE "file"
      /\ i' = 0 /\ made' = {} /\ count' = 0 /\ pc' = [t \in Threads |-> "unborn"]
  BY <1>0 DEF Free, FreshRound
<1>2. AllCreated'
  BY <1>1 DEF AllCreated, Threads
<1>3. FilesThere'
  <2> SUFFICES ASSUME main' = "file", round'.create = "none"
               PROVE  \A t \in Threads : file'[t] # Absent
    BY <1>1 DEF FilesThere
  <2>1. Tail(rounds) # <<>> /\ Tail(rounds)[1].create = "none"
    BY <1>1 DEF round
  <2>2. round.unlink = FALSE
    BY <1>1, <2>1, TailRemoves DEF LastRemoves, round
  <2> QED
    BY <1>1, <2>2 DEF GoesWell, FilesThere
<1>4. ArrivalsCounted'
  <2>1. Arrived' = {}
    BY <1>1 DEF Arrived
  <2>2. Threads # {} /\ Cardinality({}) = 0
    BY FS_EmptySet, DiskAssumption DEF DiskAssumption, Threads
  <2> QED
    BY <1>1, <2>1, <2>2 DEF ArrivalsCounted
<1> QED
  BY <1>2, <1>3, <1>4

LEMMA GoesWellStep ==
  ASSUME TypeOK, DiskInv, LastRemoves, GoesWell, [Next]_vars
  PROVE  GoesWell'
<1> SUFFICES ASSUME faults' = 0 PROVE AllCreated' /\ FilesThere' /\ ArrivalsCounted'
  BY DEF GoesWell
<1>f. ~Fault /\ (faults' = faults => faults = 0)
  BY DEF Fault, TypeOK
<1>m. /\ made \subseteq Threads /\ 0 \in Nat /\ Blocks # Absent
      /\ main \in {"thread", "async"} => i \in Threads
  <2>1. main \in {"thread", "async"} => i \in 0 .. NumThreads - 1
    BY DiskAssumption DEF DiskAssumption, DiskInv, InOrder, TypeOK
  <2> QED
    BY <2>1, DiskAssumption DEF DiskAssumption, TypeOK, Absent, Threads
<1>1. CASE CreateFile \/ CppCreateFile
  <2>1. /\ UNCHANGED <<made, pc, count, rounds, i, stop_flag, faults>> /\ i < NumThreads
        /\ main = "file" /\ main' \in {"thread", "async"}
        /\ \/ file' = file /\ round.create = "none"
           \/ file' = [file EXCEPT ![i] = Blocks]
    BY <1>1 DEF CreateFile, CppCreateFile, threadVars
  <2>2. i \in Threads
    BY <2>1, DiskAssumption DEF DiskAssumption, Threads, TypeOK
  <2>3. AllCreated /\ FilesThere
    BY <1>f, <2>1 DEF GoesWell
  <2>4. file'[i'] # Absent
    BY <1>m, <2>1, <2>2, <2>3 DEF FilesThere, TypeOK
  <2>5. \A t \in Threads : file'[t] = file[t] \/ file'[t] # Absent
    BY <1>m, <2>1 DEF TypeOK
  <2>6. AllCreated' /\ round' = round
    BY <2>1, <2>3 DEF AllCreated, round
  <2> QED
    BY <1>f, <1>m, <2>1, <2>4, <2>5, <2>6, MainGoesWell
<1>2. CASE CreateFileFails \/ CppFileThrows
  BY <1>2, <1>f DEF CreateFileFails, CppFileThrows
<1>3. CASE CreateThread \/ CppAsync
  <2>1. /\ main \in {"thread", "async"} /\ pc' = [pc EXCEPT ![i] = "open"]
        /\ made' = made \cup {i} /\ i' = i + 1 /\ main' = "file"
        /\ UNCHANGED <<rounds, count, file, faults>>
    BY <1>3, <1>f DEF CreateThread, CppAsync
  <2> QED
    BY <1>f, <2>1, CreationGoesWell
<1>4. CASE \/ DurationOver \/ Join \/ Report \/ FuturesDone \/ Over \/ UNCHANGED vars
           \/ \E t \in Threads : BarrierGone(t)
  <2>1. /\ UNCHANGED <<made, pc, count, rounds, file, faults>>
        /\ \/ /\ main = "file" /\ i = NumThreads /\ main' = "join" /\ stop_flag' = TRUE
           \/ main = "join" /\ main' = "join" /\ UNCHANGED stop_flag
           \/ main = "join" /\ main' = "cleanup"
           \/ main = "join" /\ main' = "crashed"
           \/ main = "futures" /\ main' \in {"failed", "undefined"}
           \/ UNCHANGED <<main, i, stop_flag>>
    BY <1>4 DEF DurationOver, Join, Report, FuturesDone, BarrierGone, Over, vars, mainVars,
                threadVars
  <2>2. AllCreated /\ FilesThere
    BY <1>f, <2>1 DEF GoesWell
  <2>3. AllCreated'
    <3>1. \A t \in Threads : t < NumThreads
      BY DiskAssumption DEF DiskAssumption, Threads
    <3> QED
      BY <1>m, <2>1, <2>2, <3>1 DEF AllCreated
  <2>4. /\ main' \in {"thread", "async"} => file'[i'] # Absent
        /\ main' = "free" /\ ~round'.unlink => \A t \in Threads : file'[t] # Absent
    BY <2>1, <2>2 DEF FilesThere, round
  <2> QED
    BY <1>f, <1>m, <2>1, <2>3, <2>4, MainGoesWell DEF round
<1>5. CASE Cleanup \/ Free
  <2>1. faults' = faults
    BY <1>5 DEF Cleanup, Free
  <2> QED
    BY <1>5, <1>f, <2>1, CleanupGoesWell, FreeGoesWell
<1>6. ASSUME NEW t \in Threads, Thread(t) \/ SpuriousWake(t)
      PROVE  AllCreated' /\ FilesThere' /\ ArrivalsCounted'
  <2>1. CASE Open(t) \/ SpuriousWake(t) \/ Stops(t)
    <3>1. /\ UNCHANGED <<mainVars, count, file, faults>>
          /\ \/ pc[t] = "open" /\ pc' = [pc EXCEPT ![t] = "barrier"]
             \/ pc[t] = "asleep" /\ pc' = [pc EXCEPT ![t] = "loop"]
             \/ pc[t] = "loop" /\ pc' = [pc EXCEPT ![t] = "done"]
      BY <2>1 DEF Open, SpuriousWake, Stops, Goto
    <3>2. Arrived' = Arrived
      BY <3>1 DEF Arrived, TypeOK
    <3>3. \A u \in Threads : /\ pc'[u] = "unborn" => pc[u] = "unborn"
                             /\ pc'[u] = "asleep" => pc[u] = "asleep"
      BY <3>1 DEF TypeOK
    <3> QED
      BY <1>f, <1>m, <3>1, <3>2, <3>3, ThreadGoesWell
  <2>2. CASE OpenFails(t)
    <3>1. file[t] = Absent /\ pc[t] = "open" /\ faults' = faults
      BY <2>2, <1>f DEF OpenFails, Goto
    <3>2. t \in made
      BY <3>1 DEF DiskInv, InOrder
    <3>3. main \notin {"free", "undefined"}
      BY <1>f, <3>1 DEF DiskInv, EndsQuietly, LeftEarly, Home
    <3> QED
      BY <1>f, <3>1, <3>2, <3>3 DEF GoesWell, FilesThere
  <2>3. CASE BarrierArrive(t)
    <3>1. faults' = faults
      BY <2>3 DEF BarrierArrive
    <3> QED
      BY <1>f, <2>3, <3>1, ArrivalGoesWell
  <2>4. CASE Operate(t) \/ CppOperate(t)
    <3>1. UNCHANGED <<mainVars, count, pc, faults>>
      BY <2>4 DEF Operate, CppOperate
    <3>2. \E p \in Positions(t) :
            file' = file \/ file' = [file EXCEPT ![t] = Written(t, p)]
      BY <2>4 DEF Operate, CppOperate
    <3>3. \A p \in Positions(t) : Written(t, p) = file[t] \/ Written(t, p) # Absent
      BY DiskAssumption DEF DiskAssumption, Positions, TypeOK, Absent, Written
    <3>4. \A u \in Threads : file'[u] = file[u] \/ file'[u] # Absent
      BY <3>2, <3>3 DEF TypeOK
    <3>5. Arrived' = Arrived
      BY <3>1 DEF Arrived
    <3> QED
      BY <1>f, <1>m, <3>1, <3>4, <3>5, ThreadGoesWell
  <2> QED
    BY <1>6, <2>1, <2>2, <2>3, <2>4 DEF Thread
<1> QED
  BY <1>1, <1>2, <1>3, <1>4, <1>5, <1>6 DEF Next, Main, CppMain

\* A thread that can take its next step: it opens its file, comes to the
\* barrier, or sees the flag.
CanGoOn(t) == pc[t] \in {"open", "barrier"} \/ (pc[t] = "loop" /\ stop_flag)

\* While main waits for a thread some thread can go on.
NobodyHangs ==
  faults = 0 /\ main = "join" /\ i \in made /\ pc[i] # "done" => \E t \in Threads : CanGoOn(t)

\* As long as no call fails that the programs do not expect to (of create, open,
\* posix_memalign and pthread_create), the join of a round never waits for
\* threads that all sleep: the barrier, the shim of the macOS build included,
\* lets everybody through, for every number of threads.  What is left of the
\* claim that the program ends is that threads are scheduled.
THEOREM NobodyWaitsForEver == Spec => []NobodyHangs
<1>1. Init => GoesWell
  <2> SUFFICES ASSUME Init PROVE AllCreated /\ FilesThere /\ ArrivalsCounted
    BY DEF GoesWell
  <2>1. AllCreated
    BY DEF Init, AllCreated, Threads
  <2>2. FilesThere
    <3>1. rounds \in Removing
      BY DiskAssumption, TestsRemove DEF DiskAssumption, Init
    <3>2. rounds # <<>> /\ rounds[1].create # "none"
      BY <3>1 DEF Removing, Remaining
    <3> QED
      BY <3>2 DEF Init, FilesThere, round
  <2>3. ArrivalsCounted
    <3>1. Arrived = {}
      BY DEF Init, Arrived
    <3>2. Threads # {} /\ Cardinality({}) = 0
      BY FS_EmptySet, DiskAssumption DEF DiskAssumption, Threads
    <3> QED
      BY <3>1, <3>2 DEF Init, ArrivalsCounted
  <2> QED
    BY <2>1, <2>2, <2>3
<1>2. TypeOK /\ GoesWell => NobodyHangs
  <2> SUFFICES ASSUME TypeOK, AllCreated, ArrivalsCounted, main = "join", i \in made,
                      pc[i] # "done", \A t \in Threads : ~CanGoOn(t)
               PROVE  FALSE
    BY DEF NobodyHangs, GoesWell
  <2>1. made = Threads /\ stop_flag
    BY DEF AllCreated
  <2>2. \A t \in Threads : pc[t] \in {"asleep", "done"}
    BY <2>1 DEF AllCreated, CanGoOn, TypeOK
  <2>3. Arrived = Threads
    BY <2>2 DEF Arrived
  <2> QED
    BY <2>1, <2>2, <2>3 DEF ArrivalsCounted
<1>3. TypeOK /\ DiskInv /\ LastRemoves /\ GoesWell /\ [Next]_vars => GoesWell'
  BY GoesWellStep
<1> QED
  BY <1>1, <1>2, <1>3, TypeCorrect, DiskInvariant, TheLastRemoves, PTL DEF Spec

=============================================================================
