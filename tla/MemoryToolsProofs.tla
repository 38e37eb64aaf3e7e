--------------------------- MODULE MemoryToolsProofs ---------------------------
(***************************************************************************)
(* Theorems of MemoryTools: what the memory explorers, the cache analyzers *)
(* and the allocator benchmarks promise, of any numbers of threads, blocks,*)
(* iterations and pages.                                                   *)
(***************************************************************************)
EXTENDS MemoryTools, SumTheorems, SequenceTheorems

-----------------------------------------------------------------------------
(* The memory *)

Forked == {"close", "modify", "read", "wait"}
Testing == {"pipe", "fork"} \cup Forked

\* Where the parent is, and that it has a child only between fork and wait.
ParentAt ==
  /\ DOMAIN pc = {V!Child}
  /\ main \in Testing => next \in 1..3
  /\ main \in {"pipe", "close", "read"} => next \in 2..3
  /\ main = "modify" => next = 3
  /\ pc[V!Child] \in {"none", "start", "send", "sent", "exited"}
  /\ pc[V!Child] # "none" => main \in Forked
  /\ DOMAIN memory = V!Pages /\ DOMAIN copy = V!Pages

Separate ==
  main \in Testing =>
    /\ \A p \in V!Pages : memory[p] = IF next = 3 /\ main \in {"read", "wait"} /\ p \in V!FirstHalf
                                    THEN "12" ELSE "AB"
    /\ pc[V!Child] # "none" => \A p \in V!Pages \ V!HalfOfFork : copy[p] = "AB"

MemoryInv == ParentAt /\ Separate

\* The child writes to its half of the memory.
LEMMA ChildKeepsToItsHalf ==
  ASSUME HalfPages \in Nat \ {0}, next \in 1..3, V!Left # {}
  PROVE  (CHOOSE p \in V!Left : \A q \in V!Left : p <= q) \in V!HalfOfFork
<1>1. V!HalfOfFork \subseteq Nat
  BY DEF V!HalfOfFork, V!FirstHalf, V!SecondHalf, V!Pages
<1>2. V!Left \subseteq Nat
  BY <1>1 DEF V!Left
<1>3. PICK p \in V!Left : \A q \in V!Left : ~ <<q, p>> \in OpToRel(<, Nat)
  BY <1>2, NatLessThanWellFounded, WFMin
<1>4. ASSUME NEW q \in V!Left PROVE p <= q
  <2>1. ~ <<q, p>> \in {ss \in Nat \X Nat : ss[1] < ss[2]}
    BY <1>3 DEF OpToRel
  <2>2. q \in Nat /\ p \in Nat
    BY <1>2
  <2>3. ~(q < p)
    BY <2>1, <2>2
  <2> QED
    BY <2>2, <2>3
<1>5. (CHOOSE x \in V!Left : \A q \in V!Left : x <= q) \in V!Left
  BY <1>4
<1> QED
  BY <1>5 DEF V!Left

LEMMA MemoryInvStep ==
  ASSUME HalfPages \in Nat \ {0}, MemoryInv, [V!Next]_(V!vmVars)
  PROVE  MemoryInv'
<1> USE DEF MemoryInv, V!process, V!channel, V!output, V!own, V!At, V!ChildAt, V!Child
<1>0. V!FirstHalf \subseteq V!Pages
  BY DEF V!FirstHalf, V!Pages
<1>1. CASE V!Allocate \/ V!FallsBack \/ V!AllocateFails \/ V!TouchesNull \/ V!UseAndFree
  <2>1. /\ main = "allocate" /\ main' \in {"allocate", "cow", "crashed"}
        /\ UNCHANGED <<pc, memory, copy>>
    BY <1>1 DEF V!Allocate, V!FallsBack, V!AllocateFails, V!TouchesNull, V!UseAndFree, V!NextCase, V!NextTest
  <2> QED
    BY <2>1 DEF ParentAt, Separate, Testing, Forked
<1>2. CASE V!CowBegins
  BY <1>0, <1>2 DEF V!CowBegins, ParentAt, Separate, Testing, Forked
<1>3. CASE V!CowFails \/ V!Report
  BY <1>3 DEF V!CowFails, V!Report, ParentAt, Separate, Testing, Forked
<1>4. CASE V!OpenPipe \/ V!PipeFails
  <2>1. /\ main = "pipe" /\ main' \in {"fork", "blocked", "report"}
        /\ UNCHANGED <<next, pc, memory, copy>>
    BY <1>4 DEF V!OpenPipe, V!PipeFails
  <2> QED
    BY <2>1 DEF ParentAt, Separate, Testing, Forked
<1>5. CASE V!Fork \/ V!ForkFails
  <2>1. /\ main = "fork" /\ main' = IF next = 1 THEN "wait" ELSE "close"
        /\ \/ pc' = [pc EXCEPT ![V!Child] = "start"] /\ copy' = memory
           \/ UNCHANGED <<pc, copy>>
        /\ UNCHANGED <<next, memory>>
    BY <1>5 DEF V!Fork, V!ForkFails, V!AfterFork
  <2>2. ParentAt'
    BY <2>1 DEF ParentAt, Testing, Forked
  <2>3. Separate'
    BY <2>1 DEF ParentAt, Separate, Testing, Forked, V!HalfOfFork
  <2> QED
    BY <2>2, <2>3
<1>6. CASE V!CloseWriteEnd
  BY <1>6 DEF V!CloseWriteEnd, ParentAt, Separate, Testing, Forked, V!HalfOfFork
<1>7. CASE V!ParentModifies
  <2>1. ParentAt'
    BY <1>7 DEF V!ParentModifies, ParentAt, Testing, Forked
  <2>2. Separate'
    BY <1>7 DEF V!ParentModifies, ParentAt, Separate, Testing, Forked, V!HalfOfFork
  <2> QED
    BY <2>1, <2>2
<1>8. CASE V!Read \/ V!ReadAll
  <2>1. /\ main = "read" /\ main' \in {"read", "wait"}
        /\ UNCHANGED <<next, pc, memory, copy>>
    BY <1>8 DEF V!Read, V!ReadAll
  <2> QED
    BY <2>1 DEF ParentAt, Separate, Testing, Forked, V!HalfOfFork
<1>9. CASE V!Wait
  <2>1. /\ main = "wait" /\ pc' = [pc EXCEPT ![V!Child] = "none"] /\ UNCHANGED <<memory, copy>>
        /\ \/ next < V!Forks /\ main' = "pipe" /\ next' = next + 1
           \/ main' = "report" /\ next' = next
    BY <1>9 DEF V!Wait
  <2>2. next \in 1..3 /\ V!Forks \in 2..3
    BY <2>1 DEF ParentAt, Testing, Forked, V!Forks
  <2>3. main' = "pipe" => next \in 1..2 /\ next' \in 2..3
    BY <2>1, <2>2
  <2> QED
    BY <2>1, <2>3 DEF ParentAt, Separate, Testing, Forked
<1>10. CASE V!ChildModifies
  <2> DEFINE p == CHOOSE p \in V!Left : \A q \in V!Left : p <= q
  <2>1. /\ pc[V!Child] = "start" /\ V!Left # {}
        /\ copy' = [copy EXCEPT ![p] = V!ValueOfFork]
        /\ UNCHANGED <<V!process, memory>>
    BY <1>10 DEF V!ChildModifies
  <2>2. main \in Forked /\ next \in 1..3
    BY <2>1 DEF ParentAt, Testing
  <2>3. p \in V!HalfOfFork
    BY <2>1, <2>2, ChildKeepsToItsHalf
  <2> HIDE DEF p
  <2> QED
    BY <2>1, <2>3 DEF ParentAt, Separate, V!HalfOfFork
<1>11. CASE V!ChildSends \/ V!ChildSendsTime \/ V!Exit
  <2>1. /\ pc[V!Child] \in {"start", "send", "sent"} /\ UNCHANGED <<main, next, memory, copy>>
        /\ \E place \in {"send", "sent", "exited"} : pc' = [pc EXCEPT ![V!Child] = place]
    BY <1>11 DEF V!ChildSends, V!ChildSendsTime, V!Exit
  <2> QED
    BY <2>1 DEF ParentAt, Separate, V!HalfOfFork
<1>12. CASE V!Over \/ UNCHANGED V!vmVars
  BY <1>12 DEF V!Over, V!vmVars, ParentAt, Separate, V!HalfOfFork
<1> QED
  BY <1>1, <1>2, <1>3, <1>4, <1>5, <1>6, <1>7, <1>8, <1>9, <1>10, <1>11, <1>12
     DEF V!Next, V!Main, V!ChildSteps

-----------------------------------------------------------------------------
(* The pipe of the second fork *)

Faults == V!Message("faults", HalfPages)
Time == V!Message("time", 0)

\* The child has the pipe: what was read and what is in it is what it sent.
FromChild ==
  /\ pc[V!Child] \in {"start", "send", "sent", "exited"}
  /\ pc[V!Child] # "exited" <=> "child" \in writers
  /\ pc[V!Child] = "start" => got = <<>> /\ pipe = <<>>
  /\ pc[V!Child] = "send" => \/ got = <<>> /\ pipe = <<Faults>>
                             \/ got = <<Faults>> /\ pipe = <<>>
  /\ pc[V!Child] \in {"sent", "exited"} => \/ got = <<>> /\ pipe = <<Faults, Time>>
                                           \/ got = <<Faults>> /\ pipe = <<Time>>
                                           \/ got = <<Faults, Time>> /\ pipe = <<>>

\* There is no child, or no pipe: nothing is ever in it.
FromNobody ==
  /\ MayFail = TRUE /\ "child" \notin writers /\ pipe = <<>>
  /\ got \in {<<>>, <<V!Garbage>>, <<V!Garbage, V!Garbage>>}

PipeInv ==
  /\ writers \subseteq {"parent", "child"}
  /\ main \in {"allocate", "cow", "pipe", "fork"} =>
       pipe = <<>> /\ got = <<>> /\ "child" \notin writers
  /\ main \in {"allocate", "cow", "pipe"} => writers = {}
  /\ next = 2 => /\ main = "fork" /\ writers = {} => MayFail = TRUE
                 /\ main \in {"read", "wait"} => "parent" \notin writers
                 /\ main \in {"close", "read", "wait"} => FromChild \/ FromNobody
                 /\ main = "wait" => Len(got) = 2

\* Sequences of two messages at most.
LEMMA ShortSequences ==
  ASSUME NEW a, NEW b
  PROVE  /\ Len(<<>>) = 0 /\ Len(<<a>>) = 1 /\ Len(<<a, b>>) = 2
         /\ <<a>> # <<>> /\ <<a, b>> # <<>>
         /\ Head(<<a>>) = a /\ Tail(<<a>>) = <<>>
         /\ Head(<<a, b>>) = a /\ Tail(<<a, b>>) = <<b>>
         /\ Append(<<>>, a) = <<a>> /\ Append(<<a>>, b) = <<a, b>>
         /\ <<a, b>>[1] = a /\ <<a, b>>[2] = b
<1>1. Len(<<>>) = 0 /\ Len(<<a>>) = 1 /\ Len(<<a, b>>) = 2
  OBVIOUS
<1>2. <<a>> # <<>> /\ <<a, b>> # <<>>
  BY <1>1
<1>3. Head(<<a>>) = a /\ Head(<<a, b>>) = a
  OBVIOUS
<1>4. Tail(<<a>>) = <<>>
  BY <1>1
<1>5. Tail(<<a, b>>) = <<b>>
  <2> DEFINE T == Tail(<<a, b>>)
  <2>1. T \in Seq({a, b}) /\ Len(T) = 1 /\ T[1] = b
    OBVIOUS
  <2>2. <<b>> \in Seq({a, b}) /\ Len(<<b>>) = 1 /\ <<b>>[1] = b
    OBVIOUS
  <2> QED
    BY <2>1, <2>2, SeqEqual
<1>6. Append(<<>>, a) = <<a>>
  OBVIOUS
<1>7. Append(<<a>>, b) = <<a, b>>
  <2> DEFINE s == Append(<<a>>, b)
  <2>1. s \in Seq({a, b}) /\ Len(s) = 2 /\ s[1] = a /\ s[2] = b
    OBVIOUS
  <2>2. /\ <<a, b>> \in Seq({a, b}) /\ Len(<<a, b>>) = 2
        /\ <<a, b>>[1] = a /\ <<a, b>>[2] = b
    OBVIOUS
  <2> HIDE DEF s
  <2>3. \A j \in 1 .. Len(s) : s[j] = <<a, b>>[j]
    BY <2>1, <2>2
  <2> QED
    BY <2>1, <2>2, <2>3, SeqEqual DEF s
<1>8. <<a, b>>[1] = a /\ <<a, b>>[2] = b
  OBVIOUS
<1> QED
  BY <1>1, <1>2, <1>3, <1>4, <1>5, <1>6, <1>7, <1>8

LEMMA PipeInvStep ==
  ASSUME HalfPages \in Nat \ {0}, MayFail \in BOOLEAN, MemoryInv, PipeInv, [V!Next]_(V!vmVars)
  PROVE  PipeInv'
<1> USE DEF MemoryInv, V!process, V!channel, V!output, V!own, V!At, V!ChildAt, V!Child
<1>1. CASE V!Allocate \/ V!FallsBack \/ V!AllocateFails \/ V!TouchesNull \/ V!UseAndFree
  <2>1. /\ main = "allocate" /\ main' \in {"allocate", "cow", "crashed"}
        /\ UNCHANGED <<pipe, writers, got>>
    BY <1>1 DEF V!Allocate, V!FallsBack, V!AllocateFails, V!TouchesNull, V!UseAndFree, V!NextCase, V!NextTest
  <2> QED
    BY <2>1 DEF PipeInv
<1>2. CASE V!CowBegins \/ V!CowFails \/ V!Report
  <2>1. /\ main' \in {"fork", "report", "exit"} /\ UNCHANGED <<pipe, writers, got>>
        /\ main' = "fork" => main = "cow" /\ next' = 1
    BY <1>2 DEF V!CowBegins, V!CowFails, V!Report
  <2> QED
    BY <2>1 DEF PipeInv
<1>3. CASE V!OpenPipe
  BY <1>3 DEF V!OpenPipe, PipeInv
<1>4. CASE V!PipeFails
  <2>1. /\ main = "pipe" /\ main' \in {"fork", "blocked", "report"} /\ MayFail = TRUE
        /\ UNCHANGED <<next, pipe, writers, got>>
    BY <1>4 DEF V!PipeFails
  <2> QED
    BY <2>1 DEF PipeInv
<1>5. CASE V!Fork
  <2>1. /\ main = "fork" /\ main' \in {"wait", "close"} /\ pipe = <<>> /\ got = <<>>
        /\ pc[V!Child]' = "start" /\ UNCHANGED <<next, pipe, got>>
        /\ writers' = IF writers = {} THEN {} ELSE writers \cup {"child"}
        /\ next = 2 => main' = "close"
    BY <1>5 DEF V!Fork, V!AfterFork, PipeInv, ParentAt
  <2>2. next = 2 => FromChild' \/ FromNobody'
    BY <2>1 DEF PipeInv, FromChild, FromNobody
  <2> QED
    BY <2>1, <2>2 DEF PipeInv
<1>6. CASE V!ForkFails
  <2>1. /\ main = "fork" /\ main' \in {"wait", "close"} /\ pipe = <<>> /\ got = <<>>
        /\ MayFail = TRUE /\ UNCHANGED <<next, pipe, got, writers>>
        /\ next = 2 => main' = "close"
    BY <1>6 DEF V!ForkFails, V!AfterFork, PipeInv
  <2>2. FromNobody'
    BY <2>1 DEF PipeInv, FromNobody
  <2> QED
    BY <2>1, <2>2 DEF PipeInv
<1>7. CASE V!CloseWriteEnd \/ V!ParentModifies
  <2>1. /\ main \in {"close", "modify"} /\ main' \in {"modify", "read"}
        /\ main = "modify" => next = 3
        /\ UNCHANGED <<next, pc, pipe, got>> /\ writers' \in {writers, writers \ {"parent"}}
        /\ main = "close" => writers' = writers \ {"parent"}
    BY <1>7 DEF V!CloseWriteEnd, V!ParentModifies, ParentAt
  <2>2. FromChild \/ FromNobody => FromChild' \/ FromNobody'
    BY <2>1 DEF FromChild, FromNobody, Faults, Time
  <2> QED
    BY <2>1, <2>2 DEF PipeInv
<1>8. CASE V!Read
  <2>1. /\ main = "read" /\ UNCHANGED <<main, next, pc, writers>>
        /\ \/ pipe # <<>> /\ got' = Append(got, Head(pipe)) /\ pipe' = Tail(pipe)
           \/ pipe = <<>> /\ writers = {} /\ got' = Append(got, V!Garbage) /\ pipe' = pipe
        /\ next = 2 => Len(got) < 2
    BY <1>8 DEF V!Read, V!Expected
  <2>2. ASSUME next = 2, FromChild PROVE FromChild'
    <3>1. CASE pc[V!Child] = "start"
      BY <2>1, <2>2, <3>1 DEF FromChild
    <3>2. CASE pc[V!Child] = "send"
      <4>1. got = <<>> /\ pipe = <<Faults>>
        BY <2>1, <2>2, <3>2 DEF FromChild
      <4>2. got' = <<Faults>> /\ pipe' = <<>>
        BY <2>1, <4>1, ShortSequences
      <4> QED
        BY <2>1, <2>2, <3>2, <4>2 DEF FromChild, Faults
    <3>3. CASE pc[V!Child] \in {"sent", "exited"}
      <4>1. CASE got = <<>> /\ pipe = <<Faults, Time>>
        <5>1. got' = <<Faults>> /\ pipe' = <<Time>>
          BY <2>1, <4>1, ShortSequences
        <5> QED
          BY <2>1, <2>2, <3>3, <5>1 DEF FromChild, Faults, Time
      <4>2. CASE got = <<Faults>> /\ pipe = <<Time>>
        <5>1. got' = <<Faults, Time>> /\ pipe' = <<>>
          BY <2>1, <4>2, ShortSequences
        <5> QED
          BY <2>1, <2>2, <3>3, <5>1 DEF FromChild, Faults, Time
      <4>3. ~(got = <<Faults, Time>> /\ pipe = <<>>)
        BY <2>1, <2>2, ShortSequences
      <4> QED
        BY <2>2, <3>3, <4>1, <4>2, <4>3 DEF FromChild
    <3> QED
      BY <2>2, <3>1, <3>2, <3>3 DEF FromChild
  <2>3. ASSUME next = 2, FromNobody PROVE FromNobody'
    BY <2>1, <2>3, ShortSequences DEF FromNobody
  <2> QED
    BY <2>1, <2>2, <2>3 DEF PipeInv
<1>9. CASE V!ReadAll
  <2>1. /\ main = "read" /\ main' = "wait" /\ UNCHANGED <<next, pc, V!channel>>
        /\ next = 2 => Len(got) = 2
    BY <1>9 DEF V!ReadAll, V!Expected
  <2>2. FromChild \/ FromNobody => FromChild' \/ FromNobody'
    BY <2>1 DEF FromChild, FromNobody, Faults, Time
  <2> QED
    BY <2>1, <2>2 DEF PipeInv
<1>10. CASE V!Wait
  <2>1. /\ main' \in {"pipe", "report"} /\ pipe' = <<>> /\ writers' = {} /\ got' = <<>>
    BY <1>10 DEF V!Wait
  <2> QED
    BY <2>1 DEF PipeInv
<1>11. CASE V!ChildModifies \/ V!Over \/ UNCHANGED V!vmVars
  <2>1. UNCHANGED <<main, next, pc, pipe, writers, got>>
    BY <1>11 DEF V!ChildModifies, V!Over, V!vmVars
  <2>2. FromChild \/ FromNobody => FromChild' \/ FromNobody'
    BY <2>1 DEF FromChild, FromNobody, Faults, Time
  <2> QED
    BY <2>1, <2>2 DEF PipeInv
<1>12. CASE V!ChildSends \/ V!ChildSendsTime
  <2>1. /\ UNCHANGED <<main, next, writers, got>> /\ main \in Forked
        /\ pc[V!Child] \in {"start", "send"}
        /\ "child" \notin writers => pipe' = pipe
        /\ next = 2 /\ "child" \in writers =>
             pipe' = Append(pipe, IF pc[V!Child] = "start" THEN Faults ELSE Time)
        /\ next = 2 => pc'[V!Child] = IF pc[V!Child] = "start" THEN "send" ELSE "sent"
    <3>1. Cardinality(V!FirstHalf) = HalfPages
      BY FS_Interval, HalfPages - 1 \in Int, 0 \in Int DEF V!FirstHalf
    <3> QED
      BY <1>12, <3>1 DEF V!ChildSends, V!ChildSendsTime, V!Send, ParentAt, V!HalfOfFork, Faults, Time
  <2>2. ASSUME next = 2, FromChild PROVE FromChild'
    <3>1. "child" \in writers
      BY <2>1, <2>2 DEF FromChild
    <3>2. CASE pc[V!Child] = "start"
      <4>1. got' = <<>> /\ pipe' = <<Faults>> /\ pc'[V!Child] = "send"
        BY <2>1, <2>2, <3>1, <3>2, ShortSequences DEF FromChild
      <4> QED
        BY <2>1, <3>1, <4>1 DEF FromChild, Faults
    <3>3. CASE pc[V!Child] = "send"
      <4>1. \/ got' = <<>> /\ pipe' = <<Faults, Time>>
            \/ got' = <<Faults>> /\ pipe' = <<Time>>
        BY <2>1, <2>2, <3>1, <3>3, ShortSequences DEF FromChild
      <4> QED
        BY <2>1, <2>2, <3>1, <3>3, <4>1 DEF FromChild, Faults, Time
    <3> QED
      BY <2>1, <3>2, <3>3
  <2>3. ASSUME next = 2, FromNobody PROVE FromNobody'
    BY <2>1, <2>3 DEF FromNobody
  <2>4. main # "fork"
    BY <2>1 DEF Forked
  <2> QED
    BY <2>1, <2>2, <2>3, <2>4 DEF PipeInv, Forked
<1>13. CASE V!Exit
  <2>1. /\ UNCHANGED <<main, next, pipe, got>> /\ writers' = writers \ {"child"} /\ main \in Forked
        /\ next = 2 => pc[V!Child] = "sent" /\ pc'[V!Child] = "exited"
    BY <1>13 DEF V!Exit, ParentAt
  <2>2. ASSUME next = 2, FromChild PROVE FromChild'
    BY <2>1, <2>2 DEF FromChild, Faults, Time
  <2>3. ASSUME next = 2, FromNobody PROVE FromNobody'
    BY <2>1, <2>3 DEF FromNobody
  <2> QED
    BY <2>1, <2>2, <2>3 DEF PipeInv, Forked
<1> QED
  BY <1>1, <1>2, <1>3, <1>4, <1>5, <1>6, <1>7, <1>8, <1>9, <1>10, <1>11, <1>12, <1>13
     DEF V!Next, V!Main, V!ChildSteps

\* What the parent prints of the second fork is what its child has counted,
\* and is uninitialised only where fork or pipe has failed.
LEMMA ResultIsRight == ASSUME PipeInv PROVE V!ResultIsOfTheChild
<1> SUFFICES ASSUME main = "wait", next = 2
             PROVE  /\ got[1] \in {Faults, V!Garbage}
                    /\ got[1] = V!Garbage => MayFail /\ got[2] = V!Garbage /\ writers = {}
                    /\ pc[V!Child] = "exited" => writers = {} /\ pipe = <<>>
  BY DEF V!ResultIsOfTheChild, Faults
<1>1. /\ Len(got) = 2 /\ "parent" \notin writers /\ writers \subseteq {"parent", "child"}
      /\ FromChild \/ FromNobody
  BY DEF PipeInv
<1>2. CASE FromChild
  <2>1. got = <<Faults, Time>> /\ pipe = <<>>
    BY <1>1, <1>2, ShortSequences DEF FromChild
  <2>2. Faults # V!Garbage
    BY DEF Faults, V!Garbage, V!Message
  <2>3. pc[V!Child] = "exited" => writers = {}
    BY <1>1, <1>2 DEF FromChild
  <2> QED
    BY <2>1, <2>2, <2>3, ShortSequences
<1>3. CASE FromNobody
  <2>1. got = <<V!Garbage, V!Garbage>> /\ pipe = <<>> /\ writers = {} /\ MayFail
    BY <1>1, <1>3, ShortSequences DEF FromNobody
  <2> QED
    BY <2>1, ShortSequences
<1> QED
  BY <1>1, <1>2, <1>3

-----------------------------------------------------------------------------
(* Recursion and rings *)

\* Induction, for a set of numbers.
LEMMA InductionOnNat ==
  ASSUME NEW G, 0 \in G, \A m \in Nat : m \in G => m + 1 \in G
  PROVE  Nat \subseteq G
<1> DEFINE B == Nat \ G
<1>1. SUFFICES ASSUME B # {} PROVE FALSE
  OBVIOUS
<1>2. PICK m \in B : \A k \in B : ~ <<k, m>> \in OpToRel(<, Nat)
  BY <1>1, NatLessThanWellFounded, WFMin
<1>3. m \in Nat /\ m # 0
  BY <1>2
<1>4. m - 1 \in Nat /\ m - 1 < m /\ (m - 1) + 1 = m
  BY <1>3
<1>5. <<m - 1, m>> \in {ss \in Nat \X Nat : ss[1] < ss[2]}
  BY <1>3, <1>4
<1>6. m - 1 \notin B
  BY <1>2, <1>5 DEF OpToRel
<1> QED
  BY <1>2, <1>4, <1>6

\* g starts with x and goes on by step.
Follows(g, m, x, step) == g[0] = x /\ \A k \in 1 .. m : g[k] = step[k][g[k - 1]]

\* A function defined by recursion on its argument exists.
LEMMA RecursionExists ==
  ASSUME NEW n \in Nat, NEW T, NEW x \in T, NEW step \in [1 .. n -> [T -> T]]
  PROVE  \E g \in [0 .. n -> T] : Follows(g, n, x, step)
<1> DEFINE G == {m \in Nat : m <= n => \E g \in [0 .. m -> T] : Follows(g, m, x, step)}
<1>1. 0 \in G
  <2>1. [k \in 0 .. 0 |-> x] \in [0 .. 0 -> T]
    OBVIOUS
  <2>2. Follows([k \in 0 .. 0 |-> x], 0, x, step)
    BY DEF Follows
  <2> QED
    BY <2>1, <2>2
<1>2. ASSUME NEW m \in Nat, m \in G, m + 1 <= n PROVE m + 1 \in G
  <2>1. PICK g \in [0 .. m -> T] : Follows(g, m, x, step)
    BY <1>2
  <2> DEFINE y == step[m + 1][g[m]]
             h == [k \in 0 .. m + 1 |-> IF k = m + 1 THEN y ELSE g[k]]
  <2>2. y \in T
    <3>1. step[m + 1] \in [T -> T] /\ g[m] \in T
      BY <1>2
    <3> QED
      BY <3>1
  <2> HIDE DEF y
  <2>3. \A k \in 0 .. m : h[k] = g[k] /\ g[k] \in T
    OBVIOUS
  <2>4. h[m + 1] = y
    OBVIOUS
  <2>5. h \in [0 .. m + 1 -> T]
    BY <2>2
  <2> HIDE DEF h
  <2>6. \A k \in 1 .. m + 1 : h[k] = step[k][h[k - 1]]
    <3>1. ASSUME NEW k \in 1 .. m PROVE h[k] = step[k][h[k - 1]]
      <4>1. k \in 0 .. m /\ k - 1 \in 0 .. m
        OBVIOUS
      <4>2. g[k] = step[k][g[k - 1]]
        BY <2>1 DEF Follows
      <4> QED
        BY <2>3, <4>1, <4>2
    <3>2. h[m + 1] = step[m + 1][h[(m + 1) - 1]]
      <4>1. (m + 1) - 1 = m /\ h[m] = g[m]
        BY <2>3
      <4> QED
        BY <2>4, <4>1 DEF y
    <3>3. \A k \in 1 .. m + 1 : k \in 1 .. m \/ k = m + 1
      OBVIOUS
    <3> QED
      BY <3>1, <3>2, <3>3
  <2>7. h[0] = x
    BY <2>1, <2>3 DEF Follows
  <2>8. Follows(h, m + 1, x, step)
    BY <2>6, <2>7 DEF Follows
  <2> QED
    BY <2>5, <2>8
<1>3. Nat \subseteq G
  <2> HIDE DEF G
  <2>1. \A m \in Nat : m \in G => m + 1 \in G
    <3>1. \A m \in Nat : ~ (m + 1 <= n) => m + 1 \in G
      BY DEF G
    <3> QED
      BY <1>2, <3>1
  <2> QED
    BY <1>1, <2>1, InductionOnNat
<1> QED
  BY <1>3

\* The orders of some nodes.
IsOrder(f, n) ==
  /\ f \in [0 .. n - 1 -> 0 .. n - 1]
  /\ \A i, j \in 0 .. n - 1 : f[i] = f[j] => i = j
  /\ \A node \in 0 .. n - 1 : \E i \in 0 .. n - 1 : f[i] = node

LEMMA OrdersAre == \A n, f : f \in V!Orders(n) <=> IsOrder(f, n)
BY DEF V!Orders, V!NodesOf, V!Bijection, V!Injection, V!Surjection, V!IsInjective, IsOrder

IsWalk(at, f, m) == at = [k \in 0 .. m |-> IF k = 0 THEN 0 ELSE f[at[k - 1]]]
WalkOf(f, m) == CHOOSE at : IsWalk(at, f, m)
WalksOn(at, f, n, m) ==
  /\ at \in [0 .. m -> 0 .. n - 1] /\ at[0] = 0
  /\ \A k \in 1 .. m : at[k] = f[at[k - 1]]

LEMMA WalksAre == \A f, m : V!Walk(f, m) = WalkOf(f, m) /\ K!Walk(f, m) = WalkOf(f, m)
<1>1. \A f, m : V!Walk(f, m) = WalkOf(f, m)
  BY DEF V!Walk, WalkOf, IsWalk
<1>2. \A f, m : K!Walk(f, m) = WalkOf(f, m)
  BY DEF K!Walk, WalkOf, IsWalk
<1> QED
  BY <1>1, <1>2

\* The walk of so many steps exists, and stays among the nodes.
LEMMA WalkGoesOn ==
  ASSUME NEW n \in Nat \ {0}, NEW f \in [0 .. n - 1 -> 0 .. n - 1], NEW m \in Nat
  PROVE  WalksOn(WalkOf(f, m), f, n, m)
<1> DEFINE Nodes == 0 .. n - 1
           step == [k \in 1 .. m |-> f]
           at == WalkOf(f, m)
<1>1. 0 \in Nodes /\ f \in [Nodes -> Nodes]
  OBVIOUS
<1> HIDE DEF Nodes
<1>2. step \in [1 .. m -> [Nodes -> Nodes]]
  BY <1>1
<1>3. PICK g \in [0 .. m -> Nodes] : Follows(g, m, 0, step)
  <2> HIDE DEF step
  <2> QED
    BY <1>1, <1>2, RecursionExists
<1>4. \A k \in 1 .. m : g[k] = f[g[k - 1]]
  BY <1>3 DEF Follows
<1>5. g = [k \in 0 .. m |-> IF k = 0 THEN 0 ELSE f[g[k - 1]]]
  <2>1. \A k \in 0 .. m : k = 0 \/ k \in 1 .. m
    OBVIOUS
  <2>2. \A k \in 0 .. m : g[k] = IF k = 0 THEN 0 ELSE f[g[k - 1]]
    BY <1>3, <1>4, <2>1 DEF Follows
  <2> QED
    BY <2>2
<1>6. IsWalk(at, f, m)
  BY <1>5 DEF IsWalk, WalkOf
<1> HIDE DEF at
<1>7. at = [k \in 0 .. m |-> IF k = 0 THEN 0 ELSE f[at[k - 1]]]
  BY <1>6 DEF IsWalk
<1>8. /\ DOMAIN at = 0 .. m /\ at[0] = 0 
      /\ \A k \in 1 .. m : at[k] = f[at[k - 1]]
  <2>1. \A k \in 0 .. m : at[k] = IF k = 0 THEN 0 ELSE f[at[k - 1]]
    BY <1>7
  <2>2. DOMAIN at = 0 .. m
    BY <1>7
  <2>3. at[0] = 0
    BY <2>1
  <2>4. \A k \in 1 .. m : at[k] = f[at[k - 1]]
    BY <2>1
  <2> QED
    BY <2>2, <2>3, <2>4
<1>9. \A k \in 0 .. m : at[k] \in Nodes
  <2> DEFINE G == {k \in Nat : k <= m => at[k] \in Nodes}
  <2>1. 0 \in G
    BY <1>1, <1>8
  <2>2. ASSUME NEW k \in Nat, k \in G PROVE k + 1 \in G
    <3>1. CASE k + 1 <= m
      <4>1. k + 1 \in 1 .. m /\ (k + 1) - 1 = k /\ at[k] \in Nodes
        BY <2>2, <3>1
      <4>2. at[k + 1] = f[at[k]]
        BY <1>8, <4>1
      <4>3. at[k + 1] \in Nodes
        BY <1>1, <4>1, <4>2
      <4> QED
        BY <4>3
    <3>2. CASE ~ (k + 1 <= m)
      BY <3>2
    <3> QED
      BY <3>1, <3>2
  <2>3. Nat \subseteq G
    <3> HIDE DEF G
    <3> QED
      BY <2>1, <2>2, InductionOnNat
  <2> QED
    BY <2>3
<1>10. at \in [0 .. m -> Nodes]
  BY <1>7, <1>9
<1> QED
  BY <1>8, <1>10 DEF WalksOn, Nodes, at

\* On a ring, or several, the walk comes back to where it began: of two times
\* at the same node, the first is the beginning.
LEMMA WalkReturns ==
  ASSUME NEW n \in Nat \ {0}, NEW f, IsOrder(f, n)
  PROVE  \E k \in 1 .. n : WalkOf(f, n)[k] = 0
<1> DEFINE at == WalkOf(f, n)
           Nodes == 0 .. n - 1
           I == {i \in 0 .. n : \E j \in i + 1 .. n : at[i] = at[j]}
<1>1. WalksOn(at, f, n, n)
  BY WalkGoesOn DEF IsOrder
<1> HIDE DEF at
<1>2. /\ at \in [0 .. n -> Nodes] /\ at[0] = 0 /\ \A k \in 1 .. n : at[k] = f[at[k - 1]]
  BY <1>1 DEF WalksOn
<1>3. I # {}
  <2>1. /\ IsFiniteSet(0 .. n) /\ IsFiniteSet(Nodes)
        /\ Cardinality(0 .. n) = n + 1 /\ Cardinality(Nodes) = n
    BY FS_Interval, 0 \in Int, n \in Int, n - 1 \in Int
  <2>2. Cardinality(Nodes) < Cardinality(0 .. n)
    BY <2>1
  <2>3. PICK i, j \in 0 .. n : i # j /\ at[i] = at[j]
    <3> HIDE DEF Nodes
    <3> QED
      BY <1>2, <2>1, <2>2, FS_PigeonHole
  <2>4. i < j \/ j < i
    BY <2>3
  <2> QED
    BY <2>3, <2>4
<1>4. PICK i \in I : \A h \in I : i <= h
  <2>1. I \subseteq Nat
    OBVIOUS
  <2>2. PICK i \in I : \A h \in I : ~ <<h, i>> \in OpToRel(<, Nat)
    BY <1>3, <2>1, NatLessThanWellFounded, WFMin
  <2>3. ASSUME NEW h \in I PROVE i <= h
    <3>1. ~ <<h, i>> \in {ss \in Nat \X Nat : ss[1] < ss[2]}
      BY <2>2, <2>3 DEF OpToRel
    <3>2. i \in Nat /\ h \in Nat
      BY <2>1, <2>2, <2>3
    <3> QED
      BY <3>1, <3>2
  <2> QED
    BY <2>3
<1>5. PICK j \in i + 1 .. n : at[i] = at[j]
  BY <1>4
<1>6. CASE i = 0
  BY <1>2, <1>5, <1>6 DEF at
<1>7. CASE i # 0
  <2>1. /\ i \in 1 .. n /\ j \in 1 .. n /\ i - 1 \in 0 .. n /\ j - 1 \in 0 .. n /\ j - 1 \in (i - 1) + 1 .. n
    BY <1>4, <1>5, <1>7
  <2>2. f[at[i - 1]] = f[at[j - 1]] /\ at[i - 1] \in Nodes /\ at[j - 1] \in Nodes
    <3> HIDE DEF Nodes, I
    <3> QED
      BY <1>2, <1>5, <2>1
  <2>3. at[i - 1] = at[j - 1]
    <3>1. \A a, b \in 0 .. n - 1 : f[a] = f[b] => a = b
      BY DEF IsOrder
    <3> HIDE DEF I
    <3> QED
      BY <2>2, <3>1
  <2>4. i - 1 \in I
    BY <2>1, <2>3
  <2> QED
    BY <1>4, <2>1, <2>4
<1> QED
  BY <1>6, <1>7

IsShuffle(after, drawn, n) ==
  after = [i \in 0 .. n - 1 |->
             IF i = 0 THEN [node \in V!NodesOf(n) |-> (node + 1) % n]
                      ELSE V!Swap(after[i - 1], i - 1, drawn[i - 1])]

LEMMA ShuffledIs ==
  \A drawn, n : V!Shuffled(drawn, n) = (CHOOSE after : IsShuffle(after, drawn, n))[n - 1]
BY DEF V!Shuffled, IsShuffle

\* The first ring is one, and to swap two successors leaves a permutation.
LEMMA RingIsAnOrder ==
  ASSUME NEW n \in Nat \ {0}
  PROVE  IsOrder([node \in 0 .. n - 1 |-> (node + 1) % n], n)
<1> DEFINE ring == [node \in 0 .. n - 1 |-> (node + 1) % n]
<1>1. \A node \in 0 .. n - 1 : ring[node] = IF node = n - 1 THEN 0 ELSE node + 1
  OBVIOUS
<1>2. DOMAIN ring = 0 .. n - 1 /\ ring = [node \in 0 .. n - 1 |-> ring[node]]
  OBVIOUS
<1> HIDE DEF ring
<1>3. ring \in [0 .. n - 1 -> 0 .. n - 1]
  BY <1>1, <1>2
<1>4. \A i, j \in 0 .. n - 1 : ring[i] = ring[j] => i = j
  BY <1>1
<1>5. \A node \in 0 .. n - 1 : \E i \in 0 .. n - 1 : ring[i] = node
  <2>1. TAKE node \in 0 .. n - 1
  <2>2. CASE node = 0
    <3>1. n - 1 \in 0 .. n - 1 /\ ring[n - 1] = node
      BY <1>1, <2>2
    <3> QED
      BY <3>1
  <2>3. CASE node # 0
    <3>1. node - 1 \in 0 .. n - 1 /\ ring[node - 1] = node
      BY <1>1, <2>3
    <3> QED
      BY <3>1
  <2> QED
    BY <2>2, <2>3
<1> QED
  BY <1>3, <1>4, <1>5 DEF IsOrder, ring

LEMMA SwapKeepsOrder ==
  ASSUME NEW n, NEW f, IsOrder(f, n), NEW i \in 0 .. n - 1, NEW j \in 0 .. n - 1
  PROVE  IsOrder(V!Swap(f, i, j), n)
<1> DEFINE g == V!Swap(f, i, j)
           other(k) == IF k = i THEN j ELSE IF k = j THEN i ELSE k
<1>1. \A k \in 0 .. n - 1 : g[k] = f[other(k)] /\ other(k) \in 0 .. n - 1
  BY DEF V!Swap, IsOrder
<1>2. g = [k \in 0 .. n - 1 |-> g[k]]
  BY DEF V!Swap, IsOrder
<1>3. \A k : other(other(k)) = k
  OBVIOUS
<1> HIDE DEF g, other
<1>4. g \in [0 .. n - 1 -> 0 .. n - 1]
  <2> DEFINE Nodes == 0 .. n - 1
  <2>1. f \in [Nodes -> Nodes]
    BY DEF IsOrder
  <2> HIDE DEF Nodes
  <2>2. \A k \in Nodes : g[k] \in Nodes
    BY <1>1, <2>1 DEF Nodes
  <2>3. g = [k \in Nodes |-> g[k]]
    BY <1>2 DEF Nodes
  <2>4. g \in [Nodes -> Nodes]
    BY <2>2, <2>3
  <2> QED
    BY <2>4 DEF Nodes
<1>5. ASSUME NEW k \in 0 .. n - 1, NEW l \in 0 .. n - 1, g[k] = g[l] PROVE k = l
  <2>1. other(k) = other(l)
    <3>1. /\ f[other(k)] = f[other(l)]
          /\ other(k) \in 0 .. n - 1 /\ other(l) \in 0 .. n - 1
      BY <1>1, <1>5
    <3>2. \A x, y \in 0 .. n - 1 : f[x] = f[y] => x = y
      BY DEF IsOrder
    <3> QED
      BY <3>1, <3>2
  <2> QED
    BY <1>3, <2>1
<1>6. ASSUME NEW node \in 0 .. n - 1 PROVE \E k \in 0 .. n - 1 : g[k] = node
  <2>1. PICK k \in 0 .. n - 1 : f[k] = node
    BY DEF IsOrder
  <2>2. other(k) \in 0 .. n - 1 /\ g[other(k)] = f[other(other(k))]
    BY <1>1
  <2> QED
    BY <1>3, <2>1, <2>2
<1> QED
  BY <1>4, <1>5, <1>6 DEF IsOrder, g

\* What pointer_chase makes of the ring is a permutation.
LEMMA ShuffledIsAnOrder ==
  ASSUME NEW n \in Nat \ {0}, NEW drawn \in V!Draws(n)
  PROVE  IsOrder(V!Shuffled(drawn, n), n)
<1> DEFINE T == {f \in [0 .. n - 1 -> 0 .. n - 1] : IsOrder(f, n)}
           ring == [node \in V!NodesOf(n) |-> (node + 1) % n]
           step == [k \in 1 .. n - 1 |-> [f \in T |-> V!Swap(f, k - 1, drawn[k - 1])]]
           after == CHOOSE after : IsShuffle(after, drawn, n)
<1>1. \A f : f \in T <=> IsOrder(f, n)
  BY DEF IsOrder
<1>2. ring \in T
  BY <1>1, RingIsAnOrder DEF V!NodesOf
<1>3. \A k \in 1 .. n - 1 : k - 1 \in 0 .. n - 1 /\ drawn[k - 1] \in 0 .. n - 1
  BY DEF V!Draws, V!NodesOf
<1> HIDE DEF T, ring
<1>4. ASSUME NEW k \in 1 .. n - 1, NEW f \in T PROVE V!Swap(f, k - 1, drawn[k - 1]) \in T
  BY <1>1, <1>3, SwapKeepsOrder
<1>5. step \in [1 .. n - 1 -> [T -> T]]
  BY <1>4
<1>6. PICK g \in [0 .. n - 1 -> T] : Follows(g, n - 1, ring, step)
  <2>1. n - 1 \in Nat
    OBVIOUS
  <2> HIDE DEF step
  <2> QED
    BY <1>2, <1>5, <2>1, RecursionExists
<1>7. \A i \in 0 .. n - 1 : g[i] = IF i = 0 THEN ring ELSE V!Swap(g[i - 1], i - 1, drawn[i - 1])
  <2>1. TAKE i \in 0 .. n - 1
  <2>2. CASE i # 0
    <3>1. i \in 1 .. n - 1 /\ i - 1 \in 0 .. n - 1
      BY <2>2
    <3>2. g[i] = step[i][g[i - 1]] /\ g[i - 1] \in T
      BY <1>6, <3>1 DEF Follows
    <3> QED
      BY <2>2, <3>1, <3>2
  <2>3. CASE i = 0
    BY <1>6, <2>3 DEF Follows
  <2> QED
    BY <2>2, <2>3
<1>8. IsShuffle(g, drawn, n)
  <2>1. g = [i \in 0 .. n - 1 |-> IF i = 0 THEN ring ELSE V!Swap(g[i - 1], i - 1, drawn[i - 1])]
    BY <1>7
  <2> QED
    BY <2>1 DEF IsShuffle, ring
<1>9. IsShuffle(after, drawn, n)
  BY <1>8
<1> HIDE DEF after
<1>10. \A i \in 0 .. n - 1 : after[i] = IF i = 0 THEN ring ELSE V!Swap(after[i - 1], i - 1, drawn[i - 1])
  <2>1. after = [i \in 0 .. n - 1 |-> IF i = 0 THEN ring ELSE V!Swap(after[i - 1], i - 1, drawn[i - 1])]
    BY <1>9 DEF IsShuffle, ring
  <2> QED
    BY <2>1
<1>11. after[n - 1] \in T
  <2> DEFINE G == {k \in Nat : k <= n - 1 => after[k] \in T}
  <2>1. 0 \in G
    BY <1>2, <1>10
  <2>2. ASSUME NEW k \in Nat, k \in G PROVE k + 1 \in G
    <3>1. CASE k + 1 <= n - 1
      <4>1. /\ k + 1 \in 1 .. n - 1 /\ k + 1 \in 0 .. n - 1 /\ k + 1 # 0
            /\ (k + 1) - 1 = k /\ after[k] \in T
        BY <2>2, <3>1
      <4>2. after[k + 1] = V!Swap(after[k], k, drawn[k])
        BY <1>10, <4>1
      <4>3. V!Swap(after[k], k, drawn[k]) \in T
        BY <1>4, <4>1
      <4> QED
        BY <4>2, <4>3
    <3>2. CASE ~ (k + 1 <= n - 1)
      BY <3>2
    <3> QED
      BY <3>1, <3>2
  <2>3. Nat \subseteq G
    <3> HIDE DEF G
    <3> QED
      BY <2>1, <2>2, InductionOnNat
  <2> QED
    BY <2>3
<1> QED
  BY <1>1, <1>11, ShuffledIs DEF after

\* The memory explorers' walk comes back to its first node.
LEMMA WalksComeBack ==
  ASSUME V!VmAssumption
  PROVE  V!WalkComesBack
<1>1. SUFFICES ASSUME NEW drawn \in V!Draws(ListLength)
               PROVE  /\ V!Shuffled(drawn, ListLength) \in V!Orders(ListLength)
                      /\ 0 \in V!Visited(V!Shuffled(drawn, ListLength), ListLength)
  BY DEF V!WalkComesBack
<1>2. ListLength \in Nat \ {0}
  BY DEF V!VmAssumption
<1>3. IsOrder(V!Shuffled(drawn, ListLength), ListLength)
  BY <1>2, ShuffledIsAnOrder
<1>4. PICK k \in 1 .. ListLength : V!Walk(V!Shuffled(drawn, ListLength), ListLength)[k] = 0
  BY <1>2, <1>3, WalkReturns, WalksAre
<1> QED
  BY <1>3, <1>4, OrdersAre DEF V!Visited

-----------------------------------------------------------------------------
(* The list of the cache analyzer *)

\* A walk of as many steps as there are nodes goes all the way round.
LEMMA ChainGoesRound ==
  ASSUME NEW n \in Nat \ {0}, NEW order \in K!Orders(n)
  PROVE  K!Visited(K!Chain(order, n), n) = 0 .. n - 1
<1> DEFINE Nodes == 0 .. n - 1
           place == [node \in Nodes |-> CHOOSE s \in Nodes : order[s] = node]
           chain == K!Chain(order, n)
           at == WalkOf(chain, n)
           After(q) == IF q = n - 1 THEN 0 ELSE q + 1
<1>1. IsOrder(order, n)
  BY DEF K!Orders, K!NodesOf, K!Bijection, K!Injection, K!Surjection, K!IsInjective, IsOrder
<1>2. \A node \in Nodes : place[node] \in Nodes /\ order[place[node]] = node
  BY <1>1 DEF IsOrder
<1>3. \A q \in Nodes : place[order[q]] = q /\ order[q] \in Nodes
  BY <1>1, <1>2 DEF IsOrder
<1>4. \A node \in Nodes : K!Inverse(order, Nodes, Nodes)[node] = place[node]
  <2>1. TAKE node \in Nodes
  <2>2. node \in K!Range(order)
    BY <1>1 DEF IsOrder, K!Range
  <2> QED
    BY <2>2 DEF K!Inverse
<1> HIDE DEF place
<1>5. \A q \in Nodes : (q + 1) % n = After(q) /\ After(q) \in Nodes
  OBVIOUS
<1>6. chain = [node \in Nodes |-> order[After(place[node])]]
  <2>1. chain = [node \in Nodes |-> order[(K!Inverse(order, Nodes, Nodes)[node] + 1) % n]]
    BY DEF K!Chain, K!NodesOf
  <2> HIDE DEF Nodes, After, chain
  <2> QED
    BY <1>2, <1>4, <1>5, <2>1
<1> HIDE DEF chain, Nodes, After
<1>7. chain \in [Nodes -> Nodes] /\ \A q \in Nodes : chain[order[q]] = order[After(q)]
  BY <1>2, <1>3, <1>5, <1>6
<1>8. WalksOn(at, chain, n, n)
  BY <1>7, WalkGoesOn DEF Nodes
<1> HIDE DEF at
<1>9. /\ at \in [0 .. n -> Nodes] /\ at[0] = 0 /\ \A k \in 1 .. n : at[k] = chain[at[k - 1]]
  BY <1>8 DEF WalksOn, Nodes
<1>10. PICK p \in Nodes : order[p] = 0
  BY <1>2 DEF Nodes
<1> DEFINE Place(k) == IF p + k < n THEN p + k ELSE IF p + k - n < n THEN p + k - n ELSE p + k - 2 * n
<1>11. \A k \in 0 .. n : Place(k) \in Nodes
  BY <1>10 DEF Nodes
<1>12. \A k \in 0 .. n : at[k] = order[Place(k)]
  <2> DEFINE G == {k \in Nat : k <= n => at[k] = order[Place(k)]}
  <2>1. 0 \in G
    BY <1>9, <1>10 DEF Nodes
  <2>2. ASSUME NEW k \in Nat, k \in G PROVE k + 1 \in G
    <3>1. CASE k + 1 <= n
      <4>1. k + 1 \in 1 .. n /\ (k + 1) - 1 = k /\ k \in 0 .. n /\ at[k] = order[Place(k)]
        BY <2>2, <3>1
      <4>2. at[k + 1] = order[After(Place(k))]
        BY <1>7, <1>9, <1>11, <4>1
      <4>3. After(Place(k)) = Place(k + 1)
        BY <1>10, <4>1 DEF Nodes, After
      <4> QED
        BY <4>2, <4>3
    <3>2. CASE ~ (k + 1 <= n)
      BY <3>2
    <3> QED
      BY <3>1, <3>2
  <2>3. Nat \subseteq G
    <3> HIDE DEF G
    <3> QED
      BY <2>1, <2>2, InductionOnNat
  <2> QED
    BY <2>3
<1>13. ASSUME NEW node \in Nodes PROVE \E k \in 1 .. n : at[k] = node
  <2> DEFINE q == place[node]
  <2>1. q \in Nodes /\ order[q] = node
    BY <1>2
  <2> DEFINE k == IF q > p THEN q - p ELSE q - p + n
  <2> HIDE DEF q
  <2>2. k \in 1 .. n /\ k \in 0 .. n /\ Place(k) = q
    BY <1>10, <2>1 DEF Nodes
  <2>3. at[k] = node
    BY <1>12, <2>1, <2>2
  <2> QED
    BY <2>2, <2>3
<1>14. \A k \in 1 .. n : at[k] \in Nodes
  BY <1>9
<1>15. K!Visited(chain, n) = {at[k] : k \in 1 .. n}
  BY WalksAre DEF K!Visited, at
<1> QED
  BY <1>13, <1>14, <1>15 DEF Nodes, chain

-----------------------------------------------------------------------------
(* The blocks of the tests *)

Kinds == {"mmap", "malloc", "huge"}
Cases == {<<"mmap">>, <<"huge">>, <<"malloc">>, <<"malloc", "mmap">>}

TestsAre(tests_) ==
  /\ Len(tests_) = 4 /\ DOMAIN tests_ = 1 .. 4
  /\ \A t \in 1 .. 4 : /\ Len(tests_[t]) \in 1 .. 5
                       /\ \A n \in 1 .. Len(tests_[t]) : tests_[t][n] \in Cases

\* Four tests, of one to five cases each.
LEMMA FourTests == TestsAre(V!Tests)
<1> DEFINE last == IF V!C THEN <<<<"malloc">>, <<"mmap">>>> ELSE <<<<"malloc", "mmap">>>>
           mm == V!MmapVsMalloc
<1>1. last \in Seq(Cases) /\ (Len(last) = 1 \/ Len(last) = 2)
  <2>1. CASE V!C
    BY <2>1 DEF Cases
  <2>2. CASE ~V!C
    BY <2>2 DEF Cases
  <2> QED
    BY <2>1, <2>2
<1>2. ASSUME NEW n \in 1 .. 5, NEW c \in Cases
      PROVE  V!Times(n, c) \in Seq(Cases) /\ Len(V!Times(n, c)) = n
  BY <1>2 DEF V!Times
<1>3. mm \in Seq(Cases) /\ Len(mm) \in 1 .. 5
  <2>1. mm = V!Times(3, <<"malloc", "mmap">>) \o last
    BY DEF V!MmapVsMalloc
  <2>2. V!Times(3, <<"malloc", "mmap">>) \in Seq(Cases) /\ Len(V!Times(3, <<"malloc", "mmap">>)) = 3
    BY <1>2 DEF Cases
  <2> HIDE DEF last, mm
  <2>3. mm \in Seq(Cases) /\ Len(mm) = Len(V!Times(3, <<"malloc", "mmap">>)) + Len(last)
    BY <1>1, <2>1, <2>2, ConcatProperties
  <2>4. Len(mm) = 3 + Len(last)
    BY <2>2, <2>3
  <2>5. \A k, m : (k = 1 \/ k = 2) /\ m = 3 + k => m \in 1 .. 5
    OBVIOUS
  <2>6. Len(mm) \in 1 .. 5
    BY <1>1, <2>4, <2>5
  <2> QED
    BY <2>3, <2>6
<1> HIDE DEF last, mm
<1>4. /\ V!Times(5, <<"mmap">>) \in Seq(Cases) /\ Len(V!Times(5, <<"mmap">>)) = 5
      /\ V!Times(3, <<"mmap">>) \in Seq(Cases) /\ Len(V!Times(3, <<"mmap">>)) = 3
  BY <1>2 DEF Cases
<1>5. <<<<"mmap">>, <<"huge">>>> \in Seq(Cases) /\ Len(<<<<"mmap">>, <<"huge">>>>) = 2
  BY DEF Cases
<1>6. V!Tests = <<V!Times(5, <<"mmap">>), V!Times(3, <<"mmap">>), <<<<"mmap">>, <<"huge">>>>, mm>>
  BY DEF V!Tests, mm
<1>7. /\ V!Tests[1] = V!Times(5, <<"mmap">>) /\ V!Tests[2] = V!Times(3, <<"mmap">>)
      /\ V!Tests[3] = <<<<"mmap">>, <<"huge">>>> /\ V!Tests[4] = mm
      /\ Len(V!Tests) = 4 /\ DOMAIN V!Tests = 1 .. 4
  BY <1>6
<1>8. \A t \in 1 .. 4 : V!Tests[t] \in Seq(Cases) /\ Len(V!Tests[t]) \in 1 .. 5
  <2>1. \A t \in 1 .. 4 : t = 1 \/ t = 2 \/ t = 3 \/ t = 4
    OBVIOUS
  <2>2. /\ V!Tests[1] \in Seq(Cases) /\ Len(V!Tests[1]) \in 1 .. 5
        /\ V!Tests[2] \in Seq(Cases) /\ Len(V!Tests[2]) \in 1 .. 5
        /\ V!Tests[3] \in Seq(Cases) /\ Len(V!Tests[3]) \in 1 .. 5
        /\ V!Tests[4] \in Seq(Cases) /\ Len(V!Tests[4]) \in 1 .. 5
    BY <1>3, <1>4, <1>5, <1>7
  <2> QED
    BY <2>1, <2>2
<1> QED
  BY <1>7, <1>8, ElementOfSeq DEF TestsAre

BlocksAre(live_, case) ==
  /\ Len(live_) <= Len(case)
  /\ \A i \in DOMAIN live_ : live_[i] = case[i] \/ case[i] = "huge"

BlocksInv ==
  /\ main \in {"allocate", "cow", "report", "exit", "crashed", "blocked"} \cup Testing
  /\ test \in 1 .. 4 /\ next \in 1 .. 5 /\ live \in Seq(Kinds)
  /\ main = "allocate" => /\ next <= Len(V!Tests[test])
                          /\ BlocksAre(live, V!BlocksOfCase)
  /\ main \in {"cow", "report", "exit"} => live = <<>>

LEMMA BlocksInvStep ==
  ASSUME MemoryInv, BlocksInv, [V!Next]_(V!vmVars)
  PROVE  BlocksInv'
<1> USE DEF V!process, V!channel, V!output, V!own, V!At, V!ChildAt
<1>0. /\ TestsAre(V!Tests) /\ V!C' = V!C /\ V!Tests' = V!Tests
      /\ program' = program
  <2>1. program' = program
    BY DEF V!Next, V!Main, V!ChildSteps, V!Allocate, V!FallsBack, V!AllocateFails, V!TouchesNull,
       V!UseAndFree, V!CowBegins, V!CowFails, V!OpenPipe, V!PipeFails, V!Fork, V!ForkFails,
       V!CloseWriteEnd, V!ParentModifies, V!Read, V!ReadAll, V!Wait, V!Report, V!ChildModifies,
       V!ChildSends, V!ChildSendsTime, V!Exit, V!Over, V!vmVars
  <2> QED
    BY <2>1, FourTests DEF V!C, V!Tests, V!MmapVsMalloc
<1>1. CASE V!Allocate \/ V!FallsBack
  <2>1. PICK block \in Kinds :
          /\ main = "allocate" /\ UNCHANGED <<main, next, test>> /\ Len(live) < Len(V!BlocksOfCase)
          /\ live' = Append(live, block)
          /\ block = V!BlocksOfCase[Len(live) + 1] \/ V!BlocksOfCase[Len(live) + 1] = "huge"
    <3>1. main = "allocate" /\ next \in 1 .. Len(V!Tests[test]) /\ live \in Seq(Kinds)
      BY <1>1 DEF BlocksInv, V!Allocate, V!FallsBack
    <3>2. V!BlocksOfCase \in Cases
      BY <1>0, <3>1 DEF V!BlocksOfCase, TestsAre, BlocksInv
    <3>3. \A i \in 1 .. Len(V!BlocksOfCase) : V!BlocksOfCase[i] \in Kinds
      BY <3>2 DEF Cases, Kinds
    <3>4. Len(live) < Len(V!BlocksOfCase) => V!BlocksOfCase[Len(live) + 1] \in Kinds
      BY <3>1, <3>2, <3>3 DEF Cases
    <3>5. "mmap" \in Kinds
      BY DEF Kinds
    <3>6. CASE V!Allocate
      BY <3>4, <3>6 DEF V!Allocate
    <3>7. CASE V!FallsBack
      BY <3>5, <3>7 DEF V!FallsBack
    <3> QED
      BY <1>1, <3>6, <3>7
  <2>2. V!BlocksOfCase' = V!BlocksOfCase
    BY <1>0, <2>1 DEF V!BlocksOfCase
  <2>3. V!BlocksOfCase \in Cases
    BY <1>0, <2>1 DEF V!BlocksOfCase, TestsAre, BlocksInv
  <2>4. /\ live' \in Seq(Kinds) /\ Len(live') = Len(live) + 1
        /\ \A i \in DOMAIN live' : IF i = Len(live) + 1 THEN live'[i] = block
                                   ELSE i \in DOMAIN live /\ live'[i] = live[i]
    BY <2>1 DEF BlocksInv
  <2>5. BlocksAre(live', V!BlocksOfCase)
    <3>1. Len(V!BlocksOfCase) \in Nat /\ Len(live) \in Nat
      BY <2>3 DEF Cases, BlocksInv
    <3>2. Len(live') <= Len(V!BlocksOfCase)
      BY <2>1, <2>4, <3>1
    <3> QED
      BY <2>1, <2>4, <3>2 DEF BlocksAre, BlocksInv
  <2> QED
    BY <1>0, <2>1, <2>2, <2>4, <2>5 DEF BlocksInv, Testing, Forked
<1>2. CASE V!AllocateFails \/ V!UseAndFree
  <2>1. /\ main = "allocate" /\ live' = <<>> /\ (V!NextTest \/ V!NextCase)
    BY <1>2 DEF V!AllocateFails, V!UseAndFree
  <2>2. /\ main' \in {"allocate", "cow"} /\ test' \in 1 .. 4 /\ next' \in 1 .. 5
        /\ main' = "allocate" => next' <= Len(V!Tests[test'])
    <3>1. /\ test \in 1 .. 4 /\ next \in 1 .. 5 /\ Len(V!Tests) = 4
          /\ \A t \in 1 .. 4 : Len(V!Tests[t]) \in 1 .. 5
      BY <1>0 DEF TestsAre, BlocksInv
    <3>2. CASE V!NextTest
      <4>1. CASE test < 4
        <5>1. test' = test + 1 /\ main' = main /\ next' = 1
          BY <3>1, <3>2, <4>1 DEF V!NextTest
        <5>2. test + 1 \in 1 .. 4
          BY <3>1, <4>1
        <5>3. main' = "allocate" /\ test' \in 1 .. 4 /\ next' = 1
          BY <2>1, <5>1, <5>2
        <5>4. Len(V!Tests[test']) \in 1 .. 5
          BY <3>1, <5>3
        <5>5. next' <= Len(V!Tests[test'])
          BY <5>3, <5>4
        <5> QED
          BY <5>3, <5>5
      <4>2. CASE ~ (test < 4)
        <5>1. main' = "cow" /\ test' = test /\ next' = 1
          BY <3>1, <3>2, <4>2 DEF V!NextTest
        <5> QED
          BY <3>1, <5>1
      <4> QED
        BY <4>1, <4>2
    <3>3. CASE next < Len(V!Tests[test]) /\ next' = next + 1 /\ UNCHANGED <<main, test>>
      <4>1. PICK k \in 1 .. 5 : k = Len(V!Tests[test])
        BY <3>1
      <4>2. next < k /\ next' = next + 1 /\ next' <= k
        BY <3>1, <3>3, <4>1
      <4>3. next' \in 1 .. 5 /\ main' = main /\ test' = test
        <5>1. next \in 1 .. 5
          BY <3>1
        <5>2. main' = main /\ test' = test
          BY <3>3
        <5>3. k \in 1 .. 5
          OBVIOUS
        <5> QED
          BY <4>2, <5>1, <5>2, <5>3
      <4>4. next' <= Len(V!Tests[test'])
        BY <4>1, <4>2, <4>3
      <4> QED
        BY <2>1, <3>1, <4>3, <4>4
    <3> QED
      BY <2>1, <3>2, <3>3 DEF V!NextCase
  <2>3. main' = "allocate" => V!BlocksOfCase' \in Cases
    BY <1>0, <2>2 DEF V!BlocksOfCase, TestsAre
  <2>4. main' = "allocate" => BlocksAre(live', V!BlocksOfCase')
    <3>1. Len(live') = 0 /\ DOMAIN live' = {} /\ live' \in Seq(Kinds)
      BY <2>1
    <3>2. main' = "allocate" => Len(V!BlocksOfCase') \in Nat
      BY <2>3 DEF Cases
    <3> QED
      BY <3>1, <3>2 DEF BlocksAre
  <2>5. live' \in Seq(Kinds)
    BY <2>1
  <2> QED
    BY <1>0, <2>1, <2>2, <2>4, <2>5 DEF BlocksInv, Testing, Forked
<1>3. CASE V!TouchesNull \/ V!CowFails \/ V!Report \/ V!OpenPipe \/ V!ForkFails \/ V!CloseWriteEnd
           \/ V!ParentModifies \/ V!Read \/ V!ReadAll \/ V!Fork
  <2>1. /\ UNCHANGED <<next, test, live>> /\ main' # "allocate"
        /\ main' \in {"report", "exit", "crashed"} \cup Testing
        /\ main' \in {"cow", "report", "exit"} => main \in {"cow", "report", "exit"}
    BY <1>3 DEF V!TouchesNull, V!CowFails, V!Report, V!OpenPipe, V!ForkFails, V!CloseWriteEnd,
       V!ParentModifies, V!Read, V!ReadAll, V!Fork, V!AfterFork, Testing, Forked
  <2> QED
    BY <2>1 DEF BlocksInv
<1>4. CASE V!CowBegins \/ V!PipeFails \/ V!Wait
  <2>1. /\ test' = test /\ next' \in 1 .. 5 /\ live' \in Seq(Kinds) /\ main' # "allocate"
        /\ main' \in {"report", "blocked"} \cup Testing
        /\ main' \in {"cow", "report", "exit"} => live' = <<>>
    <3>1. next \in 1 .. 5 /\ (V!Wait => next \in 1 .. 3)
      BY DEF BlocksInv, MemoryInv, ParentAt, V!Wait, Testing, Forked
    <3>2. <<"mmap">> \in Seq(Kinds) /\ <<>> \in Seq(Kinds) /\ live \in Seq(Kinds)
      BY DEF BlocksInv, Kinds
    <3>3. CASE V!CowBegins
      BY <3>1, <3>2, <3>3 DEF V!CowBegins, Testing, BlocksInv
    <3>4. CASE V!PipeFails
      BY <3>1, <3>2, <3>4 DEF V!PipeFails, Testing
    <3>5. CASE V!Wait
      <4>1. /\ test' = test /\ main' \in {"pipe", "report"}
            /\ main' = "pipe" => next' = next + 1 /\ live' = live
            /\ main' = "report" => next' = next /\ live' = <<>>
        BY <3>5 DEF V!Wait
      <4>2. next' \in 1 .. 5
        BY <3>1, <3>5, <4>1
      <4>3. live' \in Seq(Kinds)
        BY <3>2, <4>1
      <4> QED
        BY <4>1, <4>2, <4>3 DEF Testing
    <3> QED
      BY <1>4, <3>3, <3>4, <3>5
  <2> QED
    BY <2>1 DEF BlocksInv
<1>5. CASE V!ChildModifies \/ V!ChildSends \/ V!ChildSendsTime \/ V!Exit \/ V!Over \/ UNCHANGED V!vmVars
  <2>1. UNCHANGED <<main, next, test, live>>
    BY <1>5 DEF V!ChildModifies, V!ChildSends, V!ChildSendsTime, V!Exit, V!Over, V!vmVars
  <2>2. V!BlocksOfCase' = V!BlocksOfCase
    BY <1>0, <2>1 DEF V!BlocksOfCase
  <2> QED
    BY <1>0, <2>1, <2>2 DEF BlocksInv
<1> QED
  BY <1>1, <1>2, <1>3, <1>4, <1>5 DEF V!Next, V!Main, V!ChildSteps

-----------------------------------------------------------------------------
(* The types of the memory and of the pipe *)

ValuesInv ==
  /\ memory \in [V!Pages -> V!Values] /\ copy \in [V!Pages -> V!Values]
  /\ pipe \in Seq(V!Messages) /\ got \in Seq(V!Messages)

LEMMA VmCardinality == \A S : V!Cardinality(S) = Cardinality(S)
BY DEF V!Cardinality, Cardinality

LEMMA ValuesInvStep ==
  ASSUME V!VmAssumption, MemoryInv, ValuesInv, [V!Next]_(V!vmVars)
  PROVE  ValuesInv'
<1> USE DEF V!process, V!channel, V!output, V!own, V!At, V!ChildAt
<1>1. V!Garbage \in V!Messages
  BY DEF V!Garbage, V!Message, V!Messages
<1>2. <<>> \in Seq(V!Messages)
  OBVIOUS
<1>3. CASE V!CowBegins \/ V!ParentModifies \/ V!Fork \/ V!ChildModifies
  <2>1. UNCHANGED <<pipe, got>>
    BY <1>3 DEF V!CowBegins, V!ParentModifies, V!Fork, V!ChildModifies
  <2>2. CASE V!CowBegins
    BY <2>1, <2>2 DEF V!CowBegins, ValuesInv, V!Values
  <2>3. CASE V!ParentModifies
    BY <2>1, <2>3 DEF V!ParentModifies, ValuesInv, V!Values
  <2>4. CASE V!Fork
    BY <2>1, <2>4 DEF V!Fork, ValuesInv
  <2>5. CASE V!ChildModifies
    <3>1. memory' = memory /\ \E p : copy' = [copy EXCEPT ![p] = V!ValueOfFork]
      BY <2>5 DEF V!ChildModifies
    <3>2. next \in 1 .. 3
      BY <2>5 DEF V!ChildModifies, MemoryInv, ParentAt, Testing, Forked
    <3>3. V!ValueOfFork \in V!Values
      BY <3>2 DEF V!ValueOfFork, V!Values
    <3> QED
      BY <2>1, <3>1, <3>3 DEF ValuesInv
  <2> QED
    BY <1>3, <2>2, <2>3, <2>4, <2>5
<1>4. CASE V!Read \/ V!Wait \/ V!ChildSends \/ V!ChildSendsTime
  <2>1. UNCHANGED <<memory, copy>>
    BY <1>4 DEF V!Read, V!Wait, V!ChildSends, V!ChildSendsTime
  <2>2. pipe' \in Seq(V!Messages) /\ got' \in Seq(V!Messages)
    <3>1. CASE V!Read
      <4>1. \/ /\ pipe # <<>> /\ got' = Append(got, Head(pipe)) /\ pipe' = Tail(pipe)
            \/ got' = Append(got, V!Garbage) /\ pipe' = pipe
        BY <3>1 DEF V!Read
      <4>2. pipe \in Seq(V!Messages) /\ got \in Seq(V!Messages)
        BY DEF ValuesInv
      <4>3. CASE pipe # <<>> /\ got' = Append(got, Head(pipe)) /\ pipe' = Tail(pipe)
        <5>1. Head(pipe) \in V!Messages /\ Tail(pipe) \in Seq(V!Messages)
          BY <4>2, <4>3, HeadTailProperties
        <5> QED
          BY <4>2, <4>3, <5>1, AppendProperties
      <4>4. CASE got' = Append(got, V!Garbage) /\ pipe' = pipe
        BY <1>1, <4>2, <4>4, AppendProperties
      <4> QED
        BY <4>1, <4>3, <4>4
    <3>2. CASE V!Wait
      BY <1>2, <3>2 DEF V!Wait
    <3>3. CASE V!ChildSends \/ V!ChildSendsTime
      <4>1. Cardinality(V!FirstHalf) = HalfPages
        BY FS_Interval, HalfPages - 1 \in Int, 0 \in Int DEF V!FirstHalf, V!VmAssumption
      <4>2. /\ V!Message("faults", HalfPages) \in V!Messages
            /\ V!Message("done", 0) \in V!Messages /\ V!Message("time", 0) \in V!Messages
        BY DEF V!Message, V!Messages
      <4>3. next = 2 => V!HalfOfFork = V!FirstHalf
        BY DEF V!HalfOfFork
      <4>4. got' = got /\ \E m \in V!Messages : pipe' \in {pipe, Append(pipe, m)}
        <5>1. CASE V!ChildSends
          <6>1. CASE next = 2
            <7>1. got' = got /\ V!Send(V!Message("faults", V!Cardinality(V!HalfOfFork)))
              BY <5>1, <6>1 DEF V!ChildSends
            <7>2. V!Send(V!Message("faults", HalfPages))
              BY <4>1, <4>3, <6>1, <7>1, VmCardinality
            <7> QED
              BY <4>2, <7>1, <7>2 DEF V!Send
          <6>2. CASE next # 2
            <7>1. got' = got /\ V!Send(V!Message("done", 0))
              BY <5>1, <6>2 DEF V!ChildSends
            <7> QED
              BY <4>2, <7>1 DEF V!Send
          <6> QED
            BY <6>1, <6>2
        <5>2. CASE V!ChildSendsTime
          BY <4>2, <5>2 DEF V!ChildSendsTime, V!Send
        <5> QED
          BY <3>3, <5>1, <5>2
      <4> QED
        BY <4>4 DEF ValuesInv
    <3> QED
      BY <1>4, <3>1, <3>2, <3>3
  <2> QED
    BY <2>1, <2>2 DEF ValuesInv
<1>5. CASE ~ (V!CowBegins \/ V!ParentModifies \/ V!Fork \/ V!ChildModifies
              \/ V!Read \/ V!Wait \/ V!ChildSends \/ V!ChildSendsTime)
  <2>1. UNCHANGED <<memory, copy, pipe, got>>
    BY <1>5 DEF V!Next, V!Main, V!ChildSteps, V!Allocate, V!FallsBack, V!AllocateFails,
       V!TouchesNull, V!UseAndFree, V!CowFails, V!OpenPipe, V!PipeFails, V!ForkFails,
       V!CloseWriteEnd, V!ReadAll, V!Report, V!Exit, V!Over, V!vmVars
  <2> QED
    BY <2>1 DEF ValuesInv
<1> QED
  BY <1>3, <1>4, <1>5

-----------------------------------------------------------------------------
(* The output *)

\* The lines before the fork of this number, and those after the last.
Upto(k) == CASE k = 0 -> {}
             [] k = 1 -> {"setup"}
             [] k = 2 -> {"setup", "first"}
             [] k = 3 -> {"setup", "first", "second"}
             [] OTHER -> V!Lines

\* What was printed is written or in the buffer, and nothing else is.
Accounted(P) ==
  /\ unflushed \subseteq P /\ inherited \subseteq P
  /\ \A l \in V!Lines : IF l \in P THEN l \in unflushed \/ written[l] >= 1 ELSE written[l] = 0

\* The children that have exited so far.
Exits == IF main \in Testing THEN next - 1 + (IF pc[V!Child] = "exited" THEN 1 ELSE 0)
                             ELSE V!Forks
Copies(l) == written[l] + (IF l \in unflushed THEN 1 ELSE 0)

OutputInv ==
  /\ program \in {"vm_c", "vm_cpp"} /\ redirected \in BOOLEAN
  /\ unflushed \subseteq V!Lines /\ inherited \subseteq V!Lines
  /\ written \in [V!Lines -> Nat]
  /\ ~redirected => unflushed = {} /\ inherited = {}
  /\ main \in {"allocate", "cow"} => Accounted({})
  /\ main \in Testing => next <= V!Forks /\ Accounted(Upto(next))
  /\ main \in {"report", "exit"} => \E k \in 0 .. 4 : Accounted(Upto(k))
  /\ main = "exit" => unflushed = {}
  /\ \A l \in V!Lines : /\ V!Cpp \/ ~redirected => Copies(l) <= 1
                        /\ Copies(l) <= Exits + 1

\* A line is printed: the lines before it are accounted for, and then it is.
PrintedAlso(line) == /\ \A P : Accounted(P) /\ line \notin P => Accounted(P \cup {line})'
                     /\ unflushed' \subseteq V!Lines /\ written' \in [V!Lines -> Nat]
                     /\ ~redirected => unflushed' = {}
                     /\ \A l \in V!Lines : l # line => Copies(l)' = Copies(l)
                     /\ Copies(line)' = Copies(line) + (IF line \in unflushed THEN 0 ELSE 1)

LEMMA PrintsALine ==
  ASSUME NEW line \in V!Lines, V!Prints(line), inherited' = inherited,
         unflushed \subseteq V!Lines, written \in [V!Lines -> Nat]
  PROVE  PrintedAlso(line)
<1>1. CASE redirected /\ unflushed' = unflushed \cup {line} /\ UNCHANGED written
  BY <1>1 DEF PrintedAlso, Accounted, Copies
<1>2. CASE written' = V!Flush(unflushed \cup {line}) /\ unflushed' = {}
  <2>1. \A l \in V!Lines : written'[l] = written[l] + (IF l \in unflushed \cup {line} THEN 1 ELSE 0)
    BY <1>2 DEF V!Flush
  <2>2. written' \in [V!Lines -> Nat]
    BY <1>2 DEF V!Flush
  <2>3. ASSUME NEW P, Accounted(P), line \notin P PROVE Accounted(P \cup {line})'
    <3>1. ASSUME NEW l \in V!Lines
          PROVE  IF l \in P \cup {line} THEN written'[l] >= 1 ELSE written'[l] = 0
      <4>1. CASE l \in P /\ l \notin unflushed
        BY <2>1, <2>3, <3>1, <4>1 DEF Accounted
      <4>2. CASE l \in unflushed \cup {line}
        <5>1. written'[l] = written[l] + 1 /\ written[l] \in Nat /\ l \in P \cup {line}
          BY <2>1, <2>3, <3>1, <4>2 DEF Accounted
        <5> QED
          BY <5>1
      <4>3. CASE l \notin P \cup {line}
        BY <2>1, <2>3, <3>1, <4>3 DEF Accounted
      <4> QED
        BY <4>1, <4>2, <4>3
    <3> QED
      BY <1>2, <2>3, <3>1 DEF Accounted
  <2>4. \A l \in V!Lines : Copies(l)' = IF l = line /\ l \notin unflushed THEN Copies(l) + 1
                                       ELSE Copies(l)
    <3>1. SUFFICES ASSUME NEW l \in V!Lines
                   PROVE  Copies(l)' = IF l = line /\ l \notin unflushed THEN Copies(l) + 1 ELSE Copies(l)
      OBVIOUS
    <3>2. Copies(l)' = written'[l] /\ written[l] \in Nat
      BY <1>2, <2>2 DEF Copies
    <3>3. written'[l] = written[l] + (IF l \in unflushed \/ l = line THEN 1 ELSE 0)
      BY <2>1
    <3> QED
      BY <3>2, <3>3 DEF Copies
  <2>5. Copies(line)' = Copies(line) + (IF line \in unflushed THEN 0 ELSE 1)
    BY <2>4 DEF Copies
  <2> QED
    BY <1>2, <2>2, <2>3, <2>4, <2>5 DEF PrintedAlso
<1> QED
  BY <1>1, <1>2 DEF V!Prints

LEMMA OutputInvStep ==
  ASSUME MemoryInv, OutputInv, [V!Next]_(V!vmVars)
  PROVE  OutputInv'
<1> USE DEF V!process, V!channel, V!output, V!own, V!At, V!ChildAt
<1>1. CASE V!CowBegins
  <2>1. /\ main = "cow" /\ main' = "fork" /\ next' = 1 /\ V!Prints("setup")
        /\ UNCHANGED <<program, pc, redirected, inherited>>
    BY <1>1 DEF V!CowBegins
  <2>2. "setup" \in V!Lines /\ Accounted({}) /\ unflushed \subseteq V!Lines /\ written \in [V!Lines -> Nat]
    BY <2>1 DEF V!Lines, OutputInv
  <2>3. PrintedAlso("setup")
    BY <2>1, <2>2, PrintsALine
  <2>4. Accounted(Upto(1))'
    BY <2>2, <2>3 DEF PrintedAlso, Upto
  <2>5. \A l \in V!Lines : Copies(l)' <= 1
    BY <2>2, <2>3 DEF PrintedAlso, Copies, Accounted
  <2>6. pc[V!Child] = "none"
    BY <2>1 DEF MemoryInv, ParentAt, Forked
  <2>7. V!Forks' = V!Forks /\ V!Forks \in 2 .. 3 /\ (V!Cpp' <=> V!Cpp)
    BY <2>1 DEF V!Forks, V!C, V!Cpp
  <2>8. Exits' = 0
    BY <2>1, <2>6 DEF Exits, Testing
  <2>9. \A l \in V!Lines : Copies(l)' <= Exits' + 1
    BY <2>5, <2>8
  <2> QED
    BY <2>1, <2>2, <2>3, <2>4, <2>5, <2>7, <2>9 DEF OutputInv, Testing, PrintedAlso
<1>0. /\ V!Forks \in 2 .. 3
      /\ main \in Testing => next \in 1 .. 3 /\ next <= V!Forks
      /\ Exits \in 0 .. V!Forks
      /\ \A l \in V!Lines : Copies(l) \in Nat
  <2>1. V!Forks \in 2 .. 3
    BY DEF V!Forks
  <2>2. main \in Testing => next \in 1 .. 3 /\ next <= V!Forks
    BY DEF OutputInv, MemoryInv, ParentAt
  <2>3. Exits \in 0 .. V!Forks
    BY <2>1, <2>2 DEF Exits
  <2> QED
    BY <2>1, <2>2, <2>3 DEF Copies, OutputInv
<1>2. CASE V!Wait
  <2>1. PICK k \in 1 .. 3 : k = next /\ main = "wait"
    BY <1>0, <1>2 DEF V!Wait, Testing, Forked
  <2> DEFINE line == V!LineOfFork[k]
  <2>2. /\ V!Prints(line) /\ UNCHANGED <<program, redirected, inherited>>
        /\ \/ k < V!Forks /\ main' = "pipe" /\ next' = k + 1
           \/ ~(k < V!Forks) /\ main' = "report"
    BY <1>2, <2>1 DEF V!Wait
  <2>3. pc'[V!Child] = "none"
    BY <1>2 DEF V!Wait, MemoryInv, ParentAt
  <2>4. k \in 1 .. 3 /\ k <= V!Forks /\ Accounted(Upto(k))
    BY <1>0, <2>1 DEF Testing, Forked, OutputInv
  <2>5. line \in V!Lines /\ line \notin Upto(k) /\ Upto(k) \cup {line} = Upto(k + 1)
    <3>1. k = 1 \/ k = 2 \/ k = 3
      BY <2>1
    <3> QED
      BY <3>1 DEF V!LineOfFork, V!Lines, Upto
  <2> HIDE DEF line
  <2>6. PrintedAlso(line)
    BY <2>2, <2>5, PrintsALine DEF OutputInv
  <2>7. Accounted(Upto(k + 1))'
    <3>1. Accounted(Upto(k) \cup {line})'
      BY <2>4, <2>5, <2>6 DEF PrintedAlso
    <3> QED
      BY <2>5, <3>1
  <2>8. V!Forks' = V!Forks /\ (V!Cpp' <=> V!Cpp)
    BY <2>2 DEF V!Forks, V!C, V!Cpp
  <2>9. Exits \in k - 1 .. k /\ Exits' \in k .. V!Forks
    <3>1. Exits \in k - 1 .. k
      BY <2>1, <2>4 DEF Exits, Testing, Forked
    <3>2. CASE k < V!Forks /\ main' = "pipe" /\ next' = k + 1
      <4>1. Exits' = k
        BY <2>3, <2>4, <3>2 DEF Exits, Testing
      <4> QED
        BY <1>0, <2>4, <3>1, <3>2, <4>1
    <3>3. CASE main' = "report"
      <4>1. Exits' = V!Forks
        BY <2>8, <3>3 DEF Exits, Testing, Forked
      <4> QED
        BY <1>0, <2>4, <3>1, <4>1
    <3> QED
      BY <2>2, <3>1, <3>2, <3>3
  <2>10. Copies(line)' = 1 /\ \A l \in V!Lines \ {line} : Copies(l)' = Copies(l)
    <3>1. Copies(line) = 0 /\ line \notin unflushed
      BY <2>4, <2>5 DEF Accounted, Copies
    <3> QED
      BY <2>6, <3>1 DEF PrintedAlso
  <2>11. \A l \in V!Lines : /\ V!Cpp \/ ~redirected => Copies(l)' <= 1
                          /\ Copies(l)' <= Exits' + 1
    BY <1>0, <2>9, <2>10 DEF OutputInv
  <2>12. main' = "pipe" => next' <= V!Forks /\ Accounted(Upto(next))'
    BY <1>0, <2>2, <2>4, <2>7
  <2>13. main' = "report" => \E n \in 0 .. 4 : Accounted(Upto(n))'
    BY <2>1, <2>7
  <2>14. /\ main' \in {"pipe", "report"} /\ main' \in Testing => main' = "pipe"
    BY <2>2 DEF Testing, Forked
  <2> QED
    BY <2>2, <2>6, <2>8, <2>11, <2>12, <2>13, <2>14 DEF OutputInv, PrintedAlso
<1>3. CASE V!Report
  <2>1. /\ main = "report" /\ main' = "exit" /\ written' = V!Flush(unflushed) /\ unflushed' = {}
        /\ UNCHANGED <<program, redirected, inherited>>
    BY <1>3 DEF V!Report
  <2>2. PICK k \in 0 .. 4 : Accounted(Upto(k))
    BY <2>1 DEF OutputInv
  <2>3. written \in [V!Lines -> Nat]
    BY DEF OutputInv
  <2>4. /\ written' \in [V!Lines -> Nat]
        /\ \A l \in V!Lines : written'[l] = Copies(l) /\ Copies(l)' = Copies(l)
    BY <2>1, <2>3 DEF V!Flush, Copies
  <2>5. \A l \in V!Lines : IF l \in Upto(k) THEN written'[l] >= 1 ELSE written'[l] = 0
    BY <1>0, <2>2, <2>3, <2>4 DEF Accounted, Copies
  <2>6. unflushed' \subseteq Upto(k) /\ inherited' \subseteq Upto(k)
    BY <2>1, <2>2 DEF Accounted
  <2>7. /\ unflushed' \subseteq Upto(k) /\ inherited' \subseteq Upto(k)
        /\ \A l \in V!Lines : IF l \in Upto(k) THEN l \in unflushed' \/ written'[l] >= 1
                             ELSE written'[l] = 0
    BY <2>5, <2>6
  <2>8. \E n \in 0 .. 4 : Accounted(Upto(n))'
    BY <2>7 DEF Accounted, Upto
  <2>9. V!Forks' = V!Forks /\ (V!Cpp' <=> V!Cpp) /\ Exits' = V!Forks /\ Exits = V!Forks
    BY <2>1 DEF V!Forks, V!C, V!Cpp, Exits, Testing, Forked
  <2> QED
    BY <2>1, <2>4, <2>8, <2>9 DEF OutputInv, Testing, Forked
<1>4. CASE V!Fork
  <2>1. /\ main = "fork" /\ main' \in {"wait", "close"} /\ inherited' = unflushed
        /\ UNCHANGED <<program, next, redirected, unflushed, written>>
        /\ pc[V!Child] = "none" /\ pc'[V!Child] = "start"
    BY <1>4 DEF V!Fork, V!AfterFork, MemoryInv, ParentAt, Forked
  <2>2. PICK k \in 1 .. 3 : k = next /\ k <= V!Forks /\ Accounted(Upto(k))
    BY <1>0, <2>1 DEF Testing, OutputInv
  <2>3. Accounted(Upto(k))' /\ next' = k
    BY <2>1, <2>2 DEF Accounted
  <2>4. Accounted(Upto(next))'
    BY <2>3
  <2>5. V!Forks' = V!Forks /\ (V!Cpp' <=> V!Cpp) /\ Exits' = Exits
    BY <2>1 DEF V!Forks, V!C, V!Cpp, Exits, Testing, Forked
  <2>6. \A l \in V!Lines : Copies(l)' = Copies(l)
    BY <2>1 DEF Copies
  <2> QED
    BY <2>1, <2>2, <2>4, <2>5, <2>6 DEF OutputInv, Testing, Forked
<1>5. CASE V!Exit
  <2>1. /\ main \in Testing /\ pc[V!Child] # "exited" /\ pc'[V!Child] = "exited"
        /\ UNCHANGED <<program, main, next, redirected, unflushed, inherited>>
        /\ written' = IF V!C THEN V!Flush(inherited) ELSE written
    BY <1>5 DEF V!Exit, MemoryInv, ParentAt, Testing
  <2>2. PICK k \in 1 .. 3 : k = next /\ k <= V!Forks /\ Accounted(Upto(k))
    BY <1>0, <2>1 DEF OutputInv
  <2>3. written \in [V!Lines -> Nat]
    BY DEF OutputInv
  <2>4. ASSUME NEW l \in V!Lines
        PROVE  /\ written'[l] = written[l] \/ (l \in inherited /\ written'[l] = written[l] + 1)
               /\ V!Cpp \/ ~redirected => written'[l] = written[l]
    BY <2>1, <2>3 DEF V!Flush, V!C, V!Cpp, OutputInv
  <2>5. written' \in [V!Lines -> Nat]
    BY <2>1, <2>3 DEF V!Flush
  <2>6. Accounted(Upto(k))'
    <3>1. ASSUME NEW l \in V!Lines
          PROVE  IF l \in Upto(k) THEN l \in unflushed \/ written'[l] >= 1 ELSE written'[l] = 0
      BY <2>2, <2>3, <2>4 DEF Accounted
    <3> QED
      BY <2>1, <2>2, <3>1 DEF Accounted
  <2>7. Accounted(Upto(next))'
    BY <2>1, <2>2, <2>6
  <2>8. V!Forks' = V!Forks /\ (V!Cpp' <=> V!Cpp) /\ Exits' = Exits + 1
    BY <2>1, <2>2 DEF V!Forks, V!C, V!Cpp, Exits
  <2>9. ASSUME NEW l \in V!Lines
        PROVE  /\ V!Cpp \/ ~redirected => Copies(l)' <= 1
               /\ Copies(l)' <= Exits' + 1
    <3>1. /\ Copies(l)' = Copies(l) \/ Copies(l)' = Copies(l) + 1
          /\ V!Cpp \/ ~redirected => Copies(l)' = Copies(l)
      BY <2>1, <2>3, <2>4 DEF Copies
    <3>2. /\ V!Cpp \/ ~redirected => Copies(l) <= 1
          /\ Copies(l) <= Exits + 1 /\ Copies(l) \in Nat /\ Exits \in Nat
      BY <1>0 DEF OutputInv
    <3> QED
      BY <2>8, <3>1, <3>2
  <2> QED
    BY <2>1, <2>2, <2>5, <2>7, <2>8, <2>9 DEF OutputInv, Testing, Forked
<1>6. CASE ~(V!CowBegins \/ V!Wait \/ V!Report \/ V!Fork \/ V!Exit)
  <2>1. UNCHANGED <<program, V!output>>
    BY <1>6 DEF V!Next, V!Main, V!ChildSteps, V!Allocate, V!FallsBack, V!AllocateFails,
       V!TouchesNull, V!UseAndFree, V!CowFails, V!OpenPipe, V!PipeFails, V!ForkFails, V!CloseWriteEnd,
       V!ParentModifies, V!Read, V!ReadAll, V!ChildModifies, V!ChildSends, V!ChildSendsTime,
       V!Over, V!vmVars
  <2>2. /\ main' \in {"allocate", "cow"} => main \in {"allocate", "cow"}
        /\ main' \in Testing => main \in Testing /\ next' = next
                               /\ (pc'[V!Child] = "exited" <=> pc[V!Child] = "exited")
        /\ main' \in {"report", "exit"} => main' = main \/ main \in {"cow"} \cup Testing
        /\ main' = "exit" => main = "exit"
    <3>1. CASE V!Allocate \/ V!FallsBack \/ V!AllocateFails \/ V!TouchesNull \/ V!UseAndFree
      BY <3>1 DEF V!Allocate, V!FallsBack, V!AllocateFails, V!TouchesNull, V!UseAndFree,
         V!NextCase, V!NextTest, Testing, Forked
    <3>2. CASE V!CowFails \/ V!OpenPipe \/ V!PipeFails \/ V!ForkFails \/ V!CloseWriteEnd
               \/ V!ParentModifies \/ V!Read \/ V!ReadAll
      BY <3>2 DEF V!CowFails, V!OpenPipe, V!PipeFails, V!ForkFails, V!AfterFork, V!CloseWriteEnd,
         V!ParentModifies, V!Read, V!ReadAll, Testing, Forked
    <3>3. CASE V!ChildModifies \/ V!ChildSends \/ V!ChildSendsTime
      BY <3>3 DEF V!ChildModifies, V!ChildSends, V!ChildSendsTime, MemoryInv, ParentAt
    <3>4. CASE V!Over \/ UNCHANGED V!vmVars
      BY <3>4 DEF V!Over, V!vmVars
    <3> QED
      BY <1>6, <3>1, <3>2, <3>3, <3>4 DEF V!Next, V!Main, V!ChildSteps
  <2>3. V!Forks' = V!Forks /\ (V!Cpp' <=> V!Cpp)
    BY <2>1 DEF V!Forks, V!C, V!Cpp
  <2>4. Exits' >= Exits /\ Exits' \in Nat
    <3>1. CASE main' \in Testing
      <4>1. Exits' = Exits
        BY <2>2, <3>1 DEF Exits
      <4> QED
        BY <1>0, <4>1
    <3>2. CASE main' \notin Testing
      <4>1. Exits' = V!Forks
        BY <2>3, <3>2 DEF Exits
      <4> QED
        BY <1>0, <4>1
    <3> QED
      BY <3>1, <3>2
  <2>5. \A l \in V!Lines : Copies(l)' = Copies(l)
    BY <2>1 DEF Copies
  <2>6. \A P : Accounted(P)' = Accounted(P)
    BY <2>1 DEF Accounted
  <2>7. main' \in Testing => next' <= V!Forks' /\ Accounted(Upto(next))'
    <3>1. SUFFICES ASSUME main' \in Testing PROVE next' <= V!Forks /\ Accounted(Upto(next))'
      BY <2>3
    <3>2. PICK k : k = next /\ k <= V!Forks /\ Accounted(Upto(k))
      BY <2>2, <3>1 DEF OutputInv
    <3>3. Accounted(Upto(k))' /\ next' = k
      BY <2>2, <2>6, <3>1, <3>2
    <3> QED
      BY <3>2, <3>3
  <2>8. main' \in {"report", "exit"} => \E k \in 0 .. 4 : Accounted(Upto(k))'
    <3>1. SUFFICES ASSUME main' \in {"report", "exit"} PROVE \E k \in 0 .. 4 : Accounted(Upto(k))
      BY <2>6
    <3>2. CASE main \in {"report", "exit"}
      BY <3>2 DEF OutputInv
    <3>3. CASE main \in Testing
      BY <1>0, <3>3 DEF OutputInv
    <3>4. CASE main = "cow"
      <4>1. Accounted(Upto(0))
        BY <3>4 DEF OutputInv, Upto
      <4> QED
        BY <4>1
    <3> QED
      BY <2>2, <3>1, <3>2, <3>3, <3>4
  <2>9. \A l \in V!Lines : /\ V!Cpp' \/ ~redirected' => Copies(l)' <= 1
                         /\ Copies(l)' <= Exits' + 1
    BY <1>0, <2>1, <2>3, <2>4, <2>5 DEF OutputInv
  <2>10. main' \in {"allocate", "cow"} => Accounted({})'
    BY <2>2, <2>6 DEF OutputInv
  <2> QED
    BY <2>1, <2>2, <2>7, <2>8, <2>9, <2>10 DEF OutputInv
<1> QED
  BY <1>1, <1>2, <1>3, <1>4, <1>5, <1>6

-----------------------------------------------------------------------------
(* The programs run alone *)

LEMMA AllocatorSteps == A!Next => (A!C \/ A!Cpp) /\ program' = program
<1> USE DEF A!At, A!ThreadAt, A!Running, A!allocVars, A!process, A!own
<1>1. A!Main => (A!C \/ A!Cpp) /\ program' = program
  BY DEF A!Main, A!SpeedTest, A!SpeedTestEnds, A!FragRound, A!FragEnds, A!GroupBegins,
     A!CreateThread, A!CreateFails, A!AllCreated, A!Join, A!Report, A!Summary
<1>2. ASSUME NEW t, A!Thread(t) PROVE (A!C \/ A!Cpp) /\ program' = program
  BY <1>2 DEF A!Thread, A!Arrive, A!Leave, A!Allocate, A!AllocateFails, A!FreeOne, A!Crashes,
     A!FreeOwn, A!LoopEnds, A!Drain, A!DrainEnds
<1>3. ASSUME NEW t, A!LeaveSpuriously(t) PROVE (A!C \/ A!Cpp) /\ program' = program
  BY <1>3 DEF A!LeaveSpuriously
<1>4. A!Over => (A!C \/ A!Cpp) /\ program' = program
  BY DEF A!Over, A!Ended
<1> QED
  BY <1>1, <1>2, <1>3, <1>4 DEF A!Next

LEMMA CacheSteps == K!Next => (K!C \/ K!Cpp) /\ program' = program
<1> USE DEF K!At, K!ThreadAt, K!cacheVars, K!process, K!own
<1>1. K!Main => (K!C \/ K!Cpp) /\ program' = program
  BY DEF K!Main, K!Setup, K!NothingBounces, K!SetupFails, K!CreateThread, K!CreateFails,
     K!AllCreated, K!Unwind, K!Join, K!Report
<1>2. ASSUME NEW t, K!Thread(t) PROVE (K!C \/ K!Cpp) /\ program' = program
  BY <1>2 DEF K!Thread, K!Allocate, K!AllocateFails, K!ToBarrier, K!Barrier, K!Read, K!Chase,
     K!Load, K!Store, K!Overrun, K!FetchAdd, K!CountingEnds
<1>3. ASSUME NEW t, K!LeaveSpuriously(t) PROVE (K!C \/ K!Cpp) /\ program' = program
  BY <1>3 DEF K!LeaveSpuriously
<1>4. K!Over => (K!C \/ K!Cpp) /\ program' = program
  BY DEF K!Over, K!Ended
<1> QED
  BY <1>1, <1>2, <1>3, <1>4 DEF K!Next

LEMMA ExplorerSteps == V!Next => (V!C \/ V!Cpp) /\ program' = program
<1> USE DEF V!At, V!ChildAt, V!vmVars, V!process, V!own
<1>1. V!Main => (V!C \/ V!Cpp) /\ program' = program
  BY DEF V!Main, V!Allocate, V!FallsBack, V!AllocateFails, V!TouchesNull,
     V!UseAndFree, V!CowBegins, V!CowFails, V!OpenPipe, V!PipeFails, V!Fork, V!ForkFails,
     V!CloseWriteEnd, V!ParentModifies, V!Read, V!ReadAll, V!Wait, V!Report
<1>2. V!ChildSteps => (V!C \/ V!Cpp) /\ program' = program
  BY DEF V!ChildSteps, V!ChildModifies, V!ChildSends, V!ChildSendsTime, V!Exit
<1>3. V!Over => (V!C \/ V!Cpp) /\ program' = program
  BY DEF V!Over, V!Ended
<1> QED
  BY <1>1, <1>2, <1>3 DEF V!Next

LEMMA ProgramsRunAlone ==
  ASSUME [Next]_vars
  PROVE  /\ program' = program
         /\ A!C \/ A!Cpp => [A!Next]_(A!allocVars)
         /\ K!C \/ K!Cpp => [K!Next]_(K!cacheVars)
         /\ V!C \/ V!Cpp => [V!Next]_(V!vmVars)
<1>1. /\ A!C \/ A!Cpp => ~(K!C \/ K!Cpp) /\ ~(V!C \/ V!Cpp)
      /\ K!C \/ K!Cpp => ~(V!C \/ V!Cpp)
  BY DEF A!C, A!Mac, A!Cpp, K!C, K!Mac, K!Cpp, V!C, V!Cpp
<1>2. CASE UNCHANGED vars
  BY <1>2 DEF vars, allocatorOwn, cacheOwn, vmOwn, A!allocVars, A!process, A!own,
     K!cacheVars, K!process, K!own, V!vmVars, V!process, V!own, V!channel, V!output
<1>3. CASE Next
  BY <1>1, <1>3, AllocatorSteps, CacheSteps, ExplorerSteps DEF Next
<1> QED
  BY <1>2, <1>3

-----------------------------------------------------------------------------
(* The memory explorers do what they should *)

ExplorerInv ==
  V!C \/ V!Cpp => MemoryInv /\ PipeInv /\ BlocksInv /\ ValuesInv /\ OutputInv

LEMMA ExplorerBegins == ASSUME V!VmAssumption, Init PROVE ExplorerInv
<1> SUFFICES ASSUME V!C \/ V!Cpp PROVE MemoryInv /\ PipeInv /\ BlocksInv /\ ValuesInv /\ OutputInv
  BY DEF ExplorerInv
<1>1. V!Init
  BY DEF Init, A!Init, K!Init, V!C, V!Cpp
<1>2. MemoryInv /\ PipeInv
  BY <1>1 DEF V!Init, V!VmInit, MemoryInv, ParentAt, Separate, PipeInv, Testing, Forked
<1>3. BlocksInv
  <2>1. TestsAre(V!Tests) /\ main = "allocate" /\ test = 1 /\ next = 1 /\ live = <<>>
    BY <1>1, FourTests DEF V!Init, V!VmInit
  <2>2. V!BlocksOfCase \in Cases /\ 1 <= Len(V!Tests[1])
    <3>1. PICK k \in 1 .. 5 : k = Len(V!Tests[1])
      BY <2>1 DEF TestsAre
    <3>2. 1 <= k /\ 1 \in 1 .. k
      OBVIOUS
    <3>3. 1 <= Len(V!Tests[1]) /\ 1 \in 1 .. Len(V!Tests[1])
      BY <3>1, <3>2
    <3> QED
      BY <2>1, <3>3 DEF V!BlocksOfCase, TestsAre
  <2>3. Len(live) = 0 /\ DOMAIN live = {} /\ live \in Seq(Kinds)
    BY <2>1
  <2>4. Len(V!BlocksOfCase) \in Nat
    BY <2>2 DEF Cases
  <2>5. BlocksAre(live, V!BlocksOfCase)
    BY <2>3, <2>4 DEF BlocksAre
  <2> QED
    BY <2>1, <2>2, <2>3, <2>5 DEF BlocksInv
<1>4. ValuesInv
  BY <1>1 DEF V!Init, V!VmInit, ValuesInv, V!Values
<1>5. OutputInv
  <2>1. /\ program \in {"vm_c", "vm_cpp"} /\ main = "allocate" /\ redirected \in BOOLEAN
        /\ unflushed = {} /\ inherited = {} /\ written = [line \in V!Lines |-> 0]
    BY <1>1 DEF V!Init, V!VmInit
  <2>2. Exits \in 2 .. 3 /\ \A l \in V!Lines : Copies(l) = 0
    BY <2>1 DEF Exits, Copies, V!Forks, Testing, Forked
  <2>3. Accounted({})
    BY <2>1 DEF Accounted
  <2> QED
    BY <2>1, <2>2, <2>3 DEF OutputInv, Testing, Forked
<1> QED
  BY <1>2, <1>3, <1>4, <1>5

LEMMA ExplorerIsRight == ASSUME V!VmAssumption, ExplorerInv PROVE VmInv
<1> SUFFICES ASSUME MemoryInv, PipeInv, BlocksInv, ValuesInv, OutputInv
             PROVE  /\ V!TypeOK /\ V!NothingLeftBehind /\ V!CopiesAreSeparate
                    /\ V!ResultIsOfTheChild /\ V!OutputOnce
  BY WalksComeBack DEF VmInv, ExplorerInv
<1>1. V!TypeOK
  <2>1. test \in DOMAIN V!Tests
    BY FourTests DEF BlocksInv, TestsAre
  <2>2. writers \subseteq {"parent", "child"}
    BY DEF PipeInv
  <2>3. /\ main \in {"allocate", "cow", "pipe", "fork", "close", "modify", "read", "wait",
                     "report", "exit", "crashed", "blocked"}
        /\ next \in 1 .. 5 /\ live \in Seq({"mmap", "malloc", "huge"})
    BY DEF BlocksInv, Testing, Forked, Kinds
  <2>4. pc[V!Child] \in {"none", "start", "send", "sent", "exited"}
    BY DEF MemoryInv, ParentAt
  <2> QED
    BY <2>1, <2>2, <2>3, <2>4 DEF V!TypeOK, ValuesInv, OutputInv
<1>2. V!NothingLeftBehind
  BY DEF BlocksInv, BlocksAre, V!NothingLeftBehind
<1>3. V!CopiesAreSeparate
  BY DEF MemoryInv, Separate, V!CopiesAreSeparate, Testing, Forked
<1>4. V!ResultIsOfTheChild
  BY ResultIsRight
<1>5. V!OutputOnce
  <2>1. ASSUME NEW l \in V!Lines
        PROVE  /\ V!Cpp \/ ~redirected => written[l] <= 1
               /\ written[l] <= V!Forks + 1
    <3>1. written[l] \in Nat /\ written[l] <= Copies(l) /\ Copies(l) \in Nat
      BY DEF Copies, OutputInv
    <3>2. Exits <= V!Forks /\ Exits \in Int /\ V!Forks \in Int
      <4>1. V!Forks \in 2 .. 3
        BY DEF V!Forks
      <4> QED
        BY <4>1 DEF Exits, OutputInv, MemoryInv, ParentAt
    <3> QED
      BY <3>1, <3>2 DEF OutputInv
  <2>2. ASSUME main = "exit", written["third"] > 0, NEW l \in V!Lines PROVE written[l] > 0
    <3>1. PICK k \in 0 .. 4 : Accounted(Upto(k))
      BY <2>2 DEF OutputInv
    <3>2. "third" \in V!Lines /\ unflushed = {}
      BY <2>2 DEF V!Lines, OutputInv
    <3>3. "third" \in Upto(k)
      BY <2>2, <3>1, <3>2 DEF Accounted
    <3>4. Upto(k) = V!Lines
      <4>1. k = 0 \/ k = 1 \/ k = 2 \/ k = 3 \/ k = 4
        OBVIOUS
      <4> QED
        BY <3>3, <4>1 DEF Upto
    <3>5. written[l] >= 1 /\ written[l] \in Nat
      BY <3>1, <3>2, <3>4 DEF Accounted, OutputInv
    <3> QED
      BY <3>5
  <2> QED
    BY <2>1, <2>2 DEF V!OutputOnce
<1> QED
  BY <1>1, <1>2, <1>3, <1>4, <1>5

\* The memory explorers leave no block behind, keep parent and child apart,
\* print the result of the child and each line once, and their walks return.
THEOREM ExplorersAreRight == Spec => []VmInv
<1>1. V!VmAssumption
  BY ToolsAssumption
<1>2. Init => ExplorerInv
  BY <1>1, ExplorerBegins
<1>3. ExplorerInv /\ [Next]_vars => ExplorerInv'
  <2> SUFFICES ASSUME ExplorerInv, [Next]_vars, V!C' \/ V!Cpp'
               PROVE  (MemoryInv /\ PipeInv /\ BlocksInv /\ ValuesInv /\ OutputInv)'
    BY DEF ExplorerInv
  <2>1. (V!C \/ V!Cpp) /\ [V!Next]_(V!vmVars)
    BY ProgramsRunAlone DEF V!C, V!Cpp
  <2>2. MemoryInv /\ PipeInv /\ BlocksInv /\ ValuesInv /\ OutputInv
    BY <2>1 DEF ExplorerInv
  <2> QED
    BY <1>1, <2>1, <2>2, MemoryInvStep, PipeInvStep, BlocksInvStep, ValuesInvStep, OutputInvStep
       DEF V!VmAssumption
<1>4. ExplorerInv => VmInv
  BY <1>1, ExplorerIsRight
<1> QED
  BY <1>2, <1>3, <1>4, PTL DEF Spec

-----------------------------------------------------------------------------
(* The cache analyzers: phases and estimates *)

Patterns == {"sequential", "random", "stride", "chase"}
Shared == {"sharing", "friendly", "bouncing"}
PhaseKinds == [what : Patterns, level : 1 .. 4] \cup [what : Shared, level : {0}]

\* There is a first phase, and each is to read at a level or to count.
LEMMA PhasesAre == K!Phases \in Seq(PhaseKinds) /\ Len(K!Phases) >= 1
<1> DEFINE chase == IF K!Cpp THEN K!Reads("chase") ELSE <<>>
<1>1. ASSUME NEW p \in Patterns PROVE K!Reads(p) \in Seq(PhaseKinds) /\ Len(K!Reads(p)) = 5
  <2>1. \A size \in 1 .. 5 : [what |-> p, level |-> IF size = 5 THEN 4 ELSE size] \in PhaseKinds
    BY DEF PhaseKinds
  <2> QED
    BY <2>1 DEF K!Reads
<1>2. ASSUME NEW w \in Shared PROVE K!Counts(w) \in Seq(PhaseKinds)
  <2>1. [what |-> w, level |-> 0] \in PhaseKinds
    BY DEF PhaseKinds
  <2> QED
    BY <2>1 DEF K!Counts
<1>3. chase \in Seq(PhaseKinds)
  BY <1>1 DEF Patterns
<1>4. /\ K!Reads("sequential") \in Seq(PhaseKinds) /\ Len(K!Reads("sequential")) = 5
      /\ K!Reads("random") \in Seq(PhaseKinds) /\ K!Reads("stride") \in Seq(PhaseKinds)
      /\ K!Counts("sharing") \in Seq(PhaseKinds) /\ K!Counts("friendly") \in Seq(PhaseKinds)
      /\ K!Counts("bouncing") \in Seq(PhaseKinds)
  BY <1>1, <1>2 DEF Patterns, Shared
<1>5. K!Phases = K!Reads("sequential") \o K!Reads("random") \o K!Reads("stride") \o chase
                   \o K!Counts("sharing") \o K!Counts("friendly") \o K!Counts("bouncing")
  BY DEF K!Phases
<1> HIDE DEF chase
<1>6. ASSUME NEW s \in Seq(PhaseKinds), NEW t \in Seq(PhaseKinds), s # <<>>
      PROVE  s \o t \in Seq(PhaseKinds) /\ s \o t # <<>>
  BY <1>6, ConcatProperties, EmptySeq
<1>7. K!Reads("sequential") # <<>>
  <2>1. Len(<<>>) = 0
    OBVIOUS
  <2>2. \A s : Len(s) = 5 => s # <<>>
    BY <2>1
  <2> QED
    BY <1>4, <2>2
<1>8. K!Phases \in Seq(PhaseKinds) /\ K!Phases # <<>>
  <2> DEFINE a == K!Reads("sequential") \o K!Reads("random")
             b == a \o K!Reads("stride")
             c == b \o chase
             d == c \o K!Counts("sharing")
             e == d \o K!Counts("friendly")
  <2>1. a \in Seq(PhaseKinds) /\ a # <<>>
    BY <1>4, <1>6, <1>7
  <2> HIDE DEF a
  <2>2. b \in Seq(PhaseKinds) /\ b # <<>>
    BY <1>4, <1>6, <2>1
  <2> HIDE DEF b
  <2>3. c \in Seq(PhaseKinds) /\ c # <<>>
    BY <1>3, <1>6, <2>2
  <2> HIDE DEF c
  <2>4. d \in Seq(PhaseKinds) /\ d # <<>>
    BY <1>4, <1>6, <2>3
  <2> HIDE DEF d
  <2>5. e \in Seq(PhaseKinds) /\ e # <<>>
    BY <1>4, <1>6, <2>4
  <2> HIDE DEF e
  <2>6. K!Phases = e \o K!Counts("bouncing")
    BY <1>5 DEF a, b, c, d, e
  <2> QED
    BY <1>4, <1>6, <2>5, <2>6
<1> QED
  BY <1>8, EmptySeq, LenProperties

Hit(n, r) == (n * r) \div 100

LEMMA HitsAreAPart ==
  ASSUME NEW n \in Nat, NEW a \in Nat, NEW b \in Nat, NEW c \in Nat, a + b + c <= 100
  PROVE  /\ Hit(n, a) \in Nat /\ Hit(n, b) \in Nat /\ Hit(n, c) \in Nat
         /\ Hit(n, a) + Hit(n, b) + Hit(n, c) <= n
<1> DEFINE p == n * a
           q == n * b
           r == n * c
<1>1. p \in Nat /\ q \in Nat /\ r \in Nat
  OBVIOUS
<1>2. p + q + r <= 100 * n
  <2>1. p + q + r = n * (a + b + c)
    OBVIOUS
  <2>2. \A s \in Nat : s <= 100 => n * s <= 100 * n
    OBVIOUS
  <2> QED
    BY <2>1, <2>2
<1>3. Hit(n, a) = p \div 100 /\ Hit(n, b) = q \div 100 /\ Hit(n, c) = r \div 100
  BY DEF Hit
<1> HIDE DEF p, q, r
<1>4. \A x \in Nat : x \div 100 \in Nat /\ 100 * (x \div 100) <= x
  OBVIOUS
<1>5. /\ p \div 100 \in Nat /\ q \div 100 \in Nat /\ r \div 100 \in Nat
      /\ 100 * (p \div 100) <= p /\ 100 * (q \div 100) <= q /\ 100 * (r \div 100) <= r
  BY <1>1, <1>4
<1>6. p \div 100 + q \div 100 + r \div 100 <= n
  BY <1>1, <1>2, <1>5
<1> QED
  BY <1>3, <1>5, <1>6

\* The assumed rates of a pattern are no more than all.
LEMMA RatesAre ==
  ASSUME NEW pattern, NEW level \in 1 .. 4
  PROVE  \E a, b, c \in Nat : K!Rates(pattern, level) = <<a, b, c>> /\ a + b + c <= 100
<1>1. CASE pattern = "sequential"
  BY <1>1 DEF K!Rates
<1>2. CASE pattern = "random"
  BY <1>2 DEF K!Rates
<1>3. CASE pattern = "stride"
  BY <1>3 DEF K!Rates
<1>4. CASE pattern \notin {"sequential", "random", "stride"}
  BY <1>4 DEF K!Rates
<1> QED
  BY <1>1, <1>2, <1>3, <1>4

Estimates == [accesses : Nat, l1 : Nat, l2 : Nat, l3 : Nat, memory : Nat]
GoodEstimates == {e \in Estimates : e.l1 + e.l2 + e.l3 + e.memory = e.accesses}

\* Whatever the pattern, the hits and misses are all accesses.
LEMMA EstimateIsGood ==
  ASSUME NEW n \in Nat, NEW pattern, NEW level \in 1 .. 4
  PROVE  K!Estimate(n, pattern, level) \in GoodEstimates
<1>1. PICK a, b, c \in Nat : K!Rates(pattern, level) = <<a, b, c>> /\ a + b + c <= 100
  BY RatesAre
<1> DEFINE x == Hit(n, a)
           y == Hit(n, b)
           z == Hit(n, c)
<1>2. x \in Nat /\ y \in Nat /\ z \in Nat /\ x + y + z <= n
  BY <1>1, HitsAreAPart
<1>3. K!Estimate(n, pattern, level) = [accesses |-> n, l1 |-> x, l2 |-> y, l3 |-> z,
                                       memory |-> n - x - y - z]
  BY <1>1 DEF K!Estimate, Hit
<1> HIDE DEF x, y, z
<1>4. n - x - y - z \in Nat /\ x + y + z + (n - x - y - z) = n
  BY <1>2
<1> QED
  BY <1>2, <1>3, <1>4 DEF GoodEstimates, Estimates

-----------------------------------------------------------------------------
(* The group of threads *)

Places == {"unborn", "begin", "arrive", "wait", "work", "store", "done", "gone", "failed"}

CacheTypes ==
  /\ program \in {"cache_c", "cache_mac", "cache_cpp"}
  /\ main \in {"setup", "create", "join", "unwind", "report", "exit", "crashed", "blocked"}
  /\ threads \in 1 .. MaxCacheThreads /\ next \in 0 .. threads
  /\ pc \in [K!AllThreads -> Places] /\ phase \in DOMAIN K!Phases
  /\ cells \in [DOMAIN K!NoCounts -> Nat]
  /\ register \in [K!AllThreads -> Nat] /\ counted \in [K!AllThreads -> 0 .. CountRounds]
  /\ estimate \in [K!AllThreads -> GoodEstimates]
  /\ seen \in [K!AllThreads -> SUBSET K!NodesOf(ListLength)]
  /\ \A t \in K!AllThreads : pc[t] = "store" => counted[t] < CountRounds
  /\ arrived \in 0 .. threads - 1

\* Nobody but the team works, a group is over before the next one begins, and
\* at a barrier of pthreads those who sleep are those it counts, so that all have
\* come when one leaves it.
CacheGroup ==
  /\ \A t \in K!AllThreads \ K!Team : pc[t] = "unborn"
  /\ main = "create" => \A t \in K!Team : t < next <=> pc[t] # "unborn"
  /\ main \in {"setup", "report", "exit"} => \A t \in K!AllThreads : K!Finished(t)
  /\ ~K!Mac => arrived = Cardinality(K!Asleep)
  /\ K!Cpp => \A t \in K!AllThreads : pc[t] \notin {"arrive", "wait", "store"}
  /\ K!C /\ ~K!Mac /\ (\E t \in K!Team : pc[t] \in {"work", "store"}) =>
       \A t \in K!Team : pc[t] \in {"work", "store", "done"}

\* The team is some of the threads, a finite number, and runs a phase of a known kind.
LEMMA TeamIsSmall ==
  ASSUME K!CacheAssumption, CacheTypes
  PROVE  /\ K!Team \subseteq K!AllThreads /\ IsFiniteSet(K!Team) /\ Cardinality(K!Team) = threads
         /\ IsFiniteSet(K!AllThreads) /\ K!Now \in PhaseKinds
<1>1. threads \in Nat /\ threads <= MaxCacheThreads /\ MaxCacheThreads \in Nat
  BY DEF CacheTypes, K!CacheAssumption
<1>2. K!Team \subseteq K!AllThreads
  BY <1>1 DEF K!Team, K!AllThreads
<1>3. IsFiniteSet(K!Team) /\ Cardinality(K!Team) = threads
  BY <1>1, FS_Interval, 0 \in Int, threads - 1 \in Int DEF K!Team
<1>4. IsFiniteSet(K!AllThreads)
  BY <1>1, FS_Interval, 0 \in Int, MaxCacheThreads - 1 \in Int DEF K!AllThreads
<1>5. K!Now \in PhaseKinds
  BY PhasesAre DEF CacheTypes, K!Now
<1> QED
  BY <1>2, <1>3, <1>4, <1>5

LEMMA KCardinality == \A S : K!Cardinality(S) = Cardinality(S)
BY DEF K!Cardinality, Cardinality

\* Every int that a thread may count in, and those of two threads differ.
LEMMA CellsAre ==
  ASSUME K!CacheAssumption, NEW t \in K!AllThreads
  PROVE  /\ K!Cell(t) \in DOMAIN K!NoCounts /\ 0 \in DOMAIN K!NoCounts
         /\ ~(K!Cpp /\ K!Now.what = "bouncing") =>
              \A u \in K!AllThreads : K!Cell(t) = K!Cell(u) => t = u
<1> DEFINE M == MaxCacheThreads
           c == CountsPerLine
<1>1. M \in Nat \ {0} /\ c \in Nat \ {0} /\ t \in 0 .. M - 1
  BY DEF K!CacheAssumption, K!AllThreads
<1>2. DOMAIN K!NoCounts = 0 .. M * (c + 1)
  BY DEF K!NoCounts
<1>3. /\ 0 \in 0 .. M * (c + 1) /\ t \in 0 .. M * (c + 1)
      /\ t * c \in 0 .. M * (c + 1) /\ t * c + t \in 0 .. M * (c + 1)
  <2>1. t <= M /\ t * c <= M * c /\ M * (c + 1) = M * c + M /\ t * c \in Nat /\ M * c \in Nat /\ t \in Nat
    <3>1. t * c <= M * c
      <4>1. M * c = t * c + (M - t) * c /\ M - t \in Nat
        BY <1>1
      <4>2. (M - t) * c \in Nat /\ t * c \in Nat
        BY <1>1, <4>1
      <4> QED
        BY <4>1, <4>2
    <3> QED
      BY <1>1, <3>1
  <2> QED
    BY <1>1, <2>1
<1>4. K!Cell(t) \in {0, t, t * c, t * c + t}
  <2>1. t * c + 0 = t * c
    BY <1>1
  <2>2. CASE K!Now.what = "friendly"
    BY <2>1, <2>2 DEF K!Cell
  <2>3. CASE K!Now.what # "friendly"
    BY <2>3 DEF K!Cell
  <2> QED
    BY <2>2, <2>3
<1>5. ASSUME NEW u \in K!AllThreads, ~(K!Cpp /\ K!Now.what = "bouncing"), K!Cell(t) = K!Cell(u)
      PROVE  t = u
  <2>1. u \in 0 .. M - 1
    BY DEF K!AllThreads
  <2>2. CASE K!Now.what = "friendly"
    <3>1. t * c + t = u * c + u \/ t * c = u * c
      BY <1>1, <1>5, <2>1, <2>2 DEF K!Cell
    <3>2. t * (c + 1) = u * (c + 1) \/ t * c = u * c
      BY <1>1, <2>1, <3>1
    <3>3. \A x, y \in Nat, z \in Nat \ {0} : x * z = y * z => x = y
      OBVIOUS
    <3>4. t \in Nat /\ u \in Nat /\ c + 1 \in Nat \ {0}
      BY <1>1, <2>1
    <3> QED
      BY <1>1, <3>2, <3>3, <3>4
  <2>3. CASE K!Now.what # "friendly"
    BY <1>5, <2>3 DEF K!Cell
  <2> QED
    BY <2>2, <2>3
<1> QED
  BY <1>2, <1>3, <1>4, <1>5

LEMMA CacheTypesStep ==
  ASSUME K!CacheAssumption, CacheTypes, [K!Next]_(K!cacheVars)
  PROVE  CacheTypes'
<1> USE DEF K!process, K!own, K!At, K!ThreadAt, K!Goto
<1>0. K!Team \subseteq K!AllThreads /\ K!Now \in PhaseKinds /\ K!Phases \in Seq(PhaseKinds)
  BY TeamIsSmall, PhasesAre
<1>1. ASSUME NEW t \in K!AllThreads, K!Thread(t) PROVE CacheTypes'
  <2>0. K!Phases' = K!Phases /\ program' = program
    <3>1. program' = program
      BY <1>1 DEF K!Thread, K!Allocate, K!AllocateFails, K!ToBarrier, K!Barrier, K!Read, K!Chase,
         K!Load, K!Store, K!Overrun, K!FetchAdd, K!CountingEnds
    <3> QED
      BY <3>1 DEF K!Phases, K!Cpp
  <2>1. CASE K!Allocate(t) \/ K!AllocateFails(t) \/ K!ToBarrier(t)
    <3>1. /\ \E place \in Places \ {"store"} : pc' = [pc EXCEPT ![t] = place]
          /\ UNCHANGED <<main, next, K!own>>
      BY <2>1 DEF K!Allocate, K!AllocateFails, K!ToBarrier, Places
    <3> QED
      BY <2>0, <3>1 DEF CacheTypes
  <2>2. CASE K!Barrier(t)
    <3>1. /\ pc' \in [K!AllThreads -> Places]
          /\ \A u \in K!AllThreads : pc'[u] = "store" => pc[u] = "store"
          /\ arrived' \in 0 .. threads - 1
          /\ UNCHANGED <<main, next, threads, phase, cells, register, counted, estimate, seen>>
      BY <2>2 DEF K!Barrier, CacheTypes, Places
    <3> QED
      BY <2>0, <3>1 DEF CacheTypes
  <2>3. CASE K!Read(t)
    <3>1. PICK n \in Accesses : estimate' = [estimate EXCEPT ![t] = K!Estimate(n, K!Now.what, K!Now.level)]
      BY <2>3 DEF K!Read
    <3>2. n \in Nat /\ K!Now.level \in 1 .. 4
      BY <1>0, <2>3 DEF K!CacheAssumption, PhaseKinds, K!Read, Shared
    <3>3. K!Estimate(n, K!Now.what, K!Now.level) \in GoodEstimates
      BY <3>2, EstimateIsGood
    <3>4. /\ pc' = [pc EXCEPT ![t] = "done"]
          /\ UNCHANGED <<main, next, threads, phase, arrived, cells, register, counted, seen>>
      BY <2>3 DEF K!Read
    <3> QED
      BY <2>0, <3>1, <3>3, <3>4 DEF CacheTypes, Places
  <2>4. CASE K!Chase(t)
    <3>1. PICK order \in K!Orders(ListLength) :
            seen' = [seen EXCEPT ![t] = K!Visited(K!Chain(order, ListLength), ListLength)]
      BY <2>4 DEF K!Chase
    <3>2. K!Visited(K!Chain(order, ListLength), ListLength) = K!NodesOf(ListLength)
      BY ChainGoesRound DEF K!NodesOf, K!CacheAssumption
    <3>3. ListLength \in Nat /\ K!Now.level \in 1 .. 4
      BY <1>0, <2>4 DEF K!CacheAssumption, PhaseKinds, K!Chase, Shared
    <3>4. K!Estimate(ListLength, "chase", K!Now.level) \in GoodEstimates
      BY <3>3, EstimateIsGood
    <3>5. /\ pc' = [pc EXCEPT ![t] = "done"]
          /\ estimate' = [estimate EXCEPT ![t] = K!Estimate(ListLength, "chase", K!Now.level)]
          /\ UNCHANGED <<main, next, threads, phase, arrived, cells, register, counted>>
      BY <2>4 DEF K!Chase
    <3> QED
      BY <2>0, <3>1, <3>2, <3>4, <3>5 DEF CacheTypes, Places
  <2>5. CASE K!Load(t) \/ K!Overrun(t)
    <3>1. cells[K!Cell(t)] \in Nat
      BY CellsAre DEF CacheTypes
    <3>2. CASE K!Load(t)
      <4>1. /\ register' = [register EXCEPT ![t] = cells[K!Cell(t)]] /\ counted[t] < CountRounds
            /\ pc' = [pc EXCEPT ![t] = "store"]
            /\ UNCHANGED <<main, next, threads, phase, arrived, cells, counted, estimate, seen>>
        BY <3>2 DEF K!Load
      <4> QED
        BY <2>0, <3>1, <4>1 DEF CacheTypes, Places
    <3>3. CASE K!Overrun(t)
      <4>1. main' = "crashed" /\ UNCHANGED <<next, pc, K!own>>
        BY <3>3 DEF K!Overrun
      <4> QED
        BY <2>0, <4>1 DEF CacheTypes
    <3> QED
      BY <2>5, <3>2, <3>3
  <2>6. CASE K!Store(t) \/ K!FetchAdd(t)
    <3>1. PICK v \in Nat : cells' = [cells EXCEPT ![K!Cell(t)] = v]
      <4>1. register[t] + 1 \in Nat /\ cells[K!Cell(t)] + 1 \in Nat
        BY CellsAre DEF CacheTypes
      <4> QED
        BY <2>6, <4>1 DEF K!Store, K!FetchAdd
    <3>2. /\ counted' = [counted EXCEPT ![t] = counted[t] + 1] /\ counted[t] < CountRounds
          /\ \E place \in {"work", pc[t]} : pc' = [pc EXCEPT ![t] = place] /\ place # "store"
          /\ UNCHANGED <<main, next, threads, phase, arrived, register, estimate, seen>>
      BY <2>6 DEF K!Store, K!FetchAdd, CacheTypes
    <3>3. counted[t] + 1 \in 0 .. CountRounds
      BY <3>2 DEF CacheTypes, K!CacheAssumption
    <3> QED
      BY <2>0, <3>1, <3>2, <3>3 DEF CacheTypes, Places
  <2>7. CASE K!CountingEnds(t)
    <3>1. /\ pc' = [pc EXCEPT ![t] = "done"]
          /\ estimate' \in {estimate, [estimate EXCEPT ![t] = K!Estimate(CountRounds, K!Now.what, 1)]}
          /\ UNCHANGED <<main, next, threads, phase, arrived, cells, register, counted, seen>>
      BY <2>7 DEF K!CountingEnds
    <3>2. K!Estimate(CountRounds, K!Now.what, 1) \in GoodEstimates
      BY EstimateIsGood, 1 \in 1 .. 4 DEF K!CacheAssumption
    <3> QED
      BY <2>0, <3>1, <3>2 DEF CacheTypes, Places
  <2> QED
    BY <1>1, <2>1, <2>2, <2>3, <2>4, <2>5, <2>6, <2>7 DEF K!Thread
<1>2. CASE K!Main \/ K!Over \/ UNCHANGED K!cacheVars
  <2>0. K!Phases' = K!Phases /\ program' = program
    <3>1. program' = program
      BY <1>2 DEF K!Main, K!Setup, K!NothingBounces, K!SetupFails, K!CreateThread, K!CreateFails,
         K!AllCreated, K!Unwind, K!Join, K!Report, K!Over, K!cacheVars
    <3> QED
      BY <3>1 DEF K!Phases, K!Cpp
  <2>1. CASE K!Setup
    <3>1. K!NoCounts \in [DOMAIN K!NoCounts -> Nat] /\ 0 \in 0 .. CountRounds
      BY DEF K!NoCounts, K!CacheAssumption
    <3>2. K!NoEstimate \in GoodEstimates
      BY DEF K!NoEstimate, GoodEstimates, Estimates
    <3>3. /\ main' = "create" /\ next' = 0 /\ pc' = [t \in K!AllThreads |-> "unborn"]
          /\ cells' = K!NoCounts /\ register' = [t \in K!AllThreads |-> 0]
          /\ counted' = [t \in K!AllThreads |-> 0]
          /\ estimate' = [t \in K!AllThreads |-> K!NoEstimate]
          /\ seen' = [t \in K!AllThreads |-> {}] /\ UNCHANGED <<threads, phase>>
          /\ arrived' \in 0 .. threads - 1
      BY <2>1 DEF K!Setup, K!Zeros, CacheTypes
    <3> QED
      BY <2>0, <3>1, <3>2, <3>3 DEF CacheTypes, Places
  <2>2. CASE K!NothingBounces \/ K!SetupFails \/ K!AllCreated \/ K!Unwind \/ K!Join
    <3>1. /\ main' \in {"exit", "crashed", "join", "report", "blocked"}
          /\ UNCHANGED <<next, pc, K!own>>
      BY <2>2 DEF K!NothingBounces, K!SetupFails, K!AllCreated, K!Unwind, K!Join
    <3> QED
      BY <2>0, <3>1 DEF CacheTypes
  <2>3. CASE K!CreateThread \/ K!CreateFails
    <3>1. /\ next < threads /\ UNCHANGED K!own
          /\ \/ /\ \E place \in {"begin", "failed"} : pc' = [pc EXCEPT ![next] = place]
                /\ next' = next + 1 /\ main' = main
             \/ main' = "unwind" /\ UNCHANGED <<next, pc>>
      BY <2>3 DEF K!CreateThread, K!CreateFails
    <3>2. next + 1 \in 0 .. threads
      BY <3>1 DEF CacheTypes
    <3> QED
      BY <2>0, <3>1, <3>2 DEF CacheTypes, Places
  <2>4. CASE K!Report
    <3>1. /\ main' \in {"setup", "exit"} /\ phase' \in {phase, phase + 1}
          /\ phase' = phase + 1 => phase < Len(K!Phases)
          /\ UNCHANGED <<next, pc, threads, arrived, cells, register, counted, estimate, seen>>
      BY <2>4 DEF K!Report, CacheTypes
    <3>2. phase' \in DOMAIN K!Phases
      BY <1>0, <3>1 DEF CacheTypes
    <3> QED
      BY <2>0, <3>1, <3>2 DEF CacheTypes
  <2>5. CASE K!Over \/ UNCHANGED K!cacheVars
    BY <2>0, <2>5 DEF K!Over, K!cacheVars, CacheTypes
  <2> QED
    BY <1>2, <2>1, <2>2, <2>3, <2>4, <2>5 DEF K!Main
<1>3. ASSUME NEW t \in K!AllThreads, K!LeaveSpuriously(t) PROVE CacheTypes'
  <2>1. K!Phases' = K!Phases /\ pc' = [pc EXCEPT ![t] = "work"]
        /\ UNCHANGED <<program, main, next, K!own>>
    BY <1>3 DEF K!LeaveSpuriously, K!Phases, K!Cpp
  <2> QED
    BY <2>1 DEF CacheTypes, Places
<1> QED
  BY <1>1, <1>2, <1>3 DEF K!Next

\* When the last thread of a group comes to the barrier, all others wait.
LEMMA LastOneReleasesAll ==
  ASSUME K!CacheAssumption, CacheTypes, CacheGroup, ~K!Mac, NEW t \in K!Team, pc[t] # "wait",
         arrived + 1 >= threads
  PROVE  K!Asleep \cup {t} = K!Team
<1> DEFINE S == K!Asleep
<1>1. IsFiniteSet(K!Team) /\ Cardinality(K!Team) = threads /\ K!Team \subseteq K!AllThreads
  BY TeamIsSmall
<1>2. S \subseteq K!Team /\ t \notin S
  BY <1>1 DEF CacheGroup, K!Asleep
<1>3. IsFiniteSet(S) /\ Cardinality(S) + 1 = threads
  BY <1>1, <1>2, FS_Subset DEF CacheGroup, CacheTypes
<1> HIDE DEF S
<1>4. IsFiniteSet(S \cup {t}) /\ Cardinality(S \cup {t}) = Cardinality(S) + 1
  BY <1>2, <1>3, FS_AddElement
<1> QED
  BY <1>1, <1>2, <1>3, <1>4, FS_Subset DEF S

\* As many threads sleep as before, or one more.
LEMMA SleepersAre ==
  ASSUME K!CacheAssumption, CacheTypes, NEW t \in K!AllThreads, NEW place,
         pc[t] # "wait", pc' = [pc EXCEPT ![t] = place]
  PROVE  /\ place # "wait" => Cardinality(K!Asleep') = Cardinality(K!Asleep)
         /\ place = "wait" => Cardinality(K!Asleep') = Cardinality(K!Asleep) + 1
<1>1. IsFiniteSet(K!Asleep) /\ t \notin K!Asleep
  BY TeamIsSmall, FS_Subset DEF K!Asleep
<1>2. \A u \in K!AllThreads : pc'[u] = IF u = t THEN place ELSE pc[u]
  BY DEF CacheTypes
<1>3. K!Asleep' = IF place = "wait" THEN K!Asleep \cup {t} ELSE K!Asleep
  BY <1>2 DEF K!Asleep, K!AllThreads
<1>4. Cardinality(K!Asleep \cup {t}) = Cardinality(K!Asleep) + 1
  BY <1>1, FS_AddElement
<1> QED
  BY <1>3, <1>4

LEMMA CacheGroupStep ==
  ASSUME K!CacheAssumption, CacheTypes, CacheGroup, [K!Next]_(K!cacheVars)
  PROVE  CacheGroup'
<1> USE DEF K!process, K!own, K!At, K!ThreadAt, K!Goto, K!C, K!Mac, K!Cpp
<1>0. K!Team \subseteq K!AllThreads /\ threads \in Nat
  BY TeamIsSmall DEF CacheTypes
<1>1. ASSUME NEW t \in K!AllThreads, K!Thread(t) PROVE CacheGroup'
  <2> DEFINE To(place) ==
        pc' = [pc EXCEPT ![t] = place] /\ UNCHANGED <<program, main, next, threads, arrived>>
  <2>0. t \in K!Team /\ pc[t] # "unborn"
    BY <1>1 DEF K!Thread, K!Allocate, K!AllocateFails, K!ToBarrier, K!Barrier, K!Read, K!Chase,
       K!Load, K!Store, K!Overrun, K!FetchAdd, K!CountingEnds, CacheGroup
  <2>1. ASSUME NEW place \in Places \ {"wait", "unborn"}, To(place), pc[t] # "wait", ~K!Finished(t),
               K!Cpp => place \notin {"arrive", "store"},
               K!C => /\ pc[t] \in {"work", "store"} => place \in {"work", "store", "done"}
                      /\ place \in {"work", "store"} => pc[t] \in {"work", "store"}
        PROVE  CacheGroup'
    <3>1. K!Team' = K!Team
      BY <2>1 DEF K!Team
    <3>2. pc' = [pc EXCEPT ![t] = place] /\ UNCHANGED <<program, main, next, threads, arrived>>
      BY <2>1
    <3> HIDE DEF To
    <3>3. pc \in [K!AllThreads -> Places]
      BY DEF CacheTypes
    <3>4. main \notin {"setup", "report", "exit"}
      BY <2>1 DEF CacheGroup
    <3>5. \A u \in K!AllThreads : pc'[u] = IF u = t THEN place ELSE pc[u]
      BY <3>2, <3>3
    <3>6. \A u \in K!AllThreads \ K!Team' : pc'[u] = "unborn"
      BY <2>0, <3>1, <3>5 DEF CacheGroup
    <3>7. main' = "create" => \A u \in K!Team' : u < next' <=> pc'[u] # "unborn"
      BY <1>0, <2>0, <2>1, <3>1, <3>2, <3>5 DEF CacheGroup
    <3>8. ~K!Mac => arrived' = Cardinality(K!Asleep')
      BY <2>1, <3>2, SleepersAre DEF CacheGroup
    <3>9. K!Cpp => \A u \in K!AllThreads : pc'[u] \notin {"arrive", "wait", "store"}
      BY <2>1, <3>5 DEF CacheGroup
    <3>10. K!C /\ ~K!Mac /\ (\E u \in K!Team' : pc'[u] \in {"work", "store"}) =>
             \A u \in K!Team' : pc'[u] \in {"work", "store", "done"}
      BY <1>0, <2>0, <2>1, <3>1, <3>5 DEF CacheGroup, Places, K!Finished
    <3> QED
      BY <3>2, <3>4, <3>6, <3>7, <3>8, <3>9, <3>10 DEF CacheGroup
  <2>2. CASE K!Allocate(t)
    BY <2>1, <2>2 DEF K!Allocate, K!Finished, Places
  <2>3. CASE K!AllocateFails(t)
    BY <2>1, <2>3 DEF K!AllocateFails, K!Finished, Places
  <2>4. CASE K!ToBarrier(t)
    BY <2>1, <2>4 DEF K!ToBarrier, K!Finished, Places
  <2>5. CASE K!Barrier(t)
    <3>0. K!C /\ pc[t] = "arrive" /\ UNCHANGED <<program, main, next, threads>>
      BY <2>5 DEF K!Barrier, CacheGroup
    <3>1. K!Team' = K!Team
      BY <3>0 DEF K!Team
    <3>2. main \notin {"setup", "report", "exit"}
      BY <3>0 DEF CacheGroup, K!Finished
    <3>3. pc \in [K!AllThreads -> Places]
      BY DEF CacheTypes
    <3>4. CASE arrived + 1 >= threads
      <4>1. arrived' = 0 /\ pc' = [u \in K!AllThreads |-> IF u \in K!Asleep \cup {t} THEN "work"
                                                        ELSE pc[u]]
        BY <2>5, <3>4 DEF K!Barrier
      <4>2. K!Asleep \subseteq K!Team
        BY DEF CacheGroup, K!Asleep
      <4>3. \A u \in K!AllThreads \ K!Team : pc'[u] = "unborn"
        BY <2>0, <4>1, <4>2 DEF CacheGroup
      <4>4. \A u \in K!Team : pc'[u] # "unborn" <=> pc[u] # "unborn"
        BY <1>0, <2>0, <4>1 DEF K!Asleep
      <4>5. main' = "create" => \A u \in K!Team' : u < next' <=> pc'[u] # "unborn"
        BY <1>0, <3>0, <3>1, <4>4 DEF CacheGroup
      <4>6. ~K!Mac => \A u \in K!Team : pc'[u] = "work"
        BY <1>0, <2>0, <3>0, <3>4, <4>1, LastOneReleasesAll
      <4>7. ~K!Mac => arrived' = Cardinality(K!Asleep')
        <5>1. \A u \in K!AllThreads : pc'[u] # "wait"
          BY <4>1 DEF K!Asleep
        <5>2. K!Asleep' = {}
          BY <5>1 DEF K!Asleep, K!AllThreads
        <5> QED
          BY <4>1, <5>2, FS_EmptySet
      <4> QED
        BY <1>0, <3>0, <3>1, <3>2, <4>3, <4>5, <4>6, <4>7 DEF CacheGroup
    <3>5. CASE ~(arrived + 1 >= threads)
      <4>1. arrived' = arrived + 1 /\ pc' = [pc EXCEPT ![t] = "wait"]
        BY <2>5, <3>5 DEF K!Barrier
      <4>2. \A u \in K!AllThreads : pc'[u] = IF u = t THEN "wait" ELSE pc[u]
        BY <3>3, <4>1
      <4>3. ~K!Mac => arrived' = Cardinality(K!Asleep')
        BY <3>0, <4>1, SleepersAre DEF CacheGroup
      <4>4. main' = "create" => \A u \in K!Team' : u < next' <=> pc'[u] # "unborn"
        BY <1>0, <2>0, <3>0, <3>1, <4>2 DEF CacheGroup
      <4>5. ~K!Mac => ~ \E u \in K!Team' : pc'[u] \in {"work", "store"}
        BY <1>0, <2>0, <3>0, <3>1, <4>2 DEF CacheGroup
      <4>6. \A u \in K!AllThreads \ K!Team' : pc'[u] = "unborn"
        BY <2>0, <3>1, <4>2 DEF CacheGroup
      <4> QED
        BY <3>0, <3>2, <4>3, <4>4, <4>5, <4>6 DEF CacheGroup
    <3> QED
      BY <3>4, <3>5
  <2>6. CASE K!Read(t) \/ K!Chase(t) \/ K!CountingEnds(t)
    BY <2>1, <2>6 DEF K!Read, K!Chase, K!CountingEnds, K!Finished, Places
  <2>7. CASE K!Load(t)
    BY <2>1, <2>7 DEF K!Load, K!Finished, Places
  <2>8. CASE K!Store(t)
    BY <2>1, <2>8 DEF K!Store, K!Finished, Places
  <2>9. CASE K!Overrun(t) \/ K!FetchAdd(t)
    <3>1. /\ UNCHANGED <<program, next, pc, threads, arrived>> /\ main' \in {main, "crashed"}
      BY <2>9 DEF K!Overrun, K!FetchAdd
    <3> QED
      BY <3>1 DEF CacheGroup, K!Team, K!Finished, K!Asleep, K!AllThreads
  <2> QED
    BY <1>1, <2>2, <2>3, <2>4, <2>5, <2>6, <2>7, <2>8, <2>9 DEF K!Thread
<1>2. CASE K!Main \/ K!Over \/ UNCHANGED K!cacheVars
  <2>1. CASE K!Setup
    <3>1. ~K!Mac => arrived = 0
      <4>1. \A t \in K!AllThreads : pc[t] # "wait"
        BY <2>1 DEF CacheGroup, K!Setup, K!Finished
      <4>2. K!Asleep = {}
        BY <4>1 DEF K!Asleep
      <4> QED
        BY <4>2, FS_EmptySet DEF CacheGroup
    <3>2. /\ main' = "create" /\ next' = 0 /\ pc' = [t \in K!AllThreads |-> "unborn"]
          /\ (~K!Mac => arrived' = 0) /\ UNCHANGED <<program, threads>>
      BY <2>1, <3>1 DEF K!Setup
    <3>3. K!Team' \subseteq K!AllThreads /\ \A t \in K!Team' : ~(t < 0)
      BY <1>0, <3>2 DEF K!Team
    <3>4. \A t \in K!AllThreads : pc'[t] = "unborn"
      BY <3>2
    <3>5. Cardinality(K!Asleep') = 0
      <4>1. K!Asleep' = {}
        BY <3>4 DEF K!Asleep, K!AllThreads
      <4> QED
        BY <4>1, FS_EmptySet
    <3> QED
      BY <3>2, <3>3, <3>4, <3>5 DEF CacheGroup
  <2>2. CASE K!NothingBounces \/ K!SetupFails \/ K!AllCreated \/ K!Unwind \/ K!Join
    <3>1. /\ main' \in {"exit", "crashed", "join", "report", "blocked"}
          /\ UNCHANGED <<program, next, pc, K!own>>
      BY <2>2 DEF K!NothingBounces, K!SetupFails, K!AllCreated, K!Unwind, K!Join
    <3>2. main' \in {"exit", "report"} => \A t \in K!AllThreads : K!Finished(t)
      BY <2>2 DEF K!NothingBounces, K!SetupFails, K!AllCreated, K!Unwind, K!Join, CacheGroup, K!Finished
    <3> QED
      BY <3>1, <3>2 DEF CacheGroup, K!Team, K!Finished, K!Asleep, K!AllThreads
  <2>3. CASE K!CreateThread \/ K!CreateFails
    <3>1. /\ main = "create" /\ next < threads /\ UNCHANGED <<program, K!own>>
          /\ \/ /\ \E place \in {"begin", "failed"} : pc' = [pc EXCEPT ![next] = place]
                /\ next' = next + 1 /\ main' = main
             \/ main' = "unwind" /\ UNCHANGED <<next, pc>>
      BY <2>3 DEF K!CreateThread, K!CreateFails
    <3>2. CASE main' = "unwind" /\ UNCHANGED <<next, pc>>
      BY <3>1, <3>2 DEF CacheGroup, K!Team, K!Asleep, K!AllThreads
    <3>3. CASE main' = main /\ next' = next + 1
      <4>1. PICK place \in {"begin", "failed"} : pc' = [pc EXCEPT ![next] = place]
        BY <3>1, <3>3
      <4>2. next \in K!Team /\ next \in K!AllThreads /\ pc[next] = "unborn" /\ K!Team' = K!Team
        <5>1. next \in 0 .. threads - 1
          BY <3>1 DEF CacheTypes
        <5>2. next \in K!Team
          BY <5>1 DEF K!Team
        <5>3. ~(next < next)
          BY <5>1
        <5> QED
          BY <1>0, <3>1, <5>2, <5>3 DEF CacheGroup, K!Team
      <4>3. \A t \in K!AllThreads : pc'[t] = IF t = next THEN place ELSE pc[t]
        BY <4>1 DEF CacheTypes
      <4>4. \A t \in K!Team : t < next + 1 <=> (t = next \/ t < next)
        BY <1>0 DEF K!Team, CacheTypes
      <4>5. main' = "create" => \A t \in K!Team' : t < next' <=> pc'[t] # "unborn"
        BY <1>0, <3>1, <3>3, <4>2, <4>3, <4>4 DEF CacheGroup
      <4>6. ~K!Mac => arrived' = Cardinality(K!Asleep')
        BY <3>1, <4>1, <4>2, SleepersAre DEF CacheGroup
      <4>7. K!Cpp => \A t \in K!AllThreads : pc'[t] \notin {"arrive", "wait", "store"}
        BY <4>3 DEF CacheGroup
      <4>8. K!C /\ ~K!Mac => ~ \E t \in K!Team' : pc'[t] \in {"work", "store"}
        BY <1>0, <4>2, <4>3 DEF CacheGroup
      <4>9. \A t \in K!AllThreads \ K!Team' : pc'[t] = "unborn"
        BY <4>2, <4>3 DEF CacheGroup
      <4> QED
        BY <3>1, <3>3, <4>5, <4>6, <4>7, <4>8, <4>9 DEF CacheGroup
    <3> QED
      BY <3>1, <3>2, <3>3
  <2>4. CASE K!Report
    <3>1. main = "report" /\ UNCHANGED <<program, next, pc, threads, arrived>> /\ main' \in {"setup", "exit"}
      BY <2>4 DEF K!Report
    <3> QED
      BY <3>1 DEF CacheGroup, K!Team, K!Finished, K!Asleep, K!AllThreads
  <2>5. CASE K!Over \/ UNCHANGED K!cacheVars
    <3>1. UNCHANGED <<program, main, next, pc, threads, arrived>>
      BY <2>5 DEF K!Over, K!cacheVars
    <3>2. K!Team' = K!Team /\ K!Asleep' = K!Asleep /\ K!AllThreads' = K!AllThreads
      BY <3>1 DEF K!Team, K!Asleep, K!AllThreads
    <3> QED
      BY <3>1, <3>2 DEF CacheGroup, K!Finished
  <2> QED
    BY <1>2, <2>1, <2>2, <2>3, <2>4, <2>5 DEF K!Main
<1>3. ASSUME NEW t \in K!AllThreads, K!LeaveSpuriously(t) PROVE CacheGroup'
  <2>1. /\ K!Mac /\ pc[t] = "wait" /\ pc' = [pc EXCEPT ![t] = "work"]
        /\ UNCHANGED <<program, main, next, threads, arrived>>
    BY <1>3 DEF K!LeaveSpuriously
  <2>2. \A u \in K!AllThreads : pc'[u] = IF u = t THEN "work" ELSE pc[u]
    BY <2>1 DEF CacheTypes
  <2>3. t \in K!Team /\ K!Team' = K!Team /\ main \notin {"setup", "report", "exit"}
    BY <2>1 DEF CacheGroup, K!Finished, K!Team
  <2>4. main' = "create" => \A u \in K!Team' : u < next' <=> pc'[u] # "unborn"
    BY <1>0, <2>1, <2>2, <2>3 DEF CacheGroup
  <2> QED
    BY <1>0, <2>1, <2>2, <2>3, <2>4 DEF CacheGroup
<1> QED
  BY <1>1, <1>2, <1>3 DEF K!Next

-----------------------------------------------------------------------------
(* The counters of the group *)

\* All threads of the C++ program count in one atomic.
OneCounter == K!Cpp /\ K!Now.what = "bouncing"

\* What a thread has added is in its cell, also between its load and its
\* store, and in the shared one all together; a thread that is done has seen
\* its round.
CacheCounts ==
  K!InGroup =>
    /\ K!Counting => \A t \in K!AllThreads : pc[t] = "done" => counted[t] = CountRounds
    /\ K!Counting /\ ~OneCounter => \A t \in K!AllThreads :
         cells[K!Cell(t)] = counted[t] /\ (pc[t] = "store" => register[t] = counted[t])
    /\ K!Counting /\ OneCounter => cells[0] = Total(counted, K!AllThreads)
    /\ K!Now.what = "chase" =>
         \A t \in K!AllThreads : pc[t] = "done" => seen[t] = K!NodesOf(ListLength)

\* While the group runs, it is that of the same phase.
LEMMA SamePhase ==
  ASSUME K!CacheAssumption, CacheTypes, program' = program, phase' = phase
  PROVE  /\ K!Now' = K!Now /\ K!Counting' = K!Counting /\ OneCounter' = OneCounter
         /\ \A t \in K!AllThreads : K!Cell(t)' = K!Cell(t)
BY DEF K!Now, K!Phases, K!Counting, OneCounter, K!Cell, K!C, K!Mac, K!Cpp

\* A thread changes nothing but where it is, and no thread is done by it.
LEMMA OnlyMoves ==
  ASSUME K!CacheAssumption, CacheTypes, CacheCounts, K!InGroup' => K!InGroup, program' = program,
         UNCHANGED <<phase, cells, counted, seen>>,
         \A t \in K!AllThreads :
            /\ pc'[t] = "done" => pc[t] = "done"
            /\ pc'[t] = "store" => pc[t] = "store" /\ register'[t] = register[t]
  PROVE  CacheCounts'
<1>1. K!Now' = K!Now /\ K!Counting' = K!Counting /\ OneCounter' = OneCounter
      /\ \A t \in K!AllThreads : K!Cell(t)' = K!Cell(t)
  BY SamePhase
<1>2. \A t \in K!AllThreads : cells'[K!Cell(t)'] = cells[K!Cell(t)]
  BY <1>1
<1> QED
  BY <1>1, <1>2 DEF CacheCounts

LEMMA CacheCountsStep ==
  ASSUME K!CacheAssumption, CacheTypes, CacheGroup, CacheCounts, [K!Next]_(K!cacheVars)
  PROVE  CacheCounts'
<1> USE DEF K!process, K!own, K!At, K!ThreadAt, K!Goto
<1>0. IsFiniteSet(K!AllThreads) /\ pc \in [K!AllThreads -> Places] /\ threads \in Nat
  BY TeamIsSmall DEF CacheTypes
<1>1. ASSUME NEW t \in K!AllThreads, K!Thread(t) PROVE CacheCounts'
  <2>0. UNCHANGED <<program, phase>> /\ (K!InGroup' => K!InGroup)
    BY <1>1 DEF K!Thread, K!Allocate, K!AllocateFails, K!ToBarrier, K!Barrier, K!Read, K!Chase,
       K!Load, K!Store, K!Overrun, K!FetchAdd, K!CountingEnds, K!InGroup
  <2>a. K!Now' = K!Now /\ K!Counting' = K!Counting /\ OneCounter' = OneCounter
        /\ \A u \in K!AllThreads : K!Cell(u)' = K!Cell(u)
    BY <2>0, SamePhase
  <2>1. CASE K!Allocate(t) \/ K!AllocateFails(t) \/ K!ToBarrier(t)
    <3>1. /\ \E place \in Places \ {"store", "done"} : pc' = [pc EXCEPT ![t] = place]
          /\ UNCHANGED <<phase, cells, counted, seen, register>>
      BY <2>1 DEF K!Allocate, K!AllocateFails, K!ToBarrier, Places
    <3> QED
      BY <1>0, <2>0, <3>1, OnlyMoves
  <2>2. CASE K!Barrier(t)
    <3>1. /\ \A u \in K!AllThreads : pc'[u] \in {"work", "wait", pc[u]}
          /\ UNCHANGED <<phase, cells, counted, seen, register>>
      BY <1>0, <2>2 DEF K!Barrier
    <3> QED
      BY <1>0, <2>0, <3>1, OnlyMoves
  <2>3. CASE K!Read(t)
    <3>1. /\ pc' = [pc EXCEPT ![t] = "done"] /\ UNCHANGED <<cells, counted, seen, register>>
          /\ K!Now.what \in {"sequential", "random", "stride"}
      BY <2>3 DEF K!Read
    <3>2. ~K!Counting' /\ K!Now'.what # "chase"
      BY <2>a, <3>1 DEF K!Counting
    <3> QED
      BY <3>2 DEF CacheCounts
  <2>4. CASE K!Chase(t)
    <3>1. PICK order \in K!Orders(ListLength) :
            seen' = [seen EXCEPT ![t] = K!Visited(K!Chain(order, ListLength), ListLength)]
      BY <2>4 DEF K!Chase
    <3>2. K!Visited(K!Chain(order, ListLength), ListLength) = K!NodesOf(ListLength)
      BY ChainGoesRound DEF K!NodesOf, K!CacheAssumption
    <3>3. pc' = [pc EXCEPT ![t] = "done"] /\ K!Now.what = "chase"
      BY <2>4 DEF K!Chase
    <3>4. ~K!Counting'
      BY <2>a, <3>3 DEF K!Counting
    <3>5. \A u \in K!AllThreads :
            /\ pc'[u] = IF u = t THEN "done" ELSE pc[u]
            /\ seen'[u] = IF u = t THEN K!NodesOf(ListLength) ELSE seen[u]
      BY <1>0, <3>1, <3>2, <3>3 DEF CacheTypes
    <3> QED
      BY <2>0, <3>3, <3>4, <3>5 DEF CacheCounts
  <2>5. CASE K!Load(t)
    <3>1. /\ register' = [register EXCEPT ![t] = cells[K!Cell(t)]] /\ K!Counting
          /\ pc' = [pc EXCEPT ![t] = "store"] /\ UNCHANGED <<cells, counted, seen>> /\ K!C
      BY <2>5 DEF K!Load
    <3>2. ~OneCounter /\ K!Now.what # "chase"
      BY <3>1 DEF OneCounter, K!C, K!Mac, K!Cpp, K!Counting
    <3>3. \A u \in K!AllThreads :
            /\ pc'[u] = IF u = t THEN "store" ELSE pc[u]
            /\ register'[u] = IF u = t THEN cells[K!Cell(t)] ELSE register[u]
      BY <1>0, <3>1 DEF CacheTypes
    <3>4. \A u \in K!AllThreads : cells'[K!Cell(u)'] = cells[K!Cell(u)]
      BY <2>a, <3>1
    <3> QED
      BY <2>0, <2>a, <3>1, <3>2, <3>3, <3>4 DEF CacheCounts
  <2>6. CASE K!Store(t)
    <3>1. /\ cells' = [cells EXCEPT ![K!Cell(t)] = register[t] + 1] /\ pc[t] = "store"
          /\ counted' = [counted EXCEPT ![t] = counted[t] + 1]
          /\ pc' = [pc EXCEPT ![t] = "work"] /\ UNCHANGED <<seen, register>>
      BY <2>6 DEF K!Store
    <3>2. ~OneCounter
      BY <3>1 DEF OneCounter, CacheGroup
    <3>3. \A u \in K!AllThreads :
            /\ pc'[u] = IF u = t THEN "work" ELSE pc[u]
            /\ counted'[u] = IF u = t THEN counted[t] + 1 ELSE counted[u]
      BY <1>0, <3>1 DEF CacheTypes
    <3>4. \A u \in K!AllThreads :
            cells'[K!Cell(u)'] = IF u = t THEN register[t] + 1 ELSE cells[K!Cell(u)]
      BY <2>a, <3>1, <3>2, CellsAre DEF CacheTypes, OneCounter
    <3> QED
      BY <2>0, <2>a, <3>1, <3>2, <3>3, <3>4 DEF CacheCounts
  <2>7. CASE K!Overrun(t)
    BY <2>7 DEF K!Overrun, K!InGroup, CacheCounts
  <2>8. CASE K!FetchAdd(t)
    <3>1. /\ cells' = [cells EXCEPT ![K!Cell(t)] = cells[K!Cell(t)] + 1] /\ pc[t] = "work"
          /\ counted' = [counted EXCEPT ![t] = counted[t] + 1] /\ K!Counting /\ K!Cpp
          /\ UNCHANGED <<pc, seen, register>>
      BY <2>8 DEF K!FetchAdd
    <3>2. \A u \in K!AllThreads : counted'[u] = IF u = t THEN counted[t] + 1 ELSE counted[u]
      BY <3>1 DEF CacheTypes
    <3>3. \A u \in K!AllThreads : pc'[u] # "store" /\ (pc'[u] = "done" => u # t)
      BY <3>1 DEF CacheGroup
    <3>4. CASE OneCounter
      <4>1. K!Cell(t) = 0
        BY <3>4 DEF OneCounter, K!Cell
      <4>2. cells'[0] = cells[0] + 1
        BY <3>1, <4>1, CellsAre DEF CacheTypes
      <4>3. \A u \in K!AllThreads : counted[u] \in Int /\ counted'[u] \in Int
        BY <3>2 DEF CacheTypes, K!CacheAssumption
      <4>4. Total(counted', K!AllThreads) =
              Total(counted, K!AllThreads) + (counted'[t] - counted[t])
        BY <1>0, <3>2, <4>3, TotalOfChange
      <4>5. Total(counted, K!AllThreads) \in Int
        BY <1>0, <4>3, TotalType
      <4>6. Total(counted', K!AllThreads) = Total(counted, K!AllThreads) + 1
        BY <3>2, <4>3, <4>4, <4>5
      <4>7. K!InGroup => cells[0] = Total(counted, K!AllThreads)
        BY <3>1, <3>4 DEF CacheCounts
      <4>8. K!InGroup' => cells'[0] = Total(counted', K!AllThreads)
        BY <2>0, <4>2, <4>6, <4>7
      <4>9. K!Now.what # "chase"
        BY <3>4 DEF OneCounter
      <4>10. Total(counted, K!AllThreads)' = Total(counted', K!AllThreads)
        BY DEF K!AllThreads
      <4> HIDE DEF OneCounter
      <4> QED
        BY <2>0, <2>a, <3>1, <3>2, <3>3, <3>4, <4>8, <4>9, <4>10 DEF CacheCounts
    <3>5. CASE ~OneCounter
      <4>1. \A u \in K!AllThreads :
              cells'[K!Cell(u)'] = IF u = t THEN cells[K!Cell(t)] + 1 ELSE cells[K!Cell(u)]
        BY <2>a, <3>1, <3>5, CellsAre DEF CacheTypes, OneCounter
      <4>2. K!Now.what # "chase"
        BY <3>1 DEF K!Counting
      <4> QED
        BY <2>0, <2>a, <3>1, <3>2, <3>3, <3>5, <4>1, <4>2 DEF CacheCounts
    <3> QED
      BY <3>4, <3>5
  <2>9. CASE K!CountingEnds(t)
    <3>1. /\ pc' = [pc EXCEPT ![t] = "done"] /\ K!Counting /\ counted[t] = CountRounds
          /\ UNCHANGED <<cells, counted, seen, register>>
      BY <2>9 DEF K!CountingEnds
    <3>2. \A u \in K!AllThreads : pc'[u] = IF u = t THEN "done" ELSE pc[u]
      BY <1>0, <3>1
    <3>3. K!Now.what # "chase"
      BY <3>1 DEF K!Counting
    <3>4. \A u \in K!AllThreads : cells'[K!Cell(u)'] = cells[K!Cell(u)]
      BY <2>a, <3>1
    <3>5. Total(counted, K!AllThreads)' = Total(counted, K!AllThreads)
      BY <3>1 DEF K!AllThreads
    <3> QED
      BY <2>0, <2>a, <3>1, <3>2, <3>3, <3>4, <3>5 DEF CacheCounts
  <2> QED
    BY <1>1, <2>1, <2>2, <2>3, <2>4, <2>5, <2>6, <2>7, <2>8, <2>9 DEF K!Thread
<1>2. CASE K!Main \/ K!Over \/ UNCHANGED K!cacheVars
  <2>1. CASE K!Setup
    <3>1. /\ pc' = [t \in K!AllThreads |-> "unborn"] /\ cells' = K!NoCounts
          /\ counted' = [t \in K!AllThreads |-> 0] /\ UNCHANGED <<program, phase>>
      BY <2>1 DEF K!Setup, K!Zeros
    <3>2. /\ OneCounter' = OneCounter /\ \A t \in K!AllThreads : K!Cell(t)' = K!Cell(t)
      BY <3>1, SamePhase
    <3>3. \A t \in K!AllThreads : pc'[t] = "unborn" /\ counted'[t] = 0 /\ cells'[K!Cell(t)'] = 0
      BY <3>1, <3>2, CellsAre DEF K!NoCounts
    <3>4. OneCounter' => cells'[0] = 0
      <4>1. 0 \in DOMAIN K!NoCounts
        <5>1. 0 \in K!AllThreads
          BY DEF K!AllThreads, K!CacheAssumption
        <5> QED
          BY <5>1, CellsAre
      <4> QED
        BY <3>1, <4>1 DEF K!NoCounts
    <3>5. Total(counted', K!AllThreads) = 0
      <4>1. Cardinality(K!AllThreads) \in Nat
        BY <1>0, FS_CardinalityType
      <4>2. Total(counted', K!AllThreads) = Cardinality(K!AllThreads) * 0
        BY <1>0, <3>3, TotalOfConstant, 0 \in Int
      <4> QED
        BY <4>1, <4>2
    <3>6. Total(counted, K!AllThreads)' = Total(counted', K!AllThreads)
      BY DEF K!AllThreads
    <3> QED
      BY <3>3, <3>4, <3>5, <3>6 DEF CacheCounts
  <2>2. CASE K!Report
    BY <2>2 DEF K!Report, K!InGroup, CacheCounts
  <2>3. CASE K!CreateThread \/ K!CreateFails
    <3>1. /\ K!InGroup /\ next < threads /\ UNCHANGED <<program, phase, cells, counted, seen, register>>
          /\ \E place \in {"begin", "failed"} : pc' \in {pc, [pc EXCEPT ![next] = place]}
      BY <2>3 DEF K!CreateThread, K!CreateFails, K!InGroup
    <3>2. \A t \in K!AllThreads : pc'[t] \in {"begin", "failed", pc[t]}
      BY <1>0, <3>1
    <3> QED
      BY <3>1, <3>2, OnlyMoves
  <2>4. CASE K!NothingBounces \/ K!SetupFails \/ K!AllCreated \/ K!Unwind \/ K!Join \/ K!Over
              \/ UNCHANGED K!cacheVars
    <3>1. UNCHANGED <<program, pc, phase, cells, counted, seen, register>>
      BY <2>4 DEF K!NothingBounces, K!SetupFails, K!AllCreated, K!Unwind, K!Join, K!Over, K!cacheVars
    <3>2. K!InGroup' => K!InGroup
      BY <2>4 DEF K!NothingBounces, K!SetupFails, K!AllCreated, K!Unwind, K!Join, K!Over, K!cacheVars,
         K!InGroup
    <3> QED
      BY <3>1, <3>2, OnlyMoves
  <2> QED
    BY <1>2, <2>1, <2>2, <2>3, <2>4 DEF K!Main
<1>3. ASSUME NEW t \in K!AllThreads, K!LeaveSpuriously(t) PROVE CacheCounts'
  <2>1. /\ pc' = [pc EXCEPT ![t] = "work"] /\ (K!InGroup' => K!InGroup)
        /\ UNCHANGED <<program, phase, cells, counted, seen, register>>
    BY <1>3 DEF K!LeaveSpuriously, K!InGroup
  <2>2. \A u \in K!AllThreads : pc'[u] \in {"work", pc[u]}
    BY <1>0, <2>1
  <2> QED
    BY <2>1, <2>2, OnlyMoves
<1> QED
  BY <1>1, <1>2, <1>3 DEF K!Next

LEMMA LineOf ==
  ASSUME NEW c \in Nat \ {0}, NEW t \in Nat, NEW r \in 0 .. c - 1
  PROVE  (t * c + r) \div c = t
<1> DEFINE q == (t * c + r) \div c
<1>1. t * c \in Nat /\ t * c + r \in Nat
  OBVIOUS
<1>2. \A x \in Nat : x \div c \in Nat /\ (x \div c) * c <= x /\ x < (x \div c) * c + c
  OBVIOUS
<1>3. q \in Nat /\ q * c <= t * c + r /\ t * c + r < q * c + c
  BY <1>1, <1>2
<1> HIDE DEF q
<1>4. ~(q < t)
  <2>1. \A d \in Nat : (d + 1) * c = d * c + c /\ d * c \in Nat
    OBVIOUS
  <2>2. SUFFICES ASSUME q < t PROVE FALSE
    OBVIOUS
  <2>3. PICK d \in Nat : t = q + (d + 1)
    <3>1. t - q - 1 \in Nat /\ t = q + ((t - q - 1) + 1)
      BY <1>3, <2>2
    <3> QED
      BY <3>1
  <2>4. t * c = q * c + (d + 1) * c
    BY <1>3, <2>3
  <2> QED
    BY <1>1, <1>3, <2>1, <2>4
<1>5. ~(t < q)
  <2>1. \A d \in Nat : (d + 1) * c = d * c + c /\ d * c \in Nat
    OBVIOUS
  <2>2. SUFFICES ASSUME t < q PROVE FALSE
    OBVIOUS
  <2>3. PICK d \in Nat : q = t + (d + 1)
    <3>1. q - t - 1 \in Nat /\ q = t + ((q - t - 1) + 1)
      BY <1>3, <2>2
    <3> QED
      BY <3>1
  <2>4. q * c = t * c + (d + 1) * c
    BY <2>3
  <2> QED
    BY <1>1, <1>3, <2>1, <2>4
<1> QED
  BY <1>3, <1>4, <1>5 DEF q

\* As long as there are no more threads than ints in a line.
LEMMA LinesAreOwn == ASSUME K!CacheAssumption, CacheTypes PROVE K!OwnLines
<1> DEFINE c == CountsPerLine
           Offset(t) == IF K!C THEN t ELSE 0
<1> SUFFICES ASSUME K!Counting, threads <= c, NEW t \in K!Team, NEW u \in K!Team
             PROVE  /\ K!InBuffer(K!Cell(t))
                    /\ K!Now.what = "friendly" /\ t # u => K!Cell(t) \div c # K!Cell(u) \div c
  BY DEF K!OwnLines
<1>1. /\ c \in Nat \ {0} /\ threads \in Nat \ {0} /\ t \in Nat /\ u \in Nat
      /\ t < threads /\ u < threads
  BY DEF K!CacheAssumption, CacheTypes, K!Team
<1>2. /\ t * c \in Nat /\ threads * c \in Nat /\ t * c + c <= threads * c
      /\ threads <= threads * c
  <2>1. threads * c = t * c + (threads - t) * c /\ threads - t \in Nat \ {0}
    BY <1>1
  <2>2. \A d \in Nat \ {0} : c <= d * c /\ d <= d * c
    <3>1. \A d, e \in Nat : d * e \in Nat /\ (d + 1) * e = d * e + e /\ d * (e + 1) = d * e + d
      OBVIOUS
    <3> SUFFICES ASSUME NEW d \in Nat \ {0} PROVE c <= d * c /\ d <= d * c
      OBVIOUS
    <3>2. d - 1 \in Nat /\ c - 1 \in Nat /\ (d - 1) + 1 = d /\ (c - 1) + 1 = c
      BY <1>1
    <3>3. d * c = (d - 1) * c + c /\ d * c = d * (c - 1) + d /\ (d - 1) * c \in Nat /\ d * (c - 1) \in Nat
      BY <1>1, <3>1, <3>2
    <3> QED
      BY <1>1, <3>3
  <2> QED
    BY <1>1, <2>1, <2>2
<1>3. Offset(t) \in 0 .. c - 1 /\ Offset(u) \in 0 .. c - 1
  BY <1>1
<1>4. CASE K!Now.what = "friendly"
  <2>1. K!Cell(t) = t * c + Offset(t) /\ K!Cell(u) = u * c + Offset(u)
    BY <1>4 DEF K!Cell
  <2>2. K!Cell(t) \div c = t /\ K!Cell(u) \div c = u
    BY <1>1, <1>3, <2>1, LineOf
  <2>3. K!Cell(t) < threads * c
    BY <1>1, <1>2, <1>3, <2>1
  <2>4. K!InBuffer(K!Cell(t))
    BY <1>4, <2>3 DEF K!InBuffer
  <2> QED
    BY <2>2, <2>4
<1>5. CASE K!Now.what = "sharing"
  <2>1. K!Cell(t) = t
    BY <1>5 DEF K!Cell
  <2> QED
    BY <1>1, <1>2, <1>5, <2>1 DEF K!InBuffer
<1>6. CASE K!Now.what = "bouncing"
  <2>1. K!Cell(t) \in {0, t}
    BY <1>6 DEF K!Cell
  <2> QED
    BY <1>1, <1>6, <2>1 DEF K!InBuffer
<1> QED
  BY <1>4, <1>5, <1>6 DEF K!Counting

-----------------------------------------------------------------------------
(* The cache analyzers do what they should *)

AnalyzerInv == K!C \/ K!Cpp => CacheTypes /\ CacheGroup /\ CacheCounts

LEMMA AnalyzerBegins == ASSUME K!CacheAssumption, Init PROVE AnalyzerInv
<1> SUFFICES ASSUME K!C \/ K!Cpp PROVE CacheTypes /\ CacheGroup /\ CacheCounts
  BY DEF AnalyzerInv
<1>1. K!Init
  BY DEF Init, A!Init, V!Init, K!C, K!Mac, K!Cpp
<1>2. PICK chosen \in 1 .. MaxCacheThreads :
        /\ program \in {"cache_c", "cache_mac", "cache_cpp"} /\ main = "setup" /\ next = 0
        /\ pc = [t \in K!AllThreads |-> "unborn"]
        /\ threads = chosen /\ phase = 1 /\ arrived = 0
        /\ cells = K!NoCounts /\ register = K!Zeros /\ counted = K!Zeros
        /\ estimate = [t \in K!AllThreads |-> K!NoEstimate] /\ seen = [t \in K!AllThreads |-> {}]
  BY <1>1 DEF K!Init, K!CacheInit
<1>3. CacheTypes
  <2>1. K!NoCounts \in [DOMAIN K!NoCounts -> Nat] /\ 0 \in 0 .. CountRounds
    BY DEF K!NoCounts, K!CacheAssumption
  <2>2. K!NoEstimate \in GoodEstimates
    BY DEF K!NoEstimate, GoodEstimates, Estimates
  <2>3. threads \in 1 .. MaxCacheThreads /\ 0 \in 0 .. threads /\ 0 \in 0 .. threads - 1
    BY <1>2 DEF K!CacheAssumption
  <2>4. phase \in DOMAIN K!Phases
    BY <1>2, PhasesAre
  <2> QED
    BY <1>2, <2>1, <2>2, <2>3, <2>4 DEF CacheTypes, Places, K!Zeros
<1>4. CacheGroup
  <2>1. K!Team \subseteq K!AllThreads /\ \A t \in K!AllThreads : pc[t] = "unborn"
    BY <1>2, <1>3, TeamIsSmall
  <2>2. arrived = Cardinality(K!Asleep)
    <3>1. K!Asleep = {}
      BY <2>1 DEF K!Asleep
    <3> QED
      BY <1>2, <3>1, FS_EmptySet
  <2> QED
    BY <1>2, <2>1, <2>2 DEF CacheGroup, K!Finished
<1>5. CacheCounts
  BY <1>2 DEF CacheCounts, K!InGroup
<1> QED
  BY <1>3, <1>4, <1>5

LEMMA AnalyzerIsRight == ASSUME K!CacheAssumption, AnalyzerInv PROVE CacheInv
<1> SUFFICES ASSUME K!C \/ K!Cpp
             PROVE  /\ K!TypeOK /\ K!GroupsDoNotMix /\ K!NoCountLost /\ K!OwnLines
                    /\ K!EstimatesAddUp /\ K!ListIsOneRing
  BY DEF CacheInv
<1>1. CacheTypes /\ CacheGroup /\ CacheCounts
  BY DEF AnalyzerInv
<1>2. K!Team \subseteq K!AllThreads
  BY <1>1, TeamIsSmall
<1>3. K!TypeOK
  <2>1. next \in 0 .. MaxCacheThreads
    BY <1>1 DEF CacheTypes, K!CacheAssumption
  <2>2. GoodEstimates \subseteq [accesses : Nat, l1 : Nat, l2 : Nat, l3 : Nat, memory : Nat]
    BY DEF GoodEstimates, Estimates
  <2>4. estimate \in [K!AllThreads -> [accesses : Nat, l1 : Nat, l2 : Nat, l3 : Nat, memory : Nat]]
    BY <1>1, <2>2 DEF CacheTypes
  <2> QED
    BY <1>1, <2>1, <2>4 DEF CacheTypes, Places, K!TypeOK
<1>4. K!GroupsDoNotMix
  <2>1. ASSUME ~K!Mac, \A t \in K!AllThreads : pc[t] # "wait"
        PROVE  arrived = 0
    <3>1. K!Asleep = {}
      BY <2>1 DEF K!Asleep
    <3> QED
      BY <1>1, <2>1, <3>1, FS_EmptySet DEF CacheGroup
  <2>2. ~K!Mac /\ main = "create" /\ next = 0 => arrived = 0
    <3>1. \A t \in K!Team : ~(t < 0)
      BY <1>1 DEF K!Team, CacheTypes
    <3> QED
      BY <1>1, <1>2, <2>1, <3>1 DEF CacheGroup
  <2>3. K!Cpp => arrived = 0
    BY <1>1, <2>1 DEF CacheGroup, K!Cpp, K!Mac
  <2> QED
    BY <1>1, <1>2, <2>2, <2>3 DEF CacheGroup, K!GroupsDoNotMix
<1>5. K!NoCountLost
  <2>1. K!FoldFunction(+, 0, counted) = Total(counted, DOMAIN counted)
    BY DEF Total, K!FoldFunction, FoldFunctionOnSet, K!FoldFunctionOnSet, K!MapThenFoldSet,
       MapThenFoldSet
  <2>2. DOMAIN counted = K!AllThreads
    BY <1>1 DEF CacheTypes
  <2>3. K!FoldFunction(+, 0, counted) = Total(counted, K!AllThreads)
    BY <2>1, <2>2
  <2> QED
    BY <1>1, <1>2, <2>3 DEF CacheCounts, OneCounter, K!NoCountLost
<1>6. K!OwnLines
  BY <1>1, LinesAreOwn
<1>7. K!EstimatesAddUp
  <2>1. \A t \in K!AllThreads : estimate[t] \in GoodEstimates
    BY <1>1 DEF CacheTypes
  <2> QED
    BY <2>1 DEF K!EstimatesAddUp, GoodEstimates, Estimates
<1>8. K!ListIsOneRing
  BY <1>1, <1>2 DEF CacheCounts, K!ListIsOneRing
<1> QED
  BY <1>3, <1>4, <1>5, <1>6, <1>7, <1>8

\* The cache analyzers' groups do not mix at a barrier of pthreads, no increment
\* is lost, threads keep to their memory, estimates add up and the chased list is
\* one ring.
THEOREM AnalyzersAreRight == Spec => []CacheInv
<1>1. K!CacheAssumption
  BY ToolsAssumption
<1>2. Init => AnalyzerInv
  BY <1>1, AnalyzerBegins
<1>3. AnalyzerInv /\ [Next]_vars => AnalyzerInv'
  <2> SUFFICES ASSUME AnalyzerInv, [Next]_vars, K!C' \/ K!Cpp'
               PROVE  (CacheTypes /\ CacheGroup /\ CacheCounts)'
    BY DEF AnalyzerInv
  <2>1. (K!C \/ K!Cpp) /\ [K!Next]_(K!cacheVars)
    BY ProgramsRunAlone DEF K!C, K!Mac, K!Cpp
  <2>2. CacheTypes /\ CacheGroup /\ CacheCounts
    BY <2>1 DEF AnalyzerInv
  <2> QED
    BY <1>1, <2>1, <2>2, CacheTypesStep, CacheGroupStep, CacheCountsStep
<1>4. AnalyzerInv => CacheInv
  BY <1>1, AnalyzerIsRight
<1> QED
  BY <1>2, <1>3, <1>4, PTL DEF Spec

-----------------------------------------------------------------------------
(* The allocator benchmarks: the books of a thread *)

Block == [ptr : {"wild", "live", "null"}, size : Sizes \cup {0}]
Records == [0 .. Iterations - 1 -> Block]
Statistics ==
  [total : Nat, current : Nat, peak : Nat, allocs : Nat, frees : Nat, failed : Nat]

MadeIn(r) == {j \in 0 .. Iterations - 1 : r[j].ptr # "wild"}
FreedIn(r) == {j \in 0 .. Iterations - 1 : r[j].ptr = "null"}
SizesIn(r) == [j \in 0 .. Iterations - 1 |-> r[j].size]
BytesIn(r, S) == Total(SizesIn(r), S)

\* The statistics s of program p are those of the blocks r.
Books(p, r, s) ==
  /\ s.peak >= s.current /\ s.frees <= Cardinality(FreedIn(r))
  /\ p \in {"allocator_c", "allocator_mac"} =>
            /\ s.allocs = Cardinality(MadeIn(r)) + Cardinality(FreedIn(r))
            /\ s.total = BytesIn(r, MadeIn(r)) + BytesIn(r, FreedIn(r))
            /\ BytesIn(r, MadeIn(r)) <= s.current /\ s.current <= s.total
  /\ p = "allocator_cpp" =>
              /\ s.allocs = Cardinality(MadeIn(r)) /\ s.total = BytesIn(r, MadeIn(r))
              /\ s.current <= s.total

\* What may be summed and counted.
LEMMA BooksAreFinite ==
  ASSUME A!AllocatorAssumption, NEW r \in Records
  PROVE  /\ \A S \in SUBSET (0 .. Iterations - 1) :
              /\ IsFiniteSet(S) /\ Cardinality(S) \in Nat /\ BytesIn(r, S) \in Nat
              /\ \A T \in SUBSET S : Cardinality(T) <= Cardinality(S)
         /\ \A j \in 0 .. Iterations - 1 : r[j].size \in Nat /\ SizesIn(r)[j] = r[j].size
<1>1. IsFiniteSet(0 .. Iterations - 1)
  BY FS_Interval, 0 \in Int, Iterations - 1 \in Int DEF A!AllocatorAssumption
<1>2. \A j \in 0 .. Iterations - 1 : r[j].size \in Nat /\ SizesIn(r)[j] = r[j].size
  <2>1. \A j \in 0 .. Iterations - 1 : r[j].size \in Sizes \cup {0}
    BY DEF Records, Block
  <2>2. \A x \in Sizes \cup {0} : x \in Nat
    BY DEF A!AllocatorAssumption
  <2>3. \A j \in 0 .. Iterations - 1 : SizesIn(r)[j] = r[j].size
    BY DEF SizesIn
  <2>4. \A j \in 0 .. Iterations - 1 : r[j].size \in Nat
    BY <2>1, <2>2
  <2> QED
    BY <2>3, <2>4
<1>3. ASSUME NEW S \in SUBSET (0 .. Iterations - 1)
      PROVE  /\ IsFiniteSet(S) /\ Cardinality(S) \in Nat /\ BytesIn(r, S) \in Nat
             /\ \A T \in SUBSET S : Cardinality(T) <= Cardinality(S)
  <2>1. IsFiniteSet(S)
    BY <1>1, FS_Subset
  <2>2. Total(SizesIn(r), S) \in Nat
    BY <1>2, <2>1, TotalOfNaturals
  <2> QED
    BY <2>1, <2>2, FS_CardinalityType, FS_Subset DEF BytesIn
<1> QED
  BY <1>2, <1>3

SameSizes(r, q, S) == \A k \in S : q[k].size = r[k].size

LEMMA SameBytes ==
  ASSUME A!AllocatorAssumption, NEW r \in Records, NEW q \in Records,
         NEW S \in SUBSET (0 .. Iterations - 1), SameSizes(r, q, S)
  PROVE  BytesIn(q, S) = BytesIn(r, S)
<1> DEFINE f == SizesIn(r)
           g == SizesIn(q)
<1>1. \A k \in S : f[k] \in Int /\ g[k] = f[k]
  BY BooksAreFinite DEF SameSizes
<1>2. IsFiniteSet(S) /\ BytesIn(r, S) = Total(f, S) /\ BytesIn(q, S) = Total(g, S)
  BY BooksAreFinite DEF BytesIn
<1> HIDE DEF f, g
<1> QED
  BY <1>1, <1>2, TotalIsOfValues

\* Of the same sizes, and one more block.
LEMMA OneMore ==
  ASSUME A!AllocatorAssumption, NEW r \in Records, NEW q \in Records,
         NEW S \in SUBSET (0 .. Iterations - 1), NEW j \in (0 .. Iterations - 1) \ S,
         SameSizes(r, q, S), NEW n \in Nat, q[j].size = n
  PROVE  /\ Cardinality(S \cup {j}) = Cardinality(S) + 1
         /\ BytesIn(q, S) = BytesIn(r, S)
         /\ BytesIn(q, S \cup {j}) = BytesIn(r, S) + n
<1>1. /\ IsFiniteSet(S) /\ IsFiniteSet(S \cup {j}) /\ Cardinality(S \cup {j}) = Cardinality(S) + 1
  BY BooksAreFinite, FS_AddElement
<1>2. \A k \in 0 .. Iterations - 1 :
        /\ SizesIn(r)[k] = r[k].size /\ r[k].size \in Nat
        /\ SizesIn(q)[k] = q[k].size /\ q[k].size \in Nat
  BY BooksAreFinite
<1> DEFINE f == SizesIn(r)
           g == SizesIn(q)
           T == S \cup {j}
<1>3. /\ \A k \in S : f[k] \in Int /\ g[k] = f[k]
      /\ \A k \in T : g[k] \in Int
      /\ j \in T /\ T \ {j} = S /\ g[j] = n /\ IsFiniteSet(T) /\ IsFiniteSet(S)
  BY <1>1, <1>2 DEF SameSizes
<1>4. BytesIn(r, S) = Total(f, S) /\ BytesIn(q, S) = Total(g, S) /\ BytesIn(q, T) = Total(g, T)
  BY DEF BytesIn
<1> HIDE DEF f, g, T
<1>5. Total(g, S) = Total(f, S)
  BY <1>3, TotalIsOfValues
<1>6. Total(g, T) = g[j] + Total(g, T \ {j})
  <2>1. TakesOut(g, T)
    BY <1>3, TotalTakesOut
  <2> QED
    BY <1>3, <2>1 DEF TakesOut
<1>7. Total(f, S) \in Int /\ g[j] \in Int
  BY <1>3, TotalType
<1>8. Total(g, T) = Total(f, S) + n
  <2>1. g[j] = n /\ T \ {j} = S
    BY <1>3
  <2>2. Total(g, T \ {j}) = Total(g, S)
    BY <2>1, Zenon
  <2> QED
    BY <1>5, <1>6, <1>7, <2>1, <2>2
<1> QED
  BY <1>1, <1>4, <1>5, <1>8 DEF T

\* Before anything is allocated.
LEMMA BooksOpen ==
  ASSUME A!AllocatorAssumption
  PROVE  /\ A!NoBlocks \in Records /\ A!NoStats \in Statistics
         /\ \A p : Books(p, A!NoBlocks, A!NoStats)
<1>1. A!NoBlocks \in Records
  BY DEF A!NoBlocks, A!Unused, Records, Block
<1>2. A!NoStats \in Statistics
  BY DEF A!NoStats, Statistics
<1>3. MadeIn(A!NoBlocks) = {} /\ FreedIn(A!NoBlocks) = {}
  BY DEF A!NoBlocks, A!Unused, MadeIn, FreedIn
<1>4. BytesIn(A!NoBlocks, {}) = 0 /\ Cardinality({}) = 0
  BY TotalOfNothing, FS_EmptySet DEF BytesIn
<1>5. \A p : Books(p, A!NoBlocks, A!NoStats)
  BY <1>3, <1>4 DEF Books, A!NoStats, A!C, A!Mac, A!Cpp
<1> QED
  BY <1>1, <1>2, <1>5

LEMMA StatisticsOf ==
  ASSUME NEW s \in Statistics, NEW n \in Nat
  PROVE  /\ A!AccountAlloc(s, n) \in Statistics
         /\ A!AccountAlloc(s, n).total = s.total + n
         /\ A!AccountAlloc(s, n).current = s.current + n
         /\ A!AccountAlloc(s, n).allocs = s.allocs + 1
         /\ A!AccountAlloc(s, n).frees = s.frees
         /\ A!AccountAlloc(s, n).peak \in {s.peak, s.current + n}
         /\ A!AccountAlloc(s, n).peak >= s.peak /\ A!AccountAlloc(s, n).peak >= s.current + n
         /\ n <= s.current => A!AccountFree(s, n) \in Statistics
         /\ A!AccountFree(s, n) = [s EXCEPT !.current = s.current - n, !.frees = s.frees + 1]
<1>1. A!Larger(s.peak, s.current + n) \in {s.peak, s.current + n}
      /\ A!Larger(s.peak, s.current + n) >= s.peak /\ A!Larger(s.peak, s.current + n) >= s.current + n
  BY DEF A!Larger, Statistics
<1>2. A!Larger(s.peak, s.current + n) \in Nat
  BY <1>1 DEF Statistics
<1>3. A!AccountAlloc(s, n) = [s EXCEPT !.total = s.total + n, !.current = s.current + n,
         !.allocs = s.allocs + 1, !.peak = A!Larger(s.peak, s.current + n)]
  BY DEF A!AccountAlloc
<1> HIDE DEF A!AccountAlloc
<1>4. A!AccountAlloc(s, n) \in Statistics
  <2>1. s.total + n \in Nat /\ s.current + n \in Nat /\ s.allocs + 1 \in Nat
    BY DEF Statistics
  <2> QED
    BY <1>2, <1>3, <2>1 DEF Statistics
<1>5. n <= s.current => A!AccountFree(s, n) \in Statistics
  <2>1. n <= s.current => s.current - n \in Nat /\ s.frees + 1 \in Nat
    BY DEF Statistics
  <2> QED
    BY <2>1 DEF A!AccountFree, Statistics
<1> QED
  BY <1>1, <1>3, <1>4, <1>5 DEF A!AccountFree, Statistics

\* One block has changed to b.
Replaces(q, r, j, b) ==
  q \in Records /\ \A k \in 0 .. Iterations - 1 : q[k] = IF k = j THEN b ELSE r[k]

\* A block is allocated.
LEMMA BooksOfAlloc ==
  ASSUME A!AllocatorAssumption, NEW r \in Records, NEW s \in Statistics, Books(program, r, s),
         NEW j \in 0 .. Iterations - 1, r[j] = A!Unused, NEW n \in Sizes,
         NEW q, Replaces(q, r, j, [ptr |-> "live", size |-> n])
  PROVE  Books(program, q, A!AccountAlloc(s, n))
<1>1. n \in Nat /\ q \in Records
  BY DEF A!AllocatorAssumption, Replaces
<1>2. \A k \in 0 .. Iterations - 1 : q[k] = IF k = j THEN [ptr |-> "live", size |-> n] ELSE r[k]
  BY DEF Replaces
<1>3. MadeIn(q) = MadeIn(r) \cup {j} /\ FreedIn(q) = FreedIn(r) /\ j \notin MadeIn(r)
      /\ j \notin FreedIn(r) /\ q[j].size = n
  BY <1>2 DEF MadeIn, FreedIn, A!Unused
<1>4. MadeIn(r) \in SUBSET (0 .. Iterations - 1) /\ FreedIn(r) \in SUBSET (0 .. Iterations - 1)
  BY DEF MadeIn, FreedIn
<1>5. /\ Cardinality(MadeIn(q)) = Cardinality(MadeIn(r)) + 1
      /\ BytesIn(q, MadeIn(q)) = BytesIn(r, MadeIn(r)) + n
  <2> DEFINE S == MadeIn(r)
  <2>1. S \in SUBSET (0 .. Iterations - 1) /\ j \in (0 .. Iterations - 1) \ S
        /\ SameSizes(r, q, S) /\ q[j].size = n
    BY <1>2, <1>3, <1>4 DEF SameSizes
  <2> HIDE DEF S
  <2>2. /\ Cardinality(S \cup {j}) = Cardinality(S) + 1
        /\ BytesIn(q, S \cup {j}) = BytesIn(r, S) + n
    BY <1>1, <2>1, OneMore
  <2> QED
    BY <1>3, <2>2 DEF S
<1>6. BytesIn(q, FreedIn(q)) = BytesIn(r, FreedIn(r))
  <2>1. SameSizes(r, q, FreedIn(r))
    BY <1>2, <1>3, <1>4 DEF SameSizes
  <2> QED
    BY <1>1, <1>3, <1>4, <2>1, SameBytes
<1>7. /\ Cardinality(MadeIn(r)) \in Nat /\ Cardinality(FreedIn(r)) \in Nat
      /\ BytesIn(r, MadeIn(r)) \in Nat /\ BytesIn(r, FreedIn(r)) \in Nat
  BY <1>4, BooksAreFinite
<1> DEFINE z == A!AccountAlloc(s, n)
<1>8. /\ z.total = s.total + n /\ z.current = s.current + n /\ z.allocs = s.allocs + 1
      /\ z.frees = s.frees /\ z.peak >= s.current + n
  BY <1>1, StatisticsOf
<1>9. s.total \in Nat /\ s.current \in Nat /\ s.allocs \in Nat /\ s.frees \in Nat
  BY DEF Statistics
<1> HIDE DEF z
<1>10. Books(program, q, z)
  BY <1>1, <1>3, <1>5, <1>6, <1>7, <1>8, <1>9 DEF Books, A!C, A!Mac, A!Cpp
<1> QED
  BY <1>10 DEF z

IsLive(r, j, n) == r[j].ptr = "live" /\ r[j].size = n

\* A block is freed, of which m bytes are taken off in C++.
LEMMA BooksOfFree ==
  ASSUME A!AllocatorAssumption, A!C \/ A!Cpp,
         NEW r \in Records, NEW s \in Statistics, Books(program, r, s),
         NEW j \in 0 .. Iterations - 1, NEW n \in Nat, IsLive(r, j, n),
         NEW q, Replaces(q, r, j, [ptr |-> "null", size |-> n]),
         NEW m \in Nat, A!C => m = n, A!Cpp => m <= s.current,
         NEW z \in A!FreeOutcomes(s, m)
  PROVE  z \in Statistics /\ Books(program, q, z)
<1>0. q \in Records
  BY DEF Replaces
<1>1. \A k \in 0 .. Iterations - 1 : q[k] = IF k = j THEN [ptr |-> "null", size |-> n] ELSE r[k]
  BY DEF Replaces
<1>2. q[j].ptr = "null" /\ q[j].size = n /\ \A k \in (0 .. Iterations - 1) \ {j} : q[k] = r[k]
  BY <1>1
<1>3. MadeIn(q) = MadeIn(r) /\ FreedIn(q) = FreedIn(r) \cup {j} /\ j \notin FreedIn(r)
  BY <1>2 DEF MadeIn, FreedIn, IsLive
<1>4. MadeIn(r) \in SUBSET (0 .. Iterations - 1) /\ FreedIn(r) \in SUBSET (0 .. Iterations - 1)
  BY DEF MadeIn, FreedIn
<1>5. /\ Cardinality(FreedIn(q)) = Cardinality(FreedIn(r)) + 1
      /\ BytesIn(q, FreedIn(q)) = BytesIn(r, FreedIn(r)) + n
  <2> DEFINE S == FreedIn(r)
  <2>1. S \in SUBSET (0 .. Iterations - 1) /\ j \in (0 .. Iterations - 1) \ S
        /\ SameSizes(r, q, S) /\ q[j].size = n
    BY <1>2, <1>3, <1>4 DEF SameSizes
  <2> HIDE DEF S
  <2>2. /\ Cardinality(S \cup {j}) = Cardinality(S) + 1
        /\ BytesIn(q, S \cup {j}) = BytesIn(r, S) + n
    BY <1>0, <2>1, OneMore
  <2> QED
    BY <1>3, <2>2 DEF S
<1>6. BytesIn(q, MadeIn(q)) = BytesIn(r, MadeIn(r))
  <2> DEFINE S == MadeIn(r)
  <2>1. S \in SUBSET (0 .. Iterations - 1) /\ SameSizes(r, q, S)
    BY <1>2, <1>4 DEF SameSizes, IsLive
  <2>2. BytesIn(q, S) = BytesIn(r, S)
    BY <1>0, <2>1, SameBytes
  <2> QED
    BY <1>3, <2>2
<1>7. /\ Cardinality(MadeIn(r)) \in Nat /\ Cardinality(FreedIn(r)) \in Nat
      /\ BytesIn(r, MadeIn(r)) \in Nat /\ BytesIn(r, FreedIn(r)) \in Nat
  BY <1>4, BooksAreFinite
<1>8. s.total \in Nat /\ s.current \in Nat /\ s.allocs \in Nat /\ s.frees \in Nat /\ s.peak \in Nat
  BY DEF Statistics
<1>9. CASE A!C
  <2> DEFINE y == A!AccountAlloc(s, n)
  <2>1. /\ y \in Statistics /\ y.total = s.total + n /\ y.current = s.current + n
        /\ y.allocs = s.allocs + 1 /\ y.frees = s.frees /\ y.peak >= s.current + n
    BY StatisticsOf
  <2>2. z \in {A!AccountFree(y, n), y}
    BY <1>9 DEF A!FreeOutcomes
  <2> HIDE DEF y
  <2>3. n <= y.current
    BY <1>8, <2>1
  <2>4. A!AccountFree(y, n) \in Statistics
        /\ A!AccountFree(y, n) = [y EXCEPT !.current = y.current - n, !.frees = y.frees + 1]
    BY <2>1, <2>3, StatisticsOf
  <2>5. /\ z \in Statistics /\ z.total = s.total + n /\ z.current \in {s.current, s.current + n}
        /\ z.allocs = s.allocs + 1 /\ z.frees \in {s.frees, s.frees + 1} /\ z.peak >= s.current + n
    <3>1. CASE z = y
      BY <2>1, <3>1
    <3>2. CASE z = [y EXCEPT !.current = y.current - n, !.frees = y.frees + 1]
      <4>1. z \in Statistics
        BY <2>4, <3>2
      <4>2. z.current = y.current - n /\ z.frees = y.frees + 1 /\ z.total = y.total
            /\ z.allocs = y.allocs /\ z.peak = y.peak
        BY <2>1, <3>2 DEF Statistics
      <4>3. y.current - n = s.current
        BY <1>8, <2>1
      <4> QED
        BY <2>1, <4>1, <4>2, <4>3
    <3> QED
      BY <2>2, <2>4, <3>1, <3>2
  <2>6. ~A!Cpp
    BY <1>9 DEF A!C, A!Mac, A!Cpp
  <2>7. z.peak \in Nat
    BY <2>5 DEF Statistics
  <2> QED
    BY <1>3, <1>5, <1>6, <1>7, <1>8, <1>9, <2>5, <2>6, <2>7 DEF Books, A!C, A!Mac, A!Cpp
<1>10. CASE A!Cpp
  <2>1. ~A!C /\ z = A!AccountFree(s, m)
    BY <1>10 DEF A!C, A!Mac, A!Cpp, A!FreeOutcomes
  <2>2. z \in Statistics /\ z = [s EXCEPT !.current = s.current - m, !.frees = s.frees + 1]
    BY <1>10, <2>1, StatisticsOf
  <2>3. /\ z.current = s.current - m /\ z.frees = s.frees + 1 /\ z.total = s.total
        /\ z.allocs = s.allocs /\ z.peak = s.peak
    BY <2>2 DEF Statistics
  <2> QED
    BY <1>3, <1>5, <1>6, <1>7, <1>8, <1>10, <2>1, <2>2, <2>3 DEF Books, A!C, A!Mac, A!Cpp
<1> QED
  BY <1>9, <1>10

\* More is freed, and nobody counts it.
LEMMA BooksOfQuietFree ==
  ASSUME A!AllocatorAssumption, A!Cpp, NEW r \in Records, NEW s \in Statistics, Books(program, r, s),
         NEW q \in Records,
         \A k \in 0 .. Iterations - 1 : q[k] = IF r[k].ptr = "live" THEN [r[k] EXCEPT !.ptr = "null"]
                                                                 ELSE r[k]
  PROVE  Books(program, q, s)
<1>1. \A k \in 0 .. Iterations - 1 : /\ q[k].size = r[k].size
                                     /\ q[k].ptr = IF r[k].ptr = "live" THEN "null" ELSE r[k].ptr
  BY DEF Records, Block
<1>2. MadeIn(q) = MadeIn(r) /\ FreedIn(r) \subseteq FreedIn(q)
  BY <1>1 DEF MadeIn, FreedIn
<1>3. /\ MadeIn(r) \in SUBSET (0 .. Iterations - 1) /\ SameSizes(r, q, MadeIn(r))
      /\ FreedIn(q) \in SUBSET (0 .. Iterations - 1) /\ FreedIn(r) \in SUBSET (0 .. Iterations - 1)
  BY <1>1 DEF MadeIn, FreedIn, SameSizes
<1>4. BytesIn(q, MadeIn(q)) = BytesIn(r, MadeIn(r))
  BY <1>2, <1>3, SameBytes
<1>5. Cardinality(FreedIn(r)) <= Cardinality(FreedIn(q)) /\ Cardinality(FreedIn(r)) \in Nat
      /\ Cardinality(FreedIn(q)) \in Nat
  BY <1>2, <1>3, BooksAreFinite
<1>6. s.frees \in Nat /\ ~A!C
  BY DEF Statistics, A!C, A!Mac, A!Cpp
<1> QED
  BY <1>2, <1>4, <1>5, <1>6 DEF Books, A!C, A!Mac, A!Cpp

\* An allocation that fails is no block.
LEMMA BooksOfFailure ==
  ASSUME NEW r \in Records, NEW s \in Statistics, NEW p, Books(p, r, s), NEW n \in Nat
  PROVE  [s EXCEPT !.failed = n] \in Statistics /\ Books(p, r, [s EXCEPT !.failed = n])
<1> DEFINE z == [s EXCEPT !.failed = n]
<1>1. /\ z \in Statistics /\ z.total = s.total /\ z.current = s.current /\ z.allocs = s.allocs
      /\ z.frees = s.frees /\ z.peak = s.peak
  BY DEF Statistics
<1> HIDE DEF z
<1>2. Books(p, r, z)
  BY <1>1 DEF Books
<1> QED
  BY <1>1, <1>2 DEF z

-----------------------------------------------------------------------------
(* The allocator benchmarks: a thread and its loop *)

AtWork == {"run", "free_one", "free_own", "drain", "done"}
NotYet == {"unborn", "arrive", "wait", "failed"}
Stations == AtWork \cup NotYet

\* Of program p, in the speed test or not: a thread at a place of its loop, in
\* iteration i, with blocks r and statistics s.
Sound(p, speed, place, i, limit, r, s) ==
  /\ Books(p, r, s) /\ i <= limit
  /\ place \in NotYet => i = 0
  /\ place \in NotYet \cup {"run"} => \A j \in 0 .. Iterations - 1 : j >= i => r[j] = A!Unused
  /\ place \in {"free_one", "free_own"} =>
       i < limit /\ r[i].ptr = "live" /\ \A j \in 0 .. Iterations - 1 : j > i => r[j] = A!Unused
  /\ place = "free_own" => p = "allocator_cpp" /\ ~speed
  /\ place = "drain" => p \in {"allocator_c", "allocator_mac"}
  /\ p = "allocator_cpp" =>
       /\ place = "free_one" => speed /\ r[i].size <= s.current
       /\ ~speed => IF place = "free_own" THEN s.current = r[i].size /\ s.frees + 1 = s.allocs
                    ELSE s.current = 0 /\ s.frees = s.allocs

AllocTypes ==
  /\ program \in {"allocator_c", "allocator_mac", "allocator_cpp"}
  /\ main \in {"speed", "fragmentation", "scale", "create", "join", "report", "summary",
               "exit", "crashed", "blocked"}
  /\ next \in 0 .. ThreadCounts[Len(ThreadCounts)] /\ group \in DOMAIN ThreadCounts
  /\ pc \in [A!Threads -> Stations] /\ tests \in A!Chosen /\ open \in BOOLEAN
  /\ iter \in [A!Threads -> 0 .. Iterations] /\ records \in [A!Threads -> Records]
  /\ stats \in [A!Threads \cup {A!Global} -> Statistics]
  /\ frag \in [round : Nat, live : Nat, past : Nat, heap : Nat, holes : Nat]
  /\ printed \in [speed : Nat, summary : Statistics]

\* The threads of the test that runs.
Crew == IF main = "speed" THEN {0} ELSE A!InGroup
Active == main \in {"speed", "create", "join"}

AllocThreads ==
  Active => \A t \in Crew :
    Sound(program, main = "speed", pc[t], iter[t], A!Limit, records[t], stats[A!Slot(t)])

\* Thread t goes on, and its loop stays sound unless the program crashes.
Becomes(t, place, i, r, s) ==
  /\ pc' = [pc EXCEPT ![t] = place] /\ iter' = [iter EXCEPT ![t] = i]
  /\ records' = [records EXCEPT ![t] = r] /\ stats' = [stats EXCEPT ![A!Slot(t)] = s]
Turns(t) ==
  \E place \in AtWork, i \in 0 .. Iterations, r \in Records, s \in Statistics :
    /\ Becomes(t, place, i, r, s)
    /\ main' = main => Sound(program, main = "speed", place, i, A!Limit, r, s)

LEMMA CrewIsSmall ==
  ASSUME A!AllocatorAssumption, AllocTypes
  PROVE  /\ ThreadCounts[group] \in Nat \ {0} /\ A!Threads = 0 .. ThreadCounts[Len(ThreadCounts)] - 1
         /\ ThreadCounts[Len(ThreadCounts)] \in Nat \ {0}
         /\ ThreadCounts[group] <= ThreadCounts[Len(ThreadCounts)]
         /\ ThreadCounts[1] <= ThreadCounts[group] /\ ThreadCounts[1] \in Nat \ {0}
         /\ A!InGroup \subseteq A!Threads /\ Crew \subseteq A!Threads /\ 0 \in A!Threads
         /\ A!Limit \in Nat /\ A!Limit <= Iterations /\ Iterations \in Nat
         /\ A!Global \notin A!Threads /\ IsFiniteSet(A!InGroup)
         /\ IsFiniteSet(A!Threads) /\ Cardinality(A!Threads) = ThreadCounts[Len(ThreadCounts)]
<1> DEFINE c == ThreadCounts[group]
           last == ThreadCounts[Len(ThreadCounts)]
           one == ThreadCounts[1]
<1>1. ThreadCounts \in Seq(Nat \ {0}) /\ ThreadCounts # <<>> /\ group \in DOMAIN ThreadCounts
  BY DEF A!AllocatorAssumption, AllocTypes
<1>2. c \in Nat \ {0}
  BY <1>1
<1>3. 1 \in DOMAIN ThreadCounts /\ Len(ThreadCounts) \in DOMAIN ThreadCounts
  BY <1>1, EmptySeq, LenProperties
<1>4. last \in Nat \ {0} /\ one \in Nat \ {0}
  BY <1>1, <1>3
<1>5. one <= c /\ c <= last
  BY <1>1 DEF A!AllocatorAssumption
<1>6. A!Threads = 0 .. last - 1 /\ A!InGroup = 0 .. c - 1 /\ A!Global = -1
  BY DEF A!Threads, A!InGroup, A!Global
<1>7. A!Limit = IF main = "speed" THEN Iterations ELSE Iterations \div c
  BY DEF A!Limit
<1> HIDE DEF c, last, one
<1>8. A!InGroup \subseteq A!Threads /\ 0 \in A!Threads /\ A!Global \notin A!Threads
  BY <1>2, <1>4, <1>5, <1>6
<1>9. Iterations \in Nat
  BY DEF A!AllocatorAssumption
<1>10. Iterations \div c \in Nat /\ Iterations \div c <= Iterations
  <2> DEFINE d == Iterations \div c
  <2>1. d \in Nat /\ d * c <= Iterations
    BY <1>2, <1>9
  <2> HIDE DEF d
  <2>2. d * c = d * (c - 1) + d /\ d * (c - 1) \in Nat
    <3>1. c - 1 \in Nat
      BY <1>2
    <3> QED
      BY <1>2, <2>1, <3>1
  <2>3. d <= Iterations
    BY <1>9, <2>1, <2>2
  <2> QED
    BY <2>1, <2>3 DEF d
<1>11. IsFiniteSet(A!InGroup)
  BY <1>2, <1>6, FS_Interval, 0 \in Int, c - 1 \in Int
<1>12. IsFiniteSet(A!Threads) /\ Cardinality(A!Threads) = last
  BY <1>4, <1>6, FS_Interval, 0 \in Int, last - 1 \in Int
<1> QED
  BY <1>2, <1>4, <1>5, <1>6, <1>7, <1>8, <1>9, <1>10, <1>11, <1>12 DEF Crew, c, last, one

\* Before its loop a thread has done nothing.
LEMMA SoundAtFirst ==
  ASSUME A!AllocatorAssumption, NEW limit \in Nat, NEW p, NEW speed,
         NEW place \in NotYet \cup {"run"}
  PROVE  Sound(p, speed, place, 0, limit, A!NoBlocks, A!NoStats)
<1>1. Books(p, A!NoBlocks, A!NoStats)
  BY BooksOpen
<1>2. \A j \in 0 .. Iterations - 1 : A!NoBlocks[j] = A!Unused
  BY DEF A!NoBlocks
<1>3. A!NoStats.current = 0 /\ A!NoStats.frees = A!NoStats.allocs
  BY DEF A!NoStats
<1> QED
  BY <1>1, <1>2, <1>3 DEF Sound, NotYet

LEMMA SoundMoves ==
  ASSUME NEW p, NEW speed, NEW from \in NotYet, NEW to \in NotYet \cup {"run"}, NEW i, NEW limit,
         NEW r, NEW s, Sound(p, speed, from, i, limit, r, s)
  PROVE  Sound(p, speed, to, i, limit, r, s)
BY DEF Sound, NotYet

LEMMA TypesOf ==
  ASSUME A!AllocatorAssumption, AllocTypes, NEW t \in Crew
  PROVE  /\ t \in A!Threads /\ iter[t] \in 0 .. Iterations /\ records[t] \in Records
         /\ A!Slot(t) \in A!Threads \cup {A!Global} /\ stats[A!Slot(t)] \in Statistics
         /\ A!Limit \in Nat /\ A!Limit <= Iterations /\ Iterations \in Nat /\ pc[t] \in Stations
<1>1. t \in A!Threads
  BY CrewIsSmall
<1>2. A!Slot(t) \in A!Threads \cup {A!Global}
  BY <1>1 DEF A!Slot
<1> QED
  BY <1>1, <1>2, CrewIsSmall DEF AllocTypes

LEMMA TurnAllocate ==
  ASSUME A!AllocatorAssumption, AllocTypes, AllocThreads, Active, NEW t \in Crew, A!Allocate(t)
  PROVE  Turns(t)
<1> DEFINE i == iter[t]
           r == records[t]
           s == stats[A!Slot(t)]
           L == A!Limit
           speed == main = "speed"
<1>1. PICK n \in Sizes :
        /\ records' = [records EXCEPT ![t][iter[t]] = [ptr |-> "live", size |-> n]]
        /\ stats' = [stats EXCEPT ![A!Slot(t)] = A!AccountAlloc(@, n)]
  BY DEF A!Allocate
<1>2. i \in 0 .. Iterations /\ r \in Records /\ s \in Statistics /\ L \in Nat /\ L <= Iterations
      /\ t \in A!Threads /\ Iterations \in Nat
  BY TypesOf
<1>3. pc[t] = "run" /\ i < L
  BY DEF A!Allocate, A!ThreadAt
<1>4. Sound(program, speed, "run", i, L, r, s)
  BY <1>3 DEF AllocThreads
<1> DEFINE b == [ptr |-> "live", size |-> n]
           q == [r EXCEPT ![i] = b]
           z == A!AccountAlloc(s, n)
<1>5. records' = [records EXCEPT ![t] = q] /\ stats' = [stats EXCEPT ![A!Slot(t)] = z]
  BY <1>1
<1>6. i \in 0 .. Iterations - 1 /\ r[i] = A!Unused
  <2>1. i \in 0 .. Iterations - 1
    BY <1>2, <1>3
  <2> QED
    BY <1>4, <2>1 DEF Sound
<1>7. q \in Records /\ Replaces(q, r, i, b)
  BY <1>2, <1>6 DEF Records, Block, Replaces
<1>8. n \in Nat
  BY DEF A!AllocatorAssumption
<1>9. Books(program, q, z) /\ z \in Statistics /\ z.current = s.current + n
      /\ z.allocs = s.allocs + 1 /\ z.frees = s.frees
  <2>1. Books(program, r, s)
    BY <1>4 DEF Sound
  <2> HIDE DEF q, r, s, z, b, i
  <2>2. Books(program, q, A!AccountAlloc(s, n))
    BY <1>2, <1>6, <1>7, <2>1, BooksOfAlloc DEF b
  <2> QED
    BY <1>2, <1>8, <2>2, StatisticsOf DEF z
<1>10. /\ q[i].size = n /\ q[i].ptr = "live"
       /\ \A j \in 0 .. Iterations - 1 : j > i => q[j] = A!Unused
  <2>1. q[i] = b /\ \A j \in 0 .. Iterations - 1 : j # i => q[j] = r[j]
    BY <1>6, <1>7 DEF Replaces
  <2>2. \A j \in 0 .. Iterations - 1 : j > i => q[j] = A!Unused
    BY <1>2, <1>4, <2>1 DEF Sound
  <2> QED
    BY <2>1, <2>2
<1>11. s.current \in Nat /\ s.frees \in Nat /\ s.allocs \in Nat
  BY <1>2 DEF Statistics
<1>12. CASE A!ThenFrees(t) = "run"
  <2>1. pc' = [pc EXCEPT ![t] = "run"] /\ iter' = [iter EXCEPT ![t] = i + 1]
    BY <1>12 DEF A!Allocate, A!NextIteration
  <2>2. ~(program = "allocator_cpp" /\ ~speed)
    BY <1>12 DEF A!ThenFrees, A!Cpp
  <2> HIDE DEF q, r, s, z, b, i, L, speed
  <2>3. i + 1 \in 0 .. Iterations /\ i + 1 <= L
        /\ \A j \in 0 .. Iterations - 1 : j >= i + 1 => j > i
    BY <1>2, <1>3
  <2>4. Sound(program, speed, "run", i + 1, L, q, z)
    BY <1>9, <1>10, <2>2, <2>3 DEF Sound, NotYet
  <2>5. Becomes(t, "run", i + 1, q, z)
    BY <1>5, <2>1 DEF Becomes, q, z
  <2> QED
    BY <1>7, <1>9, <2>3, <2>4, <2>5 DEF Turns, AtWork, L, speed
<1>13. CASE A!ThenFrees(t) # "run"
  <2> DEFINE place == A!ThenFrees(t)
  <2>1. pc' = [pc EXCEPT ![t] = place] /\ iter' = [iter EXCEPT ![t] = i]
    <3>1. pc' = [pc EXCEPT ![t] = place] /\ iter' = iter
      BY <1>13 DEF A!Allocate
    <3>2. iter = [iter EXCEPT ![t] = i]
      BY DEF AllocTypes
    <3> QED
      BY <3>1, <3>2
  <2>2. place \in {"free_one", "free_own"}
    BY <1>13 DEF A!ThenFrees
  <2>3. place = "free_own" <=> program = "allocator_cpp" /\ ~speed
    BY <1>13 DEF A!ThenFrees, A!Cpp
  <2> HIDE DEF q, r, s, z, b, i, L, speed, place
  <2>4. Sound(program, speed, place, i, L, q, z)
    <3>1. i <= L /\ n <= z.current
      BY <1>2, <1>3, <1>8, <1>9, <1>11
    <3>2. program = "allocator_cpp" /\ ~speed => z.current = n /\ z.frees + 1 = z.allocs
      BY <1>4, <1>8, <1>9, <1>11 DEF Sound
    <3> QED
      BY <1>3, <1>9, <1>10, <2>2, <2>3, <3>1, <3>2 DEF Sound, NotYet
  <2>5. Becomes(t, place, i, q, z)
    BY <1>5, <2>1 DEF Becomes, q, z
  <2> QED
    BY <1>2, <1>7, <1>9, <2>2, <2>4, <2>5 DEF Turns, AtWork, L, speed
<1> QED
  BY <1>12, <1>13

LEMMA TurnFails ==
  ASSUME A!AllocatorAssumption, AllocTypes, AllocThreads, Active, NEW t \in Crew,
         A!AllocateFails(t)
  PROVE  Turns(t)
<1> DEFINE i == iter[t]
           r == records[t]
           s == stats[A!Slot(t)]
           L == A!Limit
           speed == main = "speed"
           z == [s EXCEPT !.failed = s.failed + 1]
<1>1. i \in 0 .. Iterations /\ r \in Records /\ s \in Statistics /\ L \in Nat /\ L <= Iterations
      /\ t \in A!Threads /\ Iterations \in Nat
  BY TypesOf
<1>2. /\ pc[t] = "run" /\ i < L /\ stats' = [stats EXCEPT ![A!Slot(t)] = z] /\ records' = records
      /\ pc' = [pc EXCEPT ![t] = "run"] /\ iter' = [iter EXCEPT ![t] = i + 1]
  BY DEF A!AllocateFails, A!ThreadAt, A!NextIteration
<1>3. records = [records EXCEPT ![t] = r]
  BY DEF AllocTypes
<1>4. Sound(program, speed, "run", i, L, r, s)
  BY <1>2 DEF AllocThreads
<1>5. /\ z \in Statistics /\ Books(program, r, z) /\ z.current = s.current
      /\ z.allocs = s.allocs /\ z.frees = s.frees
  <2>1. s.failed + 1 \in Nat /\ Books(program, r, s)
    BY <1>1, <1>4 DEF Statistics, Sound
  <2> HIDE DEF r, s
  <2>2. z \in Statistics /\ Books(program, r, z)
    BY <1>1, <2>1, BooksOfFailure
  <2> QED
    BY <1>1, <2>2 DEF Statistics
<1>6. Becomes(t, "run", i + 1, r, z)
  BY <1>2, <1>3 DEF Becomes
<1> HIDE DEF r, s, z, i, L, speed
<1>7. i + 1 \in 0 .. Iterations /\ i + 1 <= L
      /\ \A j \in 0 .. Iterations - 1 : j >= i + 1 => j >= i
  BY <1>1, <1>2
<1>8. Sound(program, speed, "run", i + 1, L, r, z)
  BY <1>4, <1>5, <1>7 DEF Sound, NotYet
<1> QED
  BY <1>1, <1>5, <1>6, <1>7, <1>8 DEF Turns, AtWork, L, speed

\* A block that is freed, in the records.
LEMMA BlockFreed ==
  ASSUME NEW r \in Records, NEW j \in 0 .. Iterations - 1
  PROVE  Replaces([r EXCEPT ![j].ptr = "null"], r, j, [ptr |-> "null", size |-> r[j].size])
<1> DEFINE b == [r[j] EXCEPT !.ptr = "null"]
           q == [r EXCEPT ![j] = b]
<1>1. b = [ptr |-> "null", size |-> r[j].size] /\ b \in Block
  BY DEF Records, Block
<1> HIDE DEF b
<1>2. q \in Records /\ \A k \in 0 .. Iterations - 1 : q[k] = IF k = j THEN b ELSE r[k]
  BY <1>1 DEF Records
<1>3. q = [r EXCEPT ![j].ptr = "null"]
  BY DEF b
<1> HIDE DEF q
<1> QED
  BY <1>1, <1>2, <1>3 DEF Replaces

LEMMA TurnFreeOne ==
  ASSUME A!AllocatorAssumption, AllocTypes, AllocThreads, Active, NEW t \in Crew, A!FreeOne(t)
  PROVE  Turns(t)
<1> DEFINE i == iter[t]
           r == records[t]
           s == stats[A!Slot(t)]
           L == A!Limit
           speed == main = "speed"
<1>1. PICK j \in A!Candidates(t) :
       \/ /\ records[t][j].ptr = "live"
          /\ records' = [records EXCEPT ![t][j].ptr = "null"]
          /\ \E z \in A!FreeOutcomes(stats[A!Slot(t)], A!SizeFreed(t, j)) :
               stats' = [stats EXCEPT ![A!Slot(t)] = z]
          /\ A!NextIteration(t) /\ UNCHANGED main
       \/ /\ records[t][j].ptr # "live"
          /\ A!NextIteration(t) /\ UNCHANGED <<main, records, stats>>
       \/ /\ records[t][j].ptr = "wild"
          /\ main' = "crashed" /\ UNCHANGED <<pc, iter, records, stats>>
  BY DEF A!FreeOne
<1>2. i \in 0 .. Iterations /\ r \in Records /\ s \in Statistics /\ L \in Nat /\ L <= Iterations
      /\ t \in A!Threads /\ Iterations \in Nat
  BY TypesOf
<1>3. pc[t] = "free_one" /\ (A!C \/ A!Cpp)
  BY DEF A!FreeOne, A!ThreadAt, A!Running
<1>4. Sound(program, speed, "free_one", i, L, r, s)
  BY <1>3 DEF AllocThreads
<1>5. /\ i < L /\ i \in 0 .. Iterations - 1 /\ j \in 0 .. Iterations - 1 /\ j < i
      /\ i + 1 \in 0 .. Iterations /\ i + 1 <= L
  <2>1. i < L
    BY <1>4 DEF Sound
  <2>2. j \in 0 .. i - 1
    BY DEF A!Candidates
  <2> QED
    BY <1>2, <2>1, <2>2
<1>6. records = [records EXCEPT ![t] = r] /\ stats = [stats EXCEPT ![A!Slot(t)] = s]
      /\ pc = [pc EXCEPT ![t] = "free_one"] /\ iter = [iter EXCEPT ![t] = i]
  BY <1>3 DEF AllocTypes
<1>7. program = "allocator_cpp" => speed
  BY <1>4 DEF Sound
<1>8. CASE /\ records[t][j].ptr = "live"
           /\ records' = [records EXCEPT ![t][j].ptr = "null"]
           /\ \E z \in A!FreeOutcomes(stats[A!Slot(t)], A!SizeFreed(t, j)) :
                stats' = [stats EXCEPT ![A!Slot(t)] = z]
           /\ A!NextIteration(t) /\ UNCHANGED main
  <2> DEFINE n == r[j].size
             m == A!SizeFreed(t, j)
             q == [r EXCEPT ![j].ptr = "null"]
  <2>1. PICK z \in A!FreeOutcomes(s, m) : stats' = [stats EXCEPT ![A!Slot(t)] = z]
    BY <1>8
  <2>2. n \in Nat /\ r[i].size \in Nat
    BY <1>2, <1>5, BooksAreFinite
  <2>3. m \in Nat /\ (A!C => m = n) /\ (A!Cpp => m <= s.current)
    <3>1. A!Cpp => r[i].size <= s.current
      BY <1>4 DEF Sound, A!Cpp
    <3> QED
      BY <2>2, <3>1 DEF A!SizeFreed, A!C, A!Mac, A!Cpp
  <2>4. Replaces(q, r, j, [ptr |-> "null", size |-> n])
    BY <1>2, <1>5, BlockFreed
  <2>5. IsLive(r, j, n) /\ Books(program, r, s)
    BY <1>4, <1>8 DEF IsLive, Sound
  <2>6. records' = [records EXCEPT ![t] = q]
    BY <1>8
  <2>7. pc' = [pc EXCEPT ![t] = "run"] /\ iter' = [iter EXCEPT ![t] = i + 1]
    BY <1>8 DEF A!NextIteration
  <2> HIDE DEF q, r, s, i, L, speed, n, m
  <2>8. z \in Statistics /\ Books(program, q, z)
    BY <1>2, <1>3, <1>5, <2>2, <2>3, <2>4, <2>5, BooksOfFree
  <2>9. \A k \in 0 .. Iterations - 1 : k >= i + 1 => q[k] = A!Unused
    <3>1. \A k \in 0 .. Iterations - 1 : k >= i + 1 => k > i /\ k # j
      BY <1>2, <1>5
    <3> QED
      BY <1>4, <2>4, <3>1 DEF Sound, Replaces
  <2>10. Sound(program, speed, "run", i + 1, L, q, z)
    BY <1>5, <1>7, <2>8, <2>9 DEF Sound, NotYet
  <2>11. Becomes(t, "run", i + 1, q, z) /\ q \in Records
    BY <2>1, <2>4, <2>6, <2>7 DEF Becomes, Replaces
  <2> QED
    BY <1>5, <2>8, <2>10, <2>11 DEF Turns, AtWork, L, speed
<1>9. CASE /\ records[t][j].ptr # "live"
           /\ A!NextIteration(t) /\ UNCHANGED <<main, records, stats>>
  <2>1. Becomes(t, "run", i + 1, r, s)
    BY <1>6, <1>9 DEF A!NextIteration, Becomes
  <2> HIDE DEF r, s, i, L, speed
  <2>2. \A k \in 0 .. Iterations - 1 : k >= i + 1 => k > i
    BY <1>2
  <2>3. Sound(program, speed, "run", i + 1, L, r, s)
    BY <1>4, <1>5, <1>7, <2>2 DEF Sound, NotYet
  <2> QED
    BY <1>2, <1>5, <2>1, <2>3 DEF Turns, AtWork, L, speed
<1>10. CASE main' = "crashed" /\ UNCHANGED <<pc, iter, records, stats>>
  <2>1. Becomes(t, "free_one", i, r, s)
    BY <1>6, <1>10 DEF Becomes
  <2>2. main' # main
    BY <1>10 DEF Active
  <2> QED
    BY <1>2, <2>1, <2>2 DEF Turns, AtWork
<1> QED
  BY <1>1, <1>8, <1>9, <1>10

LEMMA TurnCrashes ==
  ASSUME A!AllocatorAssumption, AllocTypes, Active, NEW t \in Crew, A!Crashes(t)
  PROVE  Turns(t)
<1>1. /\ records = [records EXCEPT ![t] = records[t]] /\ pc = [pc EXCEPT ![t] = pc[t]]
      /\ stats = [stats EXCEPT ![A!Slot(t)] = stats[A!Slot(t)]]
      /\ iter = [iter EXCEPT ![t] = iter[t]]
  BY DEF AllocTypes
<1>2. main' # main /\ UNCHANGED <<pc, iter, records, stats>>
  BY DEF A!Crashes, Active, A!own
<1>3. pc[t] \in AtWork
  BY DEF A!Crashes, A!ThreadAt, AtWork
<1>4. Becomes(t, pc[t], iter[t], records[t], stats[A!Slot(t)])
  BY <1>1, <1>2 DEF Becomes
<1> QED
  BY <1>2, <1>3, <1>4, TypesOf DEF Turns

LEMMA TurnFreeOwn ==
  ASSUME A!AllocatorAssumption, AllocTypes, AllocThreads, Active, NEW t \in Crew, A!FreeOwn(t)
  PROVE  Turns(t)
<1> DEFINE i == iter[t]
           r == records[t]
           s == stats[A!Slot(t)]
           L == A!Limit
           speed == main = "speed"
           n == r[i].size
           z == A!AccountFree(s, n)
           q == [r EXCEPT ![i].ptr = "null"]
<1>1. i \in 0 .. Iterations /\ r \in Records /\ s \in Statistics /\ L \in Nat /\ L <= Iterations
      /\ t \in A!Threads /\ Iterations \in Nat
  BY TypesOf
<1>2. pc[t] = "free_own"
  BY DEF A!FreeOwn, A!ThreadAt
<1>3. Sound(program, speed, "free_own", i, L, r, s)
  BY <1>2 DEF AllocThreads
<1>4. program = "allocator_cpp" /\ ~speed /\ i < L /\ r[i].ptr = "live" /\ s.current = n
      /\ s.frees + 1 = s.allocs /\ Books(program, r, s)
  BY <1>3 DEF Sound
<1>5. i \in 0 .. Iterations - 1 /\ i + 1 \in 0 .. Iterations /\ i + 1 <= L
  BY <1>1, <1>4
<1>6. A!Slot(t) = t
  BY <1>4 DEF A!Slot
<1>7. /\ records' = [records EXCEPT ![t] = q] /\ stats' = [stats EXCEPT ![A!Slot(t)] = z]
      /\ pc' = [pc EXCEPT ![t] = "run"] /\ iter' = [iter EXCEPT ![t] = i + 1]
  BY <1>6 DEF A!FreeOwn, A!NextIteration
<1>8. Becomes(t, "run", i + 1, q, z)
  BY <1>7 DEF Becomes
<1>9. Replaces(q, r, i, [ptr |-> "null", size |-> n]) /\ n \in Nat /\ IsLive(r, i, n)
  BY <1>1, <1>4, <1>5, BlockFreed, BooksAreFinite DEF IsLive
<1>10. z \in A!FreeOutcomes(s, n) /\ A!Cpp /\ ~A!C
  BY <1>4 DEF A!FreeOutcomes, A!C, A!Mac, A!Cpp
<1> HIDE DEF q, r, s, i, L, speed, n, z
<1>11. n <= s.current
  BY <1>4, <1>9
<1>12. z \in Statistics /\ Books(program, q, z)
  BY <1>1, <1>4, <1>5, <1>9, <1>10, <1>11, BooksOfFree
<1>13. z.current = 0 /\ z.frees = z.allocs
  <2>1. z = [s EXCEPT !.current = s.current - n, !.frees = s.frees + 1]
    BY <1>1, <1>9, StatisticsOf DEF z
  <2>2. z.current = s.current - n /\ z.frees = s.frees + 1 /\ z.allocs = s.allocs
    BY <1>1, <2>1 DEF Statistics
  <2> QED
    BY <1>4, <1>9, <2>2
<1>14. \A k \in 0 .. Iterations - 1 : k >= i + 1 => q[k] = A!Unused
  <2>1. \A k \in 0 .. Iterations - 1 : k >= i + 1 => k > i /\ k # i
    BY <1>1
  <2> QED
    BY <1>3, <1>9, <2>1 DEF Sound, Replaces
<1>15. Sound(program, speed, "run", i + 1, L, q, z)
  BY <1>4, <1>5, <1>12, <1>13, <1>14 DEF Sound, NotYet
<1> QED
  BY <1>5, <1>8, <1>9, <1>12, <1>15 DEF Turns, AtWork, L, speed, Replaces

LEMMA TurnLoopEnds ==
  ASSUME A!AllocatorAssumption, AllocTypes, AllocThreads, Active, NEW t \in Crew, A!LoopEnds(t)
  PROVE  Turns(t)
<1> DEFINE i == iter[t]
           r == records[t]
           s == stats[A!Slot(t)]
           L == A!Limit
           speed == main = "speed"
<1>1. i \in 0 .. Iterations /\ r \in Records /\ s \in Statistics /\ L \in Nat /\ L <= Iterations
      /\ t \in A!Threads /\ Iterations \in Nat
  BY TypesOf
<1>2. pc[t] = "run" /\ (A!C \/ A!Cpp) /\ stats' = stats
  BY DEF A!LoopEnds, A!ThreadAt, A!Running
<1>3. Sound(program, speed, "run", i, L, r, s)
  BY <1>2 DEF AllocThreads
<1>4. records = [records EXCEPT ![t] = r] /\ stats' = [stats EXCEPT ![A!Slot(t)] = s]
      /\ iter = [iter EXCEPT ![t] = i]
  BY <1>2 DEF AllocTypes
<1>5. CASE A!C
  <2>1. Becomes(t, "drain", 0, r, s)
    BY <1>4, <1>5 DEF A!LoopEnds, Becomes
  <2> HIDE DEF r, s, i, L, speed
  <2>2. Sound(program, speed, "drain", 0, L, r, s)
    BY <1>1, <1>3, <1>5 DEF Sound, NotYet, A!C, A!Mac
  <2>3. 0 \in 0 .. Iterations
    BY <1>1
  <2> QED
    BY <1>1, <2>1, <2>2, <2>3 DEF Turns, AtWork, L, speed
<1>6. CASE A!Cpp
  <2> DEFINE q == [j \in DOMAIN r |-> IF r[j].ptr = "live" THEN [r[j] EXCEPT !.ptr = "null"] ELSE r[j]]
  <2>1. ~A!C
    BY <1>6 DEF A!C, A!Mac, A!Cpp
  <2>2. Becomes(t, "done", i, q, s)
    <3>1. records' = [records EXCEPT ![t] = q]
      BY <2>1 DEF A!LoopEnds
    <3> HIDE DEF q
    <3>2. pc' = [pc EXCEPT ![t] = "done"] /\ iter' = iter
      BY <2>1 DEF A!LoopEnds
    <3> QED
      BY <1>4, <3>1, <3>2 DEF Becomes
  <2>3. DOMAIN r = 0 .. Iterations - 1 /\ \A j \in 0 .. Iterations - 1 : r[j] \in Block
    BY <1>1 DEF Records
  <2>4. \A b \in Block : [b EXCEPT !.ptr = "null"] \in Block
    BY DEF Block
  <2> HIDE DEF r
  <2>5. \A k \in 0 .. Iterations - 1 :
          q[k] = IF r[k].ptr = "live" THEN [r[k] EXCEPT !.ptr = "null"] ELSE r[k]
    BY <2>3
  <2>6. q \in Records
    BY <2>3, <2>4 DEF Records
  <2> HIDE DEF s, i, L, speed, q
  <2>7. Books(program, r, s)
    BY <1>3 DEF Sound
  <2>8. Books(program, q, s)
    BY <1>1, <1>6, <2>5, <2>6, <2>7, BooksOfQuietFree
  <2>9. Sound(program, speed, "done", i, L, q, s)
    BY <1>3, <2>8 DEF Sound, NotYet
  <2> QED
    BY <1>1, <2>2, <2>6, <2>9 DEF Turns, AtWork, L, speed
<1> QED
  BY <1>2, <1>5, <1>6

LEMMA TurnDrain ==
  ASSUME A!AllocatorAssumption, AllocTypes, AllocThreads, Active, NEW t \in Crew,
         A!Drain(t) \/ A!DrainEnds(t)
  PROVE  Turns(t)
<1> DEFINE i == iter[t]
           r == records[t]
           s == stats[A!Slot(t)]
           L == A!Limit
           speed == main = "speed"
<1>1. i \in 0 .. Iterations /\ r \in Records /\ s \in Statistics /\ L \in Nat /\ L <= Iterations
      /\ t \in A!Threads /\ Iterations \in Nat
  BY TypesOf
<1>2. pc[t] = "drain"
  BY DEF A!Drain, A!DrainEnds, A!ThreadAt
<1>3. Sound(program, speed, "drain", i, L, r, s)
  BY <1>2 DEF AllocThreads
<1>4. /\ program \in {"allocator_c", "allocator_mac"} /\ Books(program, r, s)
      /\ A!Slot(t) = t /\ A!C /\ ~A!Cpp
  BY <1>3 DEF Sound, A!Slot, A!C, A!Mac, A!Cpp
<1>5. records = [records EXCEPT ![t] = r] /\ stats = [stats EXCEPT ![A!Slot(t)] = s]
      /\ iter = [iter EXCEPT ![t] = i] /\ pc = [pc EXCEPT ![t] = "drain"]
  BY <1>2 DEF AllocTypes
<1>6. CASE A!DrainEnds(t)
  <2>1. Becomes(t, "done", i, r, s)
    BY <1>5, <1>6 DEF A!DrainEnds, A!own, Becomes
  <2> HIDE DEF r, s, i, L, speed
  <2>2. Sound(program, speed, "done", i, L, r, s)
    BY <1>3, <1>4 DEF Sound, NotYet
  <2> QED
    BY <1>1, <2>1, <2>2 DEF Turns, AtWork, L, speed
<1>7. CASE A!Drain(t)
  <2>1. i < L /\ pc' = pc /\ iter' = [iter EXCEPT ![t] = i + 1]
    BY <1>7 DEF A!Drain
  <2>2. i \in 0 .. Iterations - 1 /\ i + 1 \in 0 .. Iterations /\ i + 1 <= L
    BY <1>1, <2>1
  <2> DEFINE n == r[i].size
             q == [r EXCEPT ![i].ptr = "null"]
  <2>3. \/ /\ r[i].ptr = "live" /\ records' = [records EXCEPT ![t] = q]
           /\ \E z \in A!FreeOutcomes(s, n) : stats' = [stats EXCEPT ![A!Slot(t)] = z]
        \/ UNCHANGED <<records, stats>>
    BY <1>4, <1>7 DEF A!Drain
  <2>4. CASE UNCHANGED <<records, stats>>
    <3>1. Becomes(t, "drain", i + 1, r, s)
      BY <1>5, <2>1, <2>4 DEF Becomes
    <3> HIDE DEF r, s, i, L, speed
    <3>2. Sound(program, speed, "drain", i + 1, L, r, s)
      BY <1>3, <1>4, <2>2 DEF Sound, NotYet
    <3> QED
      BY <1>1, <2>2, <3>1, <3>2 DEF Turns, AtWork, L, speed
  <2>5. CASE /\ r[i].ptr = "live" /\ records' = [records EXCEPT ![t] = q]
             /\ \E z \in A!FreeOutcomes(s, n) : stats' = [stats EXCEPT ![A!Slot(t)] = z]
    <3>1. PICK z \in A!FreeOutcomes(s, n) : stats' = [stats EXCEPT ![A!Slot(t)] = z]
      BY <2>5
    <3>2. Becomes(t, "drain", i + 1, q, z)
      BY <1>5, <2>1, <2>5, <3>1 DEF Becomes
    <3>3. Replaces(q, r, i, [ptr |-> "null", size |-> n]) /\ n \in Nat /\ IsLive(r, i, n)
      BY <1>1, <2>2, <2>5, BlockFreed, BooksAreFinite DEF IsLive
    <3> HIDE DEF r, s, i, L, speed, n, q
    <3>4. z \in Statistics /\ Books(program, q, z)
      BY <1>1, <1>4, <2>2, <3>3, BooksOfFree
    <3>5. Sound(program, speed, "drain", i + 1, L, q, z)
      BY <1>4, <2>2, <3>4 DEF Sound, NotYet
    <3> QED
      BY <2>2, <3>2, <3>3, <3>4, <3>5 DEF Turns, AtWork, L, speed, Replaces
  <2> QED
    BY <2>3, <2>4, <2>5
<1> QED
  BY <1>6, <1>7

-----------------------------------------------------------------------------
(* The allocator benchmarks: groups of threads, and what is printed *)

\* Threads run in three of main's loops only, and in the scalability test not
\* before all of the group have come.
AllocGroup ==
  /\ main \notin {"speed", "create", "join", "crashed", "blocked"} =>
       \A t \in A!Threads : pc[t] \in {"unborn", "done", "failed"}
  /\ Active => \A t \in A!Threads \ Crew : pc[t] = "unborn"
  /\ main = "speed" => pc[0] \notin {"arrive", "wait", "failed"}
  /\ A!Cpp => \A t \in A!Threads : pc[t] # "failed"
  /\ main = "create" => /\ \A t \in A!InGroup : t < next <=> pc[t] # "unborn"
                        /\ ~(A!Cpp /\ open)
  /\ main \in {"join", "report"} => \A t \in A!InGroup : pc[t] # "unborn"
  /\ main \in {"create", "join", "report"} =>
       /\ (\E t \in A!InGroup : pc[t] \in AtWork) => open \/ A!Mac
       /\ open => \A t \in A!InGroup : /\ pc[t] \notin {"unborn", "failed"}
                                       /\ A!C => pc[t] # "arrive"

\* What the fragmentation test knows to be allocated.
Fragments ==
  /\ main = "speed" => frag = A!NoFrag
  /\ A!Cpp => frag.heap = 0 /\ frag.past + frag.live <= stats[A!Global].current
  /\ A!C /\ main = "fragmentation" =>
       frag.heap = frag.past + frag.live /\ ("frag" \in tests => frag.heap = stats[A!Global].current)
  /\ A!C /\ main \notin {"fragmentation", "crashed", "blocked"} => frag.heap = frag.past

\* What the global statistics have to do with what is printed.
Figures ==
  /\ main \in {"scale", "create", "join", "report"} => "scale" \in tests
  /\ "speed" \in tests /\ (A!Cpp \/ tests = {"speed"}) /\ main \notin {"speed", "crashed", "blocked"} =>
       stats[A!Global].allocs + stats[A!Global].frees = printed.speed
  /\ main = "exit" /\ "speed" \in tests => printed.summary = stats[A!Global]

BenchInv == AllocTypes /\ AllocThreads /\ AllocGroup /\ Fragments /\ Figures

\* The steps of a thread in its loop.
LEMMA ThreadTurns ==
  ASSUME A!AllocatorAssumption, BenchInv, NEW t \in A!Threads, A!Thread(t)
  PROVE  /\ Active /\ t \in Crew
         /\ \/ A!Arrive(t) \/ A!Leave(t)
            \/ /\ pc[t] \in AtWork /\ Turns(t) /\ main' \in {main, "crashed"}
               /\ UNCHANGED <<program, next, tests, group, open, frag, printed>>
<1>1. /\ A!Running /\ pc[t] \in {"arrive", "wait", "run", "free_one", "free_own", "drain"}
      /\ (pc[t] \in AtWork \/ A!Arrive(t) \/ A!Leave(t))
      /\ \/ A!Arrive(t) \/ A!Leave(t) \/ A!Allocate(t) \/ A!AllocateFails(t) \/ A!FreeOne(t)
         \/ A!Crashes(t) \/ A!FreeOwn(t) \/ A!LoopEnds(t) \/ A!Drain(t) \/ A!DrainEnds(t)
  BY DEF A!Thread, A!Arrive, A!Leave, A!Allocate, A!AllocateFails, A!FreeOne, A!Crashes, A!FreeOwn,
     A!LoopEnds, A!Drain, A!DrainEnds, A!ThreadAt, AtWork
<1>2. Active
  BY <1>1 DEF BenchInv, AllocGroup, Active, A!Running
<1>3. t \in Crew
  BY <1>1, <1>2 DEF BenchInv, AllocGroup
<1>4. CASE A!Arrive(t) \/ A!Leave(t)
  BY <1>2, <1>3, <1>4
<1>5. CASE ~(A!Arrive(t) \/ A!Leave(t))
  <2>1. Turns(t)
    BY <1>1, <1>2, <1>3, <1>5, TurnAllocate, TurnFails, TurnFreeOne, TurnCrashes, TurnFreeOwn,
       TurnLoopEnds, TurnDrain DEF BenchInv
  <2>2. main' \in {main, "crashed"} /\ UNCHANGED <<program, next, tests, group, open, frag, printed>>
    BY <1>1, <1>5 DEF A!Allocate, A!AllocateFails, A!FreeOne, A!Crashes, A!FreeOwn,
       A!LoopEnds, A!Drain, A!DrainEnds, A!own
  <2> QED
    BY <1>1, <1>2, <1>3, <1>5, <2>1, <2>2
<1> QED
  BY <1>4, <1>5

\* While main is where it is, so are the limit, the crew and their slots.
LEMMA SameTest ==
  ASSUME UNCHANGED <<program, main, group>>
  PROVE  /\ A!Limit' = A!Limit /\ Crew' = Crew /\ Active' = Active /\ A!InGroup' = A!InGroup
         /\ \A t : A!Slot(t)' = A!Slot(t)
BY DEF A!Limit, Crew, Active, A!InGroup, A!Slot, A!Cpp

LEMMA SlotsDiffer ==
  ASSUME A!AllocatorAssumption, AllocTypes, NEW t \in Crew, NEW u \in Crew, t # u
  PROVE  A!Slot(t) # A!Slot(u) /\ A!Slot(t) = t
BY DEF Crew, A!Slot

LEMMA TurnKeeps ==
  ASSUME A!AllocatorAssumption, BenchInv, Active, NEW t \in Crew, pc[t] \in AtWork, Turns(t),
         main' \in {main, "crashed"},
         UNCHANGED <<program, next, tests, group, open, frag, printed>>
  PROVE  BenchInv'
<1>0. /\ t \in A!Threads /\ A!Slot(t) \in A!Threads \cup {A!Global} /\ Crew \subseteq A!Threads
      /\ A!InGroup \subseteq A!Threads /\ AllocTypes
  BY TypesOf, CrewIsSmall DEF BenchInv
<1>1. PICK place \in AtWork, i \in 0 .. Iterations, r \in Records, s \in Statistics :
        /\ Becomes(t, place, i, r, s)
        /\ main' = main => Sound(program, main = "speed", place, i, A!Limit, r, s)
  BY DEF Turns
<1>2. /\ pc' = [pc EXCEPT ![t] = place] /\ iter' = [iter EXCEPT ![t] = i]
      /\ records' = [records EXCEPT ![t] = r] /\ stats' = [stats EXCEPT ![A!Slot(t)] = s]
  BY <1>1 DEF Becomes
<1>3. AllocTypes'
  <2>1. place \in Stations
    BY DEF Stations
  <2>2. /\ pc' \in [A!Threads -> Stations] /\ iter' \in [A!Threads -> 0 .. Iterations]
        /\ records' \in [A!Threads -> Records] /\ stats' \in [A!Threads \cup {A!Global} -> Statistics]
    BY <1>0, <1>2, <2>1 DEF AllocTypes
  <2>3. main' \in {"speed", "fragmentation", "scale", "create", "join", "report", "summary",
                   "exit", "crashed", "blocked"}
    BY <1>0 DEF AllocTypes
  <2> QED
    BY <1>0, <2>2, <2>3 DEF AllocTypes
<1>4. \A u \in A!Threads : pc'[u] = IF u = t THEN place ELSE pc[u]
  BY <1>0, <1>2 DEF AllocTypes
<1>5. AllocThreads'
  <2>1. CASE main' = "crashed"
    BY <2>1 DEF AllocThreads, Active
  <2>2. CASE main' = main
    <3>1. /\ A!Limit' = A!Limit /\ Crew' = Crew /\ Active' = Active
          /\ \A u : A!Slot(u)' = A!Slot(u)
      BY <2>2, SameTest
    <3>2. ASSUME NEW u \in Crew
          PROVE  Sound(program, main = "speed", pc'[u], iter'[u], A!Limit, records'[u],
                       stats'[A!Slot(u)])
      <4>1. CASE u = t
        <5>1. pc'[u] = place /\ iter'[u] = i /\ records'[u] = r /\ stats'[A!Slot(u)] = s
          BY <1>0, <1>2, <4>1 DEF AllocTypes
        <5> QED
          BY <1>1, <2>2, <5>1
      <4>2. CASE u # t
        <5>1. A!Slot(u) # A!Slot(t) /\ A!Slot(u) \in A!Threads \cup {A!Global} /\ u \in A!Threads
          BY <1>0, <4>2, SlotsDiffer, TypesOf
        <5>2. pc'[u] = pc[u] /\ iter'[u] = iter[u] /\ records'[u] = records[u]
              /\ stats'[A!Slot(u)] = stats[A!Slot(u)]
          BY <1>0, <1>2, <4>2, <5>1 DEF AllocTypes
        <5>3. Sound(program, main = "speed", pc[u], iter[u], A!Limit, records[u], stats[A!Slot(u)])
          BY DEF BenchInv, AllocThreads
        <5> QED
          BY <5>2, <5>3
      <4> QED
        BY <4>1, <4>2
    <3>3. \A u \in Crew' : Sound(program', (main = "speed")', pc'[u], iter'[u], A!Limit', records'[u],
                                 stats'[A!Slot(u)'])
      BY <2>2, <3>1, <3>2
    <3> QED
      BY <3>3 DEF AllocThreads
  <2> QED
    BY <2>1, <2>2
<1>6. AllocGroup'
  <2>1. A!InGroup' = A!InGroup /\ A!Threads' = A!Threads
    BY DEF A!InGroup, A!Threads
  <2>2. \A u \in A!Threads : (pc'[u] \in AtWork <=> pc[u] \in AtWork)
                             /\ (pc[u] \notin AtWork => pc'[u] = pc[u])
    BY <1>4
  <2>3. AtWork \cap {"unborn", "arrive", "wait", "failed"} = {}
    BY DEF AtWork
  <2>4. CASE main' = "crashed"
    BY <1>4, <2>1, <2>2, <2>3, <2>4 DEF BenchInv, AllocGroup, A!Cpp, Active
  <2>5. CASE main' = main
    <3>1. Crew' = Crew /\ Active' = Active
      BY <2>5, SameTest
    <3>2. main \in {"speed", "create", "join"}
      BY DEF Active
    <3>3. main = "speed" => t = 0
      BY DEF Crew
    <3> QED
      BY <1>0, <1>4, <2>1, <2>2, <2>3, <2>5, <3>1, <3>2, <3>3 DEF BenchInv, AllocGroup, A!Cpp, A!C, A!Mac
  <2> QED
    BY <2>4, <2>5
<1>7. stats'[A!Global] = IF A!Cpp /\ main = "speed" THEN s ELSE stats[A!Global]
  <2>1. A!Global \notin A!Threads
    BY <1>0, CrewIsSmall
  <2> QED
    BY <1>0, <1>2, <2>1 DEF AllocTypes, A!Slot
<1>8. Fragments'
  <2>1. CASE A!Cpp /\ main = "speed"
    <3>1. frag = A!NoFrag /\ s.current \in Nat
      BY <2>1 DEF BenchInv, Fragments, Statistics
    <3> QED
      BY <1>7, <2>1, <3>1 DEF Fragments, A!NoFrag, A!C, A!Mac, A!Cpp, A!Global
  <2>2. CASE ~(A!Cpp /\ main = "speed")
    <3>1. stats'[A!Global] = stats[A!Global]
      BY <1>7, <2>2
    <3>2. main # "fragmentation"
      BY DEF Active
    <3> QED
      BY <3>1, <3>2 DEF BenchInv, Fragments, A!C, A!Mac, A!Cpp, A!Global
  <2> QED
    BY <2>1, <2>2
<1>9. Figures'
  <2>1. CASE main = "speed"
    BY <2>1 DEF BenchInv, Figures
  <2>2. CASE main # "speed"
    <3>1. stats'[A!Global] = stats[A!Global]
      BY <1>7, <2>2
    <3>2. main # "exit"
      BY DEF Active
    <3> QED
      BY <2>2, <3>1, <3>2 DEF BenchInv, Figures, A!C, A!Mac, A!Cpp, A!Global
  <2> QED
    BY <2>1, <2>2
<1> QED
  BY <1>3, <1>5, <1>6, <1>8, <1>9 DEF BenchInv

\* Threads that only move before their loops begin.
LEMMA MovesKeepThreads ==
  ASSUME A!AllocatorAssumption, BenchInv, NEW t \in A!Threads, NEW to \in NotYet \cup {"run"},
         pc[t] \in NotYet, pc' = [pc EXCEPT ![t] = to],
         UNCHANGED <<program, main, group, iter, records, stats>>
  PROVE  AllocThreads' /\ pc' \in [A!Threads -> Stations]
         /\ \A u \in A!Threads : pc'[u] = IF u = t THEN to ELSE pc[u]
<1>1. /\ A!Limit' = A!Limit /\ Crew' = Crew /\ Active' = Active
      /\ (\A u : A!Slot(u)' = A!Slot(u)) /\ Crew \subseteq A!Threads
  BY SameTest, CrewIsSmall DEF BenchInv
<1>2. \A u \in A!Threads : pc'[u] = IF u = t THEN to ELSE pc[u]
  BY DEF BenchInv, AllocTypes
<1>3. ASSUME Active, NEW u \in Crew
      PROVE  Sound(program, main = "speed", pc'[u], iter[u], A!Limit, records[u], stats[A!Slot(u)])
  <2>1. Sound(program, main = "speed", pc[u], iter[u], A!Limit, records[u], stats[A!Slot(u)])
    BY <1>3 DEF BenchInv, AllocThreads
  <2>2. CASE u = t
    <3>1. pc'[u] = to /\ pc[u] \in NotYet
      BY <1>1, <1>2, <2>2
    <3> QED
      BY <2>1, <3>1, SoundMoves
  <2>3. CASE u # t
    BY <1>1, <1>2, <2>1, <2>3
  <2> QED
    BY <2>2, <2>3
<1>4. Active' => \A u \in Crew' : Sound(program', (main = "speed")', pc'[u], iter'[u], A!Limit',
                                        records'[u], stats'[A!Slot(u)'])
  BY <1>1, <1>3
<1>5. AllocThreads'
  BY <1>4 DEF AllocThreads
<1>6. to \in Stations
  BY DEF Stations, AtWork
<1> QED
  BY <1>2, <1>5, <1>6 DEF BenchInv, AllocTypes

\* Neither what is counted nor what is printed depends on where threads are.
LEMMA FiguresAreOfMain ==
  ASSUME BenchInv, UNCHANGED <<program, main, tests, stats, frag, printed>>
  PROVE  Fragments' /\ Figures'
BY DEF BenchInv, Fragments, Figures, A!C, A!Mac, A!Cpp, A!Global, A!NoFrag, A!AllTests

LEMMA ArriveKeeps ==
  ASSUME A!AllocatorAssumption, BenchInv, Active, NEW t \in Crew,
         A!Arrive(t) \/ A!Leave(t) \/ A!LeaveSpuriously(t)
  PROVE  BenchInv'
<1>0. /\ t \in A!Threads /\ A!InGroup \subseteq A!Threads /\ Crew \subseteq A!Threads
      /\ A!InGroup' = A!InGroup /\ A!Threads' = A!Threads
  BY CrewIsSmall DEF BenchInv, A!InGroup, A!Threads, A!Arrive, A!Leave,
     A!LeaveSpuriously, A!own
<1>1. PICK to \in {"wait", "run"} :
        /\ pc' = [pc EXCEPT ![t] = to] /\ pc[t] \in {"arrive", "wait"}
        /\ pc[t] = "arrive" => to = "wait"
        /\ pc[t] = "wait" => to = "run" /\ (open \/ A!Mac)
        /\ \/ open' = open
           \/ open' = TRUE /\ A!C /\ pc[t] = "arrive" /\ \A u \in A!InGroup \ {t} : pc[u] \notin A!NotArrived
        /\ UNCHANGED <<program, main, next, tests, group, iter, records, stats, frag, printed>>
  <2>1. CASE A!Arrive(t)
    <3>1. open \in BOOLEAN
      BY DEF BenchInv, AllocTypes
    <3>2. \/ open' = open
          \/ /\ open' = TRUE /\ A!C /\ pc[t] = "arrive"
             /\ \A u \in A!InGroup \ {t} : pc[u] \notin A!NotArrived
      <4>1. CASE A!C /\ \A u \in A!InGroup \ {t} : pc[u] \notin A!NotArrived
        BY <2>1, <4>1, Zenon DEF A!Arrive, A!ThreadAt
      <4>2. CASE ~(A!C /\ \A u \in A!InGroup \ {t} : pc[u] \notin A!NotArrived)
        <5>1. open' = (open \/ FALSE)
          BY <2>1, <4>2, Zenon DEF A!Arrive
        <5> QED
          BY <3>1, <5>1
      <4> QED
        BY <4>1, <4>2
    <3> QED
      BY <2>1, <3>2 DEF A!Arrive, A!ThreadAt
  <2>2. CASE A!Leave(t)
    BY <2>2 DEF A!Leave, A!ThreadAt, A!own
  <2>3. CASE A!LeaveSpuriously(t)
    BY <2>3 DEF A!LeaveSpuriously, A!ThreadAt, A!own
  <2> QED
    BY <2>1, <2>2, <2>3
<1>2. AllocThreads' /\ pc' \in [A!Threads -> Stations]
      /\ \A u \in A!Threads : pc'[u] = IF u = t THEN to ELSE pc[u]
  BY <1>0, <1>1, MovesKeepThreads DEF NotYet
<1>3. AllocTypes'
  <2>1. open' \in BOOLEAN
    BY <1>1 DEF BenchInv, AllocTypes
  <2> QED
    BY <1>1, <1>2, <2>1 DEF BenchInv, AllocTypes
<1>4. Fragments' /\ Figures'
  BY <1>1, FiguresAreOfMain
<1>5. main \in {"create", "join"} /\ t \in A!InGroup
  <2>1. main # "speed"
    BY <1>1 DEF BenchInv, AllocGroup, Crew
  <2> QED
    BY <2>1 DEF Active, Crew
<1>6. Crew' = Crew /\ Active' = Active
  BY <1>1, SameTest
<1>7. AllocGroup'
  <2>1. \A u \in A!Threads \ Crew' : pc'[u] = "unborn"
    BY <1>0, <1>2, <1>6 DEF BenchInv, AllocGroup
  <2>2. A!Cpp' => \A u \in A!Threads : pc'[u] # "failed"
    BY <1>1, <1>2 DEF BenchInv, AllocGroup, A!Cpp
  <2>3. main = "create" => (\A u \in A!InGroup : u < next <=> pc'[u] # "unborn") /\ ~(A!Cpp /\ open')
    BY <1>0, <1>1, <1>2, <1>5 DEF BenchInv, AllocGroup, A!C, A!Mac, A!Cpp
  <2>4. main = "join" => \A u \in A!InGroup : pc'[u] # "unborn"
    BY <1>0, <1>1, <1>2 DEF BenchInv, AllocGroup
  <2>5. (\E u \in A!InGroup : pc'[u] \in AtWork) => open' \/ A!Mac
    <3>1. "wait" \notin AtWork
      BY DEF AtWork
    <3> QED
      BY <1>0, <1>1, <1>2, <1>5, <3>1 DEF BenchInv, AllocGroup
  <2>6. open' => \A u \in A!InGroup : /\ pc'[u] \notin {"unborn", "failed"}
                                      /\ A!C => pc'[u] # "arrive"
    BY <1>0, <1>1, <1>2, <1>5 DEF BenchInv, AllocGroup, A!NotArrived
  <2> QED
    BY <1>0, <1>1, <1>5, <2>1, <2>2, <2>3, <2>4, <2>5, <2>6 DEF AllocGroup, A!C, A!Mac, A!Cpp, Active
<1> QED
  BY <1>2, <1>3, <1>4, <1>7 DEF BenchInv

-----------------------------------------------------------------------------
(* The allocator benchmarks: main *)

LEMMA SpeedTestKeeps ==
  ASSUME A!AllocatorAssumption, BenchInv, A!SpeedTest
  PROVE  BenchInv'
<1>1. /\ main = "speed" /\ pc[0] = "unborn" /\ pc' = [pc EXCEPT ![0] = "run"]
      /\ UNCHANGED <<program, main, next, tests, group, open, iter, records, stats, frag, printed>>
  BY DEF A!SpeedTest, A!At, A!own
<1>2. 0 \in A!Threads
  BY CrewIsSmall DEF BenchInv
<1>3. AllocThreads' /\ pc' \in [A!Threads -> Stations]
      /\ \A u \in A!Threads : pc'[u] = IF u = 0 THEN "run" ELSE pc[u]
  BY <1>1, <1>2, MovesKeepThreads DEF NotYet
<1>4. AllocTypes'
  BY <1>1, <1>3 DEF BenchInv, AllocTypes
<1>5. Fragments' /\ Figures'
  BY <1>1, FiguresAreOfMain
<1>6. AllocGroup'
  <2>1. Crew' = {0}
    BY <1>1 DEF Crew
  <2>2. \A u \in A!Threads \ {0} : pc'[u] = "unborn"
    BY <1>1, <1>3 DEF BenchInv, AllocGroup, Crew, Active
  <2>3. A!Cpp' => \A u \in A!Threads : pc'[u] # "failed"
    BY <1>1, <1>3 DEF BenchInv, AllocGroup, A!Cpp
  <2> QED
    BY <1>1, <1>2, <1>3, <2>1, <2>2, <2>3 DEF AllocGroup
<1> QED
  BY <1>3, <1>4, <1>5, <1>6 DEF BenchInv

LEMMA SpeedTestEndKeeps ==
  ASSUME A!AllocatorAssumption, BenchInv, A!SpeedTestEnds
  PROVE  BenchInv'
<1> DEFINE s == stats[A!Slot(0)]
<1>0. /\ main = "speed" /\ ("speed" \in tests => pc[0] = "done") /\ main' = "fragmentation"
      /\ printed' = [printed EXCEPT !.speed = s.allocs + s.frees]
      /\ stats' = IF "frag" \in tests /\ A!C THEN [stats EXCEPT ![A!Global] = A!NoStats]
                  ELSE [stats EXCEPT ![A!Global] = s]
      /\ records' = [records EXCEPT ![0] = A!NoBlocks] /\ iter' = [iter EXCEPT ![0] = 0]
      /\ pc' = [pc EXCEPT ![0] = "unborn"]
      /\ UNCHANGED <<program, next, tests, group, open, frag>>
  BY DEF A!SpeedTestEnds, A!At
<1>1. 0 \in A!Threads /\ Iterations \in Nat /\ 0 \in Crew
  BY <1>0, CrewIsSmall DEF BenchInv, Crew
<1>2. s \in Statistics /\ A!NoStats \in Statistics /\ A!NoBlocks \in Records
  BY <1>1, TypesOf, BooksOpen DEF BenchInv
<1>3. s.allocs \in Nat /\ s.frees \in Nat /\ s.current \in Nat
  BY <1>2 DEF Statistics
<1>4. stats'[A!Global] = IF "frag" \in tests /\ A!C THEN A!NoStats ELSE s
  BY <1>0 DEF BenchInv, AllocTypes
<1>5. AllocTypes'
  <2>1. printed' \in [speed : Nat, summary : Statistics]
    <3>1. s.allocs + s.frees \in Nat
      BY <1>3
    <3> QED
      BY <1>0, <3>1 DEF BenchInv, AllocTypes
  <2>2. stats' \in [A!Threads \cup {A!Global} -> Statistics]
    BY <1>0, <1>2 DEF BenchInv, AllocTypes
  <2>3. /\ records' \in [A!Threads -> Records] /\ iter' \in [A!Threads -> 0 .. Iterations]
        /\ pc' \in [A!Threads -> Stations]
    BY <1>0, <1>1, <1>2 DEF BenchInv, AllocTypes, Stations, NotYet
  <2> QED
    BY <1>0, <2>1, <2>2, <2>3 DEF BenchInv, AllocTypes
<1>6. AllocThreads'
  BY <1>0 DEF AllocThreads, Active
<1>7. \A u \in A!Threads : pc'[u] = "unborn"
  <2>1. \A u \in A!Threads \ {0} : pc[u] = "unborn"
    BY <1>0 DEF BenchInv, AllocGroup, Crew, Active
  <2> QED
    BY <1>0, <2>1 DEF BenchInv, AllocTypes
<1>8. AllocGroup'
  <2>1. A!Threads' = A!Threads
    BY DEF A!Threads
  <2> QED
    BY <1>0, <1>7, <2>1 DEF AllocGroup, Active
<1>9. frag' = A!NoFrag /\ A!NoFrag.heap = 0 /\ A!NoFrag.past = 0 /\ A!NoFrag.live = 0
  BY <1>0 DEF BenchInv, Fragments, A!NoFrag
<1>10. Fragments'
  <2>1. A!Cpp => stats'[A!Global] = s
    BY <1>4 DEF A!C, A!Mac, A!Cpp
  <2>2. "frag" \in tests /\ A!C => stats'[A!Global].current = 0
    BY <1>4 DEF A!NoStats
  <2>3. A!Global' = A!Global
    BY DEF A!Global
  <2> HIDE DEF s
  <2> QED
    BY <1>0, <1>3, <1>9, <2>1, <2>2, <2>3 DEF Fragments, A!C, A!Mac, A!Cpp
<1>11. Figures'
  <2>1. printed'.speed = s.allocs + s.frees
    BY <1>0 DEF BenchInv, AllocTypes
  <2>2. (A!Cpp \/ tests = {"speed"}) => stats'[A!Global] = s
    BY <1>4 DEF A!C, A!Mac, A!Cpp
  <2>3. A!Global' = A!Global /\ A!AllTests' = A!AllTests /\ ThreadCounts' = ThreadCounts
    BY DEF A!Global, A!AllTests, ThreadCounts
  <2> HIDE DEF s
  <2> QED
    BY <1>0, <2>1, <2>2, <2>3 DEF BenchInv, Figures, A!C, A!Mac, A!Cpp
<1> QED
  BY <1>5, <1>6, <1>8, <1>10, <1>11 DEF BenchInv

LEMMA FragRoundKeeps ==
  ASSUME A!AllocatorAssumption, BenchInv, A!FragRound
  PROVE  BenchInv'
<1> DEFINE g == stats[A!Global]
<1>1. /\ A!Running /\ main = "fragmentation" /\ "frag" \in tests
      /\ UNCHANGED <<program, main, next, pc, tests, group, open, iter, records, printed>>
  BY DEF A!FragRound, A!At
<1>2. PICK new \in SUBSET (0 .. Blocks - 1) : \E drawn \in SUBSET new :
        LET freed == IF frag.round % 2 = 0 THEN {j \in new : j % 2 = 0} ELSE drawn
            kept == A!Cardinality(new \ freed) IN
        /\ frag' = [round |-> frag.round + 1, live |-> kept, past |-> frag.past + frag.live,
                    heap |-> IF A!C THEN frag.heap + kept ELSE 0,
                    holes |-> IF A!C THEN Blocks - kept ELSE A!Cardinality(freed)]
        /\ stats' = [stats EXCEPT ![A!Global].current = @ + kept,
                                  ![A!Global].total = IF A!C THEN @ + A!Cardinality(new) ELSE @]
  BY DEF A!FragRound
<1>2a. PICK drawn \in SUBSET new :
        LET freed == IF frag.round % 2 = 0 THEN {j \in new : j % 2 = 0} ELSE drawn
            kept == A!Cardinality(new \ freed) IN
        /\ frag' = [round |-> frag.round + 1, live |-> kept, past |-> frag.past + frag.live,
                    heap |-> IF A!C THEN frag.heap + kept ELSE 0,
                    holes |-> IF A!C THEN Blocks - kept ELSE A!Cardinality(freed)]
        /\ stats' = [stats EXCEPT ![A!Global].current = @ + kept,
                                  ![A!Global].total = IF A!C THEN @ + A!Cardinality(new) ELSE @]
  BY <1>2
<1> DEFINE freed == IF frag.round % 2 = 0 THEN {j \in new : j % 2 = 0} ELSE drawn
           kept == Cardinality(new \ freed)
           holes == IF A!C THEN Blocks - kept ELSE Cardinality(freed)
<1>3. /\ kept \in Nat /\ kept <= Blocks /\ Cardinality(new) \in Nat /\ Cardinality(freed) \in Nat
      /\ Blocks \in Nat
  <2>1. Blocks \in Nat /\ IsFiniteSet(0 .. Blocks - 1) /\ Cardinality(0 .. Blocks - 1) = Blocks
    <3>1. Blocks \in Nat
      BY DEF A!AllocatorAssumption
    <3> QED
      BY <3>1, FS_Interval, 0 \in Int, Blocks - 1 \in Int
  <2>2. freed \subseteq 0 .. Blocks - 1 /\ new \ freed \subseteq 0 .. Blocks - 1
    OBVIOUS
  <2> HIDE DEF freed
  <2>3. /\ IsFiniteSet(new) /\ IsFiniteSet(freed) /\ IsFiniteSet(new \ freed)
        /\ Cardinality(new \ freed) <= Cardinality(0 .. Blocks - 1)
    BY <2>1, <2>2, FS_Subset
  <2> QED
    BY <2>1, <2>3, FS_CardinalityType
<1>4. /\ frag' = [round |-> frag.round + 1, live |-> kept, past |-> frag.past + frag.live,
                  heap |-> IF A!C THEN frag.heap + kept ELSE 0, holes |-> holes]
      /\ stats' = [stats EXCEPT ![A!Global].current = @ + kept,
                                ![A!Global].total = IF A!C THEN @ + Cardinality(new) ELSE @]
  BY <1>2a DEF A!Cardinality, Cardinality
<1>5. holes \in Nat
  BY <1>3
<1> DEFINE z == [g EXCEPT !.current = g.current + kept,
                          !.total = IF A!C THEN g.total + Cardinality(new) ELSE g.total]
<1> HIDE DEF freed, kept, holes
<1>6. g \in Statistics
  BY DEF BenchInv, AllocTypes
<1>7. stats' = [stats EXCEPT ![A!Global] = z]
  BY <1>4 DEF BenchInv, AllocTypes
<1>8. z \in Statistics /\ z.current = g.current + kept /\ z.peak = g.peak /\ z.allocs = g.allocs
      /\ z.frees = g.frees /\ g.current \in Nat
  <2>1. g.current + kept \in Nat /\ g.current \in Nat
        /\ (IF A!C THEN g.total + Cardinality(new) ELSE g.total) \in Nat
    BY <1>3, <1>6 DEF Statistics
  <2> HIDE DEF g
  <2> QED
    BY <1>6, <2>1 DEF Statistics
<1> HIDE DEF z
<1>9. stats' \in [A!Threads \cup {A!Global} -> Statistics] /\ stats'[A!Global] = z
  BY <1>7, <1>8 DEF BenchInv, AllocTypes
<1>10. /\ frag'.live = kept /\ frag'.past = frag.past + frag.live
       /\ frag'.heap = IF A!C THEN frag.heap + kept ELSE 0
       /\ frag' \in [round : Nat, live : Nat, past : Nat, heap : Nat, holes : Nat]
       /\ frag.past \in Nat /\ frag.live \in Nat /\ frag.heap \in Nat
  <2>1. frag \in [round : Nat, live : Nat, past : Nat, heap : Nat, holes : Nat]
    BY DEF BenchInv, AllocTypes
  <2>2. /\ frag.round + 1 \in Nat /\ frag.past + frag.live \in Nat
        /\ (IF A!C THEN frag.heap + kept ELSE 0) \in Nat
    BY <1>3, <2>1
  <2> QED
    BY <1>3, <1>4, <1>5, <2>1, <2>2
<1>11. A!Global' = A!Global /\ A!AllTests' = A!AllTests /\ ThreadCounts' = ThreadCounts
       /\ A!Threads' = A!Threads
  BY DEF A!Global, A!AllTests, ThreadCounts, A!Threads
<1>12. AllocTypes'
  BY <1>1, <1>9, <1>10 DEF BenchInv, AllocTypes
<1>13. AllocThreads' /\ AllocGroup'
  BY <1>1, <1>11 DEF BenchInv, AllocThreads, AllocGroup, Active, A!C, A!Mac, A!Cpp
<1>14. Fragments'
  <2>1. A!Cpp => kept + frag.past + frag.live <= g.current + kept
    BY <1>3, <1>8, <1>10 DEF BenchInv, Fragments
  <2>2. A!C => /\ frag.heap = frag.past + frag.live /\ frag.heap = g.current
    BY <1>1 DEF BenchInv, Fragments
  <2>3. A!C' = A!C /\ A!Cpp' = A!Cpp /\ ~(A!C /\ A!Cpp)
    BY <1>1 DEF A!C, A!Mac, A!Cpp
  <2> HIDE DEF g
  <2> QED
    BY <1>1, <1>3, <1>8, <1>9, <1>10, <1>11, <2>1, <2>2, <2>3 DEF Fragments
<1>15. Figures'
  BY <1>1, <1>8, <1>9, <1>11 DEF BenchInv, Figures, A!C, A!Mac, A!Cpp
<1> QED
  BY <1>12, <1>13, <1>14, <1>15 DEF BenchInv

LEMMA FragEndsKeeps ==
  ASSUME A!AllocatorAssumption, BenchInv, A!FragEnds
  PROVE  BenchInv'
<1>1. /\ main = "fragmentation" /\ A!Running
      /\ frag' = [frag EXCEPT !.heap = IF A!C THEN frag.heap - frag.live ELSE frag.heap]
      /\ main' = IF "scale" \in tests THEN "scale" ELSE "summary"
      /\ UNCHANGED <<program, next, pc, tests, group, open, iter, records, stats, printed>>
  BY DEF A!FragEnds, A!At
<1>2. /\ frag \in [round : Nat, live : Nat, past : Nat, heap : Nat, holes : Nat]
      /\ A!C => frag.heap = frag.past + frag.live
  BY <1>1 DEF BenchInv, AllocTypes, Fragments
<1>3. /\ frag' \in [round : Nat, live : Nat, past : Nat, heap : Nat, holes : Nat]
      /\ frag'.live = frag.live /\ frag'.past = frag.past
      /\ frag'.heap = IF A!C THEN frag.past ELSE frag.heap
  <2>1. frag.past \in Nat /\ frag.live \in Nat /\ frag.heap \in Nat
    BY <1>2
  <2>2. (A!C => frag.heap - frag.live = frag.past)
    BY <1>2, <2>1
  <2>3. frag' = [frag EXCEPT !.heap = IF A!C THEN frag.past ELSE frag.heap]
    BY <1>1, <2>2
  <2> QED
    BY <1>2, <2>1, <2>3
<1>4. A!Global' = A!Global /\ A!AllTests' = A!AllTests /\ ThreadCounts' = ThreadCounts
       /\ A!Threads' = A!Threads
  BY DEF A!Global, A!AllTests, ThreadCounts, A!Threads
<1>5. AllocTypes'
  BY <1>1, <1>3 DEF BenchInv, AllocTypes
<1>6. AllocThreads' /\ AllocGroup'
  BY <1>1, <1>4 DEF BenchInv, AllocThreads, AllocGroup, Active, A!C, A!Mac, A!Cpp
<1>7. Fragments'
  BY <1>1, <1>3, <1>4 DEF BenchInv, Fragments, A!C, A!Mac, A!Cpp
<1>8. Figures'
  BY <1>1, <1>4 DEF BenchInv, Figures, A!C, A!Mac, A!Cpp
<1> QED
  BY <1>5, <1>6, <1>7, <1>8 DEF BenchInv

LEMMA GroupBeginsKeeps ==
  ASSUME A!AllocatorAssumption, BenchInv, A!GroupBegins
  PROVE  BenchInv'
<1>1. /\ main = "scale" /\ main' = "create" /\ next' = 0 /\ open' = FALSE
      /\ pc' = [t \in A!Threads |-> "unborn"]
      /\ stats' = [t \in DOMAIN stats |-> IF t = A!Global /\ A!Cpp THEN stats[t] ELSE A!NoStats]
      /\ iter' = [t \in A!Threads |-> 0] /\ records' = [t \in A!Threads |-> A!NoBlocks]
      /\ frag' = A!NoFrag
      /\ UNCHANGED <<program, tests, group, printed>>
  BY DEF A!GroupBegins, A!At
<1>2. /\ A!Global' = A!Global /\ A!AllTests' = A!AllTests /\ ThreadCounts' = ThreadCounts
      /\ A!Threads' = A!Threads /\ A!InGroup' = A!InGroup
  BY <1>1 DEF A!Global, A!AllTests, ThreadCounts, A!Threads, A!InGroup
<1>3. A!NoBlocks \in Records /\ A!NoStats \in Statistics
  BY BooksOpen
<1>4. /\ A!InGroup \subseteq A!Threads /\ ThreadCounts[group] \in Nat /\ Iterations \in Nat
      /\ ThreadCounts[Len(ThreadCounts)] \in Nat /\ A!Global \notin A!Threads
  BY CrewIsSmall DEF BenchInv
<1>5. /\ stats' \in [A!Threads \cup {A!Global} -> Statistics]
      /\ \A t \in A!Threads : stats'[t] = A!NoStats
      /\ stats'[A!Global] = IF A!Cpp THEN stats[A!Global] ELSE A!NoStats
  <2>1. stats \in [A!Threads \cup {A!Global} -> Statistics]
    BY DEF BenchInv, AllocTypes
  <2> QED
    BY <1>1, <1>3, <1>4, <2>1
<1>6. A!NoFrag \in [round : Nat, live : Nat, past : Nat, heap : Nat, holes : Nat]
      /\ A!NoFrag.heap = 0 /\ A!NoFrag.past = 0 /\ A!NoFrag.live = 0
  BY DEF A!NoFrag
<1>7. AllocTypes'
  <2>1. /\ pc' \in [A!Threads -> Stations] /\ iter' \in [A!Threads -> 0 .. Iterations]
        /\ records' \in [A!Threads -> Records] /\ next' \in 0 .. ThreadCounts[Len(ThreadCounts)]
    BY <1>1, <1>3, <1>4 DEF Stations, NotYet
  <2>2. frag' \in [round : Nat, live : Nat, past : Nat, heap : Nat, holes : Nat]
    BY <1>1, <1>6
  <2> QED
    BY <1>1, <1>2, <1>5, <2>1, <2>2 DEF BenchInv, AllocTypes
<1>8. AllocThreads'
  <2>1. Crew' = A!InGroup /\ (main = "speed")' = FALSE
    BY <1>1, <1>2 DEF Crew
  <2>2. A!Limit' \in Nat
    <3> DEFINE c == ThreadCounts[group]
    <3>1. c \in Nat \ {0} /\ Iterations \in Nat
      BY CrewIsSmall DEF BenchInv
    <3>2. A!Limit' = Iterations \div c
      BY <1>1, <1>2 DEF A!Limit
    <3> HIDE DEF c
    <3> QED
      BY <3>1, <3>2
  <2>3. ASSUME NEW t \in A!InGroup
        PROVE  Sound(program', (main = "speed")', pc'[t], iter'[t], A!Limit', records'[t],
                     stats'[A!Slot(t)'])
    <3>1. A!Slot(t)' = t
      BY <1>1 DEF A!Slot
    <3>2. pc'[t] = "unborn" /\ iter'[t] = 0 /\ records'[t] = A!NoBlocks /\ stats'[t] = A!NoStats
      BY <1>1, <1>4, <1>5
    <3>3. Sound(program', (main = "speed")', "unborn", 0, A!Limit', A!NoBlocks, A!NoStats)
      BY <2>2, SoundAtFirst DEF NotYet
    <3> QED
      BY <3>1, <3>2, <3>3
  <2> QED
    BY <2>1, <2>3 DEF AllocThreads
<1>9. AllocGroup'
  <2>1. \A t \in A!Threads : pc'[t] = "unborn"
    BY <1>1
  <2>2. \A t \in A!InGroup : ~(t < 0) /\ t \in A!Threads
    BY <1>4 DEF A!InGroup
  <2>3. "unborn" \notin AtWork
    BY DEF AtWork
  <2> QED
    BY <1>1, <1>2, <2>1, <2>2, <2>3 DEF AllocGroup
<1>10. Fragments'
  <2>1. A!Cpp => stats'[A!Global].current \in Nat
    BY <1>5 DEF BenchInv, AllocTypes, Statistics
  <2> QED
    BY <1>1, <1>2, <1>5, <1>6, <2>1 DEF Fragments, A!C, A!Mac, A!Cpp
<1>11. Figures'
  <2>1. ~(A!C /\ A!Cpp)
    BY DEF A!C, A!Mac, A!Cpp
  <2> QED
    BY <1>1, <1>2, <1>5, <2>1 DEF BenchInv, Figures, A!C, A!Mac, A!Cpp
<1> QED
  BY <1>7, <1>8, <1>9, <1>10, <1>11 DEF BenchInv

\* A thread is created, or cannot be.
LEMMA CreateKeeps ==
  ASSUME A!AllocatorAssumption, BenchInv, A!CreateThread \/ A!CreateFails
  PROVE  BenchInv'
<1>0. main = "create" /\ next \in A!InGroup /\ next \in A!Threads /\ ~(A!C /\ A!Cpp)
      /\ A!Threads' = A!Threads /\ A!Running
  BY CrewIsSmall DEF BenchInv, A!CreateThread, A!CreateFails, A!At, A!C, A!Mac, A!Cpp, A!Threads
<1>1. CASE A!Cpp /\ main' = "crashed" /\ UNCHANGED <<next, pc>>
  <2>1. UNCHANGED <<program, tests, group, open, iter, records, stats, frag, printed>>
    BY DEF A!CreateThread, A!CreateFails, A!own
  <2> QED
    BY <1>0, <1>1, <2>1 DEF BenchInv, AllocTypes, AllocThreads, AllocGroup, Fragments, Figures,
       Active, A!C, A!Mac, A!Cpp, A!Global, A!AllTests
<1>2. CASE ~(A!Cpp /\ main' = "crashed" /\ UNCHANGED <<next, pc>>)
  <2>1. PICK to \in {"arrive", "failed"} :
          /\ to = "failed" => A!C
          /\ pc' = [pc EXCEPT ![next] = to] /\ next' = next + 1
          /\ UNCHANGED <<program, main, tests, group, open, iter, records, stats, frag, printed>>
    BY <1>0, <1>2 DEF A!CreateThread, A!CreateFails, A!own, A!Running
  <2>2. pc[next] = "unborn"
    <3>1. ~(next < next)
      BY DEF BenchInv, AllocTypes
    <3> QED
      BY <1>0, <3>1 DEF BenchInv, AllocGroup
  <2>3. open = FALSE
    BY <1>0, <2>2 DEF BenchInv, AllocGroup, AllocTypes
  <2>4. AllocThreads' /\ pc' \in [A!Threads -> Stations]
        /\ \A u \in A!Threads : pc'[u] = IF u = next THEN to ELSE pc[u]
    BY <1>0, <2>1, <2>2, MovesKeepThreads DEF NotYet
  <2>5. Fragments' /\ Figures'
    BY <2>1, FiguresAreOfMain
  <2>6. next + 1 \in 0 .. ThreadCounts[Len(ThreadCounts)]
    <3> DEFINE last == ThreadCounts[Len(ThreadCounts)]
    <3>1. last \in Nat /\ next \in 0 .. last - 1
      BY <1>0, CrewIsSmall DEF BenchInv
    <3> HIDE DEF last
    <3>2. next + 1 \in 0 .. last
      BY <3>1
    <3> QED
      BY <3>2 DEF last
  <2>7. AllocTypes'
    BY <2>1, <2>4, <2>6 DEF BenchInv, AllocTypes
  <2>8. A!InGroup' = A!InGroup /\ A!InGroup \subseteq A!Threads /\ Crew = A!InGroup /\ Crew' = Crew
        /\ A!InGroup \subseteq Nat /\ next \in Nat
    BY <1>0, <2>1, CrewIsSmall, SameTest DEF BenchInv, Crew, A!InGroup
  <2>9. AllocGroup'
    <3>1. \A u \in A!InGroup : u < next + 1 <=> u < next \/ u = next
      BY <2>8
    <3>2. \A u \in A!InGroup : u < next + 1 <=> pc'[u] # "unborn"
      BY <1>0, <2>1, <2>4, <2>8, <3>1 DEF BenchInv, AllocGroup
    <3>3. to \notin AtWork
      BY <2>1 DEF AtWork
    <3>4. (\E u \in A!InGroup : pc'[u] \in AtWork) => A!Mac
      BY <1>0, <2>3, <2>4, <2>8, <3>3 DEF BenchInv, AllocGroup
    <3>5. \A u \in A!Threads \ Crew : pc'[u] = "unborn"
      BY <1>0, <2>4, <2>8 DEF BenchInv, AllocGroup, Active
    <3>6. A!Cpp => \A u \in A!Threads : pc'[u] # "failed"
      BY <1>0, <2>1, <2>4 DEF BenchInv, AllocGroup
    <3>7. A!C' = A!C /\ A!Cpp' = A!Cpp /\ A!Mac' = A!Mac
      BY <2>1 DEF A!C, A!Mac, A!Cpp
    <3> QED
      BY <1>0, <2>1, <2>3, <2>8, <3>2, <3>4, <3>5, <3>6, <3>7 DEF AllocGroup
  <2> QED
    BY <2>4, <2>5, <2>7, <2>9 DEF BenchInv
<1> QED
  BY <1>1, <1>2

LEMMA AllCreatedKeeps ==
  ASSUME A!AllocatorAssumption, BenchInv, A!AllCreated
  PROVE  BenchInv'
<1>1. /\ main = "create" /\ next \notin A!InGroup /\ main' = "join" /\ open' = (open \/ A!Cpp)
      /\ A!Running
      /\ UNCHANGED <<program, next, pc, tests, group, iter, records, stats, frag, printed>>
  BY DEF A!AllCreated, A!At
<1>2. /\ A!InGroup' = A!InGroup /\ A!InGroup \subseteq A!Threads /\ Crew = A!InGroup /\ Crew' = Crew
      /\ A!Threads' = A!Threads /\ A!C' = A!C /\ A!Cpp' = A!Cpp /\ A!Mac' = A!Mac /\ ~(A!C /\ A!Cpp)
  BY <1>1, CrewIsSmall DEF BenchInv, Crew, A!InGroup, A!Threads, A!C, A!Mac, A!Cpp
<1>3. \A u \in A!InGroup : u < next
  <2> DEFINE c == ThreadCounts[group]
  <2>1. c \in Nat /\ next \in Nat /\ A!InGroup = 0 .. c - 1
    BY CrewIsSmall DEF BenchInv, AllocTypes, A!InGroup
  <2> HIDE DEF c
  <2> QED
    BY <1>1, <2>1
<1>4. open \in BOOLEAN /\ open' \in BOOLEAN
  BY <1>1 DEF BenchInv, AllocTypes
<1>5. AllocTypes'
  BY <1>1, <1>4 DEF BenchInv, AllocTypes
<1>6. AllocThreads'
  <2>1. \A u \in A!InGroup : A!Slot(u)' = A!Slot(u)
    BY <1>1 DEF A!Slot
  <2>2. A!Limit' = A!Limit
    BY <1>1 DEF A!Limit
  <2>3. \A u \in Crew : Sound(program, main = "speed", pc[u], iter[u], A!Limit, records[u],
                              stats[A!Slot(u)])
    BY <1>1 DEF BenchInv, AllocThreads, Active
  <2>4. \A u \in Crew' : Sound(program', (main = "speed")', pc'[u], iter'[u], A!Limit', records'[u],
                               stats'[A!Slot(u)'])
    BY <1>1, <1>2, <2>1, <2>2, <2>3
  <2> QED
    BY <2>4 DEF AllocThreads
<1>7. AllocGroup'
  <2>1. \A u \in A!InGroup : pc[u] # "unborn"
    BY <1>1, <1>3 DEF BenchInv, AllocGroup
  <2>2. open => \A u \in A!InGroup : /\ pc[u] \notin {"unborn", "failed"}
                                     /\ A!C => pc[u] # "arrive"
    BY <1>1 DEF BenchInv, AllocGroup
  <2>3. A!Cpp => \A u \in A!Threads : pc[u] # "failed"
    BY DEF BenchInv, AllocGroup
  <2>4. open' => \A u \in A!InGroup : /\ pc[u] \notin {"unborn", "failed"}
                                      /\ A!C => pc[u] # "arrive"
    <3>1. open' => open \/ A!Cpp
      BY <1>1, <1>4
    <3> QED
      BY <1>2, <2>1, <2>2, <2>3, <3>1
  <2>5. (\E u \in A!InGroup : pc[u] \in AtWork) => open' \/ A!Mac
    BY <1>1, <1>4 DEF BenchInv, AllocGroup
  <2>6. \A u \in A!Threads \ Crew : pc[u] = "unborn"
    BY <1>1 DEF BenchInv, AllocGroup, Active
  <2> QED
    BY <1>1, <1>2, <2>1, <2>3, <2>4, <2>5, <2>6 DEF AllocGroup
<1>8. Fragments'
  BY <1>1, <1>2 DEF BenchInv, Fragments, A!Global
<1>9. Figures'
  BY <1>1, <1>2 DEF BenchInv, Figures, A!Global, A!AllTests
<1> QED
  BY <1>5, <1>6, <1>7, <1>8, <1>9 DEF BenchInv

\* The group has ended, or main waits for a thread that never was.
LEMMA JoinKeeps ==
  ASSUME A!AllocatorAssumption, BenchInv, A!Join
  PROVE  BenchInv'
<1>1. /\ main = "join" /\ \A t \in A!InGroup : pc[t] \in {"done", "failed"}
      /\ main' \in {"report", "crashed", "blocked"} /\ A!Running
      /\ UNCHANGED <<program, next, pc, tests, group, open, iter, records, stats, frag, printed>>
  BY DEF A!Join, A!At, A!own
<1>2. /\ A!InGroup' = A!InGroup /\ A!InGroup \subseteq A!Threads /\ Crew = A!InGroup
      /\ A!Threads' = A!Threads /\ A!C' = A!C /\ A!Cpp' = A!Cpp /\ A!Mac' = A!Mac
  BY <1>1, CrewIsSmall DEF BenchInv, Crew, A!InGroup, A!Threads, A!C, A!Mac, A!Cpp
<1>3. AllocTypes'
  BY <1>1 DEF BenchInv, AllocTypes
<1>4. AllocThreads'
  BY <1>1 DEF AllocThreads, Active
<1>5. AllocGroup'
  <2>1. \A t \in A!Threads : pc[t] \in {"unborn", "done", "failed"}
    BY <1>1, <1>2 DEF BenchInv, AllocGroup, Active
  <2> QED
    BY <1>1, <1>2, <2>1 DEF BenchInv, AllocGroup, Active
<1>6. Fragments' /\ Figures'
  BY <1>1, <1>2 DEF BenchInv, Fragments, Figures, A!Global, A!AllTests
<1> QED
  BY <1>3, <1>4, <1>5, <1>6 DEF BenchInv

LEMMA SummaryKeeps ==
  ASSUME A!AllocatorAssumption, BenchInv, A!Summary
  PROVE  BenchInv'
<1> DEFINE g == stats[A!Global]
<1>1. /\ main = "summary" /\ main' = "exit" /\ A!Running
      /\ printed' = [printed EXCEPT !.summary = IF "speed" \in tests THEN g ELSE printed.summary]
      /\ UNCHANGED <<program, next, pc, tests, group, open, iter, records, stats, frag>>
  BY DEF A!Summary, A!At
<1>2. /\ A!Threads' = A!Threads /\ A!C' = A!C /\ A!Cpp' = A!Cpp /\ A!Mac' = A!Mac
  BY <1>1 DEF A!Threads, A!C, A!Mac, A!Cpp
<1>3. g \in Statistics /\ printed \in [speed : Nat, summary : Statistics]
  BY DEF BenchInv, AllocTypes
<1> HIDE DEF g
<1>4. /\ printed' \in [speed : Nat, summary : Statistics]
      /\ printed'.speed = printed.speed
      /\ "speed" \in tests => printed'.summary = g
  BY <1>1, <1>3
<1>5. AllocTypes'
  BY <1>1, <1>4 DEF BenchInv, AllocTypes
<1>6. AllocThreads' /\ AllocGroup'
  BY <1>1, <1>2 DEF BenchInv, AllocThreads, AllocGroup, Active
<1>7. Fragments'
  BY <1>1, <1>2 DEF BenchInv, Fragments, A!Global
<1>8. Figures'
  BY <1>1, <1>2, <1>4 DEF BenchInv, Figures, A!Global, A!AllTests, g
<1> QED
  BY <1>5, <1>6, <1>7, <1>8 DEF BenchInv

LEMMA StutterKeeps ==
  ASSUME BenchInv, UNCHANGED A!allocVars
  PROVE  BenchInv'
<1>1. UNCHANGED <<program, main, next, pc, tests, group, open, iter, records, stats, frag, printed>>
  BY DEF A!allocVars, A!process, A!own
<1>2. /\ A!InGroup' = A!InGroup /\ Crew' = Crew /\ Active' = Active /\ A!Limit' = A!Limit
      /\ \A t : A!Slot(t)' = A!Slot(t)
  BY <1>1, SameTest
<1>3. Fragments' /\ Figures'
  BY <1>1, FiguresAreOfMain
<1>4. AllocTypes' /\ AllocGroup'
  BY <1>1, <1>2 DEF BenchInv, AllocTypes, AllocGroup, A!C, A!Mac, A!Cpp, A!Threads
<1>5. AllocThreads'
  BY <1>1, <1>2 DEF BenchInv, AllocThreads
<1> QED
  BY <1>3, <1>4, <1>5 DEF BenchInv

LEMMA SumIsTotal == ASSUME NEW f PROVE A!Sum(f) = Total(f, DOMAIN f)
BY DEF A!Sum, Total, A!FoldFunction, FoldFunctionOnSet, A!FoldFunctionOnSet, A!MapThenFoldSet,
   MapThenFoldSet

LEMMA ReportKeeps ==
  ASSUME A!AllocatorAssumption, BenchInv, A!Report
  PROVE  BenchInv'
<1> DEFINE g == stats[A!Global]
           totals == [t \in A!InGroup |-> stats[t].total]
           allocs == [t \in A!InGroup |-> stats[t].allocs]
           frees == [t \in A!InGroup |-> stats[t].frees]
           bytes == Total(totals, A!InGroup)
           made == Total(allocs, A!InGroup)
           freed == Total(frees, A!InGroup)
<1>1. /\ main = "report" /\ A!Running
      /\ stats' = IF A!Cpp THEN stats
                  ELSE [stats EXCEPT ![A!Global].total = A!Sum(totals),
                                     ![A!Global].allocs = A!Sum(allocs),
                                     ![A!Global].frees = A!Sum(frees)]
      /\ \/ group < Len(ThreadCounts) /\ main' = "scale" /\ group' = group + 1
         \/ main' = "summary" /\ group' = group
      /\ UNCHANGED <<program, next, pc, tests, open, iter, records, frag, printed>>
  BY DEF A!Report, A!At
<1>2. A!Sum(totals) = bytes /\ A!Sum(allocs) = made /\ A!Sum(frees) = freed
  <2>1. /\ A!Sum(totals) = Total(totals, DOMAIN totals)
        /\ A!Sum(allocs) = Total(allocs, DOMAIN allocs) /\ A!Sum(frees) = Total(frees, DOMAIN frees)
    BY SumIsTotal
  <2>2. /\ DOMAIN totals = A!InGroup /\ DOMAIN allocs = A!InGroup
        /\ DOMAIN frees = A!InGroup
    OBVIOUS
  <2> HIDE DEF totals, allocs, frees
  <2> QED
    BY <2>1, <2>2
<1>3. IsFiniteSet(A!InGroup) /\ A!InGroup \subseteq A!Threads /\ A!Global \notin A!Threads
  BY CrewIsSmall DEF BenchInv
<1>4. \A t \in A!InGroup : totals[t] \in Nat /\ allocs[t] \in Nat /\ frees[t] \in Nat
  <2>1. \A t \in A!InGroup : stats[t] \in Statistics
    BY <1>3 DEF BenchInv, AllocTypes
  <2> QED
    BY <2>1 DEF Statistics
<1> HIDE DEF totals, allocs, frees
<1>5. bytes \in Nat /\ made \in Nat /\ freed \in Nat
  BY <1>3, <1>4, TotalOfNaturals
<1> HIDE DEF bytes, made, freed
<1> DEFINE z == [g EXCEPT !.total = bytes, !.allocs = made, !.frees = freed]
<1>6. g \in Statistics /\ stats \in [A!Threads \cup {A!Global} -> Statistics]
  BY DEF BenchInv, AllocTypes
<1>7. stats' = IF A!Cpp THEN stats ELSE [stats EXCEPT ![A!Global] = z]
  BY <1>1, <1>2, <1>6
<1> HIDE DEF g
<1>8. z \in Statistics /\ z.current = g.current
  BY <1>5, <1>6 DEF Statistics
<1> HIDE DEF z
<1>9. /\ stats' \in [A!Threads \cup {A!Global} -> Statistics]
      /\ stats'[A!Global] = IF A!Cpp THEN stats[A!Global] ELSE z
  BY <1>6, <1>7, <1>8
<1>10. group' \in DOMAIN ThreadCounts /\ main' \in {"scale", "summary"}
  <2>1. group \in 1 .. Len(ThreadCounts) /\ Len(ThreadCounts) \in Nat
        /\ DOMAIN ThreadCounts = 1 .. Len(ThreadCounts)
    <3>1. ThreadCounts \in Seq(Nat \ {0})
      BY DEF A!AllocatorAssumption
    <3>2. Len(ThreadCounts) \in Nat /\ DOMAIN ThreadCounts = 1 .. Len(ThreadCounts)
      BY <3>1, LenProperties
    <3> QED
      BY <3>2 DEF BenchInv, AllocTypes
  <2> QED
    BY <1>1, <2>1
<1>11. /\ A!Threads' = A!Threads /\ A!C' = A!C /\ A!Cpp' = A!Cpp /\ (A!C \/ A!Cpp)
       /\ ~(A!C /\ A!Cpp)
  BY <1>1 DEF A!Threads, A!C, A!Mac, A!Cpp, A!Running
<1>12. AllocTypes'
  <2>1. ThreadCounts' = ThreadCounts
    BY DEF ThreadCounts
  <2> QED
    BY <1>1, <1>9, <1>10, <1>11, <2>1 DEF BenchInv, AllocTypes
<1>13. AllocThreads'
  BY <1>10 DEF AllocThreads, Active
<1>14. AllocGroup'
  BY <1>1, <1>10, <1>11 DEF BenchInv, AllocGroup, Active
<1>15. Fragments'
  <2>1. stats'[A!Global].current = stats[A!Global].current
    BY <1>8, <1>9 DEF g
  <2>2. A!Global' = A!Global
    BY DEF A!Global
  <2> QED
    BY <1>1, <1>10, <1>11, <2>1, <2>2 DEF BenchInv, Fragments
<1>16. Figures'
  <2>1. "scale" \in tests
    BY <1>1 DEF BenchInv, Figures
  <2>2. A!Cpp /\ "speed" \in tests =>
          stats'[A!Global].allocs + stats'[A!Global].frees = printed'.speed
    BY <1>1, <1>9 DEF BenchInv, Figures
  <2>3. A!Global' = A!Global
    BY DEF A!Global
  <2>4. tests # {"speed"}
    BY <2>1
  <2> QED
    BY <1>1, <1>10, <1>11, <2>1, <2>2, <2>3, <2>4 DEF Figures
<1> QED
  BY <1>12, <1>13, <1>14, <1>15, <1>16 DEF BenchInv

LEMMA BenchStep ==
  ASSUME A!AllocatorAssumption, BenchInv, [A!Next]_(A!allocVars)
  PROVE  BenchInv'
<1>1. CASE UNCHANGED A!allocVars \/ A!Over
  BY <1>1, StutterKeeps DEF A!Over
<1>2. ASSUME NEW t \in A!Threads, A!Thread(t)
      PROVE  BenchInv'
  <2>1. /\ Active /\ t \in Crew
        /\ \/ A!Arrive(t) \/ A!Leave(t)
           \/ /\ pc[t] \in AtWork /\ Turns(t) /\ main' \in {main, "crashed"}
              /\ UNCHANGED <<program, next, tests, group, open, frag, printed>>
    BY <1>2, ThreadTurns
  <2> QED
    BY <2>1, ArriveKeeps, TurnKeeps
<1>3. ASSUME NEW t \in A!Threads, A!LeaveSpuriously(t)
      PROVE  BenchInv'
  <2>1. A!Running /\ pc[t] = "wait"
    BY <1>3 DEF A!LeaveSpuriously, A!ThreadAt
  <2>2. Active /\ t \in Crew
    BY <2>1 DEF BenchInv, AllocGroup, Active, A!Running
  <2> QED
    BY <1>3, <2>2, ArriveKeeps
<1>4. CASE A!Main
  BY <1>4, SpeedTestKeeps, SpeedTestEndKeeps, FragRoundKeeps, FragEndsKeeps, GroupBeginsKeeps,
     CreateKeeps, AllCreatedKeeps, JoinKeeps, ReportKeeps, SummaryKeeps DEF A!Main
<1> QED
  BY <1>1, <1>2, <1>3, <1>4 DEF A!Next

\* An allocator benchmark runs, and is right.
BenchmarkInv == A!C \/ A!Cpp => BenchInv

LEMMA BenchBegins == ASSUME A!AllocatorAssumption, Init PROVE BenchmarkInv
<1> SUFFICES ASSUME A!C \/ A!Cpp PROVE BenchInv
  BY DEF BenchmarkInv
<1>1. A!Init
  BY DEF Init, K!Init, V!Init, A!C, A!Mac, A!Cpp
<1>2. PICK chosen \in A!Chosen :
        /\ main = "speed" /\ next = 0 /\ pc = [t \in A!Threads |-> "unborn"] /\ tests = chosen
        /\ group = 1 /\ open = FALSE
        /\ iter = [t \in A!Threads |-> 0] /\ records = [t \in A!Threads |-> A!NoBlocks]
        /\ stats = [t \in A!Threads \cup {A!Global} |-> A!NoStats]
        /\ frag = A!NoFrag
        /\ printed = [speed |-> 0, summary |-> A!NoStats]
  BY <1>1 DEF A!Init, A!AllocatorInit
<1>3. A!NoBlocks \in Records /\ A!NoStats \in Statistics
  BY BooksOpen
<1>4. A!NoFrag \in [round : Nat, live : Nat, past : Nat, heap : Nat, holes : Nat]
      /\ A!NoFrag.heap = 0 /\ A!NoFrag.past = 0 /\ A!NoFrag.live = 0
      /\ A!NoStats.current = 0
  BY DEF A!NoFrag, A!NoStats
<1>5. /\ 1 \in DOMAIN ThreadCounts /\ Iterations \in Nat /\ ThreadCounts[Len(ThreadCounts)] \in Nat \ {0}
  <2>1. ThreadCounts \in Seq(Nat \ {0}) /\ ThreadCounts # <<>> /\ Iterations \in Nat
    BY DEF A!AllocatorAssumption
  <2>2. 1 \in DOMAIN ThreadCounts /\ Len(ThreadCounts) \in DOMAIN ThreadCounts
    BY <2>1, EmptySeq, LenProperties
  <2> QED
    BY <2>1, <2>2
<1>6. AllocTypes
  <2>1. "unborn" \in Stations /\ 0 \in 0 .. ThreadCounts[Len(ThreadCounts)] /\ 0 \in 0 .. Iterations
    BY <1>5 DEF Stations, NotYet
  <2>2. program \in {"allocator_c", "allocator_mac", "allocator_cpp"}
    BY <1>1 DEF A!Init
  <2> QED
    BY <1>2, <1>3, <1>4, <1>5, <2>1, <2>2 DEF AllocTypes
<1>7. Crew = {0} /\ 0 \in A!Threads
  BY <1>2, <1>6, CrewIsSmall DEF Crew
<1>8. AllocThreads
  <2>1. Sound(program, main = "speed", "unborn", 0, A!Limit, A!NoBlocks, A!NoStats)
    BY <1>6, CrewIsSmall, SoundAtFirst DEF NotYet
  <2>2. pc[0] = "unborn" /\ iter[0] = 0 /\ records[0] = A!NoBlocks /\ stats[A!Slot(0)] = A!NoStats
    BY <1>2, <1>7 DEF A!Slot
  <2> QED
    BY <1>7, <2>1, <2>2 DEF AllocThreads
<1>9. AllocGroup
  BY <1>2, <1>7 DEF AllocGroup
<1>10. Fragments
  BY <1>2, <1>4 DEF Fragments
<1>11. Figures
  BY <1>2 DEF Figures
<1> QED
  BY <1>6, <1>8, <1>9, <1>10, <1>11 DEF BenchInv

\* What the model says of a thread is what its books say.
LEMMA BooksAreKept ==
  ASSUME A!AllocatorAssumption, NEW t, records[t] \in Records
  PROVE  /\ A!Made(t) = MadeIn(records[t]) /\ A!FreedBy(t) = FreedIn(records[t])
         /\ A!Bytes(t, A!Made(t)) = BytesIn(records[t], MadeIn(records[t]))
         /\ A!Bytes(t, A!FreedBy(t)) = BytesIn(records[t], FreedIn(records[t]))
<1> DEFINE r == records[t]
<1>1. DOMAIN r = 0 .. Iterations - 1
  BY DEF Records
<1>2. A!Made(t) = MadeIn(r) /\ A!FreedBy(t) = FreedIn(r)
  BY <1>1 DEF A!Made, A!FreedBy, MadeIn, FreedIn
<1>3. ASSUME NEW S \in SUBSET (0 .. Iterations - 1)
      PROVE  A!Bytes(t, S) = BytesIn(r, S)
  <2> DEFINE f == [j \in S |-> r[j].size]
             h == SizesIn(r)
  <2>1. A!Bytes(t, S) = Total(f, S)
    <3>1. A!Bytes(t, S) = A!Sum(f)
      BY DEF A!Bytes
    <3>2. DOMAIN f = S
      OBVIOUS
    <3> HIDE DEF f
    <3>3. A!Sum(f) = Total(f, DOMAIN f)
      BY SumIsTotal
    <3> QED
      BY <3>1, <3>2, <3>3
  <2>2. BytesIn(r, S) = Total(h, S) /\ IsFiniteSet(S)
    BY BooksAreFinite DEF BytesIn
  <2>3. \A j \in S : h[j] \in Int /\ f[j] = h[j]
    BY BooksAreFinite
  <2> HIDE DEF f, h
  <2>4. Total(f, S) = Total(h, S)
    BY <2>2, <2>3, TotalIsOfValues
  <2> QED
    BY <2>1, <2>2, <2>4
<1>4. MadeIn(r) \in SUBSET (0 .. Iterations - 1) /\ FreedIn(r) \in SUBSET (0 .. Iterations - 1)
  BY DEF MadeIn, FreedIn
<1> QED
  BY <1>2, <1>3, <1>4

LEMMA BenchIsRight == ASSUME A!AllocatorAssumption, BenchmarkInv PROVE AllocatorInv
<1> SUFFICES ASSUME A!C \/ A!Cpp
             PROVE  /\ A!TypeOK /\ A!StatisticsAddUp /\ A!GroupStartsTogether
                    /\ A!FragmentationCounts /\ A!SummaryOfSpeedTest
  BY DEF AllocatorInv
<1>1. BenchInv /\ AllocTypes
  BY DEF BenchmarkInv, BenchInv
<1>2. A!TypeOK
  <2>1. A!Cardinality(A!Threads) = ThreadCounts[Len(ThreadCounts)]
    BY <1>1, CrewIsSmall DEF A!Cardinality, Cardinality
  <2>2. pc \in [A!Threads -> {"unborn", "arrive", "wait", "run", "free_one", "free_own",
                              "drain", "done", "failed"}]
    BY <1>1 DEF AllocTypes, Stations, AtWork, NotYet
  <2>3. records \in [A!Threads -> [0 .. Iterations - 1 ->
                       [ptr : {"wild", "live", "null"}, size : Sizes \cup {0}]]]
    BY <1>1 DEF AllocTypes, Records, Block
  <2>4. A!StatsType = Statistics
    BY DEF A!StatsType, Statistics
  <2> QED
    BY <1>1, <2>1, <2>2, <2>3, <2>4 DEF AllocTypes, A!TypeOK
<1>3. A!StatisticsAddUp
  <2> SUFFICES ASSUME NEW t \in A!Threads, A!Working(t), main \in {"speed", "create", "join"}
               PROVE  LET s == stats[A!Slot(t)] IN
                 /\ s.peak >= s.current /\ s.frees <= A!Cardinality(A!FreedBy(t))
                 /\ A!C => /\ s.allocs = A!Cardinality(A!Made(t)) + A!Cardinality(A!FreedBy(t))
                           /\ s.total = A!Bytes(t, A!Made(t)) + A!Bytes(t, A!FreedBy(t))
                           /\ A!Bytes(t, A!Made(t)) <= s.current /\ s.current <= s.total
                 /\ A!Cpp => /\ s.allocs = A!Cardinality(A!Made(t)) /\ s.total = A!Bytes(t, A!Made(t))
                             /\ 0 <= s.current /\ s.current <= s.total
                             /\ main # "speed" /\ pc[t] = "done" => s.current = 0 /\ s.frees = s.allocs
    BY DEF A!StatisticsAddUp
  <2> DEFINE s == stats[A!Slot(t)]
             r == records[t]
             made == A!Made(t)
             freed == A!FreedBy(t)
  <2>1. Active /\ t \in Crew
    <3>1. pc[t] # "unborn"
      BY DEF A!Working
    <3>2. Active
      BY DEF Active
    <3> QED
      BY <1>1, <3>1, <3>2 DEF BenchInv, AllocGroup
  <2>2. Sound(program, main = "speed", pc[t], iter[t], A!Limit, r, s)
    BY <1>1, <2>1 DEF BenchInv, AllocThreads
  <2>3. r \in Records /\ s \in Statistics
    BY <1>1, <2>1, TypesOf
  <2>4. /\ made = MadeIn(r) /\ freed = FreedIn(r)
        /\ A!Bytes(t, made) = BytesIn(r, MadeIn(r)) /\ A!Bytes(t, freed) = BytesIn(r, FreedIn(r))
    BY <2>3, BooksAreKept
  <2>5. A!Cardinality(made) = Cardinality(made) /\ A!Cardinality(freed) = Cardinality(freed)
    BY DEF A!Cardinality, Cardinality
  <2>6. s.current \in Nat
    BY <2>3 DEF Statistics
  <2> HIDE DEF s, r, made, freed
  <2>7. Books(program, r, s)
    BY <2>2 DEF Sound
  <2>8. A!Cpp /\ main # "speed" /\ pc[t] = "done" => s.current = 0 /\ s.frees = s.allocs
    BY <2>2 DEF Sound, A!Cpp
  <2>9. /\ s.peak >= s.current /\ s.frees <= A!Cardinality(freed)
        /\ A!C => /\ s.allocs = A!Cardinality(made) + A!Cardinality(freed)
                  /\ s.total = A!Bytes(t, made) + A!Bytes(t, freed)
                  /\ A!Bytes(t, made) <= s.current /\ s.current <= s.total
        /\ A!Cpp => /\ s.allocs = A!Cardinality(made) /\ s.total = A!Bytes(t, made)
                    /\ 0 <= s.current /\ s.current <= s.total
    BY <2>4, <2>5, <2>6, <2>7 DEF Books, A!C, A!Mac, A!Cpp
  <2> QED
    BY <2>8, <2>9 DEF s, made, freed
<1>4. A!GroupStartsTogether
  <2> SUFFICES ASSUME ~A!Mac, main \in {"create", "join", "report"}, NEW t \in A!InGroup, NEW u \in A!InGroup,
                      A!Working(t)
               PROVE  pc[u] \notin {"unborn", "failed"} /\ (A!C => pc[u] # "arrive")
    BY DEF A!GroupStartsTogether
  <2>1. pc[t] \in AtWork
    BY DEF A!Working, AtWork
  <2>2. open
    BY <1>1, <2>1 DEF BenchInv, AllocGroup
  <2> QED
    BY <1>1, <2>2 DEF BenchInv, AllocGroup
<1>5. A!FragmentationCounts
  BY <1>1 DEF BenchInv, Fragments, A!FragmentationCounts
<1>6. A!SummaryOfSpeedTest
  BY <1>1 DEF BenchInv, Figures, A!SummaryOfSpeedTest
<1> QED
  BY <1>2, <1>3, <1>4, <1>5, <1>6

\* The allocator benchmarks, for any groups of threads, iterations and sizes:
\* the counts of each thread are tied to what it has done, a group behind a
\* barrier of pthreads, or behind C++'s ready flag, starts together, the C
\* program's count of current bytes is the heap while its fragmentation test
\* runs, and a summary that no later test has overwritten is of the speed test.
THEOREM BenchmarksAreRight == Spec => []AllocatorInv
<1>1. A!AllocatorAssumption
  BY ToolsAssumption
<1>2. Init => BenchmarkInv
  BY <1>1, BenchBegins
<1>3. BenchmarkInv /\ [Next]_vars => BenchmarkInv'
  <2> SUFFICES ASSUME BenchmarkInv, [Next]_vars, A!C' \/ A!Cpp'
               PROVE  BenchInv'
    BY DEF BenchmarkInv
  <2>1. (A!C \/ A!Cpp) /\ [A!Next]_(A!allocVars)
    BY ProgramsRunAlone DEF A!C, A!Mac, A!Cpp
  <2> QED
    BY <1>1, <2>1, BenchStep DEF BenchmarkInv
<1>4. BenchmarkInv => AllocatorInv
  BY <1>1, BenchIsRight
<1> QED
  BY <1>2, <1>3, <1>4, PTL DEF Spec
================================================================================
