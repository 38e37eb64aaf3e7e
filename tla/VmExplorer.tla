----------------------------- MODULE VmExplorer -----------------------------
(***************************************************************************)
(* The virtual memory explorers, vm_explorer.c and vm_explorer.cpp: tests  *)
(* that map memory, touch it and give it back, and a test of copy-on-write *)
(* in which child processes report to their parent through a pipe.         *)
(***************************************************************************)
EXTENDS PointerChase, Sequences, FiniteSets

CONSTANTS HalfPages,    \* pages in a half of shared_mem: 8192
          ListLength,   \* nodes of the pointer-chase list
          MayFail       \* whether mmap, malloc, pipe and fork may fail

VmAssumption ==
  /\ HalfPages \in Nat \ {0} /\ ListLength \in Nat \ {0} /\ MayFail \in BOOLEAN

VARIABLES
  program, main,        \* which program runs, and where its main is
  next, pc,             \* the number of the case or fork; where the child is
  test,                 \* index into Tests
  live,                 \* the blocks that are allocated
  memory, copy,         \* shared_mem as the parent and the child see it
  pipe, writers, got,   \* pipe_fd: what is in it, who may write, what was read
  redirected,           \* the output goes to a file and is fully buffered
  unflushed, inherited, \* the lines in the buffer of the parent and the child
  written               \* how often each line was written

process == <<program, main, next, pc>>
channel == <<pipe, writers, got>>
output == <<redirected, unflushed, inherited, written>>
own == <<test, live, memory, copy, channel, output>>
vmVars == <<process, own>>

C == program = "vm_c"
Cpp == program = "vm_cpp"
At(label) == (C \/ Cpp) /\ main = label
Child == 0
ChildAt(label) == (C \/ Cpp) /\ pc[Child] = label

Pages == 0 .. 2 * HalfPages - 1
FirstHalf == 0 .. HalfPages - 1
SecondHalf == Pages \ FirstHalf

\* What is printed before each fork and at the end.
Lines == {"setup", "first", "second", "third"}
LineOfFork == <<"first", "second", "third">>
Message(tag, n) == [tag |-> tag, n |-> n]
Garbage == Message("garbage", 0)

VmInit(mode) ==
  /\ test = 1 /\ live = <<>>
  /\ memory = [p \in Pages |-> "zero"] /\ copy = [p \in Pages |-> "zero"]
  /\ pipe = <<>> /\ writers = {} /\ got = <<>>
  /\ redirected = mode /\ unflushed = {} /\ inherited = {}
  /\ written = [line \in Lines |-> 0]

Init ==
  /\ program \in {"vm_c", "vm_cpp"} /\ main = "allocate" /\ next = 1
  /\ pc = [c \in {Child} |-> "none"]
  /\ \E mode \in BOOLEAN : VmInit(mode)

-----------------------------------------------------------------------------
(* test_tlb_misses, test_page_faults, test_huge_pages, test_mmap_vs_malloc *)

\* The blocks that the cases of each test allocate.
Times(n, blocks) == [i \in 1 .. n |-> blocks]
MmapVsMalloc ==
  Times(3, <<"malloc", "mmap">>)
    \o (IF C THEN <<<<"malloc">>, <<"mmap">>>> ELSE <<<<"malloc", "mmap">>>>)
Tests == <<Times(5, <<"mmap">>), Times(3, <<"mmap">>), <<<<"mmap">>, <<"huge">>>>, MmapVsMalloc>>
BlocksOfCase == Tests[test][next]

\* The last cases of the C program do not look at the pointer.
Unchecked == C /\ test = 4 /\ next > 3

NextTest ==
  /\ next' = 1
  /\ IF test < Len(Tests) THEN test' = test + 1 /\ UNCHANGED main
                          ELSE main' = "cow" /\ UNCHANGED test
NextCase ==
  IF next < Len(Tests[test]) THEN next' = next + 1 /\ UNCHANGED <<main, test>> ELSE NextTest

Allocate ==
  /\ At("allocate") /\ Len(live) < Len(BlocksOfCase)
  /\ live' = Append(live, BlocksOfCase[Len(live) + 1])
  /\ UNCHANGED <<process, test, memory, copy, channel, output>>

\* Without huge pages, regular ones.
FallsBack ==
  /\ MayFail /\ At("allocate") /\ Len(live) < Len(BlocksOfCase) /\ BlocksOfCase[Len(live) + 1] = "huge"
  /\ live' = Append(live, "mmap")
  /\ UNCHANGED <<process, test, memory, copy, channel, output>>

\* What was allocated before is freed, and the case is over; with it, for two
\* tests of the C program, the test.
AllocateFails ==
  /\ MayFail /\ At("allocate") /\ Len(live) < Len(BlocksOfCase) /\ ~Unchecked
  /\ live' = <<>>
  /\ IF C /\ test \in {2, 3} THEN NextTest ELSE NextCase
  /\ UNCHANGED <<program, pc, memory, copy, channel, output>>

TouchesNull ==
  /\ MayFail /\ At("allocate") /\ Len(live) < Len(BlocksOfCase) /\ Unchecked
  /\ main' = "crashed"
  /\ UNCHANGED <<program, next, pc, own>>

UseAndFree ==
  /\ At("allocate") /\ Len(live) = Len(BlocksOfCase)
  /\ live' = <<>>
  /\ NextCase
  /\ UNCHANGED <<program, pc, memory, copy, channel, output>>

-----------------------------------------------------------------------------
(* test_cow_fork, test_copy_on_write: the parent *)

Forks == IF C THEN 3 ELSE 2

Flush(lines) == [line \in Lines |-> written[line] + (IF line \in lines THEN 1 ELSE 0)]

\* A terminal gets each line at once, a file when the buffer is full.
Prints(line) ==
  \/ /\ redirected /\ unflushed' = unflushed \cup {line} /\ UNCHANGED written
  \/ /\ written' = Flush(unflushed \cup {line}) /\ unflushed' = {}

CowBegins ==
  /\ At("cow")
  /\ live' = <<"mmap">> /\ memory' = [p \in Pages |-> "AB"]
  /\ main' = "fork" /\ next' = 1 /\ Prints("setup")
  /\ UNCHANGED <<program, pc, test, copy, channel, redirected, inherited>>

CowFails ==
  /\ MayFail /\ At("cow")
  /\ main' = "report"
  /\ UNCHANGED <<program, next, pc, own>>

OpenPipe ==
  /\ At("pipe")
  /\ writers' = {"parent"} /\ main' = "fork"
  /\ UNCHANGED <<program, next, pc, test, live, memory, copy, pipe, got, output>>

\* The C program does not look, and its descriptors are no pipe: to read from
\* them fails or, before they were ever set, may wait for whatever they are.
\* In C++ the exception frees the memory.
PipeFails ==
  /\ MayFail /\ At("pipe")
  /\ IF C THEN main' \in (IF next = 2 THEN {"fork", "blocked"} ELSE {"fork"}) /\ UNCHANGED live
          ELSE main' = "report" /\ live' = <<>>
  /\ UNCHANGED <<program, next, pc, test, memory, copy, channel, output>>

AfterFork == main' = IF next = 1 THEN "wait" ELSE "close"

\* The child gets a copy of everything, of what is in the buffer too.
Fork ==
  /\ At("fork") /\ AfterFork
  /\ pc' = [pc EXCEPT ![Child] = "start"]
  /\ copy' = memory /\ inherited' = unflushed
  /\ writers' = IF writers = {} THEN {} ELSE writers \cup {"child"}
  /\ UNCHANGED <<program, next, test, live, memory, pipe, got, redirected, unflushed, written>>

\* Nobody looks whether there is a child.
ForkFails ==
  /\ MayFail /\ At("fork") /\ AfterFork
  /\ UNCHANGED <<program, next, pc, own>>

\* Mutant: the parent keeps its end of the pipe.
KeepWriteEnd ==
  /\ At("close")
  /\ main' = IF next = 3 THEN "modify" ELSE "read"
  /\ UNCHANGED <<program, next, pc, own>>

CloseWriteEnd ==
  /\ At("close")
  /\ writers' = writers \ {"parent"}
  /\ main' = IF next = 3 THEN "modify" ELSE "read"
  /\ UNCHANGED <<program, next, pc, test, live, memory, copy, pipe, got, output>>

ParentModifies ==
  /\ At("modify")
  /\ memory' = [p \in Pages |-> IF p \in FirstHalf THEN "12" ELSE memory[p]]
  /\ main' = "read"
  /\ UNCHANGED <<program, next, pc, test, live, copy, channel, output>>

\* child_cow_faults and child_modify_time; then "done".
Expected == IF next = 2 THEN 2 ELSE 1

\* At the end of the pipe the variables stay as they were, uninitialised.
Read ==
  /\ At("read") /\ Len(got) < Expected
  /\ \/ /\ pipe # <<>>
        /\ got' = Append(got, Head(pipe)) /\ pipe' = Tail(pipe)
     \/ /\ pipe = <<>> /\ writers = {}
        /\ got' = Append(got, Garbage) /\ UNCHANGED pipe
  /\ UNCHANGED <<process, test, live, memory, copy, writers, output>>

ReadAll ==
  /\ At("read") /\ Len(got) = Expected
  /\ main' = "wait"
  /\ UNCHANGED <<program, next, pc, own>>

\* wait returns when the child has exited, and at once if there is none.
Wait ==
  /\ At("wait") /\ pc[Child] \in {"none", "exited"}
  /\ Prints(LineOfFork[next])
  /\ pc' = [pc EXCEPT ![Child] = "none"]
  /\ pipe' = <<>> /\ writers' = {} /\ got' = <<>>
  /\ IF next < Forks THEN main' = "pipe" /\ next' = next + 1 /\ UNCHANGED live
                     ELSE main' = "report" /\ live' = <<>> /\ UNCHANGED next
  /\ UNCHANGED <<program, test, memory, copy, redirected, inherited>>

Report ==
  /\ At("report")
  /\ main' = "exit"
  /\ written' = Flush(unflushed) /\ unflushed' = {}
  /\ UNCHANGED <<program, next, pc, test, live, memory, copy, channel, redirected, inherited>>

-----------------------------------------------------------------------------
(* The child *)

\* The half of the memory that the child of this fork writes.
HalfOfFork == <<{}, FirstHalf, SecondHalf>>[next]
ValueOfFork == <<"AB", "CD", "EF">>[next]
Left == {p \in HalfOfFork : copy[p] # ValueOfFork}

\* One page after the other.
ChildModifies ==
  /\ ChildAt("start") /\ Left # {}
  /\ LET p == CHOOSE p \in Left : \A q \in Left : p <= q
     IN copy' = [copy EXCEPT ![p] = ValueOfFork]
  /\ UNCHANGED <<process, test, live, memory, channel, output>>

\* The faults of the child are the pages that were copied for it.
Send(message) == pipe' = IF "child" \in writers THEN Append(pipe, message) ELSE pipe
ChildSends ==
  /\ ChildAt("start") /\ next # 1 /\ Left = {}
  /\ Send(IF next = 2 THEN Message("faults", Cardinality(HalfOfFork)) ELSE Message("done", 0))
  /\ pc' = [pc EXCEPT ![Child] = IF next = 2 THEN "send" ELSE "sent"]
  /\ UNCHANGED <<program, main, next, test, live, memory, copy, writers, got, output>>

ChildSendsTime ==
  /\ ChildAt("send")
  /\ Send(Message("time", 0))
  /\ pc' = [pc EXCEPT ![Child] = "sent"]
  /\ UNCHANGED <<program, main, next, test, live, memory, copy, writers, got, output>>

\* Mutant: the child of the C++ program leaves by exit, too.
ExitFlushes ==
  /\ ChildAt("sent") \/ (ChildAt("start") /\ next = 1)
  /\ pc' = [pc EXCEPT ![Child] = "exited"]
  /\ writers' = writers \ {"child"}
  /\ written' = Flush(inherited)
  /\ UNCHANGED <<program, main, next, test, live, memory, copy, pipe, got,
                 redirected, unflushed, inherited>>

\* exit writes what the child has inherited in the buffer; _exit does not.
Exit ==
  /\ ChildAt("sent") \/ (ChildAt("start") /\ next = 1)
  /\ pc' = [pc EXCEPT ![Child] = "exited"]
  /\ writers' = writers \ {"child"}
  /\ written' = IF C THEN Flush(inherited) ELSE written
  /\ UNCHANGED <<program, main, next, test, live, memory, copy, pipe, got,
                 redirected, unflushed, inherited>>

-----------------------------------------------------------------------------
Main == \/ Allocate \/ FallsBack \/ AllocateFails \/ TouchesNull \/ UseAndFree
        \/ CowBegins \/ CowFails \/ OpenPipe \/ PipeFails \/ Fork \/ ForkFails
        \/ CloseWriteEnd \/ ParentModifies \/ Read \/ ReadAll \/ Wait \/ Report

ChildSteps == ChildModifies \/ ChildSends \/ ChildSendsTime \/ Exit

Ended == (C \/ Cpp) /\ main \in {"exit", "crashed", "blocked"}
Over == Ended /\ UNCHANGED vmVars

Next == Main \/ ChildSteps \/ Over

Spec == Init /\ [][Next]_vmVars
Fairness == WF_vmVars(Main) /\ WF_vmVars(ChildSteps)

-----------------------------------------------------------------------------
(* Properties *)

Values == {"zero", "AB", "CD", "EF", "12"}
Messages == [tag : {"faults", "time", "done", "garbage"}, n : {0, HalfPages}]

\* Every variable has its type.
TypeOK ==
  /\ program \in {"vm_c", "vm_cpp"}
  /\ main \in {"allocate", "cow", "pipe", "fork", "close", "modify", "read", "wait",
               "report", "exit", "crashed", "blocked"}
  /\ next \in 1 .. 5 /\ pc[Child] \in {"none", "start", "send", "sent", "exited"}
  /\ test \in DOMAIN Tests /\ live \in Seq({"mmap", "malloc", "huge"})
  /\ memory \in [Pages -> Values] /\ copy \in [Pages -> Values]
  /\ pipe \in Seq(Messages) /\ got \in Seq(Messages) /\ writers \subseteq {"parent", "child"}
  /\ redirected \in BOOLEAN /\ unflushed \subseteq Lines /\ inherited \subseteq Lines
  /\ written \in [Lines -> Nat]

\* No test leaves a block behind, on whatever way it ends: what is allocated
\* are blocks of the case that runs.
NothingLeftBehind ==
  /\ main = "allocate" =>
       /\ Len(live) <= Len(BlocksOfCase)
       /\ \A i \in DOMAIN live : live[i] = BlocksOfCase[i] \/ BlocksOfCase[i] = "huge"
  /\ main \in {"cow", "report", "exit"} => live = <<>>

\* A child gets the memory as it was at the fork, and no process sees what
\* the other one writes, in whatever order they do.
CopiesAreSeparate ==
  main \in {"fork", "close", "modify", "read", "wait"} =>
    /\ \A p \in Pages : memory[p] = IF next = 3 /\ main \in {"read", "wait"} /\ p \in FirstHalf
                                    THEN "12" ELSE "AB"
    /\ pc[Child] # "none" => \A p \in Pages \ HalfOfFork : copy[p] = "AB"

\* The number of faults that the parent prints is the number of pages the
\* child has modified, and uninitialised only if there was no child or pipe;
\* when the parent stops waiting, nobody can write to the pipe any more.
ResultIsOfTheChild ==
  main = "wait" /\ next = 2 =>
    /\ got[1] \in {Message("faults", HalfPages), Garbage}
    /\ got[1] = Garbage => MayFail /\ got[2] = Garbage /\ writers = {}
    /\ pc[Child] = "exited" => writers = {} /\ pipe = <<>>

\* Every line is written once, unless the output of the C program goes to a
\* file: then each of its children may write what it has inherited again.
OutputOnce ==
  \A line \in Lines :
    /\ Cpp \/ ~redirected => written[line] <= 1
    /\ written[line] <= Forks + 1
    /\ main = "exit" /\ live = <<>> /\ written["third"] > 0 => written[line] > 0

\* pointer_chase swaps successors: what results is a permutation, so that the
\* walk comes back to its first node, though often long before it has been at
\* every node.
WalkComesBack ==
  \A drawn \in Draws(ListLength) :
    LET ring == Shuffled(drawn, ListLength) IN
      /\ ring \in Orders(ListLength)
      /\ 0 \in Visited(ring, ListLength)
=============================================================================
