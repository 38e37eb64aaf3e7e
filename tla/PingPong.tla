------------------------------- MODULE PingPong -------------------------------
(***************************************************************************)
(* The context switch benchmarks.  A parent hands a token to a child and   *)
(* waits for it to come back, iterations times:                            *)
(*   "linux"   src/Cost of Context Switching.c: pipes, pinned processes    *)
(*   "macos"   src/context_switch_macos.c: pipes                           *)
(*   "pipes", "shm", "threads"   the three methods of                      *)
(*             src/context_switch_cpp.cpp                                  *)
(***************************************************************************)
EXTENDS Integers

CONSTANTS Methods,     \* the methods that are explored
          Iterations   \* the values of iterations that are explored

ASSUME PingPongAssumption ==
  /\ Methods \subseteq {"linux", "macos", "pipes", "shm", "threads"}
  /\ Iterations \subseteq Nat

VARIABLES
  method, iterations,
  parent, child,   \* where each side is
  i, j,            \* their loop indexes
  ping, pong,      \* bytes in the pipe to the child and in the pipe back
  turn, done,      \* SyncData, or the two atomics of measure_with_threads
  stamp,           \* the round of the child's timestamp the parent would read
  times,           \* the child's round that the last sample covers
  pinned           \* whether sched_setaffinity has not failed so far

config  == <<method, iterations>>
pipeVars == <<ping, pong>>
syncVars == <<turn, done, stamp>>
vars == <<config, parent, child, i, j, pipeVars, syncVars, times, pinned>>

InC    == method \in {"linux", "macos"}
Pipes  == method \in {"linux", "macos", "pipes"}
Shared == method \in {"shm", "threads"}

Init ==
  /\ method \in Methods /\ iterations \in Iterations
  /\ parent = "start" /\ child = "unborn" /\ i = 0 /\ j = 0
  /\ ping = 0 /\ pong = 0 /\ turn = 0 /\ done = FALSE /\ stamp = 0
  /\ times = 0 /\ pinned = TRUE

-----------------------------------------------------------------------------
(* start *)

\* pipe, shm_open or fork fails: exit in C, an exception in C++.
CannotStart ==
  /\ parent = "start"
  /\ parent' = "failed"
  /\ UNCHANGED <<config, child, i, j, pipeVars, syncVars, times, pinned>>

Fork ==
  /\ parent = "start"
  /\ parent' = IF method = "linux" THEN "pin" ELSE "loop"
  /\ child' = IF method = "linux" THEN "pin" ELSE "loop"
  /\ UNCHANGED <<config, i, j, pipeVars, syncVars, times, pinned>>

\* sched_setaffinity; on failure the process exits and tells nobody.
PinParent ==
  /\ parent = "pin"
  /\ \/ parent' = "loop" /\ UNCHANGED pinned
     \/ parent' = "failed" /\ pinned' = FALSE
  /\ UNCHANGED <<config, child, i, j, pipeVars, syncVars, times>>

PinChild ==
  /\ child = "pin"
  /\ \/ child' = "loop" /\ UNCHANGED pinned
     \/ child' = "exit" /\ pinned' = FALSE
  /\ UNCHANGED <<config, parent, i, j, pipeVars, syncVars, times>>

-----------------------------------------------------------------------------
(* pipes *)

\* The C programs have closed the child's end: with the child gone, write
\* raises SIGPIPE.
ParentWrite ==
  /\ Pipes /\ parent = "loop" /\ i < iterations
  /\ IF InC /\ child = "exit"
     THEN parent' = "killed" /\ UNCHANGED ping
     ELSE parent' = "wait" /\ ping' = ping + 1
  /\ UNCHANGED <<config, child, i, j, pong, syncVars, times, pinned>>

\* Mutant: the parent does not wait for the byte.
ParentReadNothing ==
  /\ Pipes /\ parent = "wait"
  /\ parent' = "loop" /\ i' = i + 1 /\ times' = j
  /\ pong' = pong - 1
  /\ UNCHANGED <<config, child, j, ping, syncVars, pinned>>

\* read returns a byte.  At the end of the file, when the child is gone, the C
\* programs spin around read for ever.
ParentRead ==
  /\ Pipes /\ parent = "wait" /\ pong > 0
  /\ parent' = "loop" /\ i' = i + 1 /\ times' = j
  /\ pong' = pong - 1
  /\ UNCHANGED <<config, child, j, ping, syncVars, pinned>>

ChildRead ==
  /\ Pipes /\ child = "loop" /\ j < iterations /\ ping > 0
  /\ child' = "reply" /\ ping' = ping - 1
  /\ UNCHANGED <<config, parent, i, j, pong, syncVars, times, pinned>>

ChildWrite ==
  /\ child = "reply"
  /\ child' = "loop" /\ pong' = pong + 1 /\ j' = j + 1
  /\ UNCHANGED <<config, parent, i, ping, syncVars, times, pinned>>

-----------------------------------------------------------------------------
(* shared memory and threads *)

ParentTurn ==
  /\ Shared /\ parent = "loop" /\ i < iterations
  /\ parent' = "wait" /\ turn' = 1
  /\ UNCHANGED <<config, child, i, j, pipeVars, done, stamp, times, pinned>>

ParentSees ==
  /\ Shared /\ parent = "wait" /\ turn = 0
  /\ parent' = "sample"
  /\ UNCHANGED <<config, child, i, j, pipeVars, syncVars, times, pinned>>

\* The sample is timestamps[1] - timestamps[0].
ParentSample ==
  /\ parent = "sample"
  /\ parent' = "loop" /\ i' = i + 1 /\ times' = stamp
  /\ UNCHANGED <<config, child, j, pipeVars, syncVars, pinned>>

\* The child leaves its wait, then looks at done once more.
ChildSees ==
  /\ Shared /\ child = "loop" /\ j < iterations /\ (turn = 1 \/ done)
  /\ child' = "check"
  /\ UNCHANGED <<config, parent, i, j, pipeVars, syncVars, times, pinned>>

ChildCheck ==
  /\ child = "check"
  /\ child' = IF done THEN "exit" ELSE "stamp"
  /\ UNCHANGED <<config, parent, i, j, pipeVars, syncVars, times, pinned>>

\* With atomics, the parent that sees the turn sees the time stored before it.
\* In shared memory the time is a plain field beside a volatile turn.
ChildStamp ==
  /\ child = "stamp"
  /\ child' = "give" /\ stamp' = IF method = "shm" THEN stamp ELSE j + 1
  /\ UNCHANGED <<config, parent, i, j, pipeVars, turn, done, times, pinned>>

\* The last round whose time the child has stored.
Written == IF child = "give" THEN j + 1 ELSE j

\* Nothing orders the plain field with the turn: its store may become visible,
\* or be read by the parent, any number of rounds from the store of the turn.
\* One field is still coherent: no older time follows a newer one.
StampLands ==
  /\ method = "shm" /\ stamp < Written
  /\ stamp' \in stamp + 1 .. Written
  /\ UNCHANGED <<config, parent, child, i, j, pipeVars, turn, done, times, pinned>>

\* Mutant: the token is given before the time is taken, with atomics too.
ChildGiveFirst ==
  /\ child \in {"stamp", "give"}
  /\ child' = "loop" /\ turn' = 0 /\ j' = j + 1
  /\ UNCHANGED <<config, parent, i, pipeVars, done, stamp, times, pinned>>

ChildGive ==
  /\ child = "give"
  /\ child' = "loop" /\ turn' = 0 /\ j' = j + 1
  /\ UNCHANGED <<config, parent, i, pipeVars, done, stamp, times, pinned>>

-----------------------------------------------------------------------------
(* the end *)

\* Mutant: the child does one iteration too few.
ChildEndsEarly ==
  /\ child = "loop" /\ j + 1 >= iterations
  /\ child' = "exit"
  /\ UNCHANGED <<config, parent, i, j, pipeVars, syncVars, times, pinned>>

ChildEnds ==
  /\ child = "loop" /\ j = iterations
  /\ child' = "exit"
  /\ UNCHANGED <<config, parent, i, j, pipeVars, syncVars, times, pinned>>

\* Mutant: done is set before the last round.
ParentEndsEarly ==
  /\ parent = "loop" /\ i + 1 >= iterations
  /\ parent' = IF InC THEN "exit" ELSE "reap"
  /\ done' = Shared
  /\ UNCHANGED <<config, child, i, j, pipeVars, turn, stamp, times, pinned>>

\* The C programs print and exit, the C++ program waits for the child.
ParentEnds ==
  /\ parent = "loop" /\ i = iterations
  /\ parent' = IF InC THEN "exit" ELSE "reap"
  /\ done' = Shared
  /\ UNCHANGED <<config, child, i, j, pipeVars, turn, stamp, times, pinned>>

Reap ==
  /\ parent = "reap" /\ child = "exit"
  /\ parent' = "exit"
  /\ UNCHANGED <<config, child, i, j, pipeVars, syncVars, times, pinned>>

-----------------------------------------------------------------------------
Parent == \/ CannotStart \/ Fork \/ PinParent
          \/ ParentWrite \/ ParentRead
          \/ ParentTurn \/ ParentSees \/ ParentSample
          \/ ParentEnds \/ Reap

Child == \/ PinChild \/ ChildRead \/ ChildWrite
         \/ ChildSees \/ ChildCheck \/ ChildStamp \/ ChildGive
         \/ ChildEnds

\* Both sides have ended, or one is left spinning because sched_setaffinity
\* ended the other.
Over == /\ \/ parent \in {"exit", "failed", "killed"} /\ child \in {"unborn", "exit"}
           \/ ~pinned /\ child = "exit" /\ parent = "wait" /\ pong = 0
           \/ ~pinned /\ parent = "failed" /\ child = "loop" /\ ping = 0
        /\ UNCHANGED vars

Next == Parent \/ Child \/ StampLands \/ Over

Spec == Init /\ [][Next]_vars

\* Both sides are scheduled again and again; when a plain store becomes visible
\* is nobody's promise.
FairSpec == Spec /\ WF_vars(Parent) /\ WF_vars(Child)

-----------------------------------------------------------------------------
(* Properties *)

\* Every variable has its type.
TypeOK ==
  /\ method \in Methods /\ iterations \in Iterations
  /\ parent \in {"start", "pin", "loop", "wait", "sample", "reap", "exit", "failed", "killed"}
  /\ child \in {"unborn", "pin", "loop", "reply", "check", "stamp", "give", "exit"}
  /\ i \in Nat /\ j \in Nat /\ ping \in Nat /\ pong \in Nat
  /\ turn \in {0, 1} /\ done \in BOOLEAN
  /\ stamp \in Nat /\ times \in Nat /\ pinned \in BOOLEAN

\* The token is with the child from the parent's write to the child's.
WithChild == IF Pipes THEN ping > 0 \/ child = "reply" ELSE turn = 1
Returned  == IF WithChild THEN i
             ELSE i + (IF pong > 0 \/ (Shared /\ parent \in {"wait", "sample"}) THEN 1 ELSE 0)

\* Every method hands one token to and fro, once per iteration: the byte in the
\* pipes, the turn in memory.
Token == INSTANCE Handoff WITH
           Limits <- Iterations, limit <- iterations,
           holder <- (IF WithChild THEN "child" ELSE "parent"),
           rounds <- Returned
ImplementsHandoff == Token!Spec

\* A sample is of its own round: the i-th covers the child's i-th turn.  With
\* pipes that is so because the parent's read waits for the child's write, with
\* atomics because the token is given last.  Of shared memory only less is true:
\* the child's time is of no later round than the sample's, and of no earlier
\* one than that of the sample before; how many rounds late it is, the code does
\* not bound.
SampleOfItsRound ==
  parent = "loop" => IF method = "shm" THEN times <= stamp /\ stamp <= i ELSE times = i

\* The done flag cuts no iteration short: a child that was started and pinned
\* ends after the last iteration, with the token back at the parent.
ChildDoesAll ==
  child = "exit" /\ pinned => j = iterations /\ i + 1 >= iterations /\ turn = 0 /\ ping = 0

\* Both sides end, and a C++ parent not before its child, if the processes
\* could be pinned to their processors.
BothEnd ==
  <>(\/ ~pinned \/ parent = "failed"
     \/ parent = "exit" /\ child = "exit")
=============================================================================
