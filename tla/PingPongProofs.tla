---------------------------- MODULE PingPongProofs ----------------------------
(***************************************************************************)
(* What the context switch measurements guarantee for every number of      *)
(* iterations: they hand over one token, in turn, and sample it right.     *)
(***************************************************************************)
EXTENDS PingPong, TLAPS

\* How the processes come into being, and the bounds of their loops.
Begun ==
  /\ parent = "start" => child = "unborn"
  /\ child = "unborn" => parent \in {"start", "failed"}
  /\ parent = "pin" \/ child = "pin" \/ ~pinned => method = "linux"
  /\ parent = "failed" /\ pinned => child = "unborn"
  /\ i <= iterations /\ j <= iterations
  /\ parent \in {"wait", "sample"} => i < iterations
  /\ parent \in {"reap", "exit"} => i = iterations
  /\ child = "exit" /\ pinned => j = iterations

\* Pipes: one byte is under way while the parent waits, and none otherwise.
InPipes ==
  Pipes =>
    /\ turn = 0 /\ ~done /\ parent # "sample"
    /\ child \notin {"check", "stamp", "give"}
    /\ IF parent = "wait" THEN ping + pong + (IF child = "reply" THEN 1 ELSE 0) = 1
                          ELSE ping = 0 /\ pong = 0 /\ child # "reply"
    /\ j = (IF pong > 0 THEN i + 1 ELSE i)
    /\ parent \in {"start", "pin", "loop"} => times = i

\* Memory: the turn is the child's only while the parent waits.
InMemory ==
  Shared =>
    /\ ping = 0 /\ pong = 0 /\ child # "reply" /\ parent # "killed"
    /\ turn = 1 => parent = "wait"
    /\ turn = 0 => child \notin {"check", "stamp", "give"}
    /\ j = IF parent = "sample" \/ (parent = "wait" /\ turn = 0) THEN i + 1 ELSE i
    /\ done => parent \in {"reap", "exit"}
    /\ IF method = "shm" THEN times <= stamp /\ stamp <= Written ELSE stamp = Written
    /\ method # "shm" /\ parent \in {"start", "pin", "loop"} => times = i

PingPongInv == TypeOK /\ Begun /\ InPipes /\ InMemory

LEMMA MethodsAreTwo ==
  ASSUME TypeOK
  PROVE  /\ method \in {"linux", "macos", "pipes", "shm", "threads"}
         /\ iterations \in Nat
  BY PingPongAssumption DEF TypeOK, PingPongAssumption

LEMMA InitInv == Init => PingPongInv
<1> SUFFICES ASSUME Init PROVE PingPongInv
  OBVIOUS
<1>1. TypeOK
  BY PingPongAssumption DEF Init, TypeOK, PingPongAssumption
<1>2. iterations \in Nat
  BY <1>1, MethodsAreTwo
<1>3. Begun
  BY <1>2 DEF Init, Begun
<1>4. InPipes
  BY DEF Init, InPipes
<1>5. InMemory
  BY <1>2 DEF Init, InMemory, Written
<1> QED
  BY <1>1, <1>3, <1>4, <1>5 DEF PingPongInv

LEMMA ParentStep == PingPongInv /\ Parent => PingPongInv'
<1> SUFFICES ASSUME PingPongInv, Parent PROVE PingPongInv'
  OBVIOUS
<1> USE MethodsAreTwo
    DEF PingPongInv, TypeOK, Begun, InPipes, InMemory, Written, InC, Pipes, Shared,
        config, pipeVars, syncVars
<1>1. CASE CannotStart
  BY <1>1 DEF CannotStart
<1>2. CASE Fork
  BY <1>2 DEF Fork
<1>3. CASE PinParent
  <2> USE <1>3 DEF PinParent
  <2>1. CASE UNCHANGED pinned
    BY <2>1
  <2>2. CASE pinned' = FALSE
    <3>1. pinned' \in BOOLEAN /\ ~pinned'
      BY <2>2
    <3>2. TypeOK'
      BY <2>2
    <3>3. Begun'
      BY <3>1
    <3>4. InPipes' /\ InMemory'
      OBVIOUS
    <3> QED
      BY <3>2, <3>3, <3>4
  <2> QED
    BY <2>1, <2>2
<1>4. CASE ParentWrite
  BY <1>4 DEF ParentWrite
<1>5. CASE ParentRead
  BY <1>5 DEF ParentRead
<1>6. CASE ParentTurn
  BY <1>6 DEF ParentTurn
<1>7. CASE ParentSees
  BY <1>7 DEF ParentSees
<1>8. CASE ParentSample
  BY <1>8 DEF ParentSample
<1>9. CASE ParentEnds
  BY <1>9 DEF ParentEnds
<1>10. CASE Reap
  BY <1>10 DEF Reap
<1> QED
  BY <1>1, <1>2, <1>3, <1>4, <1>5, <1>6, <1>7, <1>8, <1>9, <1>10 DEF Parent

LEMMA ChildStep == PingPongInv /\ Child => PingPongInv'
<1> SUFFICES ASSUME PingPongInv, Child PROVE PingPongInv'
  OBVIOUS
<1> USE MethodsAreTwo
    DEF PingPongInv, TypeOK, Begun, InPipes, InMemory, Written, InC, Pipes, Shared,
        config, pipeVars, syncVars
<1>1. CASE PinChild
  <2> USE <1>1 DEF PinChild
  <2>1. CASE UNCHANGED pinned
    BY <2>1
  <2>2. CASE pinned' = FALSE
    <3>1. pinned' \in BOOLEAN /\ ~pinned'
      BY <2>2
    <3>2. TypeOK'
      BY <2>2
    <3>3. Begun'
      BY <3>1
    <3>4. InPipes' /\ InMemory'
      OBVIOUS
    <3> QED
      BY <3>2, <3>3, <3>4
  <2> QED
    BY <2>1, <2>2
<1>2. CASE ChildRead
  BY <1>2 DEF ChildRead
<1>3. CASE ChildWrite
  BY <1>3 DEF ChildWrite
<1>4. CASE ChildSees
  BY <1>4 DEF ChildSees
<1>5. CASE ChildCheck
  BY <1>5 DEF ChildCheck
<1>6. CASE ChildStamp
  BY <1>6 DEF ChildStamp
<1>7. CASE ChildGive
  BY <1>7 DEF ChildGive
<1>8. CASE ChildEnds
  BY <1>8 DEF ChildEnds
<1> QED
  BY <1>1, <1>2, <1>3, <1>4, <1>5, <1>6, <1>7, <1>8 DEF Child

LEMMA NextStep == PingPongInv /\ [Next]_vars => PingPongInv'
<1> SUFFICES ASSUME PingPongInv, [Next]_vars PROVE PingPongInv'
  OBVIOUS
<1>1. CASE Parent
  BY <1>1, ParentStep
<1>2. CASE Child
  BY <1>2, ChildStep
<1>3. CASE StampLands
  BY <1>3, MethodsAreTwo
  DEF StampLands, config, pipeVars, PingPongInv, TypeOK, Begun, InPipes, InMemory,
      Written, Pipes, Shared
<1>4. CASE UNCHANGED vars
  BY <1>4 DEF vars, config, pipeVars, syncVars, PingPongInv, TypeOK, Begun,
              InPipes, InMemory, Written, Pipes, Shared
<1> QED
  BY <1>1, <1>2, <1>3, <1>4 DEF Next, Over

-----------------------------------------------------------------------------
(* Theorems *)

\* One token goes round: a byte in one of the pipes, or the turn, while the
\* parent waits; the child is at most one turn ahead of the parent.
THEOREM TokenInvariant == Spec => []PingPongInv
<1>1. Init => PingPongInv
  BY InitInv
<1>2. PingPongInv /\ [Next]_vars => PingPongInv'
  BY NextStep
<1> QED
  BY <1>1, <1>2, PTL DEF Spec

\* The benchmarks keep their types, and no pipe is read below empty, for any
\* number of iterations.
THEOREM TypeCorrect == Spec => []TypeOK
<1>1. PingPongInv => TypeOK
  BY DEF PingPongInv
<1> QED
  BY <1>1, TokenInvariant, PTL

\* Each sample of pipes and threads is of its own round; the shared memory
\* method, whose times nothing orders, promises only that a sample is of no
\* later round and of no earlier one than the sample before.  For any number of
\* iterations (the vector of samples of the three methods).
THEOREM SamplesMatchRounds == Spec => []SampleOfItsRound
<1>1. PingPongInv => SampleOfItsRound
  BY MethodsAreTwo
  DEF PingPongInv, TypeOK, InPipes, InMemory, SampleOfItsRound, Written, Pipes, Shared
<1> QED
  BY <1>1, TokenInvariant, PTL

\* No child that was started leaves its loop early, although done is set while
\* it may still be waiting for its turn.
THEOREM NoIterationIsCut == Spec => []ChildDoesAll
<1>1. PingPongInv => ChildDoesAll
  <2> SUFFICES ASSUME PingPongInv, child = "exit", pinned
               PROVE  j = iterations /\ i + 1 >= iterations /\ turn = 0 /\ ping = 0
    BY DEF ChildDoesAll
  <2> USE MethodsAreTwo DEF PingPongInv, TypeOK
  <2>1. j = iterations /\ i <= iterations
    BY DEF Begun
  <2>2. CASE Pipes
    BY <2>1, <2>2 DEF InPipes, Begun
  <2>3. CASE Shared
    BY <2>1, <2>3 DEF InMemory, Begun
  <2> QED
    BY <2>2, <2>3 DEF Pipes, Shared
<1> QED
  BY <1>1, TokenInvariant, PTL

\* The five methods are one protocol: each step of them hands the token over,
\* hands it back, or leaves it where it is.
THEOREM OneTokenToAndFro == Spec => ImplementsHandoff
<1>1. Init => Token!Init
  BY PingPongAssumption
  DEF Init, Token!Init, WithChild, Returned, Pipes, Shared, PingPongAssumption
<1>2. PingPongInv /\ [Next]_vars => [Token!Next]_Token!vars
  <2> SUFFICES ASSUME PingPongInv, [Next]_vars
               PROVE  [Token!Next]_Token!vars
    OBVIOUS
  <2> USE MethodsAreTwo
      DEF PingPongInv, TypeOK, Begun, InPipes, InMemory, Written, InC, Pipes, Shared,
          config, pipeVars, syncVars, WithChild, Returned
  <2>1. CASE ParentWrite
    BY <2>1 DEF ParentWrite, Token!Next, Token!Give, Token!vars
  <2>2. CASE ParentTurn
    BY <2>2 DEF ParentTurn, Token!Next, Token!Give, Token!vars
  <2>3. CASE ChildWrite
    BY <2>3 DEF ChildWrite, Token!Next, Token!GiveBack, Token!vars
  <2>4. CASE ChildGive
    BY <2>4 DEF ChildGive, Token!Next, Token!GiveBack, Token!vars
  <2>5. CASE \/ CannotStart \/ Fork \/ PinParent \/ PinChild \/ ChildRead
             \/ ParentRead \/ ParentSees \/ ParentSample \/ ParentEnds \/ Reap
             \/ ChildSees \/ ChildCheck \/ ChildStamp \/ StampLands
             \/ ChildEnds \/ UNCHANGED vars
    <3> SUFFICES UNCHANGED Token!vars
      OBVIOUS
    <3> USE DEF Token!vars
    <3>1. CASE CannotStart \/ Fork \/ PinParent \/ ParentEnds \/ Reap
      BY <3>1 DEF CannotStart, Fork, PinParent, ParentEnds, Reap
    <3>2. CASE ParentRead
      BY <3>2 DEF ParentRead
    <3>3. CASE ParentSees \/ ParentSample
      BY <3>3 DEF ParentSees, ParentSample
    <3>4. CASE PinChild \/ ChildEnds
      BY <3>4 DEF PinChild, ChildEnds
    <3>5. CASE ChildRead
      BY <3>5 DEF ChildRead
    <3>6. CASE ChildSees \/ ChildCheck \/ ChildStamp \/ StampLands
      BY <3>6 DEF ChildSees, ChildCheck, ChildStamp, StampLands
    <3>7. CASE UNCHANGED vars
      BY <3>7 DEF vars
    <3> QED
      BY <2>5, <3>1, <3>2, <3>3, <3>4, <3>5, <3>6, <3>7
  <2> QED
    BY <2>1, <2>2, <2>3, <2>4, <2>5 DEF Next, Parent, Child, Over
<1> QED
  BY <1>1, <1>2, TokenInvariant, PTL DEF Spec, ImplementsHandoff, Token!Spec

-----------------------------------------------------------------------------
(* Nobody waits for ever, unless the other could not be pinned *)

\* Who is not waiting for the other.
ParentCanGoOn ==
  \/ parent \in {"start", "pin", "loop", "sample"}
  \/ parent = "wait" /\ (IF Pipes THEN pong > 0 ELSE turn = 0)
  \/ parent = "reap" /\ child = "exit"
ChildCanGoOn ==
  \/ child \in {"pin", "reply", "check", "stamp", "give"}
  \/ child = "loop" /\ (j = iterations \/ (IF Pipes THEN ping > 0 ELSE turn = 1 \/ done))

\* Both have ended.
Ended == parent \in {"exit", "failed", "killed"} /\ child \in {"unborn", "exit"}

\* One of the two processes of the Linux program has gone because it could not
\* be pinned, and the other waits for it at its pipe.
LeftBehind ==
  /\ method = "linux" /\ ~pinned
  /\ \/ parent = "wait" /\ pong = 0 /\ child = "exit"
     \/ parent = "failed" /\ child = "loop" /\ ping = 0

\* SIGPIPE comes from a child that has gone.
KilledByItsEnd == parent = "killed" => child = "exit"

\* The two sides never wait for each other: as long as they have not both
\* ended one of them can go on, for every number of iterations and all five
\* methods, and the only way to be left waiting is a sched_setaffinity that has
\* ended the other side, of which nobody is told.
THEOREM NobodyWaitsForEver == Spec => [](ParentCanGoOn \/ ChildCanGoOn \/ Ended \/ LeftBehind)
<1>1. Init => KilledByItsEnd
  BY DEF Init, KilledByItsEnd
<1>2. KilledByItsEnd /\ [Next]_vars => KilledByItsEnd'
  <2> SUFFICES ASSUME KilledByItsEnd, [Next]_vars PROVE KilledByItsEnd'
    OBVIOUS
  <2>1. CASE Parent
    BY <2>1 DEF Parent, CannotStart, Fork, PinParent, ParentWrite, ParentRead, ParentTurn,
       ParentSees, ParentSample, ParentEnds, Reap, KilledByItsEnd
  <2>2. CASE Child
    BY <2>2 DEF Child, PinChild, ChildRead, ChildWrite, ChildSees, ChildCheck, ChildStamp,
       ChildGive, ChildEnds, KilledByItsEnd
  <2>3. CASE StampLands
    BY <2>3 DEF StampLands, KilledByItsEnd
  <2>4. CASE UNCHANGED vars
    BY <2>4 DEF vars, KilledByItsEnd
  <2> QED
    BY <2>1, <2>2, <2>3, <2>4 DEF Next, Over
<1>3. PingPongInv /\ KilledByItsEnd => ParentCanGoOn \/ ChildCanGoOn \/ Ended \/ LeftBehind
  <2> SUFFICES ASSUME PingPongInv, KilledByItsEnd, ~ParentCanGoOn, ~ChildCanGoOn, ~Ended
               PROVE  LeftBehind
    OBVIOUS
  <2> USE MethodsAreTwo DEF PingPongInv, TypeOK
  <2>1. child \in {"unborn", "loop", "exit"} /\ parent \in {"wait", "reap", "exit", "failed", "killed"}
    BY DEF ParentCanGoOn, ChildCanGoOn
  <2>2. i \in Nat /\ j \in Nat /\ iterations \in Nat /\ (Pipes <=> ~Shared)
    BY DEF Pipes, Shared
  <2>3. CASE parent = "wait"
    <3>1. i < iterations /\ child \in {"loop", "exit"}
      BY <2>1, <2>3 DEF Begun
    <3>2. CASE Pipes
      <4>1. pong = 0 /\ ping = 1 /\ j = i
        BY <2>1, <2>3, <3>2 DEF ParentCanGoOn, InPipes
      <4>2. child # "loop"
        BY <3>2, <4>1 DEF ChildCanGoOn
      <4>3. ~pinned
        BY <3>1, <4>1, <4>2 DEF Begun
      <4> QED
        BY <2>3, <3>1, <4>1, <4>2, <4>3 DEF LeftBehind, Begun
    <3>3. CASE Shared
      <4>1. turn = 1 /\ j = i
        BY <2>1, <2>2, <2>3, <3>3 DEF ParentCanGoOn, InMemory
      <4>2. child = "exit"
        BY <2>2, <3>1, <3>3, <4>1 DEF ChildCanGoOn
      <4>3. method # "linux"
        BY <3>3 DEF Shared
      <4> QED
        BY <3>1, <4>1, <4>2, <4>3 DEF Begun
    <3> QED
      BY <2>2, <3>2, <3>3
  <2>4. CASE parent \in {"reap", "exit"}
    <3>1. i = iterations /\ child # "unborn"
      BY <2>4 DEF Begun
    <3>2. child = "loop"
      BY <2>1, <2>4, <3>1 DEF ParentCanGoOn, Ended
    <3>3. j = iterations
      <4>1. Pipes => j = i
        BY <2>4, <3>2 DEF InPipes
      <4>2. Shared => j = i
        BY <2>4, <3>2 DEF InMemory
      <4> QED
        BY <2>2, <3>1, <4>1, <4>2
    <3> QED
      BY <3>2, <3>3 DEF ChildCanGoOn
  <2>5. CASE parent = "failed"
    <3>1. child = "loop"
      BY <2>1, <2>5 DEF Ended
    <3>2. ~pinned /\ method = "linux"
      BY <2>5, <3>1 DEF Begun
    <3>3. ping = 0
      BY <2>5, <3>2 DEF InPipes, Pipes
    <3> QED
      BY <2>5, <3>1, <3>2, <3>3 DEF LeftBehind
  <2>6. CASE parent = "killed"
    BY <2>6 DEF KilledByItsEnd, Ended
  <2> QED
    BY <2>1, <2>3, <2>4, <2>5, <2>6
<1> QED
  BY <1>1, <1>2, <1>3, TokenInvariant, PTL DEF Spec

=============================================================================
