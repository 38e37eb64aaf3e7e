# Verification of the system performance tools

TLA+ models of the programs in `src/src`, TLC runs that check them on small
instances, and TLAPS proofs of what holds for every instance. The programs are
benchmarks: each starts threads or processes, lets them work on something
shared for a while (a lock, files, a connection, a token), stops them, joins
them and prints numbers. What could make the printed numbers wrong, or keep the
program from printing any, is the coordination of those threads and the
accounting of what they do; this is what the modules are about. Times,
formatting and advice to the user are left out.

Paths below are relative to the repository, which is `src/`; `lock_…c:195` is
short for `src/src/lock_contention_visualizer.c:195`.

## 1. The system

The repository has no library: fifteen programs share no code, except that the
same replacement for `pthread_barrier_t` is pasted into four of them. For each
subject there is a C program and (mostly) a C++ program.

| component | state it keeps | operations | interaction | what is hard | what makes it correct |
|---|---|---|---|---|---|
| lock benchmark, C (`lock_contention_visualizer.c`) | one lock of four kinds, waiter counts, start gate, per-thread and global counters, a plain `int shared_data` | create, gate, acquire, critical section, release, stop, join, report, signal handler | threads over shared memory, atomics, a mutex with a condition variable | every interleaving of `lock_acquire`; spurious wake-ups; signals and failing `pthread_create` | the lock is a reader-writer lock; no update is lost; counts agree; the herd starts together; the program ends |
| lock benchmark, C++ (`lock_visualizer_cpp.cpp`) | one of `std::mutex`, `recursive_mutex`, `shared_mutex`, `SpinLock`, `AdaptiveMutex`; statistics; a detached visualization thread | start, try_lock, lock, unlock, count, stop, join, analyze, destroy | as above | `AdaptiveMutex` has two ways in; unlocking a mutex one does not own; a thread nobody joins | exclusion; counts agree; the lock is free when it is destroyed |
| disk benchmark, C (`disk_io_analyzer.c`) | per test: files, statistics, arguments, a barrier, `stop_flag` | four tests of one or more rounds; create file, create thread, open, barrier, read/write/fsync, join, print, unlink | threads meet at a barrier, main joins them | failing calls in the middle; reuse of names and flags between rounds; the barrier replacement | threads start together; the mix of operations; I/O within the files; nothing left behind; the program ends |
| disk benchmark, C++ (`disk_io_analyzer_cpp.cpp`) | the same with `std::barrier`, futures, RAII | the same | futures whose destructors wait | an exception in the middle of starting the workers | as above |
| network benchmark, C (`network_io_benchmarker.c`) | a server and a client thread, sockets, statistics, a barrier, `stop_flag` | three tests; TCP server over select, epoll or kqueue; UDP server; clients | sockets; barrier; flag | partial sends, edge-triggered events, lost datagrams, close while an echo is under way, blocking calls that no flag reaches | every byte comes back; an echo is of its own message; counts agree; the test ends after its duration |
| network benchmark, C++ (`network_io_benchmarker_cpp.cpp`) | a server object, connections, statistics | the same | the same | the same, and a UDP socket on the accept path | the same |
| context switches, C Linux, C macOS, C++ (`Cost of Context Switching.c`, `context_switch_macos.c`, `context_switch_cpp.cpp`) | pipes, a shared struct, or atomics; loop indexes; samples | fork or thread, pin, ping, pong, end | a token handed to and fro | unordered plain fields beside a volatile one; `done` raised while the other side still waits; one side dying | strict alternation; each sample belongs to its round; both sides end |
| scheduler benchmark, C and C++ (`scheduler_analyzer.c`, `scheduler_analyzer_cpp.cpp`) | per thread: pipes, counters; workloads | create, run, stop, join, fairness index | pipes, flag | pipes that were not made; batched counters; `RUSAGE_SELF` | counters mean what the report says; the join returns |
| cache benchmark, C and C++ (`cache_analyzer.c`, `cache_analyzer_cpp.cpp`) | arrays, a barrier, linked lists, estimates | access patterns, false sharing, bouncing line | barrier, futures | the barrier is used twice; allocation failure before it; an index beyond a line | all threads start together; no increment is lost; the whole list is walked |
| allocator benchmark, C and C++ (`memory_allocator_benchmarker.c`, `.cpp`) | allocation records and statistics under a mutex | allocate, free, fragment, scale | mutex, barrier, start gate | frees counted as allocations or with the wrong size; records of failed allocations; a mutex wiped after its initialisation | the statistics are those of the blocks, as far as the code means them to be |
| virtual memory explorer, C and C++ (`vm_explorer.c`, `vm_explorer.cpp`) | mappings, a pipe, child processes, buffered output | map, touch, unmap, fork, modify, send, wait | pipe, copy-on-write, `wait` | failures that nobody looks at; the write end that keeps a read from ending; output inherited by a child | nothing is left mapped; results are the child's; each line is printed once |
| statistics and formatting | samples | mean, deviation, percentile, histogram, recommendations | none | boundaries of indexes | bounds and monotonicity |

`PROJECT.json` lists the same components with what is modelled of each, and
every hazard with its line.

## 2. Modules

| module | models | status |
|---|---|---|
| `AbstractLock` | what any lock promises: a writer alone, readers together | done |
| `AbstractBarrier` | what any barrier promises: nobody works before all have come, and all go at once | done |
| `LockContention` | the C lock benchmark; implements `AbstractLock` | done |
| `LockContentionProofs` | theorems about it: the lock; its counters, the herd's gate (an `AbstractBarrier`), the end; the report | done |
| `SumTheorems` | what a sum over a finite set is, for the reports of all programs | done |
| `LockAnalyzer` | the C++ lock benchmark | done |
| `LockAnalyzerProofs` | theorems about it; all classes but one implement `AbstractLock` | done |
| `DiskIO` | the C and the C++ disk benchmark, all tests as sequences of rounds | done |
| `DiskIOProofs` | theorems about it; its barrier implements `AbstractBarrier` | done |
| `NetworkEcho` | the C and the C++ network benchmark over a model of sockets | done, but for select/accept errors |
| `NetworkEchoProofs` | theorems about it; the meeting of the two implements `AbstractBarrier` | done |
| `Handoff` | what a context-switch measurement promises: one token, in turn | done |
| `PingPong` | all five context-switch measurements; implements `Handoff` | done |
| `PingPongProofs` | theorems about it | done |
| `Scheduler` | the C and the C++ scheduler benchmark | done |
| `SchedulerProofs` | theorems about it | done |
| `Allocator` | the C and the C++ allocator benchmark | done, but for the C++ container and custom-allocator tests |
| `PointerChase` | the linked lists of the next two, as pure operators | done |
| `CacheTool` | the C and the C++ cache analyzer | done, but for the prefetcher test |
| `VmExplorer` | the C and the C++ memory explorer | done, but for the reading loops |
| `MemoryTools` | composes `Allocator`, `CacheTool` and `VmExplorer` into one specification | done |
| `MemoryToolsProofs` | theorems about the three | done |

The models are themselves the modules TLC checks: each takes the sizes, the
command-line choices and the failures to allow as CONSTANTS, and its `.cfg`
gives them small values. Bounds are constants too (`MaxOps`, `MaxFaults`,
`NumMessages`, `Iterations`), and each is described where it is declared.
Definitions whose comment begins with *Mutant* are wrong on purpose: they stand
beside the definition they vary and belong to no specification. Each property of
a passing run is violated when one of them takes the place of the right one,
which shows that the property can fail.

### LockContention

| TLA+ | code |
|---|---|
| `main`, `created`, `joined`, `CreateWorker` … `Report` | `main`, the create and join loops. `CreateFails` raises the flag and goes on to join *all* handles, so `JoinGarbage` joins some that were never filled in: nondeterministic, it may return, crash or block |
| `Signal` | `signal_handler`, between any two steps |
| `GateArrive`, `GateRecheck`, `SpuriousWake` | the start gate under `start_mutex`; `asleep` is `pthread_cond_wait` |
| `CountWaiter`, `LoadCurrent`, `CompareMax`, `StoreMax` | the four atomic accesses at the head of `lock_acquire` |
| `LockMutex`, `ReadLock`, `WriteLock`, `SpinAnnounce`, `TestAndSet`, `SpinWithdraw` | the switch over the lock types; `ADAPTIVE` is a plain mutex in this program |
| `UncountWaiter`, `RecordContention` | the end of `lock_acquire`; whether the wait was longer than a microsecond is a free choice |
| `LoadSharedData`, `StoreSharedData`, `ReadSharedData` | `shared_data++` and the read, two memory accesses |
| `Unlock`, `UpdateStats` | `lock_release` and the counters after it |

One action is one access to something another thread can see. The monitor
thread only reads atomics and prints; it has no action.

### LockAnalyzer

`FreeFor` and `Take` are the atomic attempt of each lock class, used by both
`try_lock` (`TryLock`) and `lock` (`Lock`). `SpinFails`, `FallbackLock`,
`StoreLocked`, `Unlock`, `FallbackUnlock` are the two ways through
`AdaptiveMutex` (99–150): by the atomic `state_`, and after `SPIN_LIMIT` failed
rounds by `fallback_mutex_`. `unlock` frees the fallback mutex whether or not the caller
owns it; what happens to a mutex that another thread owns is undefined, and the
model allows both that it is freed and that nothing happens. `VizStep` is the
detached thread. `StartFails` is a `std::thread` that cannot be constructed: with
the first worker the exception reaches `main` (`"failed"`), with a later one the
vector of joinable threads ends the process (`"terminated"`).

### DiskIO

A test is a sequence of rounds, a round a record `[pattern, create, unlink]`;
`RoundsOf` lists those of each test and of `-t all`. `Cleanup` ends a round and
starts the next with fresh memory, as each test calls `calloc` and
`pthread_barrier_init` anew. A round can end before its time. In the C program
`CreateFileFails` of the pattern test is the jump to the clean-up (489): `Cleanup`
removes the files, with the threads of lower indexes neither stopped nor
joined, and `Free` (517–526) destroys the barrier and frees their statistics and
arguments. When one of them has not ended it goes on in freed memory, and from
then on anything may happen: `main = "undefined"`, where the model stops.
`platform = "cpp"` is the C++ program: its rounds are those of `CppRoundsOf`, and a
file or a thread that cannot be had is an exception (`Throw`). `run_io_test`
declares the futures before the barrier, so the barrier is destroyed first, and
then the destructors of the futures wait for the workers that were started
(`main = "futures"`): they may end by themselves (`FuturesDone`), or be in the
barrier that is gone, for ever or with undefined effect (`BarrierGone`). Its loop (`CppOperate`) looks at the file size after
the operation instead of before it. File contents are a length in blocks. The barrier is one action up to
its wait or broadcast; on macOS `SpuriousWake` may end the wait, as the
replacement does not loop.

### NetworkEcho

A direction of the connection holds up to `window` units, a message is `MsgSize`
units, so a message may be smaller than, equal to or larger than what the
sockets take. `Echo` is `send` on a non-blocking socket: it takes what fits, and
the code forgets the rest (`dropped`). `edge` is the set of epoll events not yet
delivered; select and kqueue report by state. UDP datagrams may be lost in each
direction, and are when nobody listens or the buffer is full. Sockets are not in
`src/`; what they do is taken from how the code uses them.

The C++ program differs in what surrounds the loops. There is no barrier: the
client starts after a sleep, whether the server listens or not, so it may find
nobody (`Unwound`, `ClientAsyncFails` are its ways out). `ReceivesDatagrams` is false
of its servers, which call `accept` for whatever can be read, on a UDP
socket too. Only TCP servers over `select` and (in the multiplexer test)
`epoll` and `kqueue` exist.

### PingPong

`method` chooses one of the five measurements. For pipes, `ping` and `pong` are
bytes in flight; for memory, `turn` and `done`. In `context_switch_cpp.cpp` the
shared-memory method has a volatile turn beside a plain timestamp. Nothing orders
the two, for the compiler or the processor, so that the parent may read the time of
any earlier round: `stamp` is the time it would read, and `StampLands` brings it
forward any number of rounds late, or never. Only coherence is assumed: the field does
not go back. The threads method has sequentially consistent atomics, and its
time is there when the turn is.

### Scheduler

`kind` is the workload of each thread: `Assigned` gives the blocks in which the
C program lines them up, and any assignment of the C++ program, which draws them.

* C: `InitThread` makes a pipe or not, and does not look (166); without one the
  descriptors are the zeros of `memset`, and `ReadStdin` waits for standard
  input. `IoWrite` blocks while the pipe is full, `IoRead` takes what there is.
  `CreateFails` stops everybody and joins the handles that are not zero, the
  undefined one of the failed call included.
* C++: a worker counts in a local variable and publishes when the count is a
  multiple of a batch (`Published`), and the rest when it stops (`PublishRest`).
  `mixed_work` publishes what it has, the others a whole batch, which is the same
  for two of them and not for `memory_intensive_work`: its rounds add 17384
  operations, the batch is 10000, and when the sum is a multiple of 10000 (every
  1250 rounds) all but 10000 are forgotten. `GetThreadStats` asks for the usage
  of the process. A `std::thread` that cannot be made ends the program.

The report is Jain's index as a fraction (`num`/`den`). The C program prints one,
of the iterations. The C++ program prints two, `ops` of the operations and `cpu` of
the processor times, and the latter are what `GetThreadStats` was told: the
process's, at the moment each thread ended.

### Allocator

`records` are `local_records` of the C program, `allocations` of the C++ one; a
record is `wild` before anything was written to it. `FreeOutcomes` is
`update_stats`, which is called with success when a block is freed, and so counts
an allocation once more; it counts a free only if the clock saw it take time, a
free choice. `SizeFreed` is the size that is subtracted: the C++ speed test takes
that of the block just allocated (277). In the C program a failed allocation leaves the
pointer of its record as `malloc` gave it, and `FreeOne` and `Drain` look at it:
nothing happens, or the program crashes. A round of `fragmentation_test` is one step, as
only the thread of main takes part. `Arrive` opens the barrier when all others of
the group have arrived; in the build for macOS (`Mac`) `LeaveSpuriously` lets a
thread through before.

### CacheTool and PointerChase

`Phases` is the list of groups of threads that main starts one after the other;
`Now` is the current one. `Setup` makes what they share. `false_sharing_analysis` of
the C program does not initialise the barrier for its second group, and `Setup`
leaves `arrived`, the barrier's count, alone there. The volatile `int` of the C program is loaded and
stored (`Load`, `Store`), the atomic of the C++ program has `FetchAdd`. `Cell` is
the int that a thread counts in, relative to what was allocated: with more
threads than a cache line has ints some of them are behind the buffer (`Overrun`).
`Estimate` is the assumed number of hits, in integers, since the code truncates.
`Barrier` is one action up to its wait or its broadcast. In the build for macOS
(`Mac`) `LeaveSpuriously` ends the wait of a thread that stays counted. In a
group that lacks a thread this has a further consequence: the others get through
one by one, the group ends, and the next one finds their arrivals in the count and
is let through too early.

### VmExplorer

`Tests` lists the blocks that each case of each test allocates, in order; the
cases differ in what happens when one cannot be had: the C program skips the case
or (`test` 2 and 3) leaves the test, or does not look (`Unchecked`), the C++
program catches an exception. `Fork` copies `memory` and the unflushed output.
`writers` are the processes that hold the write end of the pipe: a read ends
with nothing only when there is none. The child's `Exit` flushes what it inherited in C
(`exit`) and not in C++ (`_exit`). The model runs all tests in turn (`-t all`),
which takes every test through every one of its cases.

### MemoryTools

The three modules share `program`, `main`, `next` and `pc`, as only one of the
programs runs; each module's actions are guarded by the program and leave the
variables of the others alone. The groups of the allocator's scalability test
are the first `Groups` of the code's 1, 2, 4, 8 and 16 threads.

## 3. Runs

| run | instance | what it shows |
|---|---|---|
| `lock_contention` | 2 workers; mutex, spinlock, rwlock; balanced and herd; failing creation; 2 operations each | `NoLostUpdate`, `WaitersCounted`, `HerdStartsTogether`, `ReportAddsUp`, `DestroyedWhenFree`; implements `AbstractLock`; `Terminates` |
| `lock_analyzer` | 3 workers, 4 lock classes, 1 operation each; failing creation | all locks but `AdaptiveMutex` protect the data; with all of them the counters agree, nobody is left behind and the lock is free in the end |
| `disk_io` | 3 threads, the C program on both platforms and the C++ program, all rounds, files of 2 blocks, at most 1 failure, 3 operations | `OthersStartTogether`, `MixedIsOneThird`, `WithinFile`, `JoinedOrLeftEarly`, `NoFileLeft`, `Terminates` |
| `network_echo` | both programs; all tests, protocols, multiplexers and platforms; windows of 1 to 5 units against messages of 4; 3 messages; failing set-up | `EchoIsOfThisMessage`, `NothingDroppedWhenItFits`, `ClientWaitsForEcho`, `CountsAgree`, `Terminates` |
| `ping_pong` | all five methods; 0, 1 and 4 iterations | `SampleOfItsRound`, `ChildDoesAll`; implements `Handoff`; `BothEnd` |
| `scheduler` | 3 threads, both programs, every assignment of workloads; pipes of 2 writes; failing pipes and threads; 3 rounds | `BatchesLoseNothing`, `PipeIsDrained`, `ReportIsRight`, `Terminates` |
| `memory_tools` | six programs, and two of them with the barrier for macOS; groups of 1 and 2 (allocator) or 1 to 3 threads (cache); 3 allocations of 1 or 2 bytes; 2 blocks and 2 rounds of fragmentation; lines of 2 ints, 2 increments; 4 pages, lists of 3 nodes; anything may fail | `AllocatorInv`, `CacheInv`, `VmInv`: the conjunctions of the properties of the three modules; `Terminates` |
| `lock_max_waiters` | 2 workers on a mutex | *violation*: the recorded maximum of waiters gets smaller (`lock_…c:172–175`) |
| `adaptive_exclusion` | 2 workers on `AdaptiveMutex` | *violation*: two writers in the critical section (`lock_…cpp:119`) |
| `disk_io_hang` | 2 threads, one failing call | *violation*: the others wait at the barrier for ever (`disk_…c:215`) |
| `disk_io_shim` | 2 threads, macOS barrier | *violation*: a thread starts before the others are there (`disk_…c:44`) |
| `network_udp` | UDP throughput test, both programs | *violation*: the server is in `recvfrom` when the flag comes up (`network_…c:809`), or the C++ client, which nobody answers (`network_…cpp:544`), and the test never ends |

Each passing run also checks the module's type invariant.

**Why the bounds are enough.** Two workers give all pairs that a lock can
confuse (two writers, reader and writer, two readers), and two operations each
let a worker come back while the other still holds what the first operation left. Three
workers are needed where a third profits from what two have done: on `AdaptiveMutex`,
where one unlock frees the lock for somebody while another is inside, and at
the disk barrier, where one thread fails, one waits and one arrives. `SPIN_LIMIT`
is 1 instead of 100: the limit is a number of failed rounds, each of which may
fail by itself, so one is the shortest way and longer ones add no
state but the count. `MaxOps = 3` takes the mixed pattern through one
period. A file of 2 blocks has a first, a last and a wrap. Windows around
`MsgSize` give messages that fit exactly, leave room, and do not fit; three
messages let one be late while the next is sent. 4 iterations let the shared
memory samples be several rounds late, 0 and 1 are the boundaries.
The scheduler's batches are scaled down with their ratios of interest: a round
that is a part of a batch (cpu, io, mixed), and one whose size does not divide
it (memory: 3 against 2, so that every second round is a multiple, as every
1250th in the code). In `memory_tools` two allocations are the least after
which one is freed, and the third comes after it; three cache threads are one
more than a line has ints, so that both sides of that limit are reached;
`Accesses` has a number that no percentage divides.
The bounds on operations mean that a worker which has done them only waits for
the flag, as it would between two operations.

`ADAPTIVE` of the C program is not in the cfg, because its code is that of
`MUTEX`; the proofs include it. The workload `RANDOM` (contention modes whose
operations are drawn) is used in `lock_max_waiters`, and left out of
the larger run as `BALANCED` alternates both kinds.

**Deadlock** is checked in all runs but the two of the network. Where a program really
stops, its `Over` says in which states; any other stop is an error. The network
tests hang in several situations (UDP, a part of an echo dropped, a failed
set-up), so those runs say `CHECK_DEADLOCK FALSE` and `Terminates` says
when a hang cannot happen.

**Fairness.** `FairSpec` is weak fairness of main and of each thread (or
process) as a whole: the kernel schedules what can run, blocking calls return
when they can. Nothing is assumed of who gets a contended lock; it follows from
the finite number of operations that everybody does. Signals, spurious
wake-ups, failures, the visualization thread and the moment a plain store becomes
visible have no fairness. A datagram is
delivered or lost, but what lies in a receive buffer is received.

**Memory.** Threads are interleaved at each access to shared memory. All accesses
on which decisions depend are atomics or under a lock, except in the
shared-memory method of `PingPong`, whose possible reordering is in the model,
and `shared_data` of the lock benchmark, which is split into load and store.
`stop_flag` of the C disk and network programs is a volatile int and taken to
become visible some time.

## 4. What the code does otherwise than it says

The five violation runs. Each checks one property that a line of the repository
states, and TLC's counterexample is a short run of the code:

1. The maximum of waiters is read, compared and written in separate steps: a
   late store of 1 replaces a recorded 2.
2. `AdaptiveMutex`: who has spun long enough takes a mutex that the holder does
   not hold, and enters. `unlock` afterwards clears the state for both.
3. A disk thread that cannot open its file does not come to the barrier; the
   others, main with them, wait for ever.
4. The macOS barrier waits without a loop; POSIX allows the wait to return early.
5. The UDP server looks at the flag only between datagrams, and blocks. In the
   C++ program it is worse: the server calls `accept` on the UDP socket, no
   datagram is ever received, and the client waits for its first echo for ever.

**Failures that the passing properties leave out.** The models contain what the
code does then; the properties do not call it right, and say which runs they are
about.

* A disk benchmark that leaves a round early *does* free the statistics, the
  arguments and the barrier under its threads (`disk_…c:489`), or destroys the
  barrier in front of them (`disk_…cpp:299–313`). `JoinedOrLeftEarly` says that this
  is the only way, and which threads it meets: those of lower indexes, before or
  in the barrier, none at work unless the shim let it go. `NoFileLeft` covers the
  C program in this case; the C++ program leaves its files, and so does a join
  that crashes.
* After a failed `pthread_create` the herd workload of `LockContention` hangs
  (`Terminates`); after a failed `sched_setaffinity` one side of `PingPong` spins
  (`BothEnd`); a scheduler benchmark whose pipe could not be made waits for
  standard input; a cache analyzer or allocator benchmark that is short of a
  thread hangs at its barrier; a disk benchmark ends for certain only when no
  call fails (what else happens is the violation run `disk_io_hang`); a TCP test of
  the network benchmark may hang after a failed set-up or a dropped part of an echo.
* The detached visualization thread may read an analyzer that was destroyed.
* The barrier for macOS keeps no group together: `OthersStartTogether`,
  `GroupStartsTogether` and `GroupsDoNotMix` are about the other builds, and
  `disk_io_shim` shows why.
* A sample of the shared-memory method may be of any earlier round
  (`SampleOfItsRound`).
* The processor time and the context switches that the C++ scheduler benchmark
  prints for each thread (431–441), and in Jain's index of CPU time (239, 251), are
  the process's at the time that thread ended (190). That is not what the labels and
  the README of the tools say. `ReportIsRight` demands of that index only what is
  true of any index; that it is one of the threads' own times is not claimed.
* The summary of the C allocator benchmark after `-t all` is that of the last
  scalability group, with a peak of 0; `SummaryOfSpeedTest` leaves that run out.
  The C++ `speed_test` takes the size of another block off its count (277), which
  drifts; the C count never falls below all that was ever allocated, since a free
  counts as an allocation as well. `StatisticsAddUp` ties these counts to
  the blocks as the code counts, and calls neither right. The printed speed-up
  (448) divides the operations by operations per thread, which is about the
  number of threads whatever was measured: it is not in the model.

Some properties state what the code does because it is not what one would
think:

* the fragmentation test of the C allocator benchmark leaks all rounds but the
  last (`FragmentationCounts`);
* though the C++ allocator benchmark takes off sizes of other blocks, its count
  does not go below zero (`StatisticsAddUp`);
* `memory_intensive_work` of the C++ scheduler benchmark forgets operations
  (`BatchesLoseNothing`, an inequality for this workload);
* the "final counter value" of the C cache analyzer is that of the first thread
  (`NoCountLost`), and more than 16 threads count behind the line (`OwnLines`);
* the C memory explorer prints lines again from its children when its output
  goes to a file (`OutputOnce`), and prints uninitialised results after a failed
  `fork` (`ResultIsOfTheChild`); `pointer_chase`, which neither explorer ever calls,
  makes a permutation that need not be one ring (`WalkComesBack`).

## 5. Proofs

`LockContentionProofs`, for every number of workers, any set of lock types
(including `ADAPTIVE`) and workloads, with or without failing creation, any
bound on operations, from `ConstantsAssumption` alone:

* `TypeCorrect`: `Spec => []TypeOK`.
* `LockInvariant`: the inductive invariant `LockInv`. Exclusion is not inductive
  by itself: that two workers are not inside says nothing of whether the next
  one can enter. `Recorded` is what is needed: the lock's own records (`owner`,
  `readers`, `flag`) say exactly who is between acquire and release. A
  step that moves nobody in or out preserves it by one lemma (`NeutralStep`); the
  four steps that take the lock and `Unlock` are proved one by one.
* `NoUpdateIsLost`: from `LockInv`, through `Exclusion` (two holders are both
  readers), a store meets no other worker between load and store.
* `LockImplemented`: `Spec => ImplementsLock`. A step that changes who holds the
  lock is one of the four actions of `AbstractLock`; every other step is a stutter.
* `WaitersAreCounted`: `CountInv` adds to the property that no worker has read
  more waiters than there have been at some time, so that a late store
  (`StoreMax`) records a number that was reached. The count of waiters is the
  cardinality of `WaitingWorkers`; a step moves at most one worker in or out
  (`OneMore`, `OneLess`), and all others leave the set alone.
* `TheHerdStartsTogether`: `GateInv` says that `ready_threads` is the number of
  workers that have come to the gate, so that `all_ready` is set only when they
  are all workers, even though a wait may end without the broadcast.
* `FreeWhenDestroyed`: `EndInv` (whoever main has passed in its join loop is done or
  was never born) with `UnusedInv` (a lock type leaves the others' records alone).
* `TheReportAddsUp`: `SumInv` says of every state what `ReportAddsUp` says of the
  last one: the totals are the sums of what the workers have counted, and
  `shared_data` is the sum of the writes that have reached it, the one included that a
  worker has stored and not yet counted (`Stored`). A step changes one worker's
  counter and the total by as much (`SumOfChange`); that no store is lost comes
  from `NoLostUpdate`.
* `GateImplemented`: the gate is an `AbstractBarrier` whose waiting threads are
  those asleep or awake before `all_ready` is set, and whose working threads are all
  that have not ended after it. A worker is let go when the flag is set and not
  when it looks, which is what makes an early wake-up harmless.
* `NobodyWaitsForEver`: see below.

`SumTheorems` is what these proofs need of a fold of `+`. The induction on
finite sets is by a minimal subset without a property (`MinimalSubset`), as the
prover has no induction scheme; then: any element may be taken out first
(`TotalRemove`), a sum follows a change of one value (`TotalOfChange`), is
linear and monotonic, and the sum of n squares lies between an n-th of the square
of the sum, which it equals exactly if all values are the same, and that square
(`MeanOfSquares`, `SquaresBelowSquare`).

`PingPongProofs`, for every number of iterations and any set of methods:

* `TokenInvariant`: the inductive invariant `PingPongInv`. `SampleOfItsRound`
  speaks of the parent at the head of its loop only; what carries over a round
  is how many turns each side has counted for every place of the token
  (`InPipes`, `InMemory`, with the times that the child has stored, `Written`), and how the two processes begin (`Begun`), which is
  what makes a child's death without a failed pinning impossible.
* `TypeCorrect`, `SamplesMatchRounds`, `NoIterationIsCut`: read off it. Of the
  shared-memory method `SamplesMatchRounds` says no more than that its times never run
  ahead or back.
* `OneTokenToAndFro`: `Spec => ImplementsHandoff`. Four actions move the token;
  all others leave it and the count of rounds alone.

`LockAnalyzerProofs`, for every number of workers, any set of classes and any
spinning limit: `AnalyzerInv` has the records of the four sound locks (`Recorded`)
and, for `AdaptiveMutex`, the little that is true of it (`AdaptiveRecords`): its
word says "taken" only while somebody is inside, and its mutex belongs to
somebody who will unlock it. `DataIsProtected` is exclusion for all others;
`FreeWhenDestroyed` includes `AdaptiveMutex`: when all workers are done nobody
is inside, so neither half is taken. `TheAnalysisAddsUp` needs nothing of the locks,
since all counters are atomic: `CountInv` follows each worker from its
acquisition to the last of its counters. `LocksImplemented` is the refinement of
`AbstractLock` by the others: whoever finds the lock free meets nobody, or as a
reader only readers (`TakesAlone`), and one worker enters or leaves at a time.

`DiskIOProofs`, for every number of threads, files of any length, any number of
failures and operations:

* `TypeCorrect`, and `DiskInvariant`: that a thread works only when all have come is
  inductive together with the meaning of the barrier's count, the number of those
  who sleep (`SleepersCounted`, not so on macOS, where waits end by themselves). When
  the count is one short of the threads, the one that arrives finds all others
  asleep, so nobody is missing.
* `TheyStartTogether`, `OneThirdIsWritten`, `OffsetsStayWithin`,
  `ThreadsEndFirstOrLeftEarly`: read off it. The mixed pattern is arithmetic: the rounded third grows by one exactly
  at every third operation.
* `ThreadsEndFirstOrLeftEarly` is not that main frees when all threads have
  ended, which is false; it is that otherwise the round was left early, with the
  threads of lower indexes on their way to the barrier (`EndsQuietly`).
* `FilesAreRemoved`: as long as there is a round to do, the last one removes the files
  (`LastRemoves`), by inspection of every test's rounds (`TestsRemove`) and because
  taking off the first keeps the last.
* `BarrierImplemented`: the barrier of Linux and of C++ implements
  `AbstractBarrier`. `LastToArrive` is the step that matters: the count is one short
  of the threads exactly if all others are asleep. The next meeting finds nobody at
  work since `Cleanup` comes after the joins.

`NetworkEchoProofs`, for every message size, number of messages and size of
the buffers, both programs, all tests and protocols: `NetInv` says where server
and client may be while the connection is in each of its states (`ServerAt`,
`ClientAt`), that an event which epoll has reported still tells the truth when
it is handled (`EventsAreTrue`), where the units of the current message are
(`OnTheWire`), and how the totals of both sides follow from it (`Units`). Its
parts depend on each other: `accept` is right since the event is, an echo never
finds the buffer full since the current message is all there is, and the client is there
since it waits. `EchoesMatch`, `WholeEchoes`, `ServerHasItsClient` and `CountsMatch`
are read off it. `NoEventIsMissed` is the other half of `EventsAreTrue`: with epoll,
whatever waits to be handled has an event, because an event is forgotten only when
the server has read all there was. `MeetingImplemented` is the meeting of the two
threads of the C program as an `AbstractBarrier`, whichever set-up call fails: in
each step one of the two moves on its side of the barrier or arrives (`OneMoves`).

`SchedulerProofs`, for every number of threads and any size of pipes, rounds and
batches: `SchedulerInv` relates what a worker has published, what it has still to
publish and what it has done; what is local is less than a batch wherever the
code publishes a whole batch, which is why nothing is lost there
(`NothingIsLost`), and only `memory_intensive_work` is exempt.
`PipesDoNotFill` and `ReportsAreFinal` are read off it. `TheReportIsRight` is about
sums: `UsageInv` says what a C++ thread that asks for its usage is told (no less
than its own operations, no more than everybody's, and the last of them
everybody's), `ReportInv` that the report is made of Jain's indexes of counters, and of what the
threads were told, which no longer change. That the index lies between 1/n and 1, and is 1 exactly if all
have done the same, is `MeanOfSquares`; that its terms are natural numbers
completes `TypeCorrect`.

`MemoryToolsProofs` has one theorem for each pair of programs, from
`ToolsAssumption`. A step of `MemoryTools` is one of the program that runs, or
leaves its variables alone (`ProgramsRunAlone`), so each has an invariant of its own.

* `ExplorersAreRight` (`VmInv`), for every size of the shared memory and of the
  lists, and whatever fails. `MemoryInv`: the parent's memory, and the child's outside
  of its half, are as they were at the fork. `PipeInv`: what was read followed by what is in the pipe
  is what the child has sent, or there is no channel and a call has failed.
  `BlocksInv`: what is allocated is a beginning of the list of the current case, so
  that freeing all of it leaves nothing. `OutputInv`: every line before the current
  fork is written or still in the buffer, and has been copied by no more children than have
  exited. `WalkComesBack` is about functions alone: those of
  `PointerChase` that are recursive exist (`RecursionExists`), an exchange of two
  successors leaves a permutation (`SwapKeepsOrder`), and on a permutation a walk
  returns: the first node that it meets twice is the one where it began (`WalkReturns`).
* `AnalyzersAreRight` (`CacheInv`), for every number of threads, increments,
  accesses, ints per line and nodes. `CacheGroup` is the barrier, which the C program
  does not initialise again for its second group: with pthreads it counts
  exactly those who wait, so the last to arrive releases all
  (`LastOneReleasesAll`), and a group starts with nobody left behind. `CacheCounts`:
  each cell is what its thread has counted, the common cell of the C++ program is
  the sum over all of them. Estimates add up because
  the rates of every table do (`RatesAre`), rounding down included (`HitsAreAPart`);
  the list is a ring since a walk along an order comes to its places one after
  the other (`ChainGoesRound`).
* `BenchmarksAreRight` (`AllocatorInv`), for every number of groups of threads,
  blocks, rounds and iterations, and any sizes. `Sound` is the loop invariant of a thread: its
  statistics are the `Books` of its blocks (as many allocations and bytes as blocks
  made, in C once more for each block freed), nothing beyond the current
  iteration has been touched, and between allocation and free the last block is
  live. That the C++ count never wraps, though the size of another block is taken
  off, is since that size has just been added. `AllocGroup` is who may be where when
  main is where it is, `Fragments` relates the heap of the fragmentation
  test to the global count, `Figures` what is printed to the global statistics. It
  does not say that the drifting count of `speed_test` or the summary of `-t all` is right.

**Nobody waits for ever.** That a program ends has two halves. One is scheduling: a
thread that can go on does so some time. The other is safety: there always is one. The
second is proved, for every number of threads and all other constants, by a theorem
`NobodyWaitsForEver` in each of the six modules of processes and threads. As
`ENABLED` is out of reach, each states the conditions under which a thread
is not held up as a predicate of its own (`CanGoOn`, `MainCanGoOn`, …), read
off the guards of its actions. What the theorems rest on beyond the invariants above:

* `LockContention`: nobody sleeps at an open gate, and the flag is up when main joins
  (`WakeInv`); a lock that is taken has a holder (`Recorded`, `UnusedInv`), who can
  go on. An incomplete herd, the case of a failed creation, is excepted.
* `LockAnalyzer`: the same of each class (`StopInv`); whoever waits for the fallback
  mutex of `AdaptiveMutex` waits for somebody on the way to its unlock.
* `DiskIO`: as long as no call fails whose failure the programs do not look at, every
  thread of a round is created and finds its file, and the arrivals are all counted,
  the threads that the shim let go early included (`GoesWell`).
* `NetworkEcho`, for TCP: the meeting is complete or somebody is still on the way to it
  (`GoesOn`), a client that waits for an echo has one coming (`Exchange`, `Units`), and
  a server has an event for what waits (`NoEventIsMissed`). A failed set-up, and an echo of which
  a part was dropped, are excepted: there the client may wait for ever.
* `PingPong`: one of the two has the token, the other's end is told by the end of the pipe
  or by `done`; the failed pinning that leaves the other side behind (`LeftBehind`) is part of the claim.
* `Scheduler`: a pipe has room whenever its writer comes to it, and the flag is up
  before main joins (`JoinInv`); a thread without a pipe may be at standard input.

**Only model-checked.** Liveness itself (`Terminates`, `BothEnd`, the temporal
violations), which needs fairness and is out of the prover's reach. All invariants of
the passing runs, and the two refinements among their properties, are proved. Induction is
available only for given sets (of finite sets, of numbers), not for a predicate, so
that each proof by induction says of which set it shows that it is everything
(`InductionOnNat`, `SubsetInduction`).

## 6. What is left

* `AbstractBarrier` for `CacheTool` and `Allocator`, whose groups have a different
  number of parties one after the other; `LastOneReleasesAll` and `AllocGroup` say of them what
  matters.
* That the tools of `MemoryTools` never all wait, which only `Terminates` checks so far.
* Failing `select`, `epoll_wait` and `accept` in `NetworkEcho`. The loops leave with an
  error of `epoll_wait`, which makes the client wait for an echo that never comes.
* `container_test` and `custom_allocator_test` of the C++ allocator benchmark.
* Hazards in `PROJECT.json` that have a note instead of a property.

## 7. Not modelled

* Times, rates, latencies, histograms of them, and the advice derived from
  them: floating-point arithmetic, printed and used for nothing else.
* Page faults, huge pages, cache lines, the disk's own caches: behaviour of
  kernel and hardware that the tools measure and do not decide. (Copy-on-write is
  in `VmExplorer` as far as parent and child can tell it from copying.)
* The access loops of the cache and memory tools, `prefetcher_analysis`,
  `container_test` and `custom_allocator_test`, which run in one thread, share
  nothing and keep nothing but a time.
* `pointer_chase_test` of `cache_analyzer.c` (437–502), which nothing calls. Its
  successors are drawn independently, so the walk would soon turn in a small cycle.
* Floating-point statistics (mean, deviation, percentiles, coefficient of
  variation), and the signal handler of the memory explorers, whose flag nobody reads.
* Errors of `select`, `epoll_wait` and `accept`; more than one connection (no test
  opens a second one).
* Command-line parsing, the Makefile, the documentation.
