# Formal models of mr-lib

mr-lib runs a MapReduce job on one machine. `mr_start` forks a mapper and a reducer
process and connects them with pipes: main sends lines to the mapper, the mapper's worker
threads send `<token, value>` pairs to the reducer, the reducer groups them and its worker
threads send results back to main. This directory holds TLA+ models of the code under
`src/src`, the TLC runs that check them on small instances, and TLAPS proofs of the safety
properties of all of them, which hold for instances of any size.

## The system

| Component | State | Operations | Interacts with |
|---|---|---|---|
| queue (`queue.c`) | buffer, count, capacity, closed, mutex, two condition variables | init, push, pop, close, destroy (is_closed, is_empty: no callers) | shared memory between the controller and the workers of one process |
| mapper process (`mapper.c`) | queue, worker threads, `stdout_mutex`, `pairs_count`, receiver | controller: receive, push, close, join; worker: pop, call the user's mapper; `mapper_emit` | reads stdin from main, writes stdout to the reducer, calls back user code, logs |
| reducer process (`reducer.c`) | hash table of token nodes, queue, workers, `results_count` | collect to end of file, push nodes, reduce, emit | reads stdin from the mapper, writes stdout to main |
| core (`core.c`) | three pipes, two pids | pipe, fork, close, dup2, send, receive, waitpid, and a hand-written undo for each | the kernel; both children |
| wire protocol (`protocol.c`) | frames, file state of the line receiver | send and receive of files, lines, pairs, results | pipes |
| log (`log.c`) | a `FILE*` and a named semaphore | init, log, destroy | shared by all threads and processes of all jobs on the machine |
| public API (`mr.c`, `mr.h`) | attributes, handle | attr_init, setters, create, start, destroy | core |

What is hard here:

* *concurrency*: threads around a mutex and two condition variables, woken one at a time;
  several writers on one pipe; three processes that end each other by end of file;
* *failure*: every C11 and POSIX call is checked, so there is an error path behind every
  line, and most of these paths were never executed by a test. User callbacks fail too;
* *ordering*: close against sleeping consumers, join against destroy, and the descriptors a
  child inherits against the end of file somebody else waits for;
* *bounds*: a bounded queue behind a bounded pipe behind another;
* *the machine*: reads and writes of any length, processes that die inside a frame or with
  the log's semaphore, and a semaphore whose name all jobs share.

What makes each part correct: the queue hands over each element once, loses no wake-up and
says "closed and empty" only at the end; the mapper gives every line one fate, keeps frames
whole and exits; core returns, with every child waited for and every descriptor
closed, and returns 0 only when the job was done; the protocol delivers messages whole and
in order and tells the end of the stream from a cut; the log writes whole lines and lets
nobody wait for good; the API frees memory once and runs a job with what it was created with.

## Modules

| Module | Models | Lines of code it stands for |
|---|---|---|
| `AbstractQueue` | what `queue.h` promises: atomic Put, Take (LIFO), Close, End | `queue.c` |
| `MrQueue` | the queue, one step per mutex or condition-variable call, and its client threads | `queue.c`, the loops of `mapper.c` around it |
| `QueueCalls` | the same operations as the processes call them: who sleeps on which condition, and what a call that fails half-way leaves behind | `queue.c` |
| `MrMapper` | the mapper process, on top of `QueueCalls` | `mapper.c`, the frame writer of `protocol.c` |
| `MrReducer` | the reducer process, on top of `QueueCalls` | `reducer.c`, the result writer of `protocol.c` |
| `AbstractJob` | what `mr_start` promises: send, map, collect, reduce behind a barrier, receive, return | the main steps of `mr_run` and its children |
| `MrCore` | main, mapper and reducer as programs of system calls over three pipes | `core.c`; the bodies of the children in outline |
| `MrProtocol` | one pipe byte by byte, in each of its three uses | `protocol.c` |
| `MrLog` | the log file and its semaphore under several jobs | `log.c`, `mr_run` around it |
| `MrApi` | attributes, handles and their memory under any caller | `mr.c`, `mr_init`, `mr_cleanup` and the checks of `core.c` |
| `MrQueueProofs`, `MrMapperProofs`, `MrReducerProofs`, `MrCoreProofs`, `MrLogProofs`, `MrApiProofs`, `MrProtocolProofs` | the proofs, each about the module it extends | |
| `MCQueue`, `MCMapper`, `MCReducer`, `MCCore`, `MCProtocol`, `MCLog`, `MCApi` | the instances for TLC (tokens and buckets, inputs) | |

How they fit together: `QueueCalls` extends `AbstractQueue`, and `MrMapper` and `MrReducer` use it
by INSTANCE; `MrQueue` is shown to implement `AbstractQueue`, and `MrCore` to implement
`AbstractJob`, by TLC on an instance and by TLAPS for all. What `QueueCalls` adds (the sleepers and
the failures) is read off `queue.c` like `MrQueue` and not derived from it. `MrCore` takes messages as units, which `MrProtocol` justifies
(`InOrder`) and limits (a sender that dies inside a frame). A log call is one step that may
fail in `MrMapper`, `MrReducer` and `MrCore`; `MrLog` shows when such a call returns at all
(`EveryJobEnds`). `MrApi!HandlesValid` is what the ASSUMEs on `Capacity` and on the sets of
threads stand for. `PROJECT.json` maps each definition to its lines.

### MrQueue

A thread's control point `pc` is the call it is about to make: `lock` (mtx_lock), `check`
(the while condition, mutex held), `wait` (inside cnd_wait), `relock` (woken, before
cnd_wait has the mutex back), `signal`, `unlock`. cnd_wait's release-and-sleep is one step,
as C11 requires. Each call may fail (`Fail`, at most `MaxFaults` in a behaviour, unbounded
in the proofs as `MaxFaults` is any natural number); a sleeping thread may wake up for no
reason (`Spurious`). The buffer is kept as memory: popping lowers `count` and leaves the
slot's content in place. `pushed`, `popped`, `delivered` and `ended` are histories.

The clients are those of `mapper.c` and `reducer.c`, with any number of producers instead of
one: they push until nothing is left and free an element whose push did not return 0; the
workers pop until pop returns something else than 0; the closer waits for the producers,
closes, joins the workers and destroys the queue.

### QueueCalls

A call is one step, its critical section. `idle` and `asleep` are the threads inside cnd_wait, who
can do nothing until they are woken, by a signal or for no reason. A call fails in three places
that differ in what they leave behind: before its section (the queue as it was), in cnd_signal or
cnd_broadcast (the queue changed, nobody woken), in mtx_unlock (the queue changed, the mutex
locked for good: `jammed`). Left out is a second failure inside one call, of the mtx_unlock on
an error path.

### MrMapper

The controller's control points follow `mapper_process_main` (start, create, recv, push,
close, join, finish; shut and abort for a failing thrd_create). A worker pops, is inside the
user's mapper, or inside `mapper_emit` (lock, three writes, count, unlock). The user's mapper
is the environment: up to `MaxPairs` emits a line, and it may return -1. A frame is three
writes, and `out` records who wrote which part, so that interleavings are visible. The macro
`SYSCALL_EXIT_CHECK` is expanded as the compiler does: with `break` in its command block
(mapper.c:182) it leaves its own `do while (0)` and the receive loop goes on. A push, pop or close
fails before its effect on the queue or after it (`push`, `push_signal`, `push_unlock` and so on
are kinds of their own), and each of them is a step of `QueueCalls` of its own. `Stuck` lists how the
threads can come to wait for each other for good. One of these ways is worth a word: a worker that
cnd_signal has woken may come back from cnd_wait with an error and leave; the wake-up is spent on
it, and the other workers sleep on beside a full queue.

### MrReducer

The collection phase is single-threaded: `Collect` is the loop's body (`FindOrCreate`,
`AddValue`), and the three error paths before the push loop meet in `CtlClean`, which is
cleanup_hash_table. In the push loop `CtlVisit` reads node->next, `CtlPush` pushes, `CtlBucket`
goes to the next bucket; its error path is `CtlPushShut` and `CtlGiveUp`. A node is named by its
token and `freed` counts how often it was freed, by whom does not matter. Workers are those of
`MrMapper` but for two points of the code: a failing user reducer does not end the worker, and
the worker frees what it popped. `hash_function` is the constant `Hash`, the first size of a
values array (8) the constant `InitialCapacity`. On error paths thrd_join is not checked; it is
taken to wait.

### MrCore

Each process is a sequence of operations (`MainProgram`, `MapperProgram`, `ReducerProgram`)
and `Cleanup` tabulates, for every step of main, the children its command block kills and
waits for and the descriptors it closes. `fds` are the descriptors pipe() returned, copied by
fork; `std` those installed by dup2. A pipe holds `PipeCap` messages; it gives end of file
when no process holds its write end, and a write without a reader kills the writer. A child
whose first log call fails returns into the user's program (`escaped`), after running main's
error path itself. Messages are counted, not told apart. The body of a child is an outline of
`MrMapper` and `MrReducer`: it may fail; workers may leave with the line or the result they were at
(`WorkerLeaves`), after which the mapper goes on reading until its queue is full and then blocks,
or ends with EXIT_SUCCESS; or its threads may come to wait for each other (`BodyHangs`). That it
does nothing else is `ExitsUnlessStuck` of those modules.

`ImplementsJob` reads `AbstractJob` off this state: the counts are the histories of `MrCore`,
`broken` is a failed call or a child that ended badly, `state` is what the caller of mr_start
sees. The abstract job forbids a result before all pairs are collected, a pair collected after
the first result, and a return of 0 that lacks results which were made; once something is
broken it may stop early but still invents nothing.

### MrProtocol

The channel ("lines", "pairs" or "results"), the build (NDEBUG or not) and the input are chosen
in Init. A frame is a header of two cells and the parts whose lengths it gives; a cell stands
for some bytes and carries its place in the input, so that the receiver's view can be compared
with what was sent, while the receiver itself goes only by the order of cells. `WriteCall` and
`ReadCall` are one iteration of write_n and read_n and move any number of cells. The sender
walks the entries of a directory (`NextEntry`); it can fail between frames (`FileFails`), in a
write (`WriteFails`: main gives up, mapper and reducer leave the frame unfinished and may emit
the next one, as mapper_emit and reducer_emit do) or die anywhere. A header that is short or
out of step is used as it is (`UseGarbage`): lengths are any value the variable may have held,
which is what the code makes of an uninitialized or partly filled structure. Only
receive_output_from_reducer compares counts, and only by assert.

### MrLog

A job is a program that calls mr_run, perhaps again. Its main opens the log, logs, forks a
child whose threads log (it stands for mapper and reducer, which do the same with the log),
waits, logs the status and destroys the log; all jobs name the same file and, as MR_LOG_SEM_NAME is a
constant, the same semaphore. `name` is what the name denotes, `value` the semaphores ever
created: sem_unlink removes the name and leaves the semaphore to those who have it open. stdio
is a buffer for each process, copied by fork, written out by fflush and fclose, or earlier when
it fills up; of the file only the last fragment is kept, and `torn` says whether some line was
interrupted. A child that is killed inside mr_log leaves its semaphore at 0 (`orphaned`).

What a failing log call does depends on who made it (`Return`). Main gives up: it kills the child,
waits for it and destroys the log. A child's first call returns, through spawn_processes, into
mr_run (core.c:69-76, 187-196): the child logs that too (`escaping`), destroys the log, which removes
the name its main and others use (`ChildUnlinks`), and goes on in the user's program (`escaped`),
which may never end; main meanwhile waits for it. A later call ends one worker (mapper.c:79), and
workers that left may leave the controller blocked in mr_queue_push (`hung`), while other threads
go on logging. A child may also leave its threads behind inside mr_log: by a signal, or by _exit
after a failing close or join (`ChildDies`). Not followed are the user's program in an escaped child,
and that an escaping reducer kills the mapper on its way (core.c:378, in `MrCore`). sem_unlink
fails only when there is no such name.

### MrApi

The caller may call any function in any order, write into the public structure mr_attr_t and
into the buffer whose address it passed to mr_attr_set_log_file. It is careful in one respect:
handles start as NULL, and it calls mr_destroy once after each mr_create, whatever that
returned. malloc and strdup return any block that is not in use, one that was freed before too, so a
handle that points to a freed block may point into the memory of another handle. `crash` is
set by a use or free of a block that is not allocated; since free of a stale handle may hit a block
that is another's, `gaps` records at once which of two known ways led there.

## Runs

| Run | Checks | Result |
|---|---|---|
| `queue` | refinement of `AbstractQueue`, exactly-once delivery, no lost wake-up, lifetime, all with a failing call; delivery of everything when none fails | hold |
| `mapper` | one fate per line, whole frames, counters, lifetime of resources, failed creation, success is complete; whatever fails, and on whichever side of its effect, the process exits or is `Stuck` | hold |
| `mapper_hang` | the process exits, also when the user's mapper fails in every worker | violated |
| `mapper_exit` | EXIT_SUCCESS means every line was given to a mapper | violated |
| `reducer` | pairs are grouped, groups are complete when reduced, nodes are freed once and not used afterwards, frames are whole; whatever fails, and on whichever side of its effect, the process exits or is `Stuck` | hold |
| `core_faults` | refinement of `AbstractJob`; descriptors and children at the return of mr_start; no process stays blocked unless a log call failed or the body of a child is stuck | hold |
| `core_sigpipe` | mr_start returns when the mapper process fails | violated |
| `core_status` | 0 means both children succeeded | violated |
| `core_zombie` | every child waited for, on error paths | violated |
| `protocol` | messages whole, in order, with their file and line number; an honest end of stream; assertions that only fail when the sender did; the receiver stops | hold |
| `log` | the semaphore is conserved, lines are in one piece, the name is removed, quiet jobs succeed; nobody waits in the log for good, every job ends | hold |
| `api` | jobs run with valid attributes and the log file of their creation; no invalid use of memory; no leak | hold |

In each module but `MrQueue` the type invariant `TypeOK` is checked as part of the property
whose name ends in `Consistent` (`PipeConsistent`, `TableConsistent`, `EndsConsistent`,
`StreamConsistent`, `SemConsistent`, `JobsConsistent`), next to the invariant on the state it
is about. That mr_start returns 0 with a complete result when nothing fails follows from
`ImplementsJob` (which forbids anything else) and `EveryoneEnds`.

The five violated properties state a sentence of `mr.h`, `mapper.h` or `docs/Relazione.tex`;
`PROJECT.json` ("findings") quotes it and says what the code does instead.
`ErrorIsClean` holds with the exceptions it names: after a failing second fork main keeps the
read end of main_to_mapper (core.c:369-383), and after a failing first close it does not wait
for the reducer (core.c:390).

Properties that hold only outside the cases they name. But for the one of `ReceiverEnds`, each
exception is reached in the run: without it TLC finds the property violated.

* `TokenConserved`, `LinesWhole`: after a failing fflush the semaphore is posted twice
  (log.c:84-89), so two processes write at once; after a failing fprintf the buffered half
  line stays.
* `QuietJobsSucceed`: of two jobs that overlap, the first to end removes the name, and the
  other one's sem_unlink fails: its mr_start returns -1 although nothing went wrong. A job
  that starts in between gets a semaphore of its own, which is the exception `split` of
  `LinesWhole`.
* `EveryJobEnds`: a child killed inside mr_log, by main's SIGTERM too, never posts. Main of
  the same job does not log again on that path, but jobs that share the semaphore wait for good.
  A job whose main waits for a child that is not in mr_log at all, because it hangs for want of
  workers or runs the user's program, is not the log's doing and named in the property.
* `EndIsHonest`: receive_pair_from_mapper hands on a truncated pair as a whole one.
  With NDEBUG the mapper may also go on with lines nobody sent (`ReceiverEnds`; in the instance
  `MaxNumber` ends that).
* `NoCrash`: log_file = NULL in mr_attr_t, which `mr.h` allows ("or NULL to use the default
  name") and only mr_attr_set_log_file replaces, reaches strdup; mr_destroy after a failed
  mr_create frees again what mr_create freed, or what an earlier mr_destroy freed, and by then the
  block may belong to another handle. `JobsConsistent` ends with the first of these gaps.
* `ExitsUnlessStuck` (of both processes): all workers have left and the controller waits for room
  (`mapper_hang`); a cnd_signal failed, or the thread it woke left, and controller and workers sleep
  on both sides of the queue; mr_queue_close failed on an error path that does not look at its
  result, and workers wait on; an mtx_unlock failed and somebody waits for that mutex. `Stuck` says
  in each case who waits where.
* `EveryoneEnds`: a failing log call can send a child into the user's program, and a body that is
  `Stuck` keeps main waiting.
* `FreedOnce`, `LiveWhenUsed`, `LineInOnePlace`: a push that fails after the insertion (queue.c:72, 76)
  returns -1 for an element that is in the queue, and the caller frees it (reducer.c:330 reads the
  node, too) although a worker frees it as well.
* `NothingLeaks` (reducer): a worker that leaves early keeps what it popped, and one that was not
  joined what it works on.

### Bounds

* Queue: two producers and two consumers are the least at which a wake-up can go to the wrong
  thread of a kind; three elements on capacity 1 make both kinds wait and a slot be reused.
  The proofs remove the bounds; what they do not cover (`Drained`) depends on full and empty
  queues, which capacity 1 has at every step.
* Mapper: two workers contend for the mutex and the queue; two lines on capacity 1 put the
  controller to sleep behind a full queue, and two pairs a line give frames of one worker before and
  after another's. Two faults allow a failing call and one on the error path behind it, such as the
  mr_queue_close after a failing thrd_create. The hang of `mapper_hang` needs one line per worker, one
  in the queue and one in the controller's hands: four; `mapper_exit` needs a third line, left in the
  queue.
* Reducer: three tokens in two buckets give a chain of two nodes and a bucket behind it; two
  values for one token and `InitialCapacity` 1 make the array grow; capacity 1 makes the push
  loop wait while workers free nodes. Tokens arrive in every order; two pairs of one token
  differ in nothing but their names, and `NextPairs` looks at one order of them.
* Core: five messages over pipes of capacity 2 and a mapper that holds two lines: every writer
  blocks at some time. Three faults cover a failing child, a failing call of main and one more, for
  example two workers that leave.
* Protocol: a pipe of three cells is less than the longest frame, so a frame is always divided.
  Two entries give a second file, an empty one, and a skipped one before or after it; lengths 0, 1
  and 2 give absent, undivided and divided parts. Two faults: a write that fails and a death.
* Log: two jobs overlap or follow each other, with the same semaphore or, after the first has
  unlinked the name, with a second one; main and child of each make four loggers, and a child logs
  twice. Two semaphores in use at once need a child that escapes, or three runs; the latter, and
  any number of threads, are left to the proofs of the invariants.
* API: two handles and four blocks, two for each: a block is handed out again while a stale handle
  still points to it and the other handle is alive; sizes 0 and 1 are the two sides of the check.

The run `api`, which checks invariants only, uses the symmetry of handles and of blocks; most
others check temporal properties. `CHECK_DEADLOCK FALSE` is
set where a failing call can leave the mutex locked or a thread asleep (queue, mapper, reducer),
where main waits for a child that returned into the user's program or is stuck (core), where
a job waits for an orphaned semaphore (log) and where the program has crashed (api).

### Fairness

Weak fairness of each thread (queue), of each process (core, protocol) or only of all of them
together (mapper, reducer, log): the kernel schedules whatever can run, or, in the weakest form, it
runs something as long as anything can run, which is enough where the amount of work is finite. A
thread that waits for the mutex or the semaphore is enabled whenever it is free, so the liveness
results do not rely on a fair mutex. Only steps that leave the fault budget alone are fair: no call
is ever forced to fail, no thread to wake up spuriously. In `MrMapper` fairness
includes that main eventually sends or closes and that the user's mapper eventually returns. In
`MrMapper` and `MrReducer` a thread asleep in cnd_wait has no step of its own, so fairness does
not wake it. In `MrLog` nothing makes the user's program in an escaped child end.

## Proofs

The safety properties of all seven modules that model code are theorems, `THEOREM Spec => []P`, for every value of
the constants that their ASSUMEs allow. The bounds of the runs on failing calls
(`MaxFaults`), on pairs, results, lines and runs are any natural numbers there, so a proof
covers every finite number of failures.

| Module | Theorem | Property |
|---|---|---|
| `MrQueueProofs` | `TypeCorrect` | `TypeOK` (count within the buffer) |
| | `DeliveredOnce`, `NoneLost`, `FreedIsOut` | `ExactlyOnce`, `NothingLost`, `FreedNeverQueued` |
| | `ConsumersWoken`, `ProducersWoken`, `CloseWakesAll` | `NoSleepingConsumer`, `NoSleepingProducer`, `NoWaitAfterClose` |
| | `WakeupsSuffice` | `NoLostWakeup`, the three together |
| | `EndIsFinal`, `DestroyIsLast` | `EndMeansDrained`, `DestroyedUnused` |
| | `Refinement` | `Implements`: it is an `AbstractQueue` |
| `MrMapperProofs` | `EveryLineOnce`, `SuccessMapsAll` | `LineInOnePlace`, `SuccessIsComplete` |
| | `PipeInStep` | `PipeConsistent`: types, whole frames, `pairs_count` |
| | `NothingUsedAfterDestroy`, `AbortIsSilent` | `DestroyedUnused`, `AbortEmitsNothing` |
| `MrReducerProofs` | `TableGroups`, `ReduceIsLast` | `TableConsistent`, `ReducedAfterAll` |
| | `NoDoubleFree`, `NoUseAfterFree`, `NoLeak` | `FreedOnce`, `LiveWhenUsed`, `NothingLeaks` |
| | `ResultsInStep`, `SuccessReducesAll` | `FramesWhole`, `SuccessIsComplete` |
| `MrCoreProofs` | `EndsInOrder` | `EndsConsistent` |
| | `OkLeavesNothing`, `ErrorLeavesLittle` | `OkIsClean`, `ErrorIsClean` |
| | `Refinement` | `ImplementsJob`: it is an `AbstractJob` |
| `MrLogProofs` | `SemaphoresKept`, `OneWriter` | `SemConsistent`, and mutual exclusion in the file |
| | `LinesInOnePiece`, `QuietJobs`, `NameIsRemoved` | `LinesWhole`, `QuietJobsSucceed`, `NameRemoved` |
| `MrApiProofs` | `HandlesKept`, `MemoryValid`, `MemoryReturned` | `JobsConsistent`, `NoCrash`, `NothingLeaks` |
| `MrProtocolProofs` | `StreamIsConsistent` | `StreamConsistent` (types, and delivery in order) |
| | `EndsHonestly`, `AssertsAlwaysHold` | `EndIsHonest`, `AssertsHold` |

### Assumptions

They are the ASSUMEs of the modules, and TLC evaluates them in the runs: threads, workers and
jobs are finite sets; a value that stands for "nobody" or for a null pointer (`None`, `NULL`)
is not also a thread, an element, a semaphore or a block; a job's child has at least one thread that
logs; capacities and the size of the table
are at least 1 (`mr_attr_check`, `MR_REDUCER_HASH_TABLE_SIZE`); bounds are natural
numbers. The sets of lines, tokens and pairs need not be finite, and `Hash` is any function to
the buckets. The inputs of `MrProtocol` are any sequences of entries of the two kinds a directory
has, or of calls of emit, whose parts have at most `MaxLen` cells.

### The arguments

None of the properties is inductive by itself. Each module defines an inductive invariant
`IInv` as a conjunction of named parts, proves that Init establishes and every action
preserves it, one lemma per part or per group of actions, and derives the properties.

*Queue.* Even the types are not inductive: what is inserted could be None without knowing
that a running push has an element. `IInv` adds, in this order: `Roles` (who can be where),
`Mutex` (a thread between lock and unlock holds the mutex, and nobody else does unless an
unlock failed), `Phases` (the closer starts when all producers are done), `Ownership` (the
element of a running push belongs to nobody else and is not yet in the queue), `Stacked` (the
live slots enumerate without repetition what was pushed and not popped), `Carried` and
`Accounted` (elements between the buffer and a worker), `Woken` and `Ended` (element-wise
forms of two properties). The two wake-up properties count threads: each step changes
`ElementsAwaited` by at most one thread and `count` by at most one. The refinement maps the
live slots to a sequence; insertion is Put, removal Take, setting the flag Close, the decision
to return 1 End, and every other step is invisible.

*Mapper and reducer.* A frame is three writes under `stdout_mutex`, so that the frames are
whole is a fact about the length of `out`: with `Locked` (who is between lock and unlock holds
the mutex), `InStep` says that `out` is three times the count, plus the parts of the one writer
inside. `Phases` ties the controller's point to what it has done so far. In the mapper,
`Partition` and `Distinct` say that the seven places of a line are disjoint and together are
all lines: each step moves one line between two of them. In the reducer, `Grouping` and
`Chains` are about the table, and `Loop` about the walk over it: what has been accepted by the
queue is exactly the nodes before the cursor, in the order of buckets and chains. `Owned` says
that an accepted node is queued or taken and that a taken node has at most one holder; `Life`
gives every token its count of calls and frees. Double free, use after free, leaks and
completeness follow from these, up to a push that failed after its insertion, from where on
nothing is claimed of the node in question (`PutThenFailed`). The error paths free what is in front of the cursor, and a
worker that ends early keeps what it popped, which is why `NothingLeaks` names the calls it
names.

*Core.* The ends of pipes a process holds are a function of the step it is at (`MainEnds`,
`MapperEnds`, `ReducerEnds`), and whether a child exists, has ended or was reaped goes with
main's step (`Stages`). From these, end of file on a pipe means that its writer is through;
`Counts`, `Passed` and `Unbroken` say what was then sent, mapped and collected. `ErrorIsClean`
needs what main's command blocks close and kill on each of its steps, which the lemmas read
off `Cleanup`. In the refinement the first failing call, and a return or end of main that comes
of a failure, are Break; main's last step is ReturnOk; messages moved are Send, Map, Collect,
Reduce and Receive. The abstract barrier, the guard of Reduce, holds because the reducer emits
only after end of file, which while nothing failed means that the mapper is through
(`Unbroken`). Everything else is invisible.

*Log.* For each semaphore, its value and the number of those inside mr_log add up to at most
one (`Bounded`), until a failing fflush posts it twice, so that the value stays in its type
because every extra token costs a fault. `Alone` and `Agreed` say which jobs see the
same semaphore: jobs that overlap do unless one of them opened the log after another had
removed the name. That the name is there for a job nobody overlaps (part of `Alone`) is claimed only
while no call failed, as a child that escapes removes it too. In a log where nothing went wrong, `Lines` knows for the one logger inside
how much of its line is in the buffer and how much in the file, whatever stdio wrote out
early.

*API.* Structures and strings come in pairs (`Paired`) and each structure belongs to a handle whose
mr_create returned 0 (`Reached`); these hold whatever the caller does, also when a stale handle
destroys what is another's. Until a gap is met such a handle has a structure of its own, with its own copy of the
name and sizes that passed the check (`OwnCopy`).

*Protocol.* The receiver goes by the order of cells alone, so the invariant is about that order.
`Chain` says that the cells read of the current part and those in the pipe (`Flow`) lead from
the receiver's position in the input (`Here`) to the sender's (`pos`, `off`) without a gap:
cells of a part follow each other (`Run`), the last cell of a part is followed by the first of
the part after it (`After`), and between two parts nothing lies but skipped entries (`Same`).
`Progress` says that what was delivered is the input before the receiver's position, with
`finished`, `file` and `number` as they have to be there. A part read in full is therefore the
one that was sent (`GotPart`), and a part can come up short only if the sender died
(`OnlyDeathCuts`). From then on `Cut` holds: the pipe is empty, nothing more arrives, and what
is handed on is damaged. `Stream` is the choice between the two while no write has failed;
after a failed write an unfinished frame is followed by the next one and nothing is claimed, as
in the properties themselves. `InOrder` follows from `Stream`, while `EndIsHonest` and
`AssertsHold` speak of a result and are preserved on their own. What the input should become,
`Expected`, is a concatenation over the entries (`FlattenSeq`); `UptoStep` unfolds it one entry
at a time, by an induction over sets of numbers (`Induction`, from the well-foundedness of
`<`), since the library's induction theorems take an operator.

### Only model-checked

* `Drained`, `ExitsUnlessStuck`, `Terminates`, `EveryoneEnds`, `ReceiverEnds`, `EveryJobEnds`:
  liveness under fairness is out of the prover's reach.
* The five violated properties, of course.

## Not modelled

* The bytes: formatting of logs and results, the path handling of the directory walk
  (a path longer than PATH_MAX is cut by snprintf and then not found).
* The memory of the protocol's buffers: which of them an error path frees. The receiver
  returns -1 on each of them and its process ends.
* `mr_queue_is_closed`, `mr_queue_is_empty`: no callers, no effects; `mr_attr_destroy`: no effect.
* The user's mapper and reducer: any behaviour that returns is allowed. `examples/word_count`
  is one such user.
* `include/config.h` holds constants only; the sizes are parameters of the models.
* Data races beyond the C11 calls: every access to shared queue state is under the mutex but one,
  the assertion `!q->closed` in push (queue.c:56), and the only thread that closes the queue is the one
  that pushes.
* A second failure inside one call of the queue (the mtx_unlock of an error path); getline that
  fails for lack of memory, which ends the file as if it were complete (`MrProtocol` takes it for the
  end of the file); sem_unlink failing for another reason than a missing name.
* EINTR, and signals other than SIGPIPE, SIGTERM and those that kill a child (`MrLog`,
  `MrProtocol`).

## Plan

The system is modelled, and every safety property of the passing runs is proved for all values
of the constants; so are the two refinements. What remains to be done:

1. an abstract channel (messages put and taken in order, the end after the last one), which is
   what `MrCore` assumes of its pipes, and `MrProtocol` shown to implement it as long as nothing
   fails: by TLC, then from `Chain` and `Progress`;
2. `MrQueue`, for one producer, shown to implement `QueueCalls` with its sleepers and half-failed
   calls, as it implements `AbstractQueue`, and the steps of the queue's clients in `MrMapper` and
   `MrReducer` related to the client threads of `MrQueue`, so that the three proofs about the queue,
   its use and its users meet in one theorem.
