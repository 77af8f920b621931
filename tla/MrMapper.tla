-------------------------------- MODULE MrMapper --------------------------------
(***************************************************************************)
(* The mapper process of src/src/mapper.c: the controller thread that      *)
(* creates the workers, reads lines from main and pushes them, and the     *)
(* workers that pop lines, call the user's mapper and write the pairs it   *)
(* emits to the pipe behind stdout, one frame of three writes per pair.    *)
(*                                                                         *)
(* The queue is that of QueueCalls.  Main (the sender of the lines), the   *)
(* user's mapper and the pipe are the environment: the mapper may emit up  *)
(* to MaxPairs pairs per line and may return -1, MaxUserFails times in all.*)
(***************************************************************************)
EXTENDS Integers, Sequences, FiniteSets

CONSTANTS
  Workers,       \* the mapper_threads worker threads
  Lines,         \* the lines main sends
  Capacity,      \* queue_size
  MaxPairs,      \* bound: pairs the user's mapper emits for a line
  MaxUserFails,  \* bound: calls of the user's mapper that return -1
  MaxFaults,     \* bound: failing library and system calls
  None           \* no worker, no line

ASSUME WorkersAssumption == IsFiniteSet(Workers) /\ Workers # {}
ASSUME NoneAssumption == None \notin Workers \cup Lines
ASSUME BoundsAssumption ==
  /\ Capacity \in Nat \ {0}
  /\ MaxPairs \in Nat /\ MaxUserFails \in Nat /\ MaxFaults \in Nat

VARIABLES
  stack, accepted, taken, closed, ended,   \* the queue
  idle, asleep, jammed,                    \* who sleeps on it, and a mutex left locked
  ctl,        \* control point of the controller
  res,        \* what receive_line_from_main returned last
  input,      \* lines main has still to send
  line,       \* the line the controller is pushing
  destroyed,  \* queue, stdout mutex and thread arguments were destroyed
  exit,       \* exit code of the process, "none" while it runs
  wpc,        \* control point of each worker
  wline,      \* the line a worker popped
  wpairs,     \* how many pairs the user's mapper has tried to emit for it
  part,       \* how many of the frame's three parts the worker has written
  code,       \* return value of each worker thread
  mutex,      \* holder of stdout_mutex
  out,        \* what was written to stdout: <<line, pair, part>>
  pairs,      \* pairs_count
  mapped,     \* lines whose mapper call returned 0
  refused,    \* lines whose mapper call returned -1
  dropped,    \* lines lost to a failing push or pop
  failed, faultsLeft, userFailsLeft

queue   == <<stack, accepted, taken, closed, ended, idle, asleep, jammed>>
control == <<ctl, res, input, line, destroyed, exit>>
worker  == <<wpc, wline, wpairs, part, code>>
stdout  == <<mutex, out, pairs>>
fate    == <<mapped, refused, dropped>>
budget  == <<failed, faultsLeft, userFailsLeft>>
vars    == <<queue, control, worker, stdout, fate, budget>>

Q == INSTANCE QueueCalls WITH Items <- Lines, Consumers <- Workers

Parts == 3   \* header, token, value: the write_n calls of send_pair_to_reducer_fd

\* A call of kind k fails / every call of the step succeeds.
Fail(k) ==
  /\ faultsLeft > 0
  /\ faultsLeft' = faultsLeft - 1
  /\ failed' = failed \cup {k}
  /\ UNCHANGED userFailsLeft

Init ==
  /\ Q!InitCalls
  /\ ctl = "start" /\ res = 0 /\ input = Lines /\ line = None
  /\ destroyed = FALSE /\ exit = "none"
  /\ wpc = [w \in Workers |-> "none"]
  /\ wline = [w \in Workers |-> None]
  /\ wpairs = [w \in Workers |-> 0]
  /\ part = [w \in Workers |-> 0]
  /\ code = [w \in Workers |-> 0]
  /\ mutex = None /\ out = <<>> /\ pairs = 0
  /\ mapped = {} /\ refused = {} /\ dropped = {}
  /\ failed = {} /\ faultsLeft = MaxFaults /\ userFailsLeft = MaxUserFails

--------------------------------------------------------------------------------
(***************************************************************************)
(* The controller: mapper_process_main.                                    *)
(***************************************************************************)
At(point) == exit = "none" /\ ctl = point
Exit(status) == exit' = status /\ UNCHANGED <<ctl, res, input, line, destroyed>>
Step(to) == ctl' = to /\ UNCHANGED <<res, input, line, destroyed, exit>>

\* The first log line, mr_queue_init, mtx_init and the two mallocs.
CtlStart ==
  /\ At("start")
  /\ \/ Step("create") /\ UNCHANGED budget
     \/ Fail("log") /\ Exit("failure")
     \/ Fail("init") /\ Exit("failure")
  /\ UNCHANGED <<queue, worker, stdout, fate>>

\* thrd_create of the next worker.
Create ==
  \E w \in Workers :
    /\ wpc[w] = "none"
    /\ wpc' = [wpc EXCEPT ![w] = "start"]
    /\ UNCHANGED <<queue, control, budget>>

\* Mutant: when a worker cannot be created the others carry on.
CtlCreateCarriesOn ==
  /\ At("create")
  /\ Create \/ (Fail("create") /\ Step("recv") /\ UNCHANGED <<queue, wpc>>)
  /\ UNCHANGED <<wline, wpairs, part, code, stdout, fate>>

\* The loop that creates the workers.
CtlCreate ==
  /\ At("create")
  /\ \/ Create
     \/ /\ \E w \in Workers : wpc[w] = "none"
        /\ Fail("create") /\ Step("shut")
        /\ UNCHANGED <<queue, wpc>>
     \/ /\ \A w \in Workers : wpc[w] # "none"
        /\ Step("recv")
        /\ UNCHANGED <<queue, wpc, budget>>
  /\ UNCHANGED <<wline, wpairs, part, code, stdout, fate>>

\* mr_queue_close fails: before the queue is closed, or after.
CloseFails ==
  \/ Fail("close") /\ UNCHANGED queue
  \/ Fail("close_signal") /\ Q!CloseNoSignal
  \/ Fail("close_unlock") /\ Q!CloseNoUnlock

\* When thrd_create has failed the queue is closed at once; nobody looks whether it was.
CtlShut ==
  /\ At("shut")
  /\ (Q!CloseAndWake /\ UNCHANGED budget) \/ CloseFails
  /\ Step("abort")
  /\ UNCHANGED <<worker, stdout, fate>>

\* The created workers are joined and everything is destroyed.
CtlAbort ==
  /\ At("abort")
  /\ \A w \in Workers : wpc[w] \in {"none", "ended"}
  /\ destroyed' = TRUE
  /\ exit' = "failure"
  /\ UNCHANGED <<ctl, res, input, line, queue, worker, stdout, fate, budget>>

\* receive_line_from_main returns a line, or 1 at the end of the input.
GetLine ==
  /\ \E l \in input : line' = l /\ input' = input \ {l}
  /\ ctl' = "push"
  /\ UNCHANGED <<res, budget>>
GetEof(to) == res' = 1 /\ ctl' = to /\ UNCHANGED <<input, line, budget>>

\* Mutant: the last line is taken for the end of the input.
CtlReceiveStopsEarly ==
  /\ At("recv")
  /\ GetLine \/ (Cardinality(input) <= 1 /\ GetEof("close"))
  /\ UNCHANGED <<destroyed, exit, queue, worker, stdout, fate>>

\* Mutant: the loop tests for an error only, not for the end of the input.
CtlReceiveIgnoresEof ==
  /\ At("recv")
  /\ GetLine \/ (input = {} /\ GetEof("recv"))
  /\ UNCHANGED <<destroyed, exit, queue, worker, stdout, fate>>

\* The condition of the receive loop: a line, end of file, or an error.
CtlReceive ==
  /\ At("recv")
  /\ \/ GetLine
     \/ input = {} /\ GetEof("close")
     \/ Fail("recv") /\ res' = -1 /\ ctl' = "close" /\ UNCHANGED <<input, line>>
  /\ UNCHANGED <<destroyed, exit, queue, worker, stdout, fate>>

\* mr_queue_push, and what is freed when it fails: before the line is in the queue, or
\* after.
PushOrFree(freed) ==
  /\ At("push")
  /\ \/ Q!Push(line) /\ UNCHANGED <<dropped, budget>>
     \/ /\ \/ Fail("push") /\ Q!PushRefused
           \/ Fail("push_signal") /\ Q!PushNoSignal(line)
           \/ Fail("push_unlock") /\ Q!PushNoUnlock(line)
        /\ dropped' = dropped \cup freed
  /\ ctl' = "recv"
  /\ line' = None
  /\ UNCHANGED <<res, input, destroyed, exit, worker, stdout, mapped, refused>>

\* Mutant: a line that could not be pushed is forgotten instead of freed.
CtlPushForgets == PushOrFree({})

\* The body of the receive loop.  When the push fails, the break in the command passed to
\* SYSCALL_EXIT_CHECK only leaves the macro's do-while: reading goes on.
CtlPush == PushOrFree({line})

\* While the queue is full the controller sleeps.
CtlPushWait ==
  At("push") /\ Q!PushWaits /\ UNCHANGED <<control, worker, stdout, fate, budget>>

CtlClose ==
  /\ At("close")
  /\ \/ Q!CloseAndWake /\ Step("join") /\ UNCHANGED budget
     \/ CloseFails /\ Exit("failure")
  /\ UNCHANGED <<worker, stdout, fate>>

Joined ==
  /\ destroyed' = TRUE
  /\ ctl' = "finish"
  /\ UNCHANGED <<res, input, line, exit, budget>>

\* Mutant: everything is destroyed without joining the workers.
CtlJoinSkipped == At("join") /\ Joined /\ UNCHANGED <<queue, worker, stdout, fate>>

\* thrd_join of every worker; what a worker returned is only logged.
CtlJoin ==
  /\ At("join")
  /\ \/ (\A w \in Workers : wpc[w] = "ended") /\ Joined
     \/ Fail("join") /\ Exit("failure")
  /\ UNCHANGED <<queue, worker, stdout, fate>>

CtlFinish ==
  /\ At("finish")
  /\ \/ Exit(IF res = -1 THEN "failure" ELSE "success") /\ UNCHANGED budget
     \/ res # -1 /\ Fail("log") /\ Exit("failure")
  /\ UNCHANGED <<queue, worker, stdout, fate>>

Controller ==
  \/ CtlStart \/ CtlCreate \/ CtlShut \/ CtlAbort
  \/ CtlReceive \/ CtlPush \/ CtlClose \/ CtlJoin \/ CtlFinish

--------------------------------------------------------------------------------
(***************************************************************************)
(* A worker: mapper_worker, and mapper_emit called back by the user's      *)
(* mapper.                                                                 *)
(***************************************************************************)
WAt(w, point) == exit = "none" /\ wpc[w] = point
WGoto(w, to) == wpc' = [wpc EXCEPT ![w] = to]
WStep(w, to) == WGoto(w, to) /\ UNCHANGED <<wline, wpairs, part, code>>
WEnd(w, status) ==
  /\ WGoto(w, "ended")
  /\ code' = [code EXCEPT ![w] = status]
  /\ UNCHANGED <<wline, wpairs, part>>

WorkerStart(w) ==
  /\ WAt(w, "start")
  /\ \/ WStep(w, "pop") /\ UNCHANGED budget
     \/ Fail("log") /\ WEnd(w, 1)
  /\ UNCHANGED <<queue, control, stdout, fate>>

\* mr_queue_pop returns 0.
TakeLine(w) ==
  /\ Q!Pop(w)
  /\ WGoto(w, "user")
  /\ wline' = [wline EXCEPT ![w] = stack[Len(stack)]]
  /\ wpairs' = [wpairs EXCEPT ![w] = 0]
  /\ UNCHANGED <<part, code, dropped, budget>>

\* It fails, before or after it has removed a line from the queue.
PopFails(w) ==
  \/ Fail("pop") /\ Q!PopRefused(w) /\ UNCHANGED dropped
  \/ /\ \/ Fail("pop_signal") /\ Q!PopNoSignal(w)
        \/ Fail("pop_unlock") /\ Q!PopNoUnlock(w)
     /\ dropped' = dropped \cup {stack[Len(stack)]}

\* It returns 1: closed and empty.
PopEnds(w) ==
  /\ \/ Q!PopEnd(w) /\ UNCHANGED budget
     \/ Fail("pop_unlock") /\ Q!PopEndNoUnlock(w)
  /\ UNCHANGED dropped

\* mr_queue_pop: a line, or the end of the loop.
WorkerPop(w) ==
  /\ WAt(w, "pop")
  /\ TakeLine(w) \/ ((PopFails(w) \/ PopEnds(w)) /\ WStep(w, "last"))
  /\ UNCHANGED <<control, stdout, mapped, refused>>

\* While the queue is empty and open the worker sleeps.
WorkerPopWait(w) ==
  WAt(w, "pop") /\ Q!PopWaits(w) /\ UNCHANGED <<control, worker, stdout, fate, budget>>

\* The user's mapper emits a pair, or returns 0, or returns -1.
UserEmit(w) ==
  /\ WAt(w, "user")
  /\ wpairs[w] < MaxPairs
  /\ WGoto(w, "lock")
  /\ wpairs' = [wpairs EXCEPT ![w] = @ + 1]
  /\ UNCHANGED <<wline, part, code, queue, control, stdout, fate, budget>>

UserReturn(w) ==
  /\ WAt(w, "user")
  /\ mapped' = mapped \cup {wline[w]}
  /\ WStep(w, "pop")
  /\ UNCHANGED <<refused, dropped, queue, control, stdout, budget>>

\* SYSCALL_EXIT_CHECK returns EXIT_FAILURE from the thread: the worker is gone.
UserFail(w) ==
  /\ WAt(w, "user")
  /\ userFailsLeft > 0
  /\ userFailsLeft' = userFailsLeft - 1
  /\ refused' = refused \cup {wline[w]}
  /\ WEnd(w, 1)
  /\ UNCHANGED <<mapped, dropped, queue, control, stdout, failed, faultsLeft>>

EnterEmit(w) ==
  /\ WGoto(w, "write")
  /\ part' = [part EXCEPT ![w] = 0]
  /\ UNCHANGED <<wline, wpairs, code, budget>>

\* Mutant: mapper_emit does not take the mutex.
EmitLockSkipped(w) ==
  WAt(w, "lock") /\ EnterEmit(w) /\ UNCHANGED <<stdout, queue, control, fate>>

\* mapper_emit: mtx_lock(stdout_mutex); when it fails emit returns -1 to the user.
EmitLock(w) ==
  /\ WAt(w, "lock")
  /\ \/ mutex = None /\ mutex' = w /\ EnterEmit(w)
     \/ Fail("lock") /\ WStep(w, "user") /\ UNCHANGED mutex
  /\ UNCHANGED <<out, pairs, queue, control, fate>>

\* The next of the frame's write_n calls; after the last of parts, or after an error, the
\* frame ends.
WritePart(w, parts, onError) ==
  /\ WAt(w, "write")
  /\ \/ /\ out' = Append(out, <<wline[w], wpairs[w], part[w] + 1>>)
        /\ part' = [part EXCEPT ![w] = @ + 1]
        /\ WGoto(w, IF part[w] + 1 = parts THEN "count" ELSE "write")
        /\ UNCHANGED <<wline, wpairs, code, budget>>
     \/ Fail("write") /\ WStep(w, onError) /\ UNCHANGED out
  /\ UNCHANGED <<mutex, pairs, queue, control, fate>>

\* send_pair_to_reducer
EmitWrite(w) == WritePart(w, Parts, "unlock")

EmitCount(w) ==
  /\ WAt(w, "count")
  /\ pairs' = pairs + 1
  /\ WStep(w, "unlock")
  /\ UNCHANGED <<mutex, out, queue, control, fate, budget>>

EmitUnlock(w) ==
  /\ WAt(w, "unlock")
  /\ \/ mutex' = None /\ UNCHANGED budget
     \/ Fail("unlock") /\ UNCHANGED mutex
  /\ WStep(w, "user")
  /\ UNCHANGED <<out, pairs, queue, control, fate>>

\* The last log line, after the loop.
WorkerLast(w) ==
  /\ WAt(w, "last")
  /\ \/ WEnd(w, 0) /\ UNCHANGED budget
     \/ Fail("log") /\ WEnd(w, 1)
  /\ UNCHANGED <<queue, control, stdout, fate>>

Worker(w) ==
  \/ WorkerStart(w) \/ WorkerPop(w) \/ UserEmit(w) \/ UserReturn(w) \/ UserFail(w)
  \/ EmitLock(w) \/ EmitWrite(w) \/ EmitCount(w) \/ EmitUnlock(w) \/ WorkerLast(w)

--------------------------------------------------------------------------------
\* _exit(exit_code) ends every thread.
Exited == exit # "none" /\ UNCHANGED vars

\* Falling asleep in cnd_wait, and waking up although nobody has signalled.
SpuriousWakeUp ==
  exit = "none" /\ Q!WakeUp /\ UNCHANGED <<control, worker, stdout, fate, budget>>
Waiting == CtlPushWait \/ (\E w \in Workers : WorkerPopWait(w)) \/ SpuriousWakeUp

Next == Controller \/ (\E w \in Workers : Worker(w)) \/ Waiting \/ Exited

Spec == Init /\ [][Next]_vars

\* As long as some thread of the process can run, one does (the work is finite, so this is
\* enough); main eventually sends or closes, and the user's mapper eventually returns.
\* Nothing has to fail (budget is unchanged).
FairSpec ==
  /\ Spec
  /\ WF_vars((Controller \/ \E w \in Workers : Worker(w)) /\ UNCHANGED budget)

--------------------------------------------------------------------------------
(***************************************************************************)
(* Properties                                                              *)
(***************************************************************************)

\* Every variable keeps its type and the queue its bound.
TypeOK ==
  /\ stack \in Seq(Lines) /\ Len(stack) <= Capacity
  /\ accepted \subseteq Lines /\ taken \subseteq Lines
  /\ closed \in BOOLEAN /\ ended \subseteq Workers
  /\ idle \subseteq Workers /\ asleep \in BOOLEAN /\ jammed \in BOOLEAN
  /\ ctl \in {"start", "create", "shut", "abort", "recv", "push", "close", "join", "finish"}
  /\ res \in {-1, 0, 1} /\ input \subseteq Lines /\ line \in Lines \cup {None}
  /\ destroyed \in BOOLEAN /\ exit \in {"none", "success", "failure"}
  /\ wpc \in [Workers -> {"none", "start", "pop", "user", "lock", "write", "count",
                          "unlock", "last", "ended"}]
  /\ wline \in [Workers -> Lines \cup {None}]
  /\ wpairs \in [Workers -> 0 .. MaxPairs]
  /\ part \in [Workers -> 0 .. Parts]
  /\ code \in [Workers -> {0, 1}]
  /\ mutex \in Workers \cup {None}
  /\ out \in Seq(Lines \X (1 .. MaxPairs) \X (1 .. Parts)) /\ pairs \in Nat
  /\ mapped \subseteq Lines /\ refused \subseteq Lines /\ dropped \subseteq Lines
  /\ failed \subseteq {"log", "init", "create", "recv", "push", "push_signal",
                       "push_unlock", "close", "close_signal", "close_unlock", "join",
                       "pop", "pop_signal", "pop_unlock", "lock", "write", "unlock"}
  /\ faultsLeft \in Nat /\ userFailsLeft \in Nat

\* The workers that have a popped line in their hands.
Holding == {w \in Workers :
              wpc[w] \in {"user", "lock", "write", "count", "unlock"}}

\* Every line received is in exactly one place: the controller's hands, the queue, one
\* worker's hands, or one of the three fates.  No line is mapped twice, none vanishes.
\* (Not so when a push failed after the insertion: the line is freed and still queued.)
PutThenFailed == failed \cap {"push_signal", "push_unlock"} # {}
Places == <<input, {line} \ {None}, {stack[k] : k \in DOMAIN stack},
            {wline[w] : w \in Holding}, mapped, refused, dropped>>
LineInOnePlace ==
  ~PutThenFailed =>
  /\ \A l \in Lines : \E n \in DOMAIN Places :
       l \in Places[n] /\ \A m \in DOMAIN Places \ {n} : l \notin Places[m]
  /\ \A v, w \in Holding : wline[v] = wline[w] => v = w

\* stdout_mutex keeps the frames whole: what is on the pipe is a sequence of complete
\* frames, then the parts that the worker inside mapper_emit has written so far.  (After
\* a failed write the stream is out of step for good.)
FramesWhole ==
  "write" \notin failed =>
    \A k \in 1 .. Len(out) :
      /\ out[k][3] = ((k - 1) % Parts) + 1
      /\ out[k][3] > 1 => out[k - 1][1] = out[k][1] /\ out[k - 1][2] = out[k][2]

\* pairs_count, incremented by every worker, counts the complete frames on the pipe:
\* each writer that has completed a frame has counted it, or is just about to.
Complete == {k \in DOMAIN out : out[k][3] = Parts}
PairsCounted ==
  pairs + Cardinality({w \in Workers : wpc[w] = "count"}) = Cardinality(Complete)

\* The pipe to the reducer stays in step: its frames are whole and counted, and every
\* variable keeps its type.
PipeConsistent == TypeOK /\ FramesWhole /\ PairsCounted

\* mapper_process_main destroys the queue, the stdout mutex and the workers' arguments
\* only when no worker is left that could touch them.
DestroyedUnused ==
  destroyed => /\ \A w \in Workers : wpc[w] \in {"none", "ended"}
               /\ "unlock" \notin failed => mutex = None

\* When a worker cannot be created the process fails before it has read or written
\* anything.
AbortEmitsNothing ==
  "create" \in failed => out = <<>> /\ taken = {} /\ exit # "success"

\* EXIT_SUCCESS, when no call failed and no user mapper returned -1, means that every
\* line was mapped and every pair its mapper emitted is on the pipe as a whole frame.
SuccessIsComplete ==
  exit = "success" /\ failed = {} /\ refused = {} =>
    mapped = Lines /\ Len(out) = Parts * pairs

\* mapper.h: "@return EXIT_SUCCESS on success, EXIT_FAILURE on failure": a process that
\* exits with EXIT_SUCCESS has at least called the user's mapper on every line.
SuccessMeansMapped == exit = "success" => Lines = mapped \cup refused

\* What can stop the process for good.  Every worker has left and the controller blocks in
\* mr_queue_push; or a wake-up was lost (cnd_signal failed, or the worker that it woke came
\* back from cnd_wait with an error) and the controller and the remaining workers all wait
\* for each other; or the mr_queue_close on thrd_create's error path failed and a
\* worker waits on; or somebody waits for a mutex that a failing mtx_unlock left locked.
Stuck ==
  \/ ctl = "push" /\ \A w \in Workers : wpc[w] = "ended"
  \/ /\ failed \cap {"push_signal", "pop_signal", "pop"} # {}
     /\ ctl = "push" /\ \A w \in Workers : wpc[w] \in {"pop", "ended"}
  \/ /\ failed \cap {"close", "close_signal"} # {}
     /\ ctl = "abort" /\ \E w \in Workers : wpc[w] = "pop"
  \/ jammed /\ (ctl \in {"push", "shut", "close"} \/ \E w \in Workers : wpc[w] = "pop")
  \/ "unlock" \in failed /\ \E w \in Workers : wpc[w] = "lock"

\* Whatever fails, the mapper process exits or is stuck in one of these ways: nothing else,
\* no order of pushes, pops, wake-ups and the close, can stop it.
ExitsUnlessStuck == <>[](exit # "none" \/ Stuck)

\* The mapper process exits, whatever the user's mapper returns: mr_start waits for it.
Terminates == <>(exit # "none")
================================================================================
