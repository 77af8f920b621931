---------------------------- MODULE MrMapperProofs ----------------------------
(***************************************************************************)
(* Proofs about MrMapper, for any number of workers and lines, any queue   *)
(* size, and any number of pairs, failing calls and failing user mappers.  *)
(***************************************************************************)
EXTENDS MrMapper, FiniteSetTheorems, SequenceTheorems, TLAPS

\* The controller's points before the first line is read.
Setup == {"start", "create", "shut", "abort"}

\* Nothing has gone through the process yet.
Untouched ==
  /\ input = Lines /\ line = None
  /\ stack = <<>> /\ taken = {} /\ out = <<>>
  /\ mapped = {} /\ refused = {} /\ dropped = {}
  /\ \A w \in Workers : wpc[w] \in {"none", "start", "pop", "last", "ended"}

\* What is true at each point of the controller.
Phases ==
  /\ ctl \in Setup => Untouched
  /\ ctl = "push" <=> line # None
  /\ ctl \in {"close", "join", "finish"} =>
       (res = 1 /\ input = {}) \/ (res = -1 /\ "recv" \in failed)
  /\ ctl = "finish" => \A w \in Workers : wpc[w] = "ended"
  /\ destroyed => /\ ctl \in {"abort", "finish"}
                  /\ \A w \in Workers : wpc[w] \in {"none", "ended"}
  /\ exit = "success" => ctl = "finish" /\ res = 1
  /\ "create" \in failed => ctl \in {"shut", "abort"}

\* A worker that has popped a line has it, and numbers its pairs from 1.
Hands ==
  /\ \A w \in Holding : wline[w] \in Lines
  /\ \A w \in Workers : wpc[w] \in {"lock", "write", "count", "unlock"} => wpairs[w] > 0
  /\ \A w \in Workers : wpc[w] = "write" => part[w] < Parts

\* The workers between mtx_lock and mtx_unlock of stdout_mutex hold it.
Inside == {"write", "count", "unlock"}
Locked ==
  /\ \A w \in Workers : wpc[w] \in Inside => mutex = w
  /\ "unlock" \notin failed /\ mutex # None => wpc[mutex] \in Inside

\* How far the pipe is past the pairs counted.
InStep ==
  "write" \notin failed =>
    /\ \A w \in Workers : wpc[w] = "write" =>
         /\ Len(out) = 3 * pairs + part[w]
         /\ part[w] > 0 => /\ out[Len(out)][1] = wline[w]
                           /\ out[Len(out)][2] = wpairs[w]
    /\ \A w \in Workers : wpc[w] = "count" => Len(out) = 3 * pairs + 3
    /\ (\A w \in Workers : wpc[w] \notin {"write", "count"}) => Len(out) = 3 * pairs

\* A worker stops taking lines only because something failed, its user's mapper refused
\* one, or the queue is closed and empty.
Drained ==
  failed = {} /\ refused = {} =>
    \A w \in Workers : wpc[w] \in {"last", "ended"} => closed /\ stack = <<>>

\* The places of a line are disjoint, and together they are all of Lines.
InHand  == {line} \ {None}
Queued  == {stack[k] : k \in DOMAIN stack}
Held    == {wline[w] : w \in Holding}
Distinct ==
  /\ \A i, j \in DOMAIN stack : stack[i] = stack[j] => i = j
  /\ \A v, w \in Holding : wline[v] = wline[w] => v = w
Partition ==
  /\ Lines \subseteq input \cup InHand \cup Queued \cup Held \cup mapped \cup refused
                     \cup dropped
  /\ input \cap (InHand \cup Queued \cup Held \cup mapped \cup refused \cup dropped) = {}
  /\ InHand \cap (Queued \cup Held \cup mapped \cup refused \cup dropped) = {}
  /\ Queued \cap (Held \cup mapped \cup refused \cup dropped) = {}
  /\ Held \cap (mapped \cup refused \cup dropped) = {}
  /\ mapped \cap (refused \cup dropped) = {}
  /\ refused \cap dropped = {}
Placed == ~PutThenFailed => Distinct /\ Partition

\* Only a failing call drops a line.
DroppedFailed == failed = {} => dropped = {}

\* The inductive invariant.
IInv ==
  /\ TypeOK /\ Phases /\ Hands /\ Locked
  /\ FramesWhole /\ InStep /\ PairsCounted
  /\ Drained /\ DroppedFailed /\ Placed

--------------------------------------------------------------------------------
(***************************************************************************)
(* Types                                                                   *)
(***************************************************************************)

\* The kinds of call that fail.
Kinds == {"log", "init", "create", "recv", "push", "push_signal", "push_unlock",
          "close", "close_signal", "close_unlock", "join", "pop", "pop_signal",
          "pop_unlock", "lock", "write", "unlock"}

\* TypeOK in the parts that the steps of a group of actions can disturb.
QueueType ==
  /\ stack \in Seq(Lines) /\ Len(stack) <= Capacity
  /\ accepted \subseteq Lines /\ taken \subseteq Lines
  /\ closed \in BOOLEAN /\ ended \subseteq Workers
SleepType == idle \subseteq Workers /\ asleep \in BOOLEAN /\ jammed \in BOOLEAN
ControlType ==
  /\ ctl \in {"start", "create", "shut", "abort", "recv", "push", "close", "join", "finish"}
  /\ res \in {-1, 0, 1} /\ input \subseteq Lines /\ line \in Lines \cup {None}
  /\ destroyed \in BOOLEAN /\ exit \in {"none", "success", "failure"}
WorkerType ==
  /\ wpc \in [Workers -> {"none", "start", "pop", "user", "lock", "write", "count",
                          "unlock", "last", "ended"}]
  /\ wline \in [Workers -> Lines \cup {None}]
  /\ wpairs \in [Workers -> 0 .. MaxPairs]
  /\ part \in [Workers -> 0 .. Parts]
  /\ code \in [Workers -> {0, 1}]
StdoutType ==
  /\ mutex \in Workers \cup {None}
  /\ out \in Seq(Lines \X (1 .. MaxPairs) \X (1 .. Parts)) /\ pairs \in Nat
FateType ==
  mapped \subseteq Lines /\ refused \subseteq Lines /\ dropped \subseteq Lines
BudgetType ==
  failed \subseteq Kinds /\ faultsLeft \in Nat /\ userFailsLeft \in Nat

\* The parts make up TypeOK.
LEMMA TypeParts ==
  TypeOK <=> /\ QueueType /\ SleepType /\ ControlType /\ WorkerType
             /\ StdoutType /\ FateType /\ BudgetType
  BY DEF TypeOK, QueueType, SleepType, ControlType, WorkerType, StdoutType, FateType,
         BudgetType, Kinds

\* The same after a step.
LEMMA TypePartsNext ==
  TypeOK' <=> /\ QueueType' /\ SleepType' /\ ControlType' /\ WorkerType'
              /\ StdoutType' /\ FateType' /\ BudgetType'
  BY DEF TypeOK, QueueType, SleepType, ControlType, WorkerType, StdoutType, FateType,
         BudgetType, Kinds

\* The queue: an element in, the last element out.
LEMMA PutType ==
  ASSUME QueueType, NEW i \in Lines, Q!Put(i)
  PROVE  /\ QueueType'
         /\ Len(stack') = Len(stack) + 1
         /\ \A k \in 1 .. Len(stack) : stack'[k] = stack[k]
         /\ stack'[Len(stack) + 1] = i
<1>1. Len(stack) \in Nat /\ Capacity \in Nat
  BY BoundsAssumption DEF QueueType, BoundsAssumption
<1> QED
  BY <1>1 DEF QueueType, Q!Put

\* A sequence without its last element.
LEMMA Front ==
  ASSUME NEW S, NEW s \in Seq(S), NEW n \in Nat, Len(s) = n + 1
  PROVE  /\ SubSeq(s, 1, n) \in Seq(S)
         /\ Len(SubSeq(s, 1, n)) = n
         /\ \A k \in 1 .. n : SubSeq(s, 1, n)[k] = s[k]
<1>1. \A k \in 1 .. n : s[k] \in S
  OBVIOUS
<1> QED
  BY <1>1, SubSeqProperties

\* Taking leaves the rest of the stack as it was.
LEMMA TakeType ==
  ASSUME QueueType, Q!Take
  PROVE  /\ QueueType'
         /\ Len(stack) > 0 /\ Len(stack') = Len(stack) - 1
         /\ \A k \in 1 .. Len(stack') : stack'[k] = stack[k]
         /\ stack[Len(stack)] \in Lines
<1>1. Len(stack) \in Nat /\ Capacity \in Nat
  BY BoundsAssumption DEF QueueType, BoundsAssumption
<1>2. Len(stack) > 0 /\ stack[Len(stack)] \in Lines
  BY <1>1 DEF QueueType, Q!Take
<1>3. PICK n \in Nat : n = Len(stack) - 1
  BY <1>1, <1>2
<1>4. stack' = SubSeq(stack, 1, n) /\ Len(stack) = n + 1 /\ stack \in Seq(Lines)
  BY <1>1, <1>3 DEF QueueType, Q!Take
<1>5. /\ stack' \in Seq(Lines) /\ Len(stack') = n
      /\ \A k \in 1 .. n : stack'[k] = stack[k]
  BY <1>4, Front
<1> QED
  BY <1>1, <1>2, <1>3, <1>5 DEF QueueType, Q!Take

\* What a call of queue.h does to the queue, whoever it wakes or leaves asleep: it is one
\* of AbstractQueue's operations, or nothing.
Buffer == <<stack, accepted, taken, closed, ended>>
PushStep ==
  /\ At("push") /\ ctl' = "recv" /\ line' = None
  /\ \/ Q!Put(line) /\ UNCHANGED <<dropped, budget>>
     \/ Fail("push") /\ UNCHANGED Buffer /\ dropped' = dropped \cup {line}
     \/ /\ Fail("push_signal") \/ Fail("push_unlock")
        /\ Q!Put(line) /\ dropped' = dropped \cup {line}
  /\ UNCHANGED <<res, input, destroyed, exit, worker, stdout, mapped, refused>>
CloseStep ==
  \/ Q!Close /\ UNCHANGED budget
  \/ /\ Fail("close") \/ Fail("close_signal") \/ Fail("close_unlock")
     /\ Q!Close \/ UNCHANGED Buffer
Got(w) ==
  /\ Q!Take /\ WGoto(w, "user")
  /\ wline' = [wline EXCEPT ![w] = stack[Len(stack)]]
  /\ wpairs' = [wpairs EXCEPT ![w] = 0]
  /\ UNCHANGED <<part, code, dropped, budget>>
PopStep(w) ==
  /\ WAt(w, "pop") /\ UNCHANGED <<control, stdout, mapped, refused>>
  /\ \/ Got(w)
     \/ /\ Q!End(w) /\ WStep(w, "last") /\ UNCHANGED dropped
        /\ UNCHANGED budget \/ Fail("pop_unlock")
     \/ Fail("pop") /\ UNCHANGED <<Buffer, dropped>> /\ WStep(w, "last")
     \/ /\ Fail("pop_signal") \/ Fail("pop_unlock")
        /\ Q!Take /\ WStep(w, "last") /\ dropped' = dropped \cup {stack[Len(stack)]}

\* mr_queue_push
LEMMA PushCases == CtlPush => PushStep
  BY DEF CtlPush, PushOrFree, PushStep, Buffer, Q!Push, Q!PushRefused, Q!PushNoSignal,
         Q!PushNoUnlock, Q!Insert, Q!vars

\* mr_queue_close, which shuts a queue that could not get its workers, or the loop's.
LEMMA CloseCases ==
  /\ CtlShut => /\ At("shut") /\ Step("abort") /\ CloseStep
                /\ UNCHANGED <<worker, stdout, fate>>
  /\ CtlClose => /\ At("close") /\ CloseStep /\ UNCHANGED <<worker, stdout, fate>>
                 /\ Step("join") \/ Exit("failure")
<1>1. (Q!CloseAndWake /\ UNCHANGED budget) \/ CloseFails => CloseStep
  BY DEF CloseFails, CloseStep, Buffer, Q!CloseAndWake, Q!CloseNoSignal, Q!CloseNoUnlock, queue
<1> QED
  BY <1>1 DEF CtlShut, CtlClose

\* mr_queue_pop
LEMMA PopCases == ASSUME NEW w \in Workers, WorkerPop(w) PROVE PopStep(w)
<1>1. Q!Pop(w) \/ Q!PopNoSignal(w) \/ Q!PopNoUnlock(w) => Q!Take
  BY DEF Q!Pop, Q!PopNoSignal, Q!PopNoUnlock, Q!Remove
<1>2. Q!PopEnd(w) \/ Q!PopEndNoUnlock(w) => Q!End(w)
  BY DEF Q!PopEnd, Q!PopEndNoUnlock
<1>3. Q!PopRefused(w) => UNCHANGED Buffer
  BY DEF Q!PopRefused, Q!vars, Buffer
<1> QED
  BY <1>1, <1>2, <1>3 DEF WorkerPop, TakeLine, PopFails, PopEnds, PopStep, Got

\* Whoever falls asleep or wakes up is a worker or the controller.
LEMMA SleepStep == ASSUME TypeOK, Next PROVE SleepType'
<1> USE DEF SleepType, TypeOK
<1>1. (UNCHANGED queue) => SleepType'
  BY DEF queue
<1>2. CtlPush \/ CtlShut \/ CtlClose \/ CtlPushWait \/ SpuriousWakeUp => SleepType'
  BY <1>1 DEF CtlPush, PushOrFree, CtlShut, CtlClose, CloseFails, CtlPushWait, SpuriousWakeUp,
     Q!Push, Q!PushRefused, Q!PushNoSignal, Q!PushNoUnlock, Q!Insert, Q!WakeConsumer,
     Q!CloseAndWake, Q!CloseNoSignal, Q!CloseNoUnlock, Q!PushWaits, Q!WakeUp
<1>3. \A w \in Workers : WorkerPop(w) \/ WorkerPopWait(w) => SleepType'
  BY DEF WorkerPop, WorkerPopWait, TakeLine, PopFails, PopEnds, Q!Pop, Q!PopRefused,
     Q!PopNoSignal, Q!PopNoUnlock, Q!PopEnd, Q!PopEndNoUnlock, Q!PopWaits, Q!Remove
<1>4. CtlStart \/ CtlCreate \/ CtlAbort \/ CtlReceive \/ CtlJoin \/ CtlFinish \/ Exited
      => SleepType'
  BY <1>1 DEF CtlStart, CtlCreate, Create, CtlAbort, CtlReceive, CtlJoin, CtlFinish, Exited,
     vars, queue
<1>5. ASSUME NEW w \in Workers, Worker(w) PROVE SleepType'
  BY <1>1, <1>3, <1>5 DEF Worker, WorkerStart, UserEmit, UserReturn, UserFail, EmitLock,
     EmitWrite, WritePart, EmitCount, EmitUnlock, WorkerLast
<1> QED
  BY <1>2, <1>3, <1>4, <1>5 DEF Next, Controller, Waiting

\* Falling asleep and waking up change nothing else.
LEMMA WaitingFrame ==
  Waiting => UNCHANGED <<Buffer, control, worker, stdout, fate, budget>>
  BY DEF Waiting, CtlPushWait, WorkerPopWait, SpuriousWakeUp, Q!PushWaits, Q!PopWaits,
     Q!WakeUp, Q!vars, Buffer

\* A failing call.
LEMMA FailType ==
  ASSUME BudgetType, NEW k \in Kinds, Fail(k)
  PROVE  BudgetType' /\ failed' = failed \cup {k}
  BY DEF BudgetType, Fail

\* The steps of the controller keep every type.
LEMMA ControllerType == ASSUME TypeOK, Phases, Controller PROVE TypeOK'
<1>s. SleepType'
  BY SleepStep DEF Next
<1> USE <1>s, TypeParts, TypePartsNext
    DEF queue, control, worker, stdout, fate, budget, At, Step, Exit
<1>b. BudgetType' 
  <2>1. ASSUME NEW k \in Kinds, Fail(k) PROVE BudgetType'
    BY <2>1, FailType
  <2>2. (UNCHANGED budget) => BudgetType'
    BY DEF BudgetType
  <2> QED
    BY <2>1, <2>2, PushCases, CloseCases
    DEF Controller, CtlStart, CtlCreate, Create, CtlAbort, CtlReceive, GetLine, GetEof,
       PushStep, CloseStep, CtlJoin, Joined, CtlFinish, Kinds
<1>1. CASE CtlStart \/ CtlShut \/ CtlAbort \/ CtlClose \/ CtlJoin \/ CtlFinish
  BY <1>1, <1>b, CloseCases
  DEF CtlStart, CtlAbort, CtlJoin, Joined, CtlFinish, CloseStep, Q!Close, Buffer, QueueType,
     ControlType, WorkerType, StdoutType, FateType
<1>2. CASE CtlCreate
  <2>1. ControlType'
    BY <1>2 DEF CtlCreate, Create, ControlType
  <2>2. WorkerType'
    BY <1>2 DEF CtlCreate, Create, WorkerType
  <2> QED
    BY <1>2, <1>b, <2>1, <2>2 DEF CtlCreate, Create, QueueType, StdoutType, FateType
<1>3. CASE CtlReceive
  BY <1>3, <1>b DEF CtlReceive, GetLine, GetEof,
     QueueType, ControlType, WorkerType, StdoutType, FateType
<1>4. CASE CtlPush
  <2>1. line \in Lines
    BY <1>4, PushCases DEF PushStep, Phases, ControlType
  <2>2. QueueType'
    BY <1>4, <2>1, PushCases, PutType DEF PushStep, Buffer, QueueType
  <2> QED
    BY <1>4, <1>b, <2>1, <2>2, PushCases
    DEF PushStep, ControlType, WorkerType, StdoutType, FateType
<1> QED
  BY <1>1, <1>2, <1>3, <1>4 DEF Controller

\* The steps of a worker keep every type.
LEMMA WorkerTypes == ASSUME TypeOK, Hands, NEW w \in Workers, Worker(w) PROVE TypeOK'
<1>s. SleepType'
  BY SleepStep DEF Next
<1> USE <1>s, TypeParts, TypePartsNext
    DEF queue, control, worker, stdout, fate, budget, WAt, WGoto, WStep, WEnd
<1>b. BudgetType' 
  <2>1. ASSUME NEW k \in Kinds, Fail(k) PROVE BudgetType'
    BY <2>1, FailType
  <2>2. (UNCHANGED budget) => BudgetType'
    BY DEF BudgetType
  <2>3. UserFail(w) => BudgetType'
    BY DEF UserFail, BudgetType
  <2> QED
    BY <2>1, <2>2, <2>3, PopCases DEF Worker, WorkerStart, PopStep, Got, UserEmit, UserReturn,
       EmitLock, EnterEmit, EmitWrite, WritePart, EmitCount, EmitUnlock, WorkerLast, Kinds
<1>1. CASE WorkerStart(w) \/ WorkerLast(w) \/ EmitUnlock(w) \/ EmitCount(w)
  <2>1. WorkerType'
    BY <1>1 DEF WorkerStart, WorkerLast, EmitUnlock, EmitCount, WorkerType
  <2> QED
    BY <1>1, <1>b, <2>1 DEF WorkerStart, WorkerLast, EmitUnlock, EmitCount,
       QueueType, ControlType, StdoutType, FateType
<1>2. CASE WorkerPop(w)
  <2>1. QueueType'
    BY <1>2, PopCases, TakeType DEF PopStep, Got, Buffer, Q!End, QueueType
  <2>2. Q!Take => stack[Len(stack)] \in Lines
    BY TakeType
  <2>3. 0 \in 0 .. MaxPairs
    BY BoundsAssumption DEF BoundsAssumption
  <2>4. WStep(w, "last") => WorkerType'
    BY DEF WorkerType
  <2>5. Got(w) => WorkerType'
    BY <2>2, <2>3 DEF Got, WorkerType
  <2>6. WorkerType'
    BY <1>2, <2>4, <2>5, PopCases DEF PopStep
  <2> QED
    BY <1>2, <1>b, <2>1, <2>2, <2>6, PopCases
    DEF PopStep, Got, ControlType, StdoutType, FateType
<1>3. CASE UserEmit(w)
  <2>1. WorkerType'
    BY <1>3, BoundsAssumption DEF UserEmit, WorkerType, BoundsAssumption
  <2> QED
    BY <1>3, <1>b, <2>1 DEF UserEmit, QueueType, ControlType, StdoutType, FateType
<1>4. CASE UserReturn(w) \/ UserFail(w)
  <2>1. WorkerType' /\ wline[w] \in Lines
    BY <1>4 DEF UserReturn, UserFail, WorkerType, Hands, Holding
  <2> QED
    BY <1>4, <1>b, <2>1
    DEF UserReturn, UserFail, QueueType, ControlType, StdoutType, FateType
<1>5. CASE EmitLock(w)
  <2>1. WorkerType'
    BY <1>5 DEF EmitLock, EnterEmit, WorkerType, Parts
  <2> QED
    BY <1>5, <1>b, <2>1
    DEF EmitLock, EnterEmit, QueueType, ControlType, StdoutType, FateType
<1>6. CASE EmitWrite(w)
  <2>1. wpc[w] = "write" /\ part[w] \in 0 .. 3 /\ part[w] < 3
    BY <1>6 DEF EmitWrite, WritePart, WorkerType, Parts, Hands
  <2>2. part[w] + 1 \in 0 .. 3 /\ part[w] + 1 \in 1 .. 3
    BY <2>1
  <2>3. WorkerType'
    BY <1>6, <2>2 DEF EmitWrite, WritePart, WorkerType, Parts
  <2>4. wline[w] \in Lines
    BY <2>1 DEF Hands, Holding
  <2>5. wpairs[w] \in 0 .. MaxPairs /\ wpairs[w] > 0 /\ MaxPairs \in Nat
    BY <2>1, BoundsAssumption DEF Hands, WorkerType, BoundsAssumption
  <2>6. wpairs[w] \in 1 .. MaxPairs
    BY <2>5
  <2> DEFINE Written == Lines \X (1 .. MaxPairs) \X (1 .. Parts)
  <2>7. <<wline[w], wpairs[w], part[w] + 1>> \in Written
    BY <2>2, <2>4, <2>6 DEF Parts
  <2>8. out \in Seq(Written)
    BY DEF StdoutType
  <2> HIDE DEF Written
  <2>9. out' \in Seq(Written)
    <3>1. PICK e \in Written : e = <<wline[w], wpairs[w], part[w] + 1>>
      BY <2>7
    <3>2. out' = Append(out, e) \/ out' = out
      BY <1>6, <3>1 DEF EmitWrite, WritePart
    <3> QED
      BY <2>8, <3>1, <3>2
  <2>10. StdoutType'
    BY <1>6, <2>9 DEF EmitWrite, WritePart, StdoutType, Written
  <2> QED
    BY <1>6, <1>b, <2>3, <2>10 DEF EmitWrite, WritePart, QueueType, ControlType, FateType
<1> QED
  BY <1>1, <1>2, <1>3, <1>4, <1>5, <1>6 DEF Worker

--------------------------------------------------------------------------------
(***************************************************************************)
(* Control                                                                 *)
(***************************************************************************)

\* What a worker's step leaves alone, whatever it does.
LEMMA WorkerFrame ==
  ASSUME TypeOK, NEW w \in Workers, Worker(w)
  PROVE  /\ UNCHANGED control /\ UNCHANGED accepted /\ exit = "none"
         /\ wpc[w] \notin {"none", "ended"} /\ wpc'[w] # "none"
         /\ \A v \in Workers \ {w} : wpc'[v] = wpc[v]
         /\ failed \subseteq failed' /\ ("create" \in failed' => "create" \in failed)
<1> USE DEF TypeOK, queue, control, budget, WAt, WGoto, WStep, WEnd, Fail
<1>1. CASE WorkerStart(w) \/ WorkerPop(w) \/ WorkerLast(w)
  BY <1>1, PopCases DEF WorkerStart, PopStep, Got, Buffer, WorkerLast, Q!Take, Q!End
<1>2. CASE UserEmit(w) \/ UserReturn(w) \/ UserFail(w)
  BY <1>2 DEF UserEmit, UserReturn, UserFail
<1>3. CASE EmitLock(w) \/ EmitWrite(w) \/ EmitCount(w) \/ EmitUnlock(w)
  BY <1>3 DEF EmitLock, EnterEmit, EmitWrite, WritePart, EmitCount, EmitUnlock
<1> QED
  BY <1>1, <1>2, <1>3 DEF Worker

\* While the controller is setting up, a worker has nothing to work on.
LEMMA SetupWorker ==
  ASSUME TypeOK, Untouched, NEW w \in Workers, Worker(w) PROVE Untouched'
<1> USE DEF TypeOK, Untouched, queue, control, worker, stdout, fate, WAt, WGoto, WStep, WEnd
<1>1. WorkerStart(w) \/ WorkerPop(w) \/ WorkerLast(w)
  BY DEF Worker, UserEmit, UserReturn, UserFail, EmitLock, EmitWrite, WritePart, EmitCount,
         EmitUnlock
<1>2. ~Q!Take
  BY DEF Q!Take
<1> QED
  <2>1. /\ UNCHANGED <<input, line, stack, taken, out, mapped, refused, dropped>>
        /\ \E c \in {"pop", "last", "ended"} : wpc' = [wpc EXCEPT ![w] = c]
    BY <1>1, <1>2, PopCases DEF WorkerStart, PopStep, Got, Buffer, WorkerLast, Q!End
  <2> QED
    BY <2>1

\* The phases, when a worker steps.
LEMMA PhasesWorker ==
  ASSUME TypeOK, Phases, NEW w \in Workers, Worker(w) PROVE Phases'
<1>1. /\ UNCHANGED control /\ exit = "none"
      /\ wpc[w] \notin {"none", "ended"}
      /\ failed \subseteq failed' /\ ("create" \in failed' => "create" \in failed)
  BY WorkerFrame
<1>2. ~destroyed /\ ctl # "finish"
  BY <1>1 DEF Phases
<1>3. ctl \in Setup => Untouched'
  BY SetupWorker DEF Phases
<1> QED
  BY <1>1, <1>2, <1>3 DEF Phases, control

\* The phases, when the controller steps.
LEMMA PhasesController == ASSUME TypeOK, Phases, Controller PROVE Phases'
<1> USE NoneAssumption
    DEF NoneAssumption, TypeOK, queue, control, worker, stdout, fate, budget, At, Step,
        Exit,
        Fail
<1>1. CASE CtlStart
  BY <1>1 DEF CtlStart, Phases, Setup, Untouched
<1>2. CASE CtlCreate
  <2>1. UNCHANGED <<input, line, stack, taken, out, mapped, refused, dropped>>
    BY <1>2 DEF CtlCreate, Create
  <2>2. \A w \in Workers : wpc'[w] = wpc[w] \/ wpc'[w] = "start"
    BY <1>2 DEF CtlCreate, Create
  <2>3. Untouched
    BY <1>2 DEF CtlCreate, Phases, Setup
  <2>4. Untouched'
    BY <2>1, <2>2, <2>3 DEF Untouched
  <2> QED
    BY <1>2, <2>4 DEF CtlCreate, Create, Phases, Setup
<1>3. CASE CtlShut
  BY <1>3, CloseCases DEF CloseStep, Buffer, Q!Close, Phases, Setup, Untouched
<1>4. CASE CtlAbort
  BY <1>4 DEF CtlAbort, Phases, Setup, Untouched
<1>5. CASE CtlReceive
  BY <1>5 DEF CtlReceive, GetLine, GetEof, Phases, Setup
<1>6. CASE CtlPush
  BY <1>6, PushCases DEF PushStep, Phases, Setup
<1>7. CASE CtlClose
  BY <1>7, CloseCases DEF CloseStep, Phases, Setup
<1>8. CASE CtlJoin
  BY <1>8 DEF CtlJoin, Joined, Phases, Setup
<1>9. CASE CtlFinish
  BY <1>9 DEF CtlFinish, Phases, Setup
<1> QED
  BY <1>1, <1>2, <1>3, <1>4, <1>5, <1>6, <1>7, <1>8, <1>9 DEF Controller

\* What a controller's step leaves alone: only thrd_create touches a worker.
LEMMA ControllerFrame ==
  ASSUME TypeOK, Controller
  PROVE  /\ UNCHANGED <<wline, wpairs, part, code, stdout, mapped, refused, taken, ended>>
         /\ \A v \in Workers : wpc'[v] = wpc[v] \/ (wpc[v] = "none" /\ wpc'[v] = "start")
         /\ failed \subseteq failed'
         /\ \A k \in {"unlock", "write"} : k \in failed' => k \in failed
<1> USE DEF TypeOK, queue, control, worker, stdout, fate, budget, Fail
<1>1. CASE CtlStart \/ CtlCreate \/ CtlShut \/ CtlAbort
  BY <1>1, CloseCases
  DEF CtlStart, CtlCreate, Create, CtlAbort, CloseStep, Buffer, Step, Q!Close
<1>2. CASE CtlReceive \/ CtlPush
  BY <1>2, PushCases DEF CtlReceive, GetLine, GetEof, PushStep, Buffer, Q!Put
<1>3. CASE CtlClose \/ CtlJoin \/ CtlFinish
  BY <1>3, CloseCases DEF CtlJoin, Joined, CtlFinish, CloseStep, Buffer, Q!Close
<1> QED
  BY <1>1, <1>2, <1>3 DEF Controller

\* What the workers hold, when the controller steps.
LEMMA HandsController == ASSUME TypeOK, Hands, Controller PROVE Hands'
<1>1. Holding' = Holding
  BY ControllerFrame DEF Holding
<1> QED
  BY <1>1, ControllerFrame DEF Hands

\* What the workers hold, when one of them steps.
LEMMA HandsWorker == ASSUME TypeOK, Hands, NEW w \in Workers, Worker(w) PROVE Hands'
<1> USE DEF TypeOK, WAt, WGoto, WStep, WEnd, Hands, Holding, Parts
<1>1. CASE WorkerStart(w) \/ WorkerLast(w) \/ UserReturn(w) \/ UserFail(w)
  BY <1>1 DEF WorkerStart, WorkerLast, UserReturn, UserFail
<1>2. CASE WorkerPop(w)
  <2>1. Q!Take => stack[Len(stack)] \in Lines
    BY TakeType, TypeParts
  <2>2. CASE Got(w)
    BY <2>1, <2>2 DEF Got
  <2>3. CASE WStep(w, "last")
    BY <2>3
  <2> QED
    BY <1>2, <2>2, <2>3, PopCases DEF PopStep
<1>3. CASE UserEmit(w)
  BY <1>3 DEF UserEmit
<1>4. CASE EmitLock(w)
  <2>1. /\ UNCHANGED <<wline, wpairs>> /\ wpc[w] = "lock"
        /\ wpc' = [wpc EXCEPT ![w] = "write"] \/ wpc' = [wpc EXCEPT ![w] = "user"]
        /\ part' = part \/ part' = [part EXCEPT ![w] = 0]
    BY <1>4 DEF EmitLock, EnterEmit
  <2>2. wpc'[w] = "write" => part'[w] < 3
    BY <1>4 DEF EmitLock, EnterEmit
  <2> QED
    BY <2>1, <2>2
<1>5. CASE EmitWrite(w)
  <2>1. part[w] \in 0 .. 3 /\ part[w] < 3
    BY <1>5 DEF EmitWrite, WritePart
  <2>2. part[w] + 1 # 3 => part[w] + 1 < 3
    BY <2>1
  <2> QED
    BY <1>5, <2>2 DEF EmitWrite, WritePart
<1>6. CASE EmitCount(w) \/ EmitUnlock(w)
  BY <1>6 DEF EmitCount, EmitUnlock
<1> QED
  BY <1>1, <1>2, <1>3, <1>4, <1>5, <1>6 DEF Worker

\* The mutex, when the controller steps.
LEMMA LockedController == ASSUME TypeOK, Locked, Controller PROVE Locked'
<1>1. /\ mutex' = mutex /\ ("unlock" \in failed => "unlock" \in failed')
      /\ \A v \in Workers : wpc'[v] \in Inside <=> wpc[v] \in Inside
  BY ControllerFrame DEF stdout, Inside
<1>2. mutex \in Workers \cup {None}
  BY DEF TypeOK
<1> QED
  BY <1>1, <1>2 DEF Locked

\* The mutex, when a worker steps.
LEMMA LockedWorker == ASSUME TypeOK, Locked, NEW w \in Workers, Worker(w) PROVE Locked'
<1> USE NoneAssumption
    DEF NoneAssumption, TypeOK, stdout, budget, WAt, WGoto, WStep, WEnd, Locked, Inside,
        Fail
<1>1. CASE WorkerStart(w) \/ WorkerPop(w) \/ WorkerLast(w)
  BY <1>1, PopCases DEF WorkerStart, PopStep, Got, WorkerLast
<1>2. CASE UserEmit(w) \/ UserReturn(w) \/ UserFail(w)
  <2>1. /\ mutex' = mutex /\ failed' = failed /\ wpc[w] = "user"
        /\ \E c \in {"lock", "pop", "ended"} : wpc' = [wpc EXCEPT ![w] = c]
    BY <1>2 DEF UserEmit, UserReturn, UserFail
  <2> QED
    BY <2>1
<1>3. CASE EmitLock(w)
  BY <1>3 DEF EmitLock, EnterEmit
<1>4. CASE EmitWrite(w) \/ EmitCount(w)
  BY <1>4 DEF EmitWrite, WritePart, EmitCount
<1>5. CASE EmitUnlock(w)
  BY <1>5 DEF EmitUnlock
<1> QED
  BY <1>1, <1>2, <1>3, <1>4, <1>5 DEF Worker

\* Nothing is added to a closed queue, so a drained one stays drained.
LEMMA DrainedStep ==
  ASSUME TypeOK, Drained, Next
  PROVE  Drained'
<1> SUFFICES ASSUME failed' = {}, refused' = {}, NEW v \in Workers,
                    wpc'[v] \in {"last", "ended"}
             PROVE  closed' /\ stack' = <<>>
  BY DEF Drained
<1> USE DEF TypeOK, queue, budget, fate, worker, WAt, WGoto, WStep, WEnd, Fail
<1>1. CASE CtlStart \/ CtlCreate \/ CtlShut \/ CtlAbort \/ CtlClose \/ CtlJoin \/ CtlFinish
  BY <1>1, CloseCases
  DEF Drained, CtlStart, CtlCreate, Create, CtlAbort, CtlJoin, Joined, CtlFinish, CloseStep,
     Buffer, Q!Close
<1>2. CASE CtlReceive \/ CtlPush
  BY <1>2, PushCases DEF Drained, CtlReceive, GetLine, GetEof, PushStep, Q!Put
<1>3. ASSUME NEW w \in Workers, Worker(w)
      PROVE  closed' /\ stack' = <<>>
  <2>1. CASE WorkerStart(w) \/ WorkerLast(w)
    BY <2>1 DEF Drained, WorkerStart, WorkerLast
  <2>2. CASE WorkerPop(w)
    BY <2>2, PopCases DEF Drained, PopStep, Got, Q!Take, Q!End
  <2>3. CASE UserEmit(w) \/ UserReturn(w) \/ UserFail(w)
    BY <2>3 DEF Drained, UserEmit, UserReturn, UserFail
  <2>4. CASE EmitLock(w) \/ EmitWrite(w) \/ EmitCount(w) \/ EmitUnlock(w)
    BY <2>4 DEF Drained, EmitLock, EnterEmit, EmitWrite, WritePart, EmitCount, EmitUnlock
  <2> QED
    BY <1>3, <2>1, <2>2, <2>3, <2>4 DEF Worker
<1>4. CASE Exited \/ Waiting
  BY <1>4, WaitingFrame DEF Drained, Buffer, Exited, vars
<1> QED
  BY <1>1, <1>2, <1>3, <1>4 DEF Next, Controller

\* Only a step with a failing call drops a line.
LEMMA DroppedStep == ASSUME TypeOK, DroppedFailed, Next PROVE DroppedFailed'
<1> USE DEF DroppedFailed, TypeOK, budget, fate, Fail
<1>1. CASE CtlStart \/ CtlCreate \/ CtlShut \/ CtlAbort \/ CtlClose \/ CtlJoin \/ CtlFinish
  BY <1>1, CloseCases
  DEF CtlStart, CtlCreate, Create, CtlAbort, CtlJoin, Joined, CtlFinish, CloseStep
<1>2. CASE CtlReceive \/ CtlPush
  BY <1>2, PushCases DEF CtlReceive, GetLine, GetEof, PushStep
<1>3. ASSUME NEW w \in Workers, Worker(w)
      PROVE  DroppedFailed'
  BY <1>3, PopCases DEF Worker, WorkerStart, PopStep, Got, WorkerLast, UserEmit, UserReturn,
     UserFail, EmitLock, EnterEmit, EmitWrite, WritePart, EmitCount, EmitUnlock
<1>4. CASE Exited \/ Waiting
  BY <1>4, WaitingFrame DEF Exited, vars
<1> QED
  BY <1>1, <1>2, <1>3, <1>4 DEF Next, Controller

--------------------------------------------------------------------------------
(***************************************************************************)
(* The pipe                                                                *)
(***************************************************************************)

\* What a worker's step does to the pipe: nothing, a frame begins, a part is written, a
\* write fails, or the frame is counted.
Aside(w) ==
  /\ wpc[w] \notin {"write", "count"} /\ wpc'[w] \notin {"write", "count"}
  /\ UNCHANGED <<out, pairs>>
Begin(w) ==
  /\ wpc[w] = "lock" /\ mutex = None /\ wpc'[w] = "write" /\ part'[w] = 0
  /\ UNCHANGED <<out, pairs>>
PartWritten(w) ==
  /\ wpc[w] = "write"
  /\ out' = Append(out, <<wline[w], wpairs[w], part[w] + 1>>)
  /\ part'[w] = part[w] + 1 /\ wline'[w] = wline[w] /\ wpairs'[w] = wpairs[w]
  /\ wpc'[w] = IF part[w] + 1 = 3 THEN "count" ELSE "write"
  /\ pairs' = pairs
Broken(w) ==
  /\ wpc[w] = "write" /\ wpc'[w] = "unlock" /\ "write" \in failed'
  /\ UNCHANGED <<out, pairs>>
Counted(w) ==
  /\ wpc[w] = "count" /\ wpc'[w] = "unlock" /\ pairs' = pairs + 1
  /\ out' = out

\* A worker's step does one of these, and leaves the other workers alone.
LEMMA PipeCases ==
  ASSUME TypeOK, NEW w \in Workers, Worker(w)
  PROVE  /\ Aside(w) \/ Begin(w) \/ PartWritten(w) \/ Broken(w) \/ Counted(w)
         /\ \A v \in Workers \ {w} :
              /\ wpc'[v] = wpc[v] /\ part'[v] = part[v]
              /\ wline'[v] = wline[v] /\ wpairs'[v] = wpairs[v]
         /\ failed \subseteq failed'
<1> USE DEF TypeOK, worker, stdout, budget, WAt, WGoto, WStep, WEnd, Fail,
            Aside, Begin, PartWritten, Broken, Counted
<1>1. CASE WorkerStart(w) \/ WorkerPop(w) \/ WorkerLast(w)
  BY <1>1, PopCases DEF WorkerStart, PopStep, Got, WorkerLast
<1>2. CASE UserEmit(w) \/ UserReturn(w) \/ UserFail(w)
  BY <1>2 DEF UserEmit, UserReturn, UserFail
<1>3. CASE EmitLock(w)
  BY <1>3 DEF EmitLock, EnterEmit
<1>4. CASE EmitWrite(w)
  BY <1>4 DEF EmitWrite, WritePart, Parts
<1>5. CASE EmitCount(w)
  BY <1>5 DEF EmitCount
<1>6. CASE EmitUnlock(w)
  BY <1>6 DEF EmitUnlock
<1> QED
  BY <1>1, <1>2, <1>3, <1>4, <1>5, <1>6 DEF Worker

\* What a written part adds to the pipe.
LEMMA Written ==
  ASSUME TypeOK, Hands, NEW w \in Workers, PartWritten(w)
  PROVE  /\ Len(out) \in Nat /\ Len(out') = Len(out) + 1
         /\ \A k \in 1 .. Len(out) : out'[k] = out[k]
         /\ out'[Len(out) + 1] = <<wline[w], wpairs[w], part[w] + 1>>
         /\ part[w] \in 0 .. 2
<1> DEFINE S == Lines \X (1 .. MaxPairs) \X (1 .. Parts)
           e == <<wline[w], wpairs[w], part[w] + 1>>
<1>1. out \in Seq(S)
  BY DEF TypeOK
<1>2. part[w] \in 0 .. 3 /\ part[w] < 3
  BY DEF TypeOK, Hands, PartWritten, Parts
<1>3. out' = Append(out, e)
  BY DEF PartWritten
<1> HIDE DEF S, e
<1>4. /\ Len(out) \in Nat /\ Len(out') = Len(out) + 1
      /\ \A k \in 1 .. Len(out) : out'[k] = out[k]
      /\ out'[Len(out) + 1] = e
  BY <1>1, <1>3
<1> QED
  BY <1>2, <1>4 DEF e

\* The writer is alone.
LEMMA OneWriter ==
  ASSUME TypeOK, Locked, NEW w \in Workers, wpc[w] \in Inside
  PROVE  \A v \in Workers \ {w} : wpc[v] \notin Inside
  BY DEF Locked

\* The pipe stays in step with pairs_count.
LEMMA InStepWorker ==
  ASSUME TypeOK, Hands, Locked, InStep, NEW w \in Workers, Worker(w)
  PROVE  InStep'
<1> SUFFICES ASSUME "write" \notin failed' PROVE InStep'
  BY DEF InStep
<1>1. /\ \A v \in Workers \ {w} :
          /\ wpc'[v] = wpc[v] /\ part'[v] = part[v]
          /\ wline'[v] = wline[v] /\ wpairs'[v] = wpairs[v]
      /\ "write" \notin failed
  BY PipeCases
<1>2. pairs \in Nat /\ Len(out) \in Nat
  BY DEF TypeOK
<1>3. CASE Aside(w)
  BY <1>1, <1>3 DEF InStep, Aside
<1>4. CASE Begin(w)
  <2>1. \A v \in Workers : wpc[v] \notin {"write", "count"}
    BY <1>4, NoneAssumption DEF Locked, Inside, Begin, NoneAssumption
  <2>2. Len(out) = 3 * pairs
    BY <1>1, <2>1 DEF InStep
  <2>3. Len(out') = 3 * pairs' + part'[w] /\ wpc'[w] = "write" /\ ~(part'[w] > 0)
    BY <1>2, <1>4, <2>2 DEF Begin
  <2> QED
    BY <1>1, <2>1, <2>3 DEF InStep
<1>5. CASE PartWritten(w)
  <2>1. \A v \in Workers \ {w} : wpc[v] \notin {"write", "count"}
    BY <1>5, OneWriter DEF Inside, PartWritten
  <2>2. Len(out) = 3 * pairs + part[w]
    BY <1>1, <1>5 DEF InStep, PartWritten
  <2>3. /\ Len(out') = Len(out) + 1 /\ part[w] \in 0 .. 2
        /\ out'[Len(out) + 1] = <<wline[w], wpairs[w], part[w] + 1>>
    BY <1>5, Written
  <2>4. /\ part'[w] = part[w] + 1 /\ wline'[w] = wline[w] /\ wpairs'[w] = wpairs[w]
        /\ wpc'[w] = IF part[w] + 1 = 3 THEN "count" ELSE "write"
        /\ pairs' = pairs
    BY <1>5 DEF PartWritten
  <2>5. Len(out') = 3 * pairs' + part'[w]
    BY <1>2, <2>2, <2>3, <2>4
  <2>6. out'[Len(out')][1] = wline'[w] /\ out'[Len(out')][2] = wpairs'[w]
    BY <2>3, <2>4
  <2>7. wpc'[w] = "count" => Len(out') = 3 * pairs' + 3
    BY <2>3, <2>4, <2>5
  <2> QED
    BY <1>1, <2>1, <2>4, <2>5, <2>6, <2>7 DEF InStep
<1>6. CASE Broken(w)
  BY <1>6 DEF Broken
<1>7. CASE Counted(w)
  <2>1. \A v \in Workers \ {w} : wpc[v] \notin {"write", "count"}
    BY <1>7, OneWriter DEF Inside, Counted
  <2>2. Len(out) = 3 * pairs + 3
    BY <1>1, <1>7 DEF InStep, Counted
  <2>3. Len(out') = 3 * pairs' /\ wpc'[w] = "unlock"
    BY <1>2, <1>7, <2>2 DEF Counted
  <2> QED
    BY <1>1, <2>1, <2>3 DEF InStep
<1> QED
  BY <1>3, <1>4, <1>5, <1>6, <1>7, PipeCases

\* The frames stay whole.
LEMMA FramesWorker ==
  ASSUME TypeOK, Hands, InStep, FramesWhole, NEW w \in Workers, Worker(w)
  PROVE  FramesWhole'
<1> SUFFICES ASSUME "write" \notin failed' PROVE FramesWhole'
  BY DEF FramesWhole
<1>1. "write" \notin failed
  BY PipeCases
<1>2. CASE out' = out
  BY <1>1, <1>2 DEF FramesWhole
<1>3. CASE PartWritten(w)
  <2>1. /\ Len(out) \in Nat /\ Len(out') = Len(out) + 1 /\ part[w] \in 0 .. 2
        /\ \A k \in 1 .. Len(out) : out'[k] = out[k]
        /\ out'[Len(out) + 1] = <<wline[w], wpairs[w], part[w] + 1>>
    BY <1>3, Written
  <2>2. /\ Len(out) = 3 * pairs + part[w]
        /\ part[w] > 0 => /\ out[Len(out)][1] = wline[w]
                          /\ out[Len(out)][2] = wpairs[w]
    BY <1>1, <1>3 DEF InStep, PartWritten
  <2>3. pairs \in Nat
    BY DEF TypeOK
  <2>4. Len(out) % 3 = part[w]
    BY <2>1, <2>2, <2>3
  <2> SUFFICES ASSUME NEW k \in 1 .. Len(out')
               PROVE  /\ out'[k][3] = ((k - 1) % 3) + 1
                      /\ out'[k][3] > 1 => /\ out'[k - 1][1] = out'[k][1]
                                          /\ out'[k - 1][2] = out'[k][2]
    BY DEF FramesWhole, Parts
  <2>5. CASE k \in 1 .. Len(out)
    <3>1. /\ out[k][3] = ((k - 1) % 3) + 1
          /\ out[k][3] > 1 => out[k - 1][1] = out[k][1] /\ out[k - 1][2] = out[k][2]
      BY <1>1, <2>5 DEF FramesWhole, Parts
    <3>2. out'[k] = out[k]
      BY <2>1, <2>5
    <3>3. out[k][3] > 1 => k - 1 \in 1 .. Len(out)
      BY SMTT(15), <2>1, <2>5, <3>1
    <3> QED
      BY <2>1, <3>1, <3>2, <3>3
  <2>6. CASE k = Len(out) + 1
    <3>1. out'[k][1] = wline[w] /\ out'[k][2] = wpairs[w] /\ out'[k][3] = part[w] + 1
      BY <2>1, <2>6
    <3>2. out'[k][3] = ((k - 1) % 3) + 1
      BY <2>1, <2>4, <2>6, <3>1
    <3>3. ASSUME out'[k][3] > 1
          PROVE  out'[k - 1][1] = out'[k][1] /\ out'[k - 1][2] = out'[k][2]
      <4>1. part[w] > 0
        BY <2>1, <3>1, <3>3
      <4>2. k - 1 = Len(out) /\ Len(out) \in 1 .. Len(out)
        BY <2>1, <2>2, <2>3, <2>6, <4>1
      <4> QED
        BY <2>1, <2>2, <3>1, <4>1, <4>2
    <3> QED
      BY <3>2, <3>3
  <2> QED
    BY <2>1, <2>5, <2>6
<1> QED
  BY <1>2, <1>3, PipeCases DEF Aside, Begin, Broken, Counted

\* pairs_count counts the complete frames.
LEMMA PairsWorker ==
  ASSUME TypeOK, Hands, PairsCounted, NEW w \in Workers, Worker(w)
  PROVE  PairsCounted'
<1> DEFINE Counting == {v \in Workers : wpc[v] = "count"}
<1>1. \A v \in Workers \ {w} : wpc'[v] = wpc[v]
  BY PipeCases
<1>2. IsFiniteSet(Counting) /\ Cardinality(Counting) \in Nat
  BY WorkersAssumption, FS_Subset, FS_CardinalityType DEF WorkersAssumption
<1>3. Len(out) \in Nat /\ DOMAIN out = 1 .. Len(out) /\ pairs \in Nat
  BY DEF TypeOK
<1>4. IsFiniteSet(Complete) /\ Cardinality(Complete) \in Nat
  <2>1. IsFiniteSet(1 .. Len(out))
    BY <1>3, FS_Interval
  <2> QED
    BY <1>3, <2>1, FS_Subset, FS_CardinalityType DEF Complete
<1>5. pairs + Cardinality(Counting) = Cardinality(Complete)
  BY DEF PairsCounted
<1>6. CASE Aside(w) \/ Begin(w) \/ Broken(w)
  <2>1. Counting' = Counting /\ Complete' = Complete /\ pairs' = pairs
    BY <1>1, <1>6 DEF Aside, Begin, Broken, Complete
  <2> QED
    BY <1>5, <2>1 DEF PairsCounted
<1>7. CASE PartWritten(w)
  <2>1. /\ Len(out') = Len(out) + 1 /\ part[w] \in 0 .. 2
        /\ \A k \in 1 .. Len(out) : out'[k] = out[k]
        /\ out'[Len(out) + 1] = <<wline[w], wpairs[w], part[w] + 1>>
    BY <1>7, Written
  <2>2. pairs' = pairs /\ w \notin Counting
    BY <1>7 DEF PartWritten
  <2>3. DOMAIN out' = (1 .. Len(out)) \cup {Len(out) + 1}
    <3>1. DOMAIN out' = 1 .. Len(out')
      BY WorkerTypes DEF TypeOK
    <3> QED
      BY <1>3, <2>1, <3>1
  <2>4. out'[Len(out) + 1][3] = part[w] + 1
    BY <2>1
  <2>5. CASE part[w] + 1 = 3
    <3>1. Counting' = Counting \cup {w}
      BY <1>1, <1>7, <2>5 DEF PartWritten
    <3>2. Complete' = Complete \cup {Len(out) + 1} /\ Len(out) + 1 \notin Complete
      BY <1>3, <2>1, <2>3, <2>4, <2>5 DEF Complete, Parts
    <3>3. Cardinality(Counting') = Cardinality(Counting) + 1
      BY <1>2, <2>2, <3>1, FS_AddElement
    <3>4. Cardinality(Complete') = Cardinality(Complete) + 1
      BY <1>4, <3>2, FS_AddElement
    <3>5. pairs' + Cardinality(Counting') = Cardinality(Complete')
      BY <1>2, <1>3, <1>4, <1>5, <2>2, <3>3, <3>4
    <3> QED
      BY <3>5 DEF PairsCounted
  <2>6. CASE part[w] + 1 # 3
    <3>1. Counting' = Counting
      BY <1>1, <1>7, <2>6 DEF PartWritten
    <3>2. Complete' = Complete
      BY <1>3, <2>1, <2>3, <2>4, <2>6 DEF Complete, Parts
    <3> QED
      BY <1>5, <2>2, <3>1, <3>2 DEF PairsCounted
  <2> QED
    BY <2>5, <2>6
<1>8. CASE Counted(w)
  <2>1. Counting' = Counting \ {w} /\ w \in Counting
    BY <1>1, <1>8 DEF Counted
  <2>2. Complete' = Complete /\ pairs' = pairs + 1
    BY <1>8 DEF Counted, Complete
  <2>3. Cardinality(Counting') = Cardinality(Counting) - 1
    BY <1>2, <2>1, FS_RemoveElement
  <2>4. pairs' + Cardinality(Counting') = Cardinality(Complete')
    BY <1>2, <1>3, <1>5, <2>2, <2>3
  <2> QED
    BY <2>4 DEF PairsCounted
<1> QED
  BY <1>6, <1>7, <1>8, PipeCases

\* The controller does not touch the pipe.
LEMMA PipeController ==
  ASSUME TypeOK, InStep, FramesWhole, PairsCounted, Controller
  PROVE  InStep' /\ FramesWhole' /\ PairsCounted'
<1>1. /\ UNCHANGED <<out, pairs, part, wline, wpairs>>
      /\ \A v \in Workers : wpc'[v] = wpc[v] \/ (wpc[v] = "none" /\ wpc'[v] = "start")
      /\ "write" \in failed' <=> "write" \in failed
  BY ControllerFrame DEF stdout
<1>2. {v \in Workers : wpc[v] = "count"}' = {v \in Workers : wpc[v] = "count"}
  BY <1>1
<1>3. Complete' = Complete
  BY <1>1 DEF Complete
<1>4. InStep'
  BY <1>1 DEF InStep
<1>5. FramesWhole'
  BY <1>1 DEF FramesWhole
<1>6. PairsCounted'
  BY <1>1, <1>2, <1>3 DEF PairsCounted
<1> QED
  BY <1>4, <1>5, <1>6

--------------------------------------------------------------------------------
(***************************************************************************)
(* The places of a line                                                    *)
(***************************************************************************)

\* No two slots of the stack have the same line.
StackDistinct == \A i, j \in DOMAIN stack : stack[i] = stack[j] => i = j
\* No two workers have the same line.
HeldDistinct == \A v, w \in Holding : wline[v] = wline[w] => v = w

\* A line that is not in the stack is put there.
LEMMA PutPlaces ==
  ASSUME TypeOK, StackDistinct, NEW i \in Lines, i \notin Queued, Q!Put(i)
  PROVE  Queued' = Queued \cup {i} /\ StackDistinct'
<1>1. /\ QueueType' /\ Len(stack') = Len(stack) + 1 /\ stack'[Len(stack) + 1] = i
      /\ \A k \in 1 .. Len(stack) : stack'[k] = stack[k]
  BY PutType, TypeParts
<1>2. Len(stack) \in Nat /\ DOMAIN stack = 1 .. Len(stack)
  BY DEF TypeOK
<1>3. DOMAIN stack' = 1 .. Len(stack')
  BY <1>1 DEF QueueType
<1>4. DOMAIN stack' = (1 .. Len(stack)) \cup {Len(stack) + 1}
  BY <1>1, <1>2, <1>3
<1> QED
  BY <1>1, <1>2, <1>4 DEF Queued, StackDistinct

\* The top of the stack is taken away.
LEMMA TakePlaces ==
  ASSUME TypeOK, StackDistinct, Q!Take
  PROVE  /\ Queued' = Queued \ {stack[Len(stack)]} /\ StackDistinct'
         /\ stack[Len(stack)] \in Queued
<1>1. /\ QueueType' /\ Len(stack) > 0 /\ Len(stack') = Len(stack) - 1
      /\ \A k \in 1 .. Len(stack') : stack'[k] = stack[k]
  BY TakeType, TypeParts
<1>2. Len(stack) \in Nat /\ DOMAIN stack = 1 .. Len(stack)
  BY DEF TypeOK
<1>3. DOMAIN stack' = 1 .. Len(stack')
  BY <1>1 DEF QueueType
<1>4. DOMAIN stack = (DOMAIN stack') \cup {Len(stack)} /\ Len(stack) \notin DOMAIN stack'
  BY <1>1, <1>2, <1>3
<1> QED
  BY <1>1, <1>3, <1>4 DEF Queued, StackDistinct

\* A worker that has no line gets one that nobody has.
LEMMA GetHeld ==
  ASSUME TypeOK, HeldDistinct, NEW w \in Workers \ Holding, NEW l \in Lines, l \notin Held,
         Holding' = Holding \cup {w}, wline' = [wline EXCEPT ![w] = l]
  PROVE  Held' = Held \cup {l} /\ HeldDistinct'
<1>1. wline'[w] = l /\ \A v \in Holding : wline'[v] = wline[v]
  BY DEF TypeOK, Holding
<1> QED
  BY <1>1 DEF Held, HeldDistinct

\* A worker lets go of its line.
LEMMA DropHeld ==
  ASSUME HeldDistinct, NEW w \in Holding, Holding' = Holding \ {w}, wline' = wline
  PROVE  Held' = Held \ {wline[w]} /\ HeldDistinct' /\ wline[w] \in Held
  BY DEF Held, HeldDistinct

\* A worker that keeps or lacks its line as before changes nothing.
LEMMA SameHeld ==
  ASSUME HeldDistinct, Holding' = Holding, wline' = wline
  PROVE  Held' = Held /\ HeldDistinct'
  BY DEF Held, HeldDistinct

\* The controller moves a line from the input to its hands, and on to the queue or to the
\* dropped ones.
LEMMA PlacedController ==
  ASSUME TypeOK, Phases, Placed, Controller
  PROVE  Placed'
<1> SUFFICES ASSUME ~PutThenFailed' PROVE Distinct' /\ Partition'
  BY DEF Placed
<1>1. Distinct /\ Partition
  BY ControllerFrame DEF Placed, PutThenFailed
<1>2. Holding' = Holding /\ UNCHANGED <<wline, mapped, refused>>
  BY ControllerFrame DEF Holding
<1>3. Held' = Held /\ HeldDistinct'
  BY <1>1, <1>2, SameHeld DEF Distinct, HeldDistinct
<1>4. CASE CtlStart \/ CtlCreate \/ CtlShut \/ CtlAbort \/ CtlClose \/ CtlJoin \/ CtlFinish
  <2>1. UNCHANGED <<stack, input, line, dropped>>
    BY <1>4, CloseCases DEF CtlStart, CtlCreate, Create, CtlAbort, CtlJoin, Joined,
       CtlFinish, CloseStep, Buffer, Q!Close, Step, Exit, queue, control, fate
  <2>2. Queued' = Queued /\ InHand' = InHand
    BY <2>1 DEF Queued, InHand
  <2> QED
    BY <1>1, <1>2, <1>3, <2>1, <2>2 DEF Distinct, HeldDistinct, Partition
<1>5. CASE CtlReceive
  <2>1. line = None
    BY <1>5 DEF CtlReceive, At, Phases
  <2>2. UNCHANGED <<stack, dropped>>
    BY <1>5 DEF CtlReceive, queue, fate
  <2>3. Queued' = Queued /\ InHand = {}
    BY <2>1, <2>2 DEF Queued, InHand
  <2>4. Distinct'
    BY <1>1, <1>3, <2>2 DEF Distinct, HeldDistinct
  <2>5. CASE UNCHANGED <<input, line>>
    BY <1>1, <1>2, <1>3, <2>2, <2>3, <2>4, <2>5 DEF Partition, InHand
  <2>6. ASSUME NEW l \in input, line' = l, input' = input \ {l}
        PROVE  Partition'
    <3>1. InHand' = {l}
      BY <2>6, NoneAssumption DEF InHand, TypeOK, NoneAssumption
    <3> QED
      BY <1>1, <1>2, <1>3, <2>2, <2>3, <2>6, <3>1 DEF Partition
  <2> QED
    BY <1>5, <2>4, <2>5, <2>6 DEF CtlReceive, GetLine, GetEof
<1>6. CASE CtlPush
  <2>1. line \in Lines /\ InHand = {line} /\ InHand' = {} /\ input' = input
    BY <1>6, PushCases, NoneAssumption
    DEF PushStep, At, Phases, TypeOK, InHand, NoneAssumption
  <2>2. line \notin Queued /\ StackDistinct
    BY <1>1, <2>1 DEF Partition, Distinct, StackDistinct
  <2>3. CASE Q!Put(line) /\ dropped' = dropped
    <3>1. Queued' = Queued \cup {line} /\ StackDistinct'
      BY <2>1, <2>2, <2>3, PutPlaces
    <3> QED
      BY <1>1, <1>2, <1>3, <2>1, <2>2, <2>3, <3>1
      DEF Partition, Distinct, HeldDistinct, StackDistinct
  <2>4. CASE dropped' = dropped \cup {line} /\ stack' = stack
    <3>1. Queued' = Queued
      BY <2>4 DEF Queued
    <3>2. Distinct'
      BY <1>1, <1>3, <2>4 DEF Distinct, HeldDistinct
    <3> QED
      BY <1>1, <1>2, <1>3, <2>1, <2>4, <3>1, <3>2 DEF Partition
  <2> QED
    BY <1>6, <2>3, <2>4, PushCases DEF PushStep, Buffer, Fail, PutThenFailed
<1> QED
  BY <1>4, <1>5, <1>6 DEF Controller

\* A worker moves a line from the queue to its hands, and on to the mapped or the refused
\* ones; a failing pop moves it to the dropped ones.
LEMMA PlacedWorker ==
  ASSUME TypeOK, Hands, Placed, NEW w \in Workers, Worker(w)
  PROVE  Placed'
<1> SUFFICES ASSUME ~PutThenFailed' PROVE Distinct' /\ Partition'
  BY DEF Placed
<1>1. /\ UNCHANGED <<input, line>>
      /\ wpc[w] \notin {"none", "ended"}
      /\ \A v \in Workers \ {w} : wpc'[v] = wpc[v]
      /\ failed \subseteq failed'
  BY WorkerFrame DEF control
<1>2. Distinct /\ Partition /\ InHand' = InHand
  BY <1>1 DEF Placed, PutThenFailed, InHand
<1>3. StackDistinct /\ HeldDistinct
  BY <1>2 DEF Distinct, StackDistinct, HeldDistinct
<1>4. CASE WorkerPop(w)
  <2>1. UNCHANGED <<mapped, refused>> /\ wpc[w] = "pop"
    BY <1>4, PopCases DEF PopStep, Got, WAt
  <2>2. CASE Got(w)
    <3> DEFINE l == stack[Len(stack)]
    <3>1. /\ Queued' = Queued \ {l} /\ StackDistinct'
          /\ l \in Queued
      BY <1>3, <2>2, TakePlaces DEF Got
    <3>2. l \in Lines
      BY <2>2, TakeType, TypeParts DEF Got
    <3>3. Holding' = Holding \cup {w} /\ w \notin Holding
      BY <2>1, <2>2 DEF Got, WGoto, TypeOK, Holding
    <3>4. wline' = [wline EXCEPT ![w] = l] /\ dropped' = dropped
      BY <2>2 DEF Got
    <3>5. l \notin Held
      BY <1>2, <3>1 DEF Partition
    <3> HIDE DEF l
    <3>6. Held' = Held \cup {l} /\ HeldDistinct'
      BY <1>3, <3>2, <3>3, <3>4, <3>5, GetHeld
    <3>7. Distinct'
      BY <3>1, <3>6 DEF Distinct, StackDistinct, HeldDistinct
    <3> QED
      BY <1>1, <1>2, <2>1, <3>1, <3>4, <3>6, <3>7 DEF Partition
  <2>3. CASE WStep(w, "last")
    <3>1. Holding' = Holding /\ wline' = wline
      BY <2>1, <2>3 DEF WStep, WGoto, TypeOK, Holding
    <3>2. Held' = Held /\ HeldDistinct'
      BY <1>3, <3>1, SameHeld
    <3>3. CASE UNCHANGED <<stack, dropped>>
      <4>1. Queued' = Queued /\ StackDistinct'
        BY <1>3, <3>3 DEF Queued, StackDistinct
      <4>2. Distinct'
        BY <3>2, <4>1 DEF Distinct, StackDistinct, HeldDistinct
      <4> QED
        BY <1>1, <1>2, <2>1, <3>2, <3>3, <4>1, <4>2 DEF Partition
    <3>4. CASE Q!Take /\ dropped' = dropped \cup {stack[Len(stack)]}
      <4>1. /\ Queued' = Queued \ {stack[Len(stack)]} /\ StackDistinct'
            /\ stack[Len(stack)] \in Queued
        BY <1>3, <3>4, TakePlaces
      <4>2. Distinct'
        BY <3>2, <4>1 DEF Distinct, StackDistinct, HeldDistinct
      <4> QED
        BY <1>1, <1>2, <2>1, <3>2, <3>4, <4>1, <4>2 DEF Partition
    <3>5. ~Got(w)
      BY <2>3 DEF Got, WStep, WGoto, TypeOK
    <3>6. Q!End(w) => UNCHANGED stack
      BY DEF Q!End
    <3> QED
      BY <1>4, <3>3, <3>4, <3>5, <3>6, PopCases DEF PopStep, Buffer
  <2> QED
    BY <1>4, <2>2, <2>3, PopCases DEF PopStep
<1>5. CASE UserReturn(w) \/ UserFail(w)
  <2>1. w \in Holding /\ Holding' = Holding \ {w} /\ wline' = wline
    BY <1>5 DEF UserReturn, UserFail, WAt, WStep, WEnd, WGoto, TypeOK, Holding
  <2>2. Held' = Held \ {wline[w]} /\ HeldDistinct' /\ wline[w] \in Held
    BY <1>3, <2>1, DropHeld
  <2>3. UNCHANGED <<stack, dropped>>
    BY <1>5 DEF UserReturn, UserFail, queue
  <2>4. Queued' = Queued /\ StackDistinct'
    BY <1>3, <2>3 DEF Queued, StackDistinct
  <2>5. Distinct'
    BY <2>2, <2>4 DEF Distinct, StackDistinct, HeldDistinct
  <2>6. CASE UserReturn(w)
    <3>1. mapped' = mapped \cup {wline[w]} /\ refused' = refused
      BY <2>6 DEF UserReturn
    <3> QED
      BY <1>1, <1>2, <2>2, <2>3, <2>4, <2>5, <3>1 DEF Partition
  <2>7. CASE UserFail(w)
    <3>1. refused' = refused \cup {wline[w]} /\ mapped' = mapped
      BY <2>7 DEF UserFail
    <3> QED
      BY <1>1, <1>2, <2>2, <2>3, <2>4, <2>5, <3>1 DEF Partition
  <2> QED
    BY <1>5, <2>6, <2>7
<1>6. CASE WorkerStart(w) \/ UserEmit(w) \/ EmitLock(w) \/ EmitWrite(w) \/ EmitCount(w)
           \/ EmitUnlock(w) \/ WorkerLast(w)
  <2>1. UNCHANGED <<stack, wline, mapped, refused, dropped>>
    BY <1>6 DEF WorkerStart, UserEmit, EmitLock, EnterEmit, EmitWrite, WritePart, EmitCount,
       EmitUnlock, WorkerLast, WStep, WEnd, queue, fate
  <2>2. Holding' = Holding
    BY <1>6 DEF WorkerStart, UserEmit, EmitLock, EnterEmit, EmitWrite, WritePart, EmitCount,
       EmitUnlock, WorkerLast, WAt, WStep, WEnd, WGoto, TypeOK, Holding
  <2>3. Held' = Held /\ HeldDistinct'
    BY <1>3, <2>1, <2>2, SameHeld
  <2>4. Queued' = Queued /\ StackDistinct'
    BY <1>3, <2>1 DEF Queued, StackDistinct
  <2>5. Distinct'
    BY <2>3, <2>4 DEF Distinct, StackDistinct, HeldDistinct
  <2> QED
    BY <1>1, <1>2, <2>1, <2>3, <2>4, <2>5 DEF Partition
<1> QED
  BY <1>4, <1>5, <1>6 DEF Worker

--------------------------------------------------------------------------------
(***************************************************************************)
(* The invariant, and what follows from it                                 *)
(***************************************************************************)

\* The initial state.
LEMMA InitInv == Init => IInv
<1> SUFFICES ASSUME Init PROVE IInv
  OBVIOUS
<1> USE NoneAssumption, WorkersAssumption, BoundsAssumption
    DEF NoneAssumption, WorkersAssumption, BoundsAssumption, Init, Q!InitCalls, Q!Init
<1>1. TypeOK
  <2>1. stack \in Seq(Lines) /\ Len(stack) <= Capacity
    OBVIOUS
  <2>2. out \in Seq(Lines \X (1 .. MaxPairs) \X (1 .. Parts))
    OBVIOUS
  <2>3. wpairs \in [Workers -> 0 .. MaxPairs] /\ part \in [Workers -> 0 .. Parts]
    BY DEF Parts
  <2> QED
    BY <2>1, <2>2, <2>3 DEF TypeOK
<1>2. Phases
  BY DEF Phases, Setup, Untouched
<1>3. Hands /\ Locked /\ FramesWhole /\ InStep
  BY DEF Hands, Holding, Locked, Inside, FramesWhole, InStep
<1>4. PairsCounted
  <2>1. {w \in Workers : wpc[w] = "count"} = {} /\ Complete = {}
    BY DEF Complete
  <2>2. Cardinality({}) = 0 /\ pairs = 0
    BY FS_EmptySet
  <2>3. Cardinality({w \in Workers : wpc[w] = "count"}) = 0 /\ Cardinality(Complete) = 0
    BY <2>1, <2>2, Zenon
  <2> HIDE DEF Init
  <2> QED
    BY <2>2, <2>3 DEF PairsCounted
<1>5. Drained /\ DroppedFailed
  BY DEF Drained, DroppedFailed
<1>6. Placed
  <2>1. InHand = {} /\ Queued = {} /\ Held = {} /\ Holding = {}
    BY DEF InHand, Queued, Held, Holding
  <2> QED
    BY <2>1 DEF Placed, Distinct, Partition
<1> QED
  BY <1>1, <1>2, <1>3, <1>4, <1>5, <1>6 DEF IInv

\* Every step.
LEMMA NextInv == IInv /\ [Next]_vars => IInv'
<1> SUFFICES ASSUME IInv, [Next]_vars PROVE IInv'
  OBVIOUS
<1>1. CASE Controller
  BY <1>1, ControllerType, PhasesController, HandsController, LockedController,
     PipeController, DrainedStep, DroppedStep, PlacedController DEF IInv, Next
<1>2. ASSUME NEW w \in Workers, Worker(w) PROVE IInv'
  BY <1>2, WorkerTypes, PhasesWorker, HandsWorker, LockedWorker, InStepWorker, FramesWorker,
     PairsWorker, DrainedStep, DroppedStep, PlacedWorker DEF IInv, Next
<1>3. CASE Waiting \/ UNCHANGED vars
  <2>1. UNCHANGED <<Buffer, control, worker, stdout, fate, budget>>
    BY <1>3, WaitingFrame DEF vars, queue, Buffer
  <2>2. SleepType'
    BY <1>3, SleepStep, TypeParts DEF IInv, Next, vars, queue, SleepType
  <2>3. TypeOK' /\ Phases'
    BY <2>1, <2>2, TypeParts, TypePartsNext
    DEF IInv, QueueType, ControlType, WorkerType, StdoutType, FateType, BudgetType, Phases,
       Setup, Untouched, Buffer, control, worker, stdout, fate, budget
  <2>4. Hands' /\ Locked' /\ FramesWhole' /\ InStep' /\ PairsCounted'
    BY <2>1 DEF IInv, Hands, Holding, Locked, FramesWhole, InStep, PairsCounted, Complete,
       worker, stdout, budget
  <2>5. Drained' /\ DroppedFailed' /\ Placed'
    BY <2>1 DEF IInv, Drained, DroppedFailed, Placed, PutThenFailed, Distinct, Partition,
       InHand, Queued, Held, Holding, Buffer, control, worker, fate, budget
  <2> QED
    BY <2>3, <2>4, <2>5 DEF IInv
<1> QED
  BY <1>1, <1>2, <1>3 DEF Next, Exited

\* The invariant is inductive.
LEMMA Inductive == Spec => []IInv
  BY InitInv, NextInv, PTL DEF Spec

\* Whatever fails, mapper_process_main destroys the queue, the stdout mutex and the
\* workers' arguments only when no worker can touch them any more.
THEOREM NothingUsedAfterDestroy == Spec => []DestroyedUnused
<1>1. IInv => DestroyedUnused
  BY DEF IInv, DestroyedUnused, Phases, Locked, Inside, TypeOK
<1> QED
  BY <1>1, Inductive, PTL

\* The frames that the workers write to the pipe are whole and counted: stdout_mutex is
\* what keeps send_pair_to_reducer's three writes together.
THEOREM PipeInStep == Spec => []PipeConsistent
<1>1. IInv => PipeConsistent
  BY DEF IInv, PipeConsistent
<1> QED
  BY <1>1, Inductive, PTL

\* A process that could not create its workers has handed over nothing and written nothing.
THEOREM AbortIsSilent == Spec => []AbortEmitsNothing
<1>1. IInv => AbortEmitsNothing
  BY DEF IInv, AbortEmitsNothing, Phases, Setup, Untouched
<1> QED
  BY <1>1, Inductive, PTL

\* The invariant puts every line in exactly one place.
LEMMA OnePlace == IInv => LineInOnePlace
<1> SUFFICES ASSUME IInv, ~PutThenFailed
             PROVE  /\ \A l \in Lines : \E n \in DOMAIN Places :
                         l \in Places[n] /\ \A m \in DOMAIN Places \ {n} : l \notin Places[m]
                    /\ \A v, w \in Holding : wline[v] = wline[w] => v = w
  BY DEF LineInOnePlace
<1>1. Distinct /\ Partition
  BY DEF IInv, Placed
<1>2. /\ Places[1] = input /\ Places[2] = InHand /\ Places[3] = Queued /\ Places[4] = Held
      /\ Places[5] = mapped /\ Places[6] = refused /\ Places[7] = dropped
      /\ DOMAIN Places = 1 .. 7
  BY DEF Places, InHand, Queued, Held
<1>3. DOMAIN Places = {1, 2, 3, 4, 5, 6, 7}
  BY <1>2
<1>4. ASSUME NEW l \in Lines
      PROVE  \E n \in DOMAIN Places :
                l \in Places[n] /\ \A m \in DOMAIN Places \ {n} : l \notin Places[m]
  <2>1. CASE l \in input
    BY <1>1, <1>2, <1>3, <2>1 DEF Partition
  <2>2. CASE l \in InHand
    BY <1>1, <1>2, <1>3, <2>2 DEF Partition
  <2>3. CASE l \in Queued
    BY <1>1, <1>2, <1>3, <2>3 DEF Partition
  <2>4. CASE l \in Held
    BY <1>1, <1>2, <1>3, <2>4 DEF Partition
  <2>5. CASE l \in mapped
    BY <1>1, <1>2, <1>3, <2>5 DEF Partition
  <2>6. CASE l \in refused
    BY <1>1, <1>2, <1>3, <2>6 DEF Partition
  <2>7. CASE l \in dropped
    BY <1>1, <1>2, <1>3, <2>7 DEF Partition
  <2> QED
    BY <1>1, <2>1, <2>2, <2>3, <2>4, <2>5, <2>6, <2>7 DEF Partition
<1> QED
  BY <1>1, <1>4 DEF Distinct

\* Every line that main sends is in one place: it is not mapped twice and never vanishes,
\* unless a push failed after the insertion.
THEOREM EveryLineOnce == Spec => []LineInOnePlace
  BY OnePlace, Inductive, PTL

\* A process that exits with EXIT_SUCCESS, when nothing failed and no line was refused, has
\* mapped every line and written every pair as a whole frame.
THEOREM SuccessMapsAll == Spec => []SuccessIsComplete
<1>1. IInv => SuccessIsComplete
  <2> SUFFICES ASSUME IInv, exit = "success", failed = {}, refused = {}
               PROVE  mapped = Lines /\ Len(out) = Parts * pairs
    BY DEF SuccessIsComplete
  <2>1. /\ \A w \in Workers : wpc[w] = "ended"
        /\ input = {} /\ line = None /\ dropped = {}
    BY DEF IInv, Phases, DroppedFailed
  <2>2. stack = <<>>
    BY <2>1, WorkersAssumption DEF IInv, Drained, WorkersAssumption
  <2>3. InHand = {} /\ Queued = {} /\ Held = {}
    BY <2>1, <2>2 DEF InHand, Queued, Held, Holding
  <2>4. mapped = Lines
    BY <2>1, <2>3 DEF IInv, Placed, PutThenFailed, Partition, TypeOK
  <2>5. Len(out) = 3 * pairs
    BY <2>1 DEF IInv, InStep
  <2> QED
    BY <2>4, <2>5 DEF Parts
<1> QED
  BY <1>1, Inductive, PTL
================================================================================
