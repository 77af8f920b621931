------------------------------- MODULE QueueCalls -------------------------------
(***************************************************************************)
(* The calls of queue.c as a process makes them whose controller pushes    *)
(* and closes and whose workers pop: AbstractQueue, and who is asleep on   *)
(* which condition variable.  A call is one step, its critical section.    *)
(* Every call that can fail has a step for each place where it does, since *)
(* what it leaves behind differs: before the section the queue is as it    *)
(* was, after the insertion or removal the queue has changed although the  *)
(* caller is told -1, a failing cnd_signal wakes nobody, and a failing     *)
(* mtx_unlock leaves the mutex locked.  (A mtx_unlock on an error path     *)
(* that fails as well, after the call that led there, is left out.)        *)
(***************************************************************************)
EXTENDS AbstractQueue

VARIABLES
  idle,     \* consumers asleep in cnd_wait(&q->empty)
  asleep,   \* the producer is asleep in cnd_wait(&q->full)
  jammed    \* a failing mtx_unlock has left the mutex locked

calls == <<vars, idle, asleep, jammed>>

InitCalls == Init /\ idle = {} /\ asleep = FALSE /\ jammed = FALSE

\* cnd_signal(&q->empty) wakes one consumer, if any sleeps.
WakeConsumer ==
  \/ idle = {} /\ UNCHANGED idle
  \/ \E c \in idle : idle' = idle \ {c}

\* mr_queue_push by the only producer: cnd_wait while the buffer is full.
PushWaits ==
  /\ ~jammed /\ ~asleep
  /\ Len(stack) = Capacity
  /\ asleep' = TRUE
  /\ UNCHANGED <<vars, idle, jammed>>

Insert(i) == ~jammed /\ ~asleep /\ Put(i) /\ UNCHANGED asleep

\* It returns 0, or -1: mtx_lock or cnd_wait failed, cnd_signal, or mtx_unlock.
Push(i) == Insert(i) /\ WakeConsumer /\ UNCHANGED jammed
PushRefused == asleep' = FALSE /\ UNCHANGED <<vars, idle, jammed>>
PushNoSignal(i) == Insert(i) /\ UNCHANGED <<idle, jammed>>
PushNoUnlock(i) == Insert(i) /\ WakeConsumer /\ jammed' = TRUE

\* mr_queue_pop by consumer c: cnd_wait while the buffer is empty and the queue open.
PopWaits(c) ==
  /\ ~jammed /\ c \notin idle
  /\ stack = <<>> /\ ~closed
  /\ idle' = idle \cup {c}
  /\ UNCHANGED <<vars, asleep, jammed>>

Remove(c) == ~jammed /\ c \notin idle /\ Take /\ UNCHANGED idle

\* It returns 0, or -1 as above; the element is lost when it was removed already.
Pop(c) == Remove(c) /\ asleep' = FALSE /\ UNCHANGED jammed
PopRefused(c) == idle' = idle \ {c} /\ UNCHANGED <<vars, asleep, jammed>>
PopNoSignal(c) == Remove(c) /\ UNCHANGED <<asleep, jammed>>
PopNoUnlock(c) == Remove(c) /\ asleep' = FALSE /\ jammed' = TRUE

\* It returns 1, whether or not mtx_unlock worked.
PopEnd(c) == ~jammed /\ c \notin idle /\ End(c) /\ UNCHANGED <<idle, asleep, jammed>>
PopEndNoUnlock(c) ==
  ~jammed /\ c \notin idle /\ End(c) /\ jammed' = TRUE /\ UNCHANGED <<idle, asleep>>

\* Mutant: cnd_signal instead of cnd_broadcast.
CloseAndWakeOne == ~jammed /\ Close /\ WakeConsumer /\ UNCHANGED <<asleep, jammed>>

\* mr_queue_close: cnd_broadcast wakes every consumer.
CloseAndWake == ~jammed /\ Close /\ idle' = {} /\ UNCHANGED <<asleep, jammed>>
CloseNoSignal == ~jammed /\ Close /\ UNCHANGED <<idle, asleep, jammed>>
CloseNoUnlock == ~jammed /\ Close /\ idle' = {} /\ jammed' = TRUE /\ UNCHANGED asleep

\* cnd_wait may return although nobody has signalled.
WakeUp ==
  /\ \/ asleep /\ asleep' = FALSE /\ UNCHANGED idle
     \/ (\E c \in idle : idle' = idle \ {c}) /\ UNCHANGED asleep
  /\ UNCHANGED <<vars, jammed>>
================================================================================
