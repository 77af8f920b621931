-------------------------------- MODULE MrQueue --------------------------------
(***************************************************************************)
(* The bounded LIFO queue of src/src/queue.c, one step per call it makes   *)
(* to the C11 mutex and condition variables, with the threads that use it  *)
(* the way mapper_process_main does: producers push until no element is    *)
(* left and free an element whose push failed; consumers pop until pop     *)
(* returns something other than 0; the closer closes once every producer   *)
(* has finished, joins the consumers and destroys the queue.               *)
(*                                                                         *)
(* A call of the C11 library may fail: MaxFaults bounds how many do.  A    *)
(* waiter may wake up spuriously: MaxSpurious bounds how often.            *)
(***************************************************************************)
EXTENDS Integers, Sequences, FiniteSets

CONSTANTS
  Producers, Consumers, Closer,  \* the threads
  Items,                         \* elements the producers have to push
  Capacity,                      \* mr_queue_t.capacity
  MaxFaults,                     \* bound: failing library calls
  MaxSpurious,                   \* bound: spurious wake-ups
  None                           \* neither a thread nor an element

Threads == Producers \cup Consumers \cup {Closer}

ASSUME ThreadsAssumption ==
  /\ IsFiniteSet(Producers)
  /\ Producers # {}
  /\ IsFiniteSet(Consumers)
  /\ Producers \cap Consumers = {}
  /\ Closer \notin Producers \cup Consumers
  /\ None \notin Threads \cup Items
ASSUME CapacityAssumption == Capacity \in Nat \ {0}
ASSUME BoundsAssumption == MaxFaults \in Nat /\ MaxSpurious \in Nat

VARIABLES
  buffer,     \* q->buffer: popping leaves the old content of a slot in place
  count,      \* q->count
  closed,     \* q->closed
  destroyed,  \* mr_queue_destroy was called
  owner,      \* holder of q->mutex
  pc,         \* control point of each thread; "wait" = blocked in cnd_wait
  item,       \* the element a thread is pushing, or has copied out
  ret,        \* return value on the way out of the operation
  pending,    \* elements no producer has picked up yet
  pushed,     \* history: elements copied into the buffer
  popped,     \* history: elements copied out of the buffer
  freed,      \* elements a producer freed because its push returned -1
  delivered,  \* elements a consumer got from a pop that returned 0
  ended,      \* consumers whose pop returned 1
  failed,     \* kinds of library call that have failed so far
  faultsLeft, spuriousLeft

queue   == <<buffer, count, closed, destroyed, pushed, popped>>
clients == <<pending, freed, delivered, ended>>
budget  == <<failed, faultsLeft, spuriousLeft>>
vars    == <<queue, owner, pc, item, ret, clients, budget>>

Slots == 0 .. Capacity - 1

Goto(t, to) == pc' = [pc EXCEPT ![t] = to]
Return(t, value) == ret' = [ret EXCEPT ![t] = value]

\* Threads blocked in cnd_wait(&q->full) and in cnd_wait(&q->empty).
WaitFull  == {p \in Producers : pc[p] = "wait"}
WaitEmpty == {c \in Consumers : pc[c] = "wait"}

\* A library call of kind k fails.
Fail(k) ==
  /\ faultsLeft > 0
  /\ faultsLeft' = faultsLeft - 1
  /\ failed' = failed \cup {k}
  /\ UNCHANGED spuriousLeft

\* mr_queue_init.
Init ==
  /\ buffer = [s \in Slots |-> None]
  /\ count = 0
  /\ closed = FALSE
  /\ destroyed = FALSE
  /\ owner = None
  /\ pc = [t \in Threads |-> "idle"]
  /\ item = [t \in Threads |-> None]
  /\ ret = [t \in Threads |-> 0]
  /\ pending = Items
  /\ freed = {} /\ delivered = {} /\ ended = {}
  /\ pushed = {} /\ popped = {}
  /\ failed = {} /\ faultsLeft = MaxFaults /\ spuriousLeft = MaxSpurious

--------------------------------------------------------------------------------
(***************************************************************************)
(* The mutex and the condition variables.                                  *)
(***************************************************************************)

\* mtx_lock, and the re-acquisition at the end of cnd_wait.
Acquire(t, from) ==
  /\ pc[t] = from
  /\ owner = None
  /\ owner' = t
  /\ Goto(t, "check")
  /\ UNCHANGED <<queue, item, ret, clients, budget>>

\* cnd_wait gives the mutex up and blocks in one step, or fails with the mutex held.
CndWait(t) ==
  /\ \/ owner' = None /\ Goto(t, "wait") /\ UNCHANGED <<ret, budget>>
     \/ Fail("wait") /\ Return(t, -1) /\ Goto(t, "unlock") /\ UNCHANGED owner
  /\ UNCHANGED <<queue, item, clients>>

\* cnd_signal wakes one of the waiters, if there is one, or fails and wakes nobody.
CndSignal(t, waiters) ==
  /\ pc[t] = "signal"
  /\ \/ /\ IF waiters = {}
            THEN Goto(t, "unlock")
            ELSE \E w \in waiters : pc' = [pc EXCEPT ![t] = "unlock", ![w] = "relock"]
        /\ Return(t, 0)
        /\ UNCHANGED budget
     \/ Fail("signal") /\ Return(t, -1) /\ Goto(t, "unlock")
  /\ UNCHANGED <<queue, owner, item, clients>>

\* mtx_unlock releases the mutex; if it fails the mutex stays locked.
Release == owner' = None /\ UNCHANGED budget
ReleaseFails == Fail("unlock") /\ UNCHANGED owner

\* A waiter wakes up although nobody signalled it.
Spurious(t) ==
  /\ pc[t] = "wait"
  /\ spuriousLeft > 0
  /\ spuriousLeft' = spuriousLeft - 1
  /\ Goto(t, "relock")
  /\ UNCHANGED <<queue, owner, item, ret, clients, failed, faultsLeft>>

--------------------------------------------------------------------------------
(***************************************************************************)
(* mr_queue_push                                                           *)
(***************************************************************************)
PushCall(p) ==
  /\ pc[p] = "idle"
  /\ \E i \in pending :
       /\ item' = [item EXCEPT ![p] = i]
       /\ pending' = pending \ {i}
  /\ Goto(p, "lock")
  /\ UNCHANGED <<queue, owner, ret, freed, delivered, ended, budget>>

\* The producer has nothing left to push.
ProducerDone(p) ==
  /\ pc[p] = "idle"
  /\ pending = {}
  /\ Goto(p, "done")
  /\ UNCHANGED <<queue, owner, item, ret, clients, budget>>

\* mtx_lock fails: push returns -1 and the caller frees the element.
PushLockFails(p) ==
  /\ pc[p] = "lock"
  /\ Fail("lock")
  /\ freed' = freed \cup {item[p]}
  /\ Goto(p, "idle")
  /\ UNCHANGED <<queue, owner, item, ret, pending, delivered, ended>>

\* Mutant: a full queue drops the element and push returns 0.
PushDropsWhenFull(p) ==
  /\ pc[p] = "check" /\ count = Capacity
  /\ Return(p, 0) /\ Goto(p, "unlock")
  /\ UNCHANGED <<queue, owner, item, clients, budget>>

\* while (count == capacity) cnd_wait(full)
PushWait(p) == pc[p] = "check" /\ count = Capacity /\ CndWait(p)

\* memcpy into slot count, count++
Insert(p) ==
  /\ buffer' = [buffer EXCEPT ![count] = item[p]]
  /\ count' = count + 1
  /\ pushed' = pushed \cup {item[p]}
  /\ Goto(p, "signal")
  /\ UNCHANGED <<closed, destroyed, popped, owner, item, ret, clients, budget>>

\* Mutant: push does not test for a full queue.
PushInsertUnchecked(p) == pc[p] = "check" /\ Insert(p)

PushInsert(p) == pc[p] = "check" /\ count # Capacity /\ Insert(p)

\* Mutant: push signals the producers.
PushSignalsFull(p) == CndSignal(p, WaitFull)

\* cnd_signal(&q->empty)
PushSignal(p) == CndSignal(p, WaitEmpty)

\* Push returns: an element whose push did not return 0 is freed.
PushLeave(p, success) ==
  /\ pc[p] = "unlock"
  /\ freed' = IF success THEN freed ELSE freed \cup {item[p]}
  /\ Goto(p, "idle")
  /\ UNCHANGED <<queue, item, ret, pending, delivered, ended>>

\* Mutant: the caller frees the element whatever push returned.
PushReturnFrees(p) == Release /\ PushLeave(p, FALSE)

\* Mutant: push returns with the mutex locked.
PushReturnLocked(p) == PushLeave(p, ret[p] = 0) /\ UNCHANGED <<owner, budget>>

\* mtx_unlock and return
PushReturn(p) ==
  \/ Release /\ PushLeave(p, ret[p] = 0)
  \/ ReleaseFails /\ PushLeave(p, FALSE)

Push(p) ==
  \/ PushCall(p) \/ ProducerDone(p) \/ PushLockFails(p)
  \/ Acquire(p, "lock") \/ PushWait(p) \/ Acquire(p, "relock")
  \/ PushInsert(p) \/ PushSignal(p) \/ PushReturn(p)

--------------------------------------------------------------------------------
(***************************************************************************)
(* mr_queue_pop                                                            *)
(***************************************************************************)
PopCall(c) ==
  /\ pc[c] = "idle"
  /\ Goto(c, "lock")
  /\ UNCHANGED <<queue, owner, item, ret, clients, budget>>

\* mtx_lock fails: pop returns -1 and the worker's loop ends.
PopLockFails(c) ==
  /\ pc[c] = "lock"
  /\ Fail("lock")
  /\ Return(c, -1)
  /\ Goto(c, "done")
  /\ UNCHANGED <<queue, owner, item, clients>>

\* while (count == 0 && !closed) cnd_wait(empty)
PopWait(c) == pc[c] = "check" /\ count = 0 /\ ~closed /\ CndWait(c)

\* return 1
SayClosed(c) ==
  /\ Return(c, 1)
  /\ ended' = ended \cup {c}
  /\ Goto(c, "unlock")
  /\ UNCHANGED <<queue, owner, item, pending, freed, delivered, budget>>

\* Mutant: pop returns 1 as soon as the queue is closed.
PopEndEarly(c) == pc[c] = "check" /\ closed /\ SayClosed(c)

\* if (count == 0 && closed) return 1
PopEnd(c) == pc[c] = "check" /\ count = 0 /\ closed /\ SayClosed(c)

\* memcpy of the top, leaving left elements behind
Remove(c, left) ==
  /\ pc[c] = "check"
  /\ count # 0
  /\ count' = left
  /\ item' = [item EXCEPT ![c] = buffer[count - 1]]
  /\ popped' = popped \cup {buffer[count - 1]}
  /\ Goto(c, "signal")
  /\ UNCHANGED <<buffer, closed, destroyed, pushed, owner, ret, clients, budget>>

\* Mutant: pop forgets count--.
PopKeepsCount(c) == Remove(c, count)

\* count--, memcpy from slot count
PopRemove(c) == Remove(c, count - 1)

\* cnd_signal(&q->full)
PopSignal(c) == CndSignal(c, WaitFull)

\* mtx_unlock and return: with 0 the worker uses the element and pops again, with
\* anything else its loop ends.
PopReturn(c) ==
  /\ pc[c] = "unlock"
  /\ \/ /\ Release /\ ret[c] = 0
        /\ delivered' = delivered \cup {item[c]}
        /\ Goto(c, "idle")
     \/ /\ (Release /\ ret[c] # 0) \/ ReleaseFails
        /\ Goto(c, "done")
        /\ UNCHANGED delivered
  /\ UNCHANGED <<queue, item, ret, pending, freed, ended>>

Pop(c) ==
  \/ PopCall(c) \/ PopLockFails(c)
  \/ Acquire(c, "lock") \/ PopWait(c) \/ Acquire(c, "relock")
  \/ PopEnd(c) \/ PopRemove(c) \/ PopSignal(c) \/ PopReturn(c)

--------------------------------------------------------------------------------
(***************************************************************************)
(* mr_queue_close and mr_queue_destroy, called by the thread that made the *)
(* workers.                                                                *)
(***************************************************************************)
\* The only thread that closes is the one that pushes, after its last push.
CloseCall ==
  /\ \A p \in Producers : pc[p] = "done"
  /\ pc[Closer] = "idle"
  /\ Goto(Closer, "lock")
  /\ UNCHANGED <<queue, owner, item, ret, clients, budget>>

CloseLockFails ==
  /\ pc[Closer] = "lock"
  /\ Fail("lock")
  /\ Goto(Closer, "failed")
  /\ UNCHANGED <<queue, owner, item, ret, clients>>

CloseSet ==
  /\ pc[Closer] = "check"
  /\ closed' = TRUE
  /\ Goto(Closer, "signal")
  /\ UNCHANGED <<buffer, count, destroyed, pushed, popped, owner, item, ret,
                 clients, budget>>

\* cnd_broadcast(&q->empty); nobody can wait for q->full any more.
CloseBroadcast ==
  /\ pc[Closer] = "signal"
  /\ \/ /\ pc' = [t \in Threads |-> IF t = Closer THEN "unlock"
                                   ELSE IF t \in WaitEmpty THEN "relock" ELSE pc[t]]
        /\ Return(Closer, 0)
        /\ UNCHANGED budget
     \/ Fail("signal") /\ Return(Closer, -1) /\ Goto(Closer, "unlock")
  /\ UNCHANGED <<queue, owner, item, clients>>

CloseLeave(to) ==
  /\ pc[Closer] = "unlock"
  /\ Goto(Closer, to)
  /\ UNCHANGED <<queue, item, ret, clients>>

CloseReturn ==
  \/ Release /\ CloseLeave(IF ret[Closer] = 0 THEN "join" ELSE "failed")
  \/ ReleaseFails /\ CloseLeave("failed")

Free ==
  /\ pc[Closer] = "join"
  /\ destroyed' = TRUE
  /\ Goto(Closer, "done")
  /\ UNCHANGED <<buffer, count, closed, pushed, popped, owner, item, ret,
                 clients, budget>>

\* Mutant: the queue is destroyed without joining the workers.
DestroyNoJoin == Free

\* thrd_join of every worker, then mr_queue_destroy.
Destroy == (\A c \in Consumers : pc[c] = "done") /\ Free

Close ==
  \/ CloseCall \/ Acquire(Closer, "lock") \/ CloseLockFails
  \/ CloseSet \/ CloseBroadcast \/ CloseReturn \/ Destroy

Finished == (\A t \in Threads : pc[t] = "done") /\ UNCHANGED vars

Next ==
  \/ \E p \in Producers : Push(p)
  \/ \E c \in Consumers : Pop(c)
  \/ Close
  \/ \E t \in Producers \cup Consumers : Spurious(t)
  \/ Finished

Spec == Init /\ [][Next]_vars

\* Every runnable thread is scheduled; no call has to fail and no thread to wake up
\* spuriously (budget is unchanged).
FairSpec ==
  /\ Spec
  /\ \A p \in Producers : WF_vars(Push(p) /\ UNCHANGED budget)
  /\ \A c \in Consumers : WF_vars(Pop(c) /\ UNCHANGED budget)
  /\ WF_vars(Close /\ UNCHANGED budget)

--------------------------------------------------------------------------------
(***************************************************************************)
(* Properties                                                              *)
(***************************************************************************)

\* Every variable keeps its type; the mutex is held by a thread or by nobody and
\* q->count never leaves 0 .. q->capacity.
FlagsOK == closed \in BOOLEAN /\ destroyed \in BOOLEAN
DataOK ==
  /\ buffer \in [Slots -> Items \cup {None}]
  /\ count \in 0 .. Capacity
  /\ owner \in Threads \cup {None}
  /\ pc \in [Threads -> {"idle", "lock", "check", "wait", "relock", "signal",
                         "unlock", "join", "done", "failed"}]
  /\ item \in [Threads -> Items \cup {None}]
  /\ ret \in [Threads -> {-1, 0, 1}]
  /\ pending \in SUBSET Items
  /\ pushed \in SUBSET Items
  /\ popped \in SUBSET Items
  /\ freed \in SUBSET Items
  /\ delivered \in SUBSET Items
  /\ ended \in SUBSET Consumers
  /\ failed \in SUBSET {"lock", "wait", "signal", "unlock"}
  /\ faultsLeft \in Nat
  /\ spuriousLeft \in Nat
TypeOK == FlagsOK /\ DataOK

\* The elements in the live part of the buffer, those a producer is still trying to
\* insert, and the consumers between the memcpy out of the buffer and the return 0.
Contents == {buffer[s] : s \in 0 .. count - 1}
Pushing  == {p \in Producers : pc[p] \in {"lock", "check", "wait", "relock"}}
Carrying == {c \in Consumers : pc[c] = "signal" \/ (pc[c] = "unlock" /\ ret[c] = 0)}

\* Whatever the interleaving and whichever library calls fail, no element is handed
\* out twice: the live slots hold exactly the elements inserted and not yet removed,
\* each once, and no two pops carry the same element or one already delivered
\* (mr_queue_push and mr_queue_pop share count and the slots).
ExactlyOnce ==
  /\ popped \subseteq pushed
  /\ Contents = pushed \ popped
  /\ \A r, s \in 0 .. count - 1 : buffer[r] = buffer[s] => r = s
  /\ delivered \subseteq popped
  /\ \A c \in Carrying : item[c] \in popped \ delivered
  /\ \A c, d \in Carrying : item[c] = item[d] => c = d

\* As long as no library call has failed, no element disappears between the producer
\* that picks it up and the consumer that gets it.
NothingLost ==
  failed = {} =>
    Items = pending \cup {item[p] : p \in Pushing} \cup Contents
              \cup {item[c] : c \in Carrying} \cup delivered

\* The caller frees an element when mr_queue_push returns -1, so a push that fails must
\* not leave it in the queue.  True of a failing mtx_lock or cnd_wait; a failing
\* cnd_signal or mtx_unlock comes after the element was inserted and is excluded.
FreedNeverQueued ==
  failed \cap {"signal", "unlock"} = {} => freed \cap pushed = {}

\* No lost wake-up for consumers: while a consumer sleeps in cnd_wait(empty), every
\* element in the buffer has a thread of its own that is about to look at it (a consumer
\* on its way to test the count) or to signal it (the producer that inserted it).
ElementsAwaited == {c \in Consumers : pc[c] \in {"relock", "check"}}
                     \cup {p \in Producers : pc[p] = "signal"}
NoSleepingConsumer ==
  "signal" \notin failed /\ WaitEmpty # {} => count <= Cardinality(ElementsAwaited)

\* No lost wake-up for producers: while a producer sleeps in cnd_wait(full), every free
\* slot has a thread of its own that is about to fill it or to signal it.
SlotsAwaited == {p \in Producers : pc[p] \in {"relock", "check"}}
                  \cup {c \in Consumers : pc[c] = "signal"}
NoSleepingProducer ==
  "signal" \notin failed /\ WaitFull # {} =>
    Capacity - count <= Cardinality(SlotsAwaited)

\* A consumer never sleeps on a closed queue once mr_queue_close has broadcast.
NoWaitAfterClose ==
  "signal" \notin failed /\ closed /\ WaitEmpty # {} => pc[Closer] = "signal"

\* cnd_signal, which wakes one thread, is enough in push and in pop, and the broadcast of
\* mr_queue_close reaches every consumer: no thread sleeps while there is work for it that
\* nobody else is about to do.
NoLostWakeup == NoSleepingConsumer /\ NoSleepingProducer /\ NoWaitAfterClose

\* When a pop has returned 1 the queue is closed, empty, and stays so: no element that
\* was ever inserted is still in it, and none is still to come.
EndMeansDrained ==
  ended # {} => closed /\ popped = pushed /\ pending = {} /\ Pushing = {}

\* mr_queue_destroy runs when no thread is inside an operation of the queue, and, unless
\* an mtx_unlock failed, with the mutex free.
DestroyedUnused ==
  destroyed => /\ \A t \in Threads : pc[t] = "done"
               /\ "unlock" \notin failed => owner = None

\* The queue implements its interface: a push that fits, a LIFO pop, close, and "closed
\* and empty" are atomic steps of AbstractQueue, everything else is invisible.
Abs == INSTANCE AbstractQueue WITH
         stack <- [k \in 1 .. count |-> buffer[k - 1]],
         accepted <- pushed, taken <- popped
Implements == Abs!Spec

\* Unless a call fails every element is delivered, every thread comes back from the queue
\* and the queue is destroyed.
Drained == [](failed = {}) => <>[](destroyed /\ delivered = Items)
================================================================================
