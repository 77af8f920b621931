----------------------------- MODULE MrQueueProofs -----------------------------
(***************************************************************************)
(* Proofs about MrQueue, for any number of producers, consumers, elements  *)
(* and failing calls, and any capacity.                                    *)
(***************************************************************************)
EXTENDS MrQueue, FiniteSetTheorems, TLAPS

\* The control points between mtx_lock and mtx_unlock.
Critical == {"check", "signal", "unlock"}

\* Where a producer, a consumer and the closer can be.
Roles ==
  /\ \A t \in Producers \cup Consumers : pc[t] \notin {"join", "failed"}
  /\ pc[Closer] \notin {"wait", "relock"}

\* A thread between mtx_lock and mtx_unlock holds the mutex, and unless an mtx_unlock
\* failed only such a thread does.
Mutex ==
  /\ \A t \in Threads : pc[t] \in Critical => owner = t
  /\ "unlock" \notin failed /\ owner # None => pc[owner] \in Critical

\* The queue is closed by the closer, who starts when every producer has finished, and
\* a producer finishes when there is nothing left to push.
Phases ==
  /\ pc[Closer] # "idle" => \A p \in Producers : pc[p] = "done"
  /\ closed => pc[Closer] \notin {"idle", "lock", "check"}
  /\ \A p \in Producers : pc[p] = "done" => pending = {}

\* A producer inside mr_queue_push.
Busy(p) == pc[p] \notin {"idle", "done"}

\* The element of a running push is nobody else's, and is in the queue only after the
\* push has inserted it.
Ownership ==
  /\ pending \cap (pushed \cup freed) = {}
  /\ \A p \in Producers : Busy(p) => item[p] \in Items \ (pending \cup freed)
  /\ \A p, q \in Producers : Busy(p) /\ Busy(q) /\ item[p] = item[q] => p = q
  /\ \A p \in Pushing : item[p] \notin pushed
  /\ \A p \in Producers :
       pc[p] = "unlock" /\ ret[p] # 0 /\ "signal" \notin failed => item[p] \notin pushed

\* The live slots hold the elements inserted and not removed, each once.
Stacked ==
  /\ popped \subseteq pushed
  /\ \A s \in 0 .. count - 1 : buffer[s] \in pushed \ popped
  /\ \A i \in pushed \ popped : \E s \in 0 .. count - 1 : buffer[s] = i
  /\ \A r, s \in 0 .. count - 1 : buffer[r] = buffer[s] => r = s

\* The elements on their way from the buffer to a worker.
Carried ==
  /\ delivered \subseteq popped
  /\ \A c \in Carrying : item[c] \in popped \ delivered
  /\ \A c, d \in Carrying : item[c] = item[d] => c = d

\* While no call has failed every element is somewhere.
Accounted ==
  failed = {} =>
    /\ \A i \in Items \ (pending \cup pushed) : \E p \in Pushing : item[p] = i
    /\ \A i \in popped \ delivered : \E c \in Carrying : item[c] = i

\* The element-wise forms of NoWaitAfterClose and EndMeansDrained.
Woken ==
  "signal" \notin failed /\ closed =>
    \A c \in Consumers : pc[c] = "wait" => pc[Closer] = "signal"
Ended == ended # {} => closed /\ pushed \subseteq popped

--------------------------------------------------------------------------------
(***************************************************************************)
(* Types.                                                                  *)
(***************************************************************************)

\* A step of the specification is a step of one thread, a spurious wake-up or a stutter.
LEMMA NextCases ==
  ASSUME [Next]_vars
  PROVE  \/ \E p \in Producers : Push(p)
         \/ \E c \in Consumers : Pop(c)
         \/ Close
         \/ \E t \in Producers \cup Consumers : Spurious(t)
         \/ UNCHANGED vars
  BY DEF Next, Finished

\* A failing call uses up one fault.
LEMMA FailType ==
  ASSUME DataOK, NEW k \in {"lock", "wait", "signal", "unlock"}, Fail(k)
  PROVE  /\ failed' \in SUBSET {"lock", "wait", "signal", "unlock"}
         /\ faultsLeft' \in Nat
         /\ spuriousLeft' \in Nat
  BY DEF DataOK, Fail

\* cnd_wait, whether it sleeps or fails, keeps the types.
LEMMA CndWaitType == ASSUME DataOK, NEW t \in Threads, CndWait(t) PROVE DataOK'
  BY FailType DEF CndWait, DataOK, Goto, Return, queue, clients, budget

\* So does cnd_signal, whomever it wakes.
LEMMA CndSignalType ==
  ASSUME DataOK, NEW t \in Threads, NEW waiters \in SUBSET Threads, CndSignal(t, waiters)
  PROVE  DataOK'
<1>1. pc' \in [Threads -> {"idle", "lock", "check", "wait", "relock", "signal",
                           "unlock", "join", "done", "failed"}]
  BY DEF CndSignal, DataOK, Goto
<1>2. ret' \in [Threads -> {-1, 0, 1}]
  BY DEF CndSignal, DataOK, Return
<1>3. UNCHANGED budget \/ Fail("signal")
  BY DEF CndSignal
<1>4. UNCHANGED <<queue, owner, item, clients>>
  BY DEF CndSignal
<1> QED
  BY <1>1, <1>2, <1>3, <1>4, FailType DEF DataOK, queue, clients, budget

\* mr_queue_init sets both flags to false.
LEMMA FlagsInit == Init => FlagsOK
  BY DEF Init, FlagsOK

\* mr_queue_init leaves an empty queue.
LEMMA DataInit == Init => DataOK
  BY CapacityAssumption, BoundsAssumption
  DEF CapacityAssumption, BoundsAssumption, Init, DataOK, Slots

\* The flags stay Boolean; Zenon proves this, SMT the rest of the types.
LEMMA FlagsStep == FlagsOK /\ [Next]_vars => FlagsOK'
<1> SUFFICES ASSUME FlagsOK, [Next]_vars PROVE FlagsOK'
  OBVIOUS
<1> USE DEF FlagsOK, queue, vars
<1>1. ASSUME NEW p \in Producers, Push(p) PROVE FlagsOK'
  BY <1>1 DEF Push, PushCall, ProducerDone, PushLockFails, Acquire, PushWait, CndWait,
              PushInsert, Insert, PushSignal, CndSignal, PushReturn, PushLeave
<1>2. ASSUME NEW c \in Consumers, Pop(c) PROVE FlagsOK'
  BY <1>2 DEF Pop, PopCall, PopLockFails, Acquire, PopWait, CndWait, PopEnd, SayClosed,
              PopRemove, Remove, PopSignal, CndSignal, PopReturn
<1>3. ASSUME Close PROVE FlagsOK'
  BY <1>3 DEF Close, CloseCall, Acquire, CloseLockFails, CloseSet,
              CloseBroadcast, CloseReturn, CloseLeave, Destroy, Free
<1>4. ASSUME NEW t \in Producers \cup Consumers, Spurious(t) PROVE FlagsOK'
  BY <1>4 DEF Spurious
<1>5. CASE UNCHANGED vars
  BY <1>5
<1> QED
  BY <1>1, <1>2, <1>3, <1>4, <1>5, NextCases

\* What is inserted, freed, removed or delivered is an element and never None: this is
\* what the types need the three element invariants for.
LEMMA DataStep ==
  DataOK /\ Ownership /\ Stacked /\ Carried /\ [Next]_vars => DataOK'
<1> SUFFICES ASSUME DataOK, Ownership, Stacked, Carried, [Next]_vars PROVE DataOK'
  OBVIOUS
<1> USE CapacityAssumption, FailType, CndWaitType, CndSignalType
  DEF CapacityAssumption, Slots, Threads, queue, clients, budget, Goto, Return
<1>1. ASSUME NEW p \in Producers, Push(p) PROVE DataOK'
  <2>1. CASE PushCall(p)
    BY <2>1 DEF DataOK, PushCall
  <2>2. CASE ProducerDone(p)
    BY <2>2 DEF DataOK, ProducerDone
  <2>3. CASE PushLockFails(p)
    BY <2>3 DEF DataOK, PushLockFails, Ownership, Busy
  <2>4. CASE Acquire(p, "lock") \/ Acquire(p, "relock")
    BY <2>4 DEF DataOK, Acquire
  <2>5. CASE PushWait(p)
    BY <2>5 DEF PushWait
  <2>6. CASE PushInsert(p)
    BY <2>6 DEF DataOK, PushInsert, Insert, Ownership, Busy
  <2>7. CASE PushSignal(p)
    BY <2>7 DEF PushSignal, WaitEmpty
  <2>8. CASE PushReturn(p)
    <3>1. freed' \in SUBSET Items
      BY <2>8 DEF DataOK, PushReturn, PushLeave, Ownership, Busy
    <3> QED
      <4>1. \/ UNCHANGED budget /\ owner' = None
            \/ Fail("unlock") /\ owner' = owner
        BY <2>8 DEF PushReturn, Release, ReleaseFails
      <4>2. failed' \in SUBSET {"lock", "wait", "signal", "unlock"}
            /\ faultsLeft' \in Nat /\ spuriousLeft' \in Nat
        BY <4>1, FailType DEF DataOK
      <4>3. pc' \in [Threads -> {"idle", "lock", "check", "wait", "relock", "signal",
                                "unlock", "join", "done", "failed"}]
        BY <2>8 DEF DataOK, PushReturn, PushLeave
      <4>4. UNCHANGED <<queue, item, ret, pending, delivered, ended>>
        BY <2>8 DEF PushReturn, PushLeave
      <4> QED
        BY <3>1, <4>1, <4>2, <4>3, <4>4 DEF DataOK
  <2> QED
    BY <1>1, <2>1, <2>2, <2>3, <2>4, <2>5, <2>6, <2>7, <2>8 DEF Push
<1>2. ASSUME NEW c \in Consumers, Pop(c) PROVE DataOK'
  <2>1. CASE PopCall(c)
    BY <2>1 DEF DataOK, PopCall
  <2>2. CASE PopLockFails(c)
    BY <2>2 DEF DataOK, PopLockFails
  <2>3. CASE Acquire(c, "lock") \/ Acquire(c, "relock")
    BY <2>3 DEF DataOK, Acquire
  <2>4. CASE PopWait(c)
    BY <2>4 DEF PopWait
  <2>5. CASE PopEnd(c)
    BY <2>5 DEF DataOK, PopEnd, SayClosed
  <2>6. CASE PopRemove(c)
    BY <2>6 DEF DataOK, PopRemove, Remove, Stacked
  <2>7. CASE PopSignal(c)
    BY <2>7 DEF PopSignal, WaitFull
  <2>8. CASE PopReturn(c)
    <3>1. \/ UNCHANGED budget /\ owner' = None
          \/ Fail("unlock") /\ owner' = owner
      BY <2>8 DEF PopReturn, Release, ReleaseFails
    <3>2. failed' \in SUBSET {"lock", "wait", "signal", "unlock"}
          /\ faultsLeft' \in Nat /\ spuriousLeft' \in Nat
      BY <3>1, FailType DEF DataOK
    <3>3. delivered' \in SUBSET Items
      BY <2>8 DEF DataOK, PopReturn, Release, Carried, Carrying
    <3>4. pc' \in [Threads -> {"idle", "lock", "check", "wait", "relock", "signal",
                              "unlock", "join", "done", "failed"}]
      BY <2>8 DEF DataOK, PopReturn
    <3>5. UNCHANGED <<queue, item, ret, pending, freed, ended>>
      BY <2>8 DEF PopReturn
    <3> QED
      BY <3>1, <3>2, <3>3, <3>4, <3>5 DEF DataOK
  <2> QED
    BY <1>2, <2>1, <2>2, <2>3, <2>4, <2>5, <2>6, <2>7, <2>8 DEF Pop
<1>3. ASSUME Close PROVE DataOK'
  <2>1. CASE CloseCall
    BY <2>1 DEF DataOK, CloseCall
  <2>2. CASE Acquire(Closer, "lock")
    BY <2>2 DEF DataOK, Acquire
  <2>3. CASE CloseLockFails
    BY <2>3 DEF DataOK, CloseLockFails
  <2>4. CASE CloseSet
    BY <2>4 DEF DataOK, CloseSet
  <2>5. CASE CloseBroadcast
    <3>1. pc' \in [Threads -> {"idle", "lock", "check", "wait", "relock", "signal",
                              "unlock", "join", "done", "failed"}]
      BY <2>5 DEF DataOK, CloseBroadcast
    <3>2. ret' \in [Threads -> {-1, 0, 1}]
      BY <2>5 DEF DataOK, CloseBroadcast
    <3>3. UNCHANGED budget \/ Fail("signal")
      BY <2>5 DEF CloseBroadcast
    <3>4. failed' \in SUBSET {"lock", "wait", "signal", "unlock"}
          /\ faultsLeft' \in Nat /\ spuriousLeft' \in Nat
      BY <3>3, FailType DEF DataOK
    <3>5. UNCHANGED <<queue, owner, item, clients>>
      BY <2>5 DEF CloseBroadcast
    <3> QED
      BY <3>1, <3>2, <3>4, <3>5 DEF DataOK
  <2>6. CASE CloseReturn
    BY <2>6 DEF DataOK, CloseReturn, CloseLeave, Release, ReleaseFails
  <2>7. CASE Destroy
    BY <2>7 DEF DataOK, Destroy, Free
  <2> QED
    BY <1>3, <2>1, <2>2, <2>3, <2>4, <2>5, <2>6, <2>7 DEF Close
<1>4. ASSUME NEW t \in Producers \cup Consumers, Spurious(t) PROVE DataOK'
  BY <1>4 DEF DataOK, Spurious
<1>5. CASE UNCHANGED vars
  BY <1>5 DEF DataOK, vars
<1> QED
  BY <1>1, <1>2, <1>3, <1>4, <1>5, NextCases

--------------------------------------------------------------------------------
(***************************************************************************)
(* Control: where the threads are, who holds the mutex, and when the queue *)
(* is closed.                                                              *)
(***************************************************************************)

\* Only the closer joins; only producers and consumers sleep.
LEMMA RolesStep ==
  DataOK /\ Roles /\ [Next]_vars => Roles'
<1> SUFFICES ASSUME DataOK, Roles, [Next]_vars PROVE Roles'
  OBVIOUS
<1> USE ThreadsAssumption
  DEF ThreadsAssumption, DataOK, Roles, Threads, queue, clients, budget, Goto, Return
<1>1. ASSUME NEW p \in Producers, Push(p) PROVE Roles'
  BY <1>1
  DEF Push, PushCall, ProducerDone, PushLockFails, Acquire, PushWait, CndWait,
      PushInsert, Insert, PushSignal, CndSignal, PushReturn, PushLeave, Release,
      ReleaseFails, WaitEmpty
<1>2. ASSUME NEW c \in Consumers, Pop(c) PROVE Roles'
  BY <1>2
  DEF Pop, PopCall, PopLockFails, Acquire, PopWait, CndWait, PopEnd, SayClosed,
      PopRemove, Remove, PopSignal, CndSignal, PopReturn, Release, ReleaseFails,
      WaitFull
<1>3. ASSUME Close PROVE Roles'
  BY <1>3
  DEF Close, CloseCall, Acquire, CloseLockFails, CloseSet, CloseBroadcast,
      CloseReturn, CloseLeave, Release, ReleaseFails, Destroy, Free, WaitEmpty
<1>4. ASSUME NEW t \in Producers \cup Consumers, Spurious(t) PROVE Roles'
  BY <1>4 DEF Spurious
<1>5. CASE UNCHANGED vars
  BY <1>5 DEF vars
<1> QED
  BY <1>1, <1>2, <1>3, <1>4, <1>5, NextCases

\* The mutex is taken by a step that finds it free and given up by its holder.
LEMMA MutexStep ==
  DataOK /\ Roles /\ Mutex /\ [Next]_vars => Mutex'
<1> SUFFICES ASSUME DataOK, Roles, Mutex, [Next]_vars PROVE Mutex'
  OBVIOUS
<1> USE ThreadsAssumption
  DEF ThreadsAssumption, DataOK, Roles, Mutex, Critical, Fail, Threads, queue, clients,
      budget, Goto, Return
<1>1. ASSUME NEW p \in Producers, Push(p) PROVE Mutex'
  BY <1>1
  DEF Push, PushCall, ProducerDone, PushLockFails, Acquire, PushWait, CndWait,
      PushInsert, Insert, PushSignal, CndSignal, PushReturn, PushLeave, Release,
      ReleaseFails, WaitEmpty
<1>2. ASSUME NEW c \in Consumers, Pop(c) PROVE Mutex'
  BY <1>2
  DEF Pop, PopCall, PopLockFails, Acquire, PopWait, CndWait, PopEnd, SayClosed,
      PopRemove, Remove, PopSignal, CndSignal, PopReturn, Release, ReleaseFails,
      WaitFull
<1>3. ASSUME Close PROVE Mutex'
  BY <1>3
  DEF Close, CloseCall, Acquire, CloseLockFails, CloseSet, CloseBroadcast,
      CloseReturn, CloseLeave, Release, ReleaseFails, Destroy, Free, WaitEmpty
<1>4. ASSUME NEW t \in Producers \cup Consumers, Spurious(t) PROVE Mutex'
  BY <1>4 DEF Spurious
<1>5. CASE UNCHANGED vars
  BY <1>5 DEF vars
<1> QED
  BY <1>1, <1>2, <1>3, <1>4, <1>5, NextCases

\* The closer waits for the producers, and a finished producer stays finished.
LEMMA PhasesStep ==
  DataOK /\ Roles /\ Phases /\ [Next]_vars => Phases'
<1> SUFFICES ASSUME DataOK, Roles, Phases, [Next]_vars PROVE Phases'
  OBVIOUS
<1> USE ThreadsAssumption
  DEF ThreadsAssumption, DataOK, Roles, Phases, Threads, queue, clients, budget, Goto,
      Return
<1>1. ASSUME NEW p \in Producers, Push(p) PROVE Phases'
  BY <1>1
  DEF Push, PushCall, ProducerDone, PushLockFails, Acquire, PushWait, CndWait,
      PushInsert, Insert, PushSignal, CndSignal, PushReturn, PushLeave, Release,
      ReleaseFails, WaitEmpty
<1>2. ASSUME NEW c \in Consumers, Pop(c) PROVE Phases'
  BY <1>2
  DEF Pop, PopCall, PopLockFails, Acquire, PopWait, CndWait, PopEnd, SayClosed,
      PopRemove, Remove, PopSignal, CndSignal, PopReturn, Release, ReleaseFails,
      WaitFull
<1>3. ASSUME Close PROVE Phases'
  BY <1>3
  DEF Close, CloseCall, Acquire, CloseLockFails, CloseSet, CloseBroadcast,
      CloseReturn, CloseLeave, Release, ReleaseFails, Destroy, Free, WaitEmpty
<1>4. ASSUME NEW t \in Producers \cup Consumers, Spurious(t) PROVE Phases'
  BY <1>4 DEF Spurious
<1>5. CASE UNCHANGED vars
  BY <1>5 DEF vars
<1> QED
  BY <1>1, <1>2, <1>3, <1>4, <1>5, NextCases

--------------------------------------------------------------------------------
(***************************************************************************)
(* Elements: who owns each of them and where it is.                        *)
(***************************************************************************)

\* A push takes its element out of pending, and gives it up by inserting or freeing it.
LEMMA OwnershipStep ==
  DataOK /\ Roles /\ Mutex /\ Ownership /\ [Next]_vars => Ownership'
<1> SUFFICES ASSUME DataOK, Roles, Mutex, Ownership, [Next]_vars PROVE Ownership'
  OBVIOUS
<1> USE ThreadsAssumption
  DEF ThreadsAssumption, DataOK, Roles, Ownership, Busy, Pushing, Fail, Threads, queue,
      clients, budget, Goto, Return
<1>1. ASSUME NEW p \in Producers, Push(p) PROVE Ownership'
  BY <1>1
  DEF Push, PushCall, ProducerDone, PushLockFails, Acquire, PushWait, CndWait,
      PushInsert, Insert, PushSignal, CndSignal, PushReturn, PushLeave, Release,
      ReleaseFails, WaitEmpty
<1>2. ASSUME NEW c \in Consumers, Pop(c) PROVE Ownership'
  BY <1>2
  DEF Pop, PopCall, PopLockFails, Acquire, PopWait, CndWait, PopEnd, SayClosed,
      PopRemove, Remove, PopSignal, CndSignal, PopReturn, Release, ReleaseFails,
      WaitFull
<1>3. ASSUME Close PROVE Ownership'
  BY <1>3
  DEF Close, CloseCall, Acquire, CloseLockFails, CloseSet, CloseBroadcast,
      CloseReturn, CloseLeave, Release, ReleaseFails, Destroy, Free, WaitEmpty
<1>4. ASSUME NEW t \in Producers \cup Consumers, Spurious(t) PROVE Ownership'
  BY <1>4 DEF Spurious
<1>5. CASE UNCHANGED vars
  BY <1>5 DEF vars
<1> QED
  BY <1>1, <1>2, <1>3, <1>4, <1>5, NextCases

\* An insertion adds a new element above the others, a removal takes the topmost.
LEMMA StackedStep ==
  DataOK /\ Ownership /\ Stacked /\ [Next]_vars => Stacked'
<1> SUFFICES ASSUME DataOK, Ownership, Stacked, [Next]_vars PROVE Stacked'
  OBVIOUS
<1> USE ThreadsAssumption
  DEF ThreadsAssumption, DataOK, Stacked, Threads, queue, clients, budget, Goto, Return
<1>1. ASSUME NEW p \in Producers, Push(p) PROVE Stacked'
  <2>1. CASE PushCall(p) \/ ProducerDone(p) \/ PushLockFails(p) \/ Acquire(p, "lock")
             \/ Acquire(p, "relock") \/ PushWait(p) \/ PushSignal(p) \/ PushReturn(p)
    BY <2>1
    DEF PushCall, ProducerDone, PushLockFails, Acquire, PushWait, CndWait, PushSignal,
        CndSignal, PushReturn, PushLeave, Release, ReleaseFails, WaitEmpty
  <2>2. CASE PushInsert(p)
    <3> DEFINE i == item[p]
    <3>1. i \notin pushed
      BY <2>2 DEF PushInsert, Ownership, Pushing
    <3>2. /\ count \in Slots /\ count' = count + 1
          /\ buffer' = [buffer EXCEPT ![count] = i]
          /\ pushed' = pushed \cup {i} /\ popped' = popped
      BY <2>2, CapacityAssumption DEF CapacityAssumption, PushInsert, Insert, Slots
    <3>3. \A s \in 0 .. count - 1 : buffer'[s] = buffer[s] /\ buffer[s] \in pushed
      BY <3>2
    <3>4. buffer'[count] = i
      BY <3>2
    <3>5. 0 .. count' - 1 = (0 .. count - 1) \cup {count}
      BY <3>2
    <3> HIDE DEF i
    <3> QED
      BY <3>1, <3>2, <3>3, <3>4, <3>5
  <2> QED
    BY <1>1, <2>1, <2>2 DEF Push
<1>2. ASSUME NEW c \in Consumers, Pop(c) PROVE Stacked'
  BY <1>2
  DEF Pop, PopCall, PopLockFails, Acquire, PopWait, CndWait, PopEnd, SayClosed,
      PopRemove, Remove, PopSignal, CndSignal, PopReturn, Release, ReleaseFails,
      WaitFull
<1>3. ASSUME Close PROVE Stacked'
  BY <1>3
  DEF Close, CloseCall, Acquire, CloseLockFails, CloseSet, CloseBroadcast,
      CloseReturn, CloseLeave, Release, ReleaseFails, Destroy, Free, WaitEmpty
<1>4. ASSUME NEW t \in Producers \cup Consumers, Spurious(t) PROVE Stacked'
  BY <1>4 DEF Spurious
<1>5. CASE UNCHANGED vars
  BY <1>5 DEF vars
<1> QED
  BY <1>1, <1>2, <1>3, <1>4, <1>5, NextCases

\* The element a pop copies out is not yet popped, so no other pop carries it.
LEMMA CarriedStep ==
  DataOK /\ Mutex /\ Stacked /\ Carried /\ [Next]_vars => Carried'
<1> SUFFICES ASSUME DataOK, Mutex, Stacked, Carried, [Next]_vars PROVE Carried'
  OBVIOUS
<1> USE ThreadsAssumption
  DEF ThreadsAssumption, DataOK, Carried, Carrying, Threads, queue, clients, budget,
      Goto, Return
<1>1. ASSUME NEW p \in Producers, Push(p) PROVE Carried'
  BY <1>1
  DEF Push, PushCall, ProducerDone, PushLockFails, Acquire, PushWait, CndWait,
      PushInsert, Insert, PushSignal, CndSignal, PushReturn, PushLeave, Release,
      ReleaseFails, WaitEmpty
<1>2. ASSUME NEW c \in Consumers, Pop(c) PROVE Carried'
  <2>1. CASE PopCall(c) \/ PopLockFails(c) \/ Acquire(c, "lock") \/ Acquire(c, "relock")
             \/ PopWait(c) \/ PopEnd(c) \/ PopSignal(c) \/ PopReturn(c)
    BY <2>1
    DEF PopCall, PopLockFails, Acquire, PopWait, CndWait, PopEnd, SayClosed, PopSignal,
        CndSignal, PopReturn, Release, ReleaseFails, WaitFull
  <2>2. CASE PopRemove(c)
    <3>1. buffer[count - 1] \in pushed \ popped
      BY <2>2 DEF PopRemove, Remove, Stacked
    <3> QED
      BY <2>2, <3>1 DEF PopRemove, Remove
  <2> QED
    BY <1>2, <2>1, <2>2 DEF Pop
<1>3. ASSUME Close PROVE Carried'
  BY <1>3
  DEF Close, CloseCall, Acquire, CloseLockFails, CloseSet, CloseBroadcast,
      CloseReturn, CloseLeave, Release, ReleaseFails, Destroy, Free, WaitEmpty
<1>4. ASSUME NEW t \in Producers \cup Consumers, Spurious(t) PROVE Carried'
  BY <1>4 DEF Spurious
<1>5. CASE UNCHANGED vars
  BY <1>5 DEF vars
<1> QED
  BY <1>1, <1>2, <1>3, <1>4, <1>5, NextCases

\* Without a failing call an element only moves from one place to the next.
LEMMA AccountedStep ==
  DataOK /\ Ownership /\ Stacked /\ Carried /\ Accounted /\ [Next]_vars => Accounted'
<1> SUFFICES ASSUME DataOK, Ownership, Stacked, Carried, Accounted, [Next]_vars
             PROVE  Accounted'
  OBVIOUS
<1> USE ThreadsAssumption
  DEF ThreadsAssumption, DataOK, Accounted, Pushing, Carrying, Fail, Threads, queue,
      clients, budget, Goto, Return
<1>1. ASSUME NEW p \in Producers, Push(p) PROVE Accounted'
  BY <1>1
  DEF Push, PushCall, ProducerDone, PushLockFails, Acquire, PushWait, CndWait,
      PushInsert, Insert, PushSignal, CndSignal, PushReturn, PushLeave, Release,
      ReleaseFails, WaitEmpty
<1>2. ASSUME NEW c \in Consumers, Pop(c) PROVE Accounted'
  BY <1>2
  DEF Pop, PopCall, PopLockFails, Acquire, PopWait, CndWait, PopEnd, SayClosed,
      PopRemove, Remove, PopSignal, CndSignal, PopReturn, Release, ReleaseFails,
      WaitFull
<1>3. ASSUME Close PROVE Accounted'
  BY <1>3
  DEF Close, CloseCall, Acquire, CloseLockFails, CloseSet, CloseBroadcast,
      CloseReturn, CloseLeave, Release, ReleaseFails, Destroy, Free, WaitEmpty
<1>4. ASSUME NEW t \in Producers \cup Consumers, Spurious(t) PROVE Accounted'
  BY <1>4 DEF Spurious
<1>5. CASE UNCHANGED vars
  BY <1>5 DEF vars
<1> QED
  BY <1>1, <1>2, <1>3, <1>4, <1>5, NextCases

\* An element is freed only by the push that owns it and did not insert it.
LEMMA FreedStep ==
  DataOK /\ Ownership /\ FreedNeverQueued /\ [Next]_vars => FreedNeverQueued'
<1> SUFFICES ASSUME DataOK, Ownership, FreedNeverQueued, [Next]_vars
             PROVE  FreedNeverQueued'
  OBVIOUS
<1> USE ThreadsAssumption
  DEF ThreadsAssumption, DataOK, Ownership, Busy, Pushing, FreedNeverQueued, Fail,
      Threads, queue, clients, budget, Goto, Return
<1>1. ASSUME NEW p \in Producers, Push(p) PROVE FreedNeverQueued'
  BY <1>1
  DEF Push, PushCall, ProducerDone, PushLockFails, Acquire, PushWait, CndWait,
      PushInsert, Insert, PushSignal, CndSignal, PushReturn, PushLeave, Release,
      ReleaseFails, WaitEmpty
<1>2. ASSUME NEW c \in Consumers, Pop(c) PROVE FreedNeverQueued'
  BY <1>2
  DEF Pop, PopCall, PopLockFails, Acquire, PopWait, CndWait, PopEnd, SayClosed,
      PopRemove, Remove, PopSignal, CndSignal, PopReturn, Release, ReleaseFails,
      WaitFull
<1>3. ASSUME Close PROVE FreedNeverQueued'
  BY <1>3
  DEF Close, CloseCall, Acquire, CloseLockFails, CloseSet, CloseBroadcast,
      CloseReturn, CloseLeave, Release, ReleaseFails, Destroy, Free, WaitEmpty
<1>4. ASSUME NEW t \in Producers \cup Consumers, Spurious(t) PROVE FreedNeverQueued'
  BY <1>4 DEF Spurious
<1>5. CASE UNCHANGED vars
  BY <1>5 DEF vars
<1> QED
  BY <1>1, <1>2, <1>3, <1>4, <1>5, NextCases

--------------------------------------------------------------------------------
(***************************************************************************)
(* Closing, draining and destroying.                                       *)
(***************************************************************************)

\* The broadcast leaves nobody asleep, and nobody falls asleep on a closed queue.
LEMMA WokenStep ==
  DataOK /\ Roles /\ Woken /\ [Next]_vars => Woken'
<1> SUFFICES ASSUME DataOK, Roles, Woken, [Next]_vars PROVE Woken'
  OBVIOUS
<1> USE ThreadsAssumption
  DEF ThreadsAssumption, DataOK, Roles, Woken, Fail, Threads, queue, clients, budget,
      Goto, Return
<1>1. ASSUME NEW p \in Producers, Push(p) PROVE Woken'
  <2>1. CASE PushCall(p)
    BY <2>1 DEF PushCall
  <2>2. CASE ProducerDone(p)
    BY <2>2 DEF ProducerDone
  <2>3. CASE PushLockFails(p)
    BY <2>3 DEF PushLockFails
  <2>4. CASE Acquire(p, "lock") \/ Acquire(p, "relock")
    <3>1. pc' = [pc EXCEPT ![p] = "check"] /\ closed' = closed /\ failed' = failed
      BY <2>4 DEF Acquire
    <3> QED
      BY <3>1
  <2>5. CASE PushWait(p)
    BY <2>5 DEF PushWait, CndWait
  <2>6. CASE PushInsert(p)
    BY <2>6 DEF PushInsert, Insert
  <2>7. CASE PushSignal(p)
    BY <2>7 DEF PushSignal, CndSignal, WaitEmpty
  <2>8. CASE PushReturn(p)
    <3>1. /\ pc'[Closer] = pc[Closer] /\ closed' = closed /\ failed \subseteq failed'
          /\ \A d \in Consumers : pc'[d] = pc[d]
      BY <2>8 DEF PushReturn, PushLeave, Release, ReleaseFails
    <3> QED
      BY <3>1
  <2> QED
    BY <1>1, <2>1, <2>2, <2>3, <2>4, <2>5, <2>6, <2>7, <2>8 DEF Push
<1>2. ASSUME NEW c \in Consumers, Pop(c) PROVE Woken'
  <2>1. CASE PopCall(c)
    BY <2>1 DEF PopCall
  <2>2. CASE PopLockFails(c)
    BY <2>2 DEF PopLockFails
  <2>3. CASE Acquire(c, "lock") \/ Acquire(c, "relock")
    <3>1. /\ pc'[Closer] = pc[Closer] /\ closed' = closed /\ failed' = failed
          /\ \A d \in Consumers : pc'[d] = "wait" => pc[d] = "wait"
      BY <2>3 DEF Acquire
    <3> QED
      BY <3>1
  <2>4. CASE PopWait(c)
    BY <2>4 DEF PopWait, CndWait
  <2>5. CASE PopEnd(c)
    BY <2>5 DEF PopEnd, SayClosed
  <2>6. CASE PopRemove(c)
    BY <2>6 DEF PopRemove, Remove
  <2>7. CASE PopSignal(c)
    BY <2>7 DEF PopSignal, CndSignal, WaitFull
  <2>8. CASE PopReturn(c)
    BY <2>8 DEF PopReturn, Release, ReleaseFails
  <2> QED
    BY <1>2, <2>1, <2>2, <2>3, <2>4, <2>5, <2>6, <2>7, <2>8 DEF Pop
<1>3. ASSUME Close PROVE Woken'
  <2>1. CASE CloseCall
    BY <2>1 DEF CloseCall
  <2>2. CASE Acquire(Closer, "lock")
    BY <2>2 DEF Acquire
  <2>3. CASE CloseLockFails
    BY <2>3 DEF CloseLockFails
  <2>4. CASE CloseSet
    BY <2>4 DEF CloseSet
  <2>5. CASE CloseBroadcast
    BY <2>5 DEF CloseBroadcast, WaitEmpty
  <2>6. CASE CloseReturn
    <3>1. /\ pc[Closer] = "unlock" /\ closed' = closed /\ failed \subseteq failed'
          /\ \A d \in Consumers : pc'[d] = pc[d]
      BY <2>6 DEF CloseReturn, CloseLeave, Release, ReleaseFails
    <3> QED
      BY <3>1
  <2>7. CASE Destroy
    BY <2>7 DEF Destroy, Free
  <2> QED
    BY <1>3, <2>1, <2>2, <2>3, <2>4, <2>5, <2>6, <2>7 DEF Close
<1>4. ASSUME NEW t \in Producers \cup Consumers, Spurious(t) PROVE Woken'
  BY <1>4 DEF Spurious
<1>5. CASE UNCHANGED vars
  BY <1>5 DEF vars
<1> QED
  BY <1>1, <1>2, <1>3, <1>4, <1>5, NextCases

\* A pop says "closed and empty" when everything pushed has been popped.
LEMMA EndedStep ==
  DataOK /\ Phases /\ Stacked /\ Ended /\ [Next]_vars => Ended'
<1> SUFFICES ASSUME DataOK, Phases, Stacked, Ended, [Next]_vars PROVE Ended'
  OBVIOUS
<1> USE ThreadsAssumption
  DEF ThreadsAssumption, DataOK, Phases, Ended, Threads, queue, clients, budget, Goto,
      Return
<1>1. ASSUME NEW p \in Producers, Push(p) PROVE Ended'
  BY <1>1
  DEF Push, PushCall, ProducerDone, PushLockFails, Acquire, PushWait, CndWait,
      PushInsert, Insert, PushSignal, CndSignal, PushReturn, PushLeave, Release,
      ReleaseFails, WaitEmpty
<1>2. ASSUME NEW c \in Consumers, Pop(c) PROVE Ended'
  <2>1. CASE PopCall(c) \/ PopLockFails(c) \/ Acquire(c, "lock") \/ Acquire(c, "relock")
             \/ PopWait(c) \/ PopSignal(c) \/ PopReturn(c)
    BY <2>1
    DEF PopCall, PopLockFails, Acquire, PopWait, CndWait, PopSignal, CndSignal,
        PopReturn, Release, ReleaseFails, WaitFull
  <2>2. CASE PopEnd(c)
    <3>1. pushed \subseteq popped
      BY <2>2 DEF PopEnd, Stacked
    <3> QED
      BY <2>2, <3>1 DEF PopEnd, SayClosed
  <2>3. CASE PopRemove(c)
    <3>1. buffer[count - 1] \in pushed \ popped
      BY <2>3 DEF PopRemove, Remove, Stacked
    <3>2. ended = {}
      BY <3>1
    <3> QED
      BY <2>3, <3>2 DEF PopRemove, Remove
  <2> QED
    BY <1>2, <2>1, <2>2, <2>3 DEF Pop
<1>3. ASSUME Close PROVE Ended'
  BY <1>3
  DEF Close, CloseCall, Acquire, CloseLockFails, CloseSet, CloseBroadcast,
      CloseReturn, CloseLeave, Release, ReleaseFails, Destroy, Free, WaitEmpty
<1>4. ASSUME NEW t \in Producers \cup Consumers, Spurious(t) PROVE Ended'
  BY <1>4 DEF Spurious
<1>5. CASE UNCHANGED vars
  BY <1>5 DEF vars
<1> QED
  BY <1>1, <1>2, <1>3, <1>4, <1>5, NextCases

\* After the join nobody is inside an operation, so nobody holds the mutex.
LEMMA DestroyedStep ==
  DataOK /\ Roles /\ Mutex /\ Phases /\ DestroyedUnused /\ [Next]_vars => DestroyedUnused'
<1> SUFFICES ASSUME DataOK, Roles, Mutex, Phases, DestroyedUnused, [Next]_vars
             PROVE  DestroyedUnused'
  OBVIOUS
<1> USE ThreadsAssumption
  DEF ThreadsAssumption, DataOK, DestroyedUnused, Fail, Threads, queue, clients, budget,
      Goto, Return
<1>1. ASSUME NEW p \in Producers, Push(p) PROVE DestroyedUnused'
  BY <1>1
  DEF Push, PushCall, ProducerDone, PushLockFails, Acquire, PushWait, CndWait,
      PushInsert, Insert, PushSignal, CndSignal, PushReturn, PushLeave, Release,
      ReleaseFails, WaitEmpty
<1>2. ASSUME NEW c \in Consumers, Pop(c) PROVE DestroyedUnused'
  BY <1>2
  DEF Pop, PopCall, PopLockFails, Acquire, PopWait, CndWait, PopEnd, SayClosed,
      PopRemove, Remove, PopSignal, CndSignal, PopReturn, Release, ReleaseFails,
      WaitFull
<1>3. ASSUME Close PROVE DestroyedUnused'
  <2>1. CASE CloseCall \/ Acquire(Closer, "lock") \/ CloseLockFails \/ CloseSet
             \/ CloseBroadcast \/ CloseReturn
    BY <2>1
    DEF CloseCall, Acquire, CloseLockFails, CloseSet, CloseBroadcast,
        CloseReturn, CloseLeave, Release, ReleaseFails, WaitEmpty
  <2>2. CASE Destroy
    <3>1. \A t \in Threads : pc[t] = "done" \/ t = Closer
      BY <2>2 DEF Destroy, Free, Phases
    <3>2. "unlock" \notin failed => owner = None
      BY <2>2, <3>1 DEF Destroy, Free, Mutex, Critical
    <3> QED
      BY <2>2, <3>1, <3>2 DEF Destroy, Free
  <2> QED
    BY <1>3, <2>1, <2>2 DEF Close
<1>4. ASSUME NEW t \in Producers \cup Consumers, Spurious(t) PROVE DestroyedUnused'
  BY <1>4 DEF Spurious
<1>5. CASE UNCHANGED vars
  BY <1>5 DEF vars
<1> QED
  BY <1>1, <1>2, <1>3, <1>4, <1>5, NextCases

--------------------------------------------------------------------------------
(***************************************************************************)
(* No lost wake-up.  Every step changes the awaited sets by at most one    *)
(* thread, and count by at most one element.                               *)
(***************************************************************************)

\* The awaited sets are finite in both states of a step.
LEMMA AwaitedFinite ==
  /\ IsFiniteSet(ElementsAwaited) /\ IsFiniteSet(ElementsAwaited')
  /\ IsFiniteSet(SlotsAwaited) /\ IsFiniteSet(SlotsAwaited')
<1>1. IsFiniteSet(Producers \cup Consumers)
  BY ThreadsAssumption, FS_Union DEF ThreadsAssumption
<1>2. /\ ElementsAwaited \in SUBSET (Producers \cup Consumers)
      /\ ElementsAwaited' \in SUBSET (Producers \cup Consumers)
      /\ SlotsAwaited \in SUBSET (Producers \cup Consumers)
      /\ SlotsAwaited' \in SUBSET (Producers \cup Consumers)
  BY DEF ElementsAwaited, SlotsAwaited
<1> QED
  BY <1>1, <1>2, FS_Subset

\* How many threads a finite set has after one joined.
LEMMA OneMore ==
  ASSUME NEW S, NEW T, NEW x, IsFiniteSet(S), T = S \cup {x}, x \notin S
  PROVE  Cardinality(S) \in Nat /\ Cardinality(T) = Cardinality(S) + 1
  BY FS_AddElement, FS_CardinalityType

\* The same for a thread that leaves.
LEMMA OneLess ==
  ASSUME NEW S, NEW T, NEW x, IsFiniteSet(S), T = S \ {x}, x \in S
  PROVE  Cardinality(S) \in Nat /\ Cardinality(T) = Cardinality(S) - 1
  BY FS_RemoveElement, FS_CardinalityType

\* One thread takes the place of another.
LEMMA Exchanged ==
  ASSUME NEW S, NEW T, NEW x, NEW y, IsFiniteSet(S),
         T = (S \ {x}) \cup {y}, x \in S, y \notin S
  PROVE  Cardinality(T) = Cardinality(S)
<1>1. IsFiniteSet(S \ {x}) /\ Cardinality(S \ {x}) = Cardinality(S) - 1
  BY FS_RemoveElement
<1>2. Cardinality(T) = Cardinality(S \ {x}) + 1
  BY <1>1, FS_AddElement
<1> QED
  BY <1>1, <1>2, FS_CardinalityType

\* A step that moves no element and wakes or adds threads keeps the property.
LEMMA MoreElementsAwaited ==
  ASSUME DataOK, NoSleepingConsumer, count' = count, failed \subseteq failed',
         WaitEmpty' \subseteq WaitEmpty, ElementsAwaited \subseteq ElementsAwaited'
  PROVE  NoSleepingConsumer'
<1>1. Cardinality(ElementsAwaited) <= Cardinality(ElementsAwaited')
  BY AwaitedFinite, FS_Subset
<1>2. Cardinality(ElementsAwaited) \in Nat /\ Cardinality(ElementsAwaited') \in Nat
  BY AwaitedFinite, FS_CardinalityType
<1>3. "signal" \notin failed' /\ WaitEmpty' # {} => count <= Cardinality(ElementsAwaited)
  BY DEF NoSleepingConsumer
<1> QED
  BY <1>1, <1>2, <1>3 DEF NoSleepingConsumer, DataOK

\* The same for producers.
LEMMA MoreSlotsAwaited ==
  ASSUME DataOK, NoSleepingProducer, count' = count, failed \subseteq failed',
         WaitFull' \subseteq WaitFull, SlotsAwaited \subseteq SlotsAwaited'
  PROVE  NoSleepingProducer'
<1>1. Cardinality(SlotsAwaited) <= Cardinality(SlotsAwaited')
  BY AwaitedFinite, FS_Subset
<1>2. Cardinality(SlotsAwaited) \in Nat /\ Cardinality(SlotsAwaited') \in Nat
  BY AwaitedFinite, FS_CardinalityType
<1>3. "signal" \notin failed' /\ WaitFull' # {} =>
        Capacity - count <= Cardinality(SlotsAwaited)
  BY DEF NoSleepingProducer
<1> QED
  BY <1>1, <1>2, <1>3, CapacityAssumption DEF CapacityAssumption, NoSleepingProducer, DataOK

\* Insertion adds its producer, removal takes its consumer away, a signal exchanges the
\* producer for the consumer it wakes, and a consumer falls asleep on an empty queue only.
LEMMA NoSleepingConsumerStep ==
  DataOK /\ Roles /\ NoSleepingConsumer /\ [Next]_vars => NoSleepingConsumer'
<1> SUFFICES ASSUME DataOK, Roles, NoSleepingConsumer, [Next]_vars
             PROVE  NoSleepingConsumer'
  OBVIOUS
<1> USE ThreadsAssumption
  DEF ThreadsAssumption, DataOK, Fail, Threads, queue, clients, budget, Goto, Return
<1>1. ASSUME NEW p \in Producers, Push(p) PROVE NoSleepingConsumer'
  <2>1. CASE PushCall(p) \/ ProducerDone(p) \/ PushLockFails(p) \/ Acquire(p, "lock")
             \/ Acquire(p, "relock") \/ PushWait(p) \/ PushReturn(p)
    BY <2>1, MoreElementsAwaited
    DEF PushCall, ProducerDone, PushLockFails, Acquire, PushWait, CndWait, PushReturn,
        PushLeave, Release, ReleaseFails, WaitEmpty, ElementsAwaited
  <2>2. CASE PushInsert(p)
    <3>1. ElementsAwaited' = ElementsAwaited \cup {p} /\ p \notin ElementsAwaited
      BY <2>2 DEF PushInsert, Insert, ElementsAwaited
    <3>2. /\ Cardinality(ElementsAwaited) \in Nat
          /\ Cardinality(ElementsAwaited') = Cardinality(ElementsAwaited) + 1
      BY <3>1, AwaitedFinite, OneMore
    <3>3. /\ count' = count + 1 /\ failed' = failed /\ WaitEmpty' = WaitEmpty
      BY <2>2 DEF PushInsert, Insert, WaitEmpty
    <3> QED
      BY <3>2, <3>3, CapacityAssumption DEF CapacityAssumption, NoSleepingConsumer
  <2>3. CASE PushSignal(p)
    <3>1. CASE "signal" \in failed'
      BY <3>1 DEF NoSleepingConsumer
    <3>2. CASE WaitEmpty = {} /\ "signal" \notin failed'
      <4>1. WaitEmpty' = {}
        BY <2>3, <3>2 DEF PushSignal, CndSignal, WaitEmpty
      <4> QED
        BY <4>1 DEF NoSleepingConsumer
    <3>3. ASSUME NEW w \in WaitEmpty, pc' = [pc EXCEPT ![p] = "unlock", ![w] = "relock"],
                 UNCHANGED budget
          PROVE  NoSleepingConsumer'
      <4>1. /\ ElementsAwaited' = (ElementsAwaited \ {p}) \cup {w}
            /\ p \in ElementsAwaited /\ w \notin ElementsAwaited
        BY <2>3, <3>3 DEF PushSignal, CndSignal, WaitEmpty, ElementsAwaited
      <4>2. Cardinality(ElementsAwaited') = Cardinality(ElementsAwaited)
        BY <4>1, AwaitedFinite, Exchanged
      <4>3. WaitEmpty # {} /\ count' = count /\ failed' = failed
        BY <2>3, <3>3 DEF PushSignal, CndSignal
      <4> QED
        BY <4>2, <4>3 DEF NoSleepingConsumer
    <3> QED
      BY <2>3, <3>1, <3>2, <3>3 DEF PushSignal, CndSignal
  <2> QED
    BY <1>1, <2>1, <2>2, <2>3 DEF Push
<1>2. ASSUME NEW c \in Consumers, Pop(c) PROVE NoSleepingConsumer'
  <2>1. CASE PopCall(c) \/ PopLockFails(c) \/ Acquire(c, "lock") \/ Acquire(c, "relock")
             \/ PopSignal(c) \/ PopReturn(c)
    BY <2>1, MoreElementsAwaited
    DEF PopCall, PopLockFails, Acquire, PopSignal, CndSignal, PopReturn, Release,
        ReleaseFails, WaitEmpty, ElementsAwaited, WaitFull
  <2>2. CASE PopWait(c)
    <3>1. count' = 0
      BY <2>2 DEF PopWait, CndWait
    <3>2. Cardinality(ElementsAwaited') \in Nat
      BY AwaitedFinite, FS_CardinalityType
    <3> QED
      BY <3>1, <3>2, CapacityAssumption DEF CapacityAssumption, NoSleepingConsumer
  <2>3. CASE PopEnd(c)
    <3>1. count' = 0
      BY <2>3 DEF PopEnd, SayClosed
    <3>2. Cardinality(ElementsAwaited') \in Nat
      BY AwaitedFinite, FS_CardinalityType
    <3> QED
      BY <3>1, <3>2, CapacityAssumption DEF CapacityAssumption, NoSleepingConsumer
  <2>4. CASE PopRemove(c)
    <3>1. ElementsAwaited' = ElementsAwaited \ {c} /\ c \in ElementsAwaited
      BY <2>4 DEF PopRemove, Remove, ElementsAwaited
    <3>2. /\ Cardinality(ElementsAwaited) \in Nat
          /\ Cardinality(ElementsAwaited') = Cardinality(ElementsAwaited) - 1
      BY <3>1, AwaitedFinite, OneLess
    <3>3. /\ count' = count - 1 /\ failed' = failed /\ WaitEmpty' = WaitEmpty
      BY <2>4 DEF PopRemove, Remove, WaitEmpty
    <3> QED
      BY <3>2, <3>3, CapacityAssumption DEF CapacityAssumption, NoSleepingConsumer
  <2> QED
    BY <1>2, <2>1, <2>2, <2>3, <2>4 DEF Pop
<1>3. ASSUME Close PROVE NoSleepingConsumer'
  <2>1. CASE CloseCall \/ Acquire(Closer, "lock") \/ CloseLockFails \/ CloseSet
             \/ CloseReturn \/ Destroy
    BY <2>1, MoreElementsAwaited
    DEF CloseCall, Acquire, CloseLockFails, CloseSet, CloseReturn,
        CloseLeave, Release, ReleaseFails, Destroy, Free, WaitEmpty, ElementsAwaited
  <2>2. CASE CloseBroadcast
    <3>1. CASE UNCHANGED budget
      <4>1. WaitEmpty' = {}
        BY <2>2, <3>1 DEF CloseBroadcast, WaitEmpty
      <4> QED
        BY <4>1 DEF NoSleepingConsumer
    <3>2. CASE "signal" \in failed'
      BY <3>2 DEF NoSleepingConsumer
    <3> QED
      BY <2>2, <3>1, <3>2 DEF CloseBroadcast
  <2> QED
    BY <1>3, <2>1, <2>2 DEF Close
<1>4. ASSUME NEW t \in Producers \cup Consumers, Spurious(t) PROVE NoSleepingConsumer'
  BY <1>4, MoreElementsAwaited DEF Spurious, WaitEmpty, ElementsAwaited
<1>5. CASE UNCHANGED vars
  BY <1>5, MoreElementsAwaited DEF vars, WaitEmpty, ElementsAwaited
<1> QED
  BY <1>1, <1>2, <1>3, <1>4, <1>5, NextCases

\* The mirror image: removal adds its consumer, insertion takes its producer away.
LEMMA NoSleepingProducerStep ==
  DataOK /\ Roles /\ NoSleepingProducer /\ [Next]_vars => NoSleepingProducer'
<1> SUFFICES ASSUME DataOK, Roles, NoSleepingProducer, [Next]_vars
             PROVE  NoSleepingProducer'
  OBVIOUS
<1> USE ThreadsAssumption
  DEF ThreadsAssumption, DataOK, Fail, Threads, queue, clients, budget, Goto, Return
<1>1. ASSUME NEW p \in Producers, Push(p) PROVE NoSleepingProducer'
  <2>1. CASE PushCall(p) \/ ProducerDone(p) \/ PushLockFails(p) \/ Acquire(p, "lock")
             \/ Acquire(p, "relock") \/ PushSignal(p) \/ PushReturn(p)
    BY <2>1, MoreSlotsAwaited
    DEF PushCall, ProducerDone, PushLockFails, Acquire, PushSignal, CndSignal,
        PushReturn, PushLeave, Release, ReleaseFails, WaitFull, SlotsAwaited, WaitEmpty
  <2>2. CASE PushWait(p)
    <3>1. count' = Capacity
      BY <2>2 DEF PushWait, CndWait
    <3>2. Cardinality(SlotsAwaited') \in Nat
      BY AwaitedFinite, FS_CardinalityType
    <3> QED
      BY <3>1, <3>2, CapacityAssumption DEF CapacityAssumption, NoSleepingProducer
  <2>3. CASE PushInsert(p)
    <3>1. SlotsAwaited' = SlotsAwaited \ {p} /\ p \in SlotsAwaited
      BY <2>3 DEF PushInsert, Insert, SlotsAwaited
    <3>2. /\ Cardinality(SlotsAwaited) \in Nat
          /\ Cardinality(SlotsAwaited') = Cardinality(SlotsAwaited) - 1
      BY <3>1, AwaitedFinite, OneLess
    <3>3. /\ count' = count + 1 /\ failed' = failed /\ WaitFull' = WaitFull
      BY <2>3 DEF PushInsert, Insert, WaitFull
    <3> QED
      BY <3>2, <3>3, CapacityAssumption DEF CapacityAssumption, NoSleepingProducer
  <2> QED
    BY <1>1, <2>1, <2>2, <2>3 DEF Push
<1>2. ASSUME NEW c \in Consumers, Pop(c) PROVE NoSleepingProducer'
  <2>1. CASE PopCall(c) \/ PopLockFails(c) \/ Acquire(c, "lock") \/ Acquire(c, "relock")
             \/ PopWait(c) \/ PopEnd(c) \/ PopReturn(c)
    BY <2>1, MoreSlotsAwaited
    DEF PopCall, PopLockFails, Acquire, PopWait, CndWait, PopEnd, SayClosed, PopReturn,
        Release, ReleaseFails, WaitFull, SlotsAwaited
  <2>2. CASE PopRemove(c)
    <3>1. SlotsAwaited' = SlotsAwaited \cup {c} /\ c \notin SlotsAwaited
      BY <2>2 DEF PopRemove, Remove, SlotsAwaited
    <3>2. /\ Cardinality(SlotsAwaited) \in Nat
          /\ Cardinality(SlotsAwaited') = Cardinality(SlotsAwaited) + 1
      BY <3>1, AwaitedFinite, OneMore
    <3>3. /\ count' = count - 1 /\ failed' = failed /\ WaitFull' = WaitFull
      BY <2>2 DEF PopRemove, Remove, WaitFull
    <3> QED
      BY <3>2, <3>3, CapacityAssumption DEF CapacityAssumption, NoSleepingProducer
  <2>3. CASE PopSignal(c)
    <3>1. CASE "signal" \in failed'
      BY <3>1 DEF NoSleepingProducer
    <3>2. CASE WaitFull = {} /\ "signal" \notin failed'
      <4>1. WaitFull' = {}
        BY <2>3, <3>2 DEF PopSignal, CndSignal, WaitFull
      <4> QED
        BY <4>1 DEF NoSleepingProducer
    <3>3. ASSUME NEW w \in WaitFull, pc' = [pc EXCEPT ![c] = "unlock", ![w] = "relock"],
                 UNCHANGED budget
          PROVE  NoSleepingProducer'
      <4>1. /\ SlotsAwaited' = (SlotsAwaited \ {c}) \cup {w}
            /\ c \in SlotsAwaited /\ w \notin SlotsAwaited
        BY <2>3, <3>3 DEF PopSignal, CndSignal, WaitFull, SlotsAwaited
      <4>2. Cardinality(SlotsAwaited') = Cardinality(SlotsAwaited)
        BY <4>1, AwaitedFinite, Exchanged
      <4>3. WaitFull # {} /\ count' = count /\ failed' = failed
        BY <2>3, <3>3 DEF PopSignal, CndSignal
      <4> QED
        BY <4>2, <4>3 DEF NoSleepingProducer
    <3> QED
      BY <2>3, <3>1, <3>2, <3>3 DEF PopSignal, CndSignal
  <2> QED
    BY <1>2, <2>1, <2>2, <2>3 DEF Pop
<1>3. ASSUME Close PROVE NoSleepingProducer'
  BY <1>3, MoreSlotsAwaited
  DEF Close, CloseCall, Acquire, CloseLockFails, CloseSet, CloseBroadcast,
      CloseReturn, CloseLeave, Release, ReleaseFails, Destroy, Free, WaitFull,
      SlotsAwaited, WaitEmpty
<1>4. ASSUME NEW t \in Producers \cup Consumers, Spurious(t) PROVE NoSleepingProducer'
  BY <1>4, MoreSlotsAwaited DEF Spurious, WaitFull, SlotsAwaited
<1>5. CASE UNCHANGED vars
  BY <1>5, MoreSlotsAwaited DEF vars, WaitFull, SlotsAwaited
<1> QED
  BY <1>1, <1>2, <1>3, <1>4, <1>5, NextCases

--------------------------------------------------------------------------------
(***************************************************************************)
(* The inductive invariant, and what follows from it.                      *)
(***************************************************************************)
IInv ==
  /\ TypeOK
  /\ Roles /\ Mutex /\ Phases
  /\ Ownership /\ Stacked /\ Carried /\ Accounted
  /\ FreedNeverQueued
  /\ Woken /\ Ended
  /\ DestroyedUnused
  /\ NoSleepingConsumer /\ NoSleepingProducer

\* The invariant holds of the queue mr_queue_init leaves.
LEMMA IInvInit == Init => IInv
<1> SUFFICES ASSUME Init PROVE IInv
  OBVIOUS
<1>1. TypeOK
  BY FlagsInit, DataInit DEF TypeOK
<1>2. Roles /\ Mutex /\ Phases
  BY DEF Init, Roles, Mutex, Phases, Critical, Threads
<1>3. Ownership /\ Carried /\ Accounted /\ FreedNeverQueued
  BY ThreadsAssumption
  DEF ThreadsAssumption, Init, Ownership, Busy, Pushing, Carried, Carrying, Accounted,
      FreedNeverQueued, Threads
<1>4. Stacked
  BY DEF Init, Stacked
<1>5. Woken /\ Ended /\ DestroyedUnused
  BY DEF Init, Woken, Ended, DestroyedUnused
<1>6. NoSleepingConsumer /\ NoSleepingProducer
  <2>1. WaitEmpty = {} /\ WaitFull = {}
    BY DEF Init, WaitEmpty, WaitFull, Threads
  <2> QED
    BY <2>1 DEF NoSleepingConsumer, NoSleepingProducer
<1> QED
  BY <1>1, <1>2, <1>3, <1>4, <1>5, <1>6 DEF IInv

\* Every step keeps it.
LEMMA IInvStep == IInv /\ [Next]_vars => IInv'
  BY FlagsStep, DataStep, RolesStep, MutexStep, PhasesStep, OwnershipStep, StackedStep,
     CarriedStep, AccountedStep, FreedStep, WokenStep, EndedStep, DestroyedStep,
     NoSleepingConsumerStep, NoSleepingProducerStep
  DEF IInv, TypeOK

\* It therefore always holds.
LEMMA Inductive == Spec => []IInv
  BY IInvInit, IInvStep, PTL DEF Spec

\* Whatever the threads do and whichever library calls fail, the queue's variables keep
\* their types: count stays between 0 and the capacity of the buffer that mr_queue_init
\* allocated, so no push writes and no pop reads outside it.
THEOREM TypeCorrect == Spec => []TypeOK
<1>1. IInv => TypeOK
  BY DEF IInv
<1> QED
  BY <1>1, Inductive, PTL

\* No element is handed out twice or invented, whichever calls fail.
THEOREM DeliveredOnce == Spec => []ExactlyOnce
<1>1. IInv => ExactlyOnce
  BY DEF IInv, Stacked, Carried, ExactlyOnce, Contents
<1> QED
  BY <1>1, Inductive, PTL

\* As long as no library call fails, every element is with a producer, in the buffer or
\* with a consumer.
THEOREM NoneLost == Spec => []NothingLost
<1>1. ASSUME IInv PROVE NothingLost
  <2> SUFFICES ASSUME failed = {}
               PROVE  Items = pending \cup {item[p] : p \in Pushing} \cup Contents
                                \cup {item[c] : c \in Carrying} \cup delivered
    BY DEF NothingLost
  <2>1. pending \subseteq Items /\ pushed \subseteq Items
    BY <1>1 DEF IInv, TypeOK, DataOK
  <2>2. {item[p] : p \in Pushing} \subseteq Items
    BY <1>1 DEF IInv, Ownership, Busy, Pushing
  <2>3. Contents = pushed \ popped /\ delivered \subseteq popped /\ popped \subseteq pushed
    BY <1>1 DEF IInv, Stacked, Carried, Contents
  <2>4. {item[c] : c \in Carrying} = popped \ delivered
    BY <1>1 DEF IInv, Carried, Accounted
  <2>5. Items \ (pending \cup pushed) \subseteq {item[p] : p \in Pushing}
    BY <1>1 DEF IInv, Accounted
  <2> QED
    BY <2>1, <2>2, <2>3, <2>4, <2>5
<1> QED
  BY <1>1, Inductive, PTL

\* An element whose push returned -1, which the caller frees, is not in the queue, unless
\* the call that failed was the cnd_signal or mtx_unlock after the insertion.
THEOREM FreedIsOut == Spec => []FreedNeverQueued
<1>1. IInv => FreedNeverQueued
  BY DEF IInv
<1> QED
  BY <1>1, Inductive, PTL

\* No consumer is left asleep by mr_queue_close.
THEOREM CloseWakesAll == Spec => []NoWaitAfterClose
<1>1. IInv => NoWaitAfterClose
  BY DEF IInv, Woken, NoWaitAfterClose, WaitEmpty
<1> QED
  BY <1>1, Inductive, PTL

\* A pop that returns 1 says that the queue is empty for good.
THEOREM EndIsFinal == Spec => []EndMeansDrained
<1>1. ASSUME IInv PROVE EndMeansDrained
  <2> SUFFICES ASSUME ended # {}
               PROVE  closed /\ popped = pushed /\ pending = {} /\ Pushing = {}
    BY DEF EndMeansDrained
  <2>1. closed /\ popped = pushed
    BY <1>1 DEF IInv, Ended, Stacked
  <2>2. \A p \in Producers : pc[p] = "done"
    BY <1>1, <2>1 DEF IInv, Phases
  <2>3. pending = {}
    BY <1>1, <2>2, ThreadsAssumption DEF ThreadsAssumption, IInv, Phases
  <2>4. Pushing = {}
    BY <2>2 DEF Pushing
  <2> QED
    BY <2>1, <2>3, <2>4
<1> QED
  BY <1>1, Inductive, PTL

\* mr_queue_destroy frees the queue when no thread uses it any more.
THEOREM DestroyIsLast == Spec => []DestroyedUnused
<1>1. IInv => DestroyedUnused
  BY DEF IInv
<1> QED
  BY <1>1, Inductive, PTL

\* No wake-up of a consumer is lost: with cnd_signal, instead of cnd_broadcast, no element
\* waits in the buffer while a consumer sleeps and no thread is about to see to it.
THEOREM ConsumersWoken == Spec => []NoSleepingConsumer
<1>1. IInv => NoSleepingConsumer
  BY DEF IInv
<1> QED
  BY <1>1, Inductive, PTL

\* No wake-up of a producer is lost.
THEOREM ProducersWoken == Spec => []NoSleepingProducer
<1>1. IInv => NoSleepingProducer
  BY DEF IInv
<1> QED
  BY <1>1, Inductive, PTL

\* The wake-ups of push, pop and close are sufficient, for any number of threads.
THEOREM WakeupsSuffice == Spec => []NoLostWakeup
<1>1. NoSleepingConsumer /\ NoSleepingProducer /\ NoWaitAfterClose => NoLostWakeup
  BY DEF NoLostWakeup
<1> QED
  BY <1>1, ConsumersWoken, ProducersWoken, CloseWakesAll, PTL

--------------------------------------------------------------------------------
(***************************************************************************)
(* Refinement: the threads, the mutex and the condition variables          *)
(* implement the atomic operations of AbstractQueue.                       *)
(***************************************************************************)
Stack == [k \in 1 .. count |-> buffer[k - 1]]

\* The refinement mapping maps the buffer to a sequence.
LEMMA StackIsSeq ==
  ASSUME DataOK PROVE Stack \in Seq(Items \cup {None}) /\ Len(Stack) = count
  BY CapacityAssumption DEF CapacityAssumption, DataOK, Slots, Stack

\* An initialised queue is an empty abstract queue.
LEMMA AbsInit == Init => Abs!Init
  BY DEF Init, Abs!Init

\* Whatever leaves the buffer, the flags and the histories alone is invisible.
LEMMA Invisible ==
  ASSUME UNCHANGED <<queue, ended>> PROVE UNCHANGED Abs!vars
  BY DEF queue, Abs!vars

\* The memcpy and count++ of mr_queue_push are the abstract Put.
LEMMA InsertIsPut ==
  ASSUME IInv, NEW p \in Producers, PushInsert(p) PROVE \E i \in Items : Abs!Put(i)
<1> USE CapacityAssumption DEF CapacityAssumption
<1>1. DataOK /\ count \in Slots /\ Len(Stack) = count
  BY StackIsSeq DEF IInv, TypeOK, DataOK, PushInsert, Slots
<1>2. PICK i \in Items : i = item[p]
  BY DEF IInv, Ownership, Busy, PushInsert
<1>3. ~closed /\ i \notin pushed
  BY <1>2 DEF IInv, Phases, Ownership, Pushing, PushInsert
<1>4. /\ count' = count + 1 /\ buffer' = [buffer EXCEPT ![count] = i]
      /\ pushed' = pushed \cup {i}
      /\ UNCHANGED <<popped, closed, ended>>
  BY <1>2 DEF PushInsert, Insert, clients
<1>5. Stack' = Append(Stack, i)
  BY <1>1, <1>4, StackIsSeq DEF Stack, DataOK, Slots
<1>6. Len(Stack) < Capacity
  BY <1>1 DEF Slots
<1>7. Abs!Put(i)
  BY <1>3, <1>4, <1>5, <1>6 DEF Abs!Put, Stack
<1> QED
  BY <1>7

\* The count-- and memcpy of mr_queue_pop are the abstract Take.
LEMMA RemoveIsTake ==
  ASSUME IInv, NEW c \in Consumers, PopRemove(c) PROVE Abs!Take
<1> USE CapacityAssumption DEF CapacityAssumption
<1>1. DataOK /\ count \in 1 .. Capacity /\ Len(Stack) = count
  BY StackIsSeq DEF IInv, TypeOK, DataOK, PopRemove, Remove
<1>2. /\ count' = count - 1 /\ buffer' = buffer
      /\ popped' = popped \cup {buffer[count - 1]}
      /\ UNCHANGED <<pushed, closed, ended>>
  BY DEF PopRemove, Remove, clients
<1>3. Stack' = SubSeq(Stack, 1, Len(Stack) - 1)
  BY <1>1, <1>2, StackIsSeq DEF Stack, DataOK, Slots
<1>4. Stack # <<>> /\ Stack[Len(Stack)] = buffer[count - 1]
  BY <1>1 DEF Stack
<1> QED
  BY <1>2, <1>3, <1>4 DEF Abs!Take, Stack

\* Setting q->closed is the abstract Close.
LEMMA SetIsClose == ASSUME CloseSet PROVE Abs!Close
  BY DEF CloseSet, Abs!Close, clients

\* Deciding to return 1 is the abstract End.
LEMMA EndIsEnd == ASSUME NEW c \in Consumers, PopEnd(c) PROVE Abs!End(c)
<1>1. count = 0 /\ closed /\ ended' = ended \cup {c} /\ UNCHANGED queue
  BY DEF PopEnd, SayClosed
<1>2. Stack = <<>>
  BY <1>1 DEF Stack
<1> QED
  BY <1>1, <1>2 DEF Abs!End, Stack, queue

\* Every step is an abstract step or invisible.
LEMMA AbsStep == IInv /\ [Next]_vars => [Abs!Next]_(Abs!vars)
<1> SUFFICES ASSUME IInv, [Next]_vars PROVE [Abs!Next]_(Abs!vars)
  OBVIOUS
<1>1. ASSUME NEW p \in Producers, Push(p) PROVE [Abs!Next]_(Abs!vars)
  <2>1. CASE PushInsert(p)
    BY <2>1, InsertIsPut DEF Abs!Next
  <2>2. CASE ~PushInsert(p)
    BY <1>1, <2>2, Invisible
    DEF Push, PushCall, ProducerDone, PushLockFails, Acquire, PushWait, CndWait, PushSignal,
        CndSignal, PushReturn, PushLeave, clients
  <2> QED
    BY <2>1, <2>2
<1>2. ASSUME NEW c \in Consumers, Pop(c) PROVE [Abs!Next]_(Abs!vars)
  <2>1. CASE PopRemove(c)
    BY <2>1, RemoveIsTake DEF Abs!Next
  <2>2. CASE PopEnd(c)
    BY <2>2, EndIsEnd DEF Abs!Next
  <2>3. CASE ~PopRemove(c) /\ ~PopEnd(c)
    BY <1>2, <2>3, Invisible
    DEF Pop, PopCall, PopLockFails, Acquire, PopWait, CndWait, PopSignal, CndSignal,
        PopReturn, clients
  <2> QED
    BY <2>1, <2>2, <2>3
<1>3. ASSUME Close PROVE [Abs!Next]_(Abs!vars)
  <2>1. CASE CloseSet
    BY <2>1, SetIsClose DEF Abs!Next
  <2>2. CASE Destroy
    BY <2>2 DEF Destroy, Free, clients, Abs!vars
  <2>3. CASE ~CloseSet /\ ~Destroy
    BY <1>3, <2>3, Invisible
    DEF Close, CloseCall, Acquire, CloseLockFails, CloseBroadcast, CloseReturn,
        CloseLeave, clients
  <2> QED
    BY <2>1, <2>2, <2>3
<1>4. ASSUME NEW t \in Producers \cup Consumers, Spurious(t) PROVE [Abs!Next]_(Abs!vars)
  BY <1>4, Invisible DEF Spurious, clients
<1>5. CASE UNCHANGED vars
  BY <1>5, Invisible DEF vars, clients
<1> QED
  BY <1>1, <1>2, <1>3, <1>4, <1>5, NextCases

\* The detailed queue implements the abstract one: to its clients push, pop and close are
\* atomic, the order is last in first out and every element comes out at most once.
THEOREM Refinement == Spec => Implements
<1>1. Init => Abs!Init
  BY AbsInit
<1>2. IInv /\ [Next]_vars => [Abs!Next]_(Abs!vars)
  BY AbsStep
<1> QED
  BY <1>1, <1>2, Inductive, PTL DEF Spec, Implements, Abs!Spec
================================================================================
