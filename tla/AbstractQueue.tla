----------------------------- MODULE AbstractQueue -----------------------------
(***************************************************************************)
(* What queue.h promises to the threads that share an mr_queue_t: a        *)
(* bounded LIFO buffer that hands over every accepted element exactly once,*)
(* and tells a consumer "closed and empty" only when nothing more will     *)
(* ever come out.  Every operation is one atomic step; mutex, condition    *)
(* variables and memory are MrQueue's business.                            *)
(***************************************************************************)
EXTENDS Naturals, Sequences

CONSTANTS
  Items,       \* elements that clients may push, each at most once
  Consumers,   \* threads that pop until they are told to stop
  Capacity     \* mr_queue_t.capacity

VARIABLES
  stack,       \* accepted elements not yet handed over; the last is the top
  accepted,    \* every element ever accepted
  taken,       \* every element ever handed over
  closed,      \* mr_queue_close took effect
  ended        \* consumers that were told "closed and empty"

vars == <<stack, accepted, taken, closed, ended>>

Init ==
  /\ stack = <<>>
  /\ accepted = {}
  /\ taken = {}
  /\ closed = FALSE
  /\ ended = {}

\* mr_queue_push returns 0 (queue.h: "must not be closed", "blocks until space").
Put(i) ==
  /\ ~closed
  /\ Len(stack) < Capacity
  /\ i \notin accepted
  /\ stack' = Append(stack, i)
  /\ accepted' = accepted \cup {i}
  /\ UNCHANGED <<taken, closed, ended>>

\* mr_queue_pop returns 0 with the element pushed last.
Take ==
  /\ stack # <<>>
  /\ stack' = SubSeq(stack, 1, Len(stack) - 1)
  /\ taken' = taken \cup {stack[Len(stack)]}
  /\ UNCHANGED <<accepted, closed, ended>>

\* mr_queue_close.
Close ==
  /\ closed' = TRUE
  /\ UNCHANGED <<stack, accepted, taken, ended>>

\* mr_queue_pop returns 1.
End(c) ==
  /\ closed
  /\ stack = <<>>
  /\ ended' = ended \cup {c}
  /\ UNCHANGED <<stack, accepted, taken, closed>>

Next ==
  \/ \E i \in Items : Put(i)
  \/ Take
  \/ Close
  \/ \E c \in Consumers : End(c)

Spec == Init /\ [][Next]_vars
================================================================================
