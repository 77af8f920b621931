------------------------------ MODULE AbstractJob ------------------------------
(***************************************************************************)
(* What mr_start promises, without processes, pipes and descriptors: the   *)
(* messages of the input are mapped, the pairs are collected, and no       *)
(* result is made before all pairs are there; 0 is returned when           *)
(* everything was received.  Once something has failed (broken) the job    *)
(* may lose messages, and end with an error or by a signal, but it invents *)
(* nothing, and a 0 still comes with every result that was made.           *)
(***************************************************************************)
EXTENDS Naturals

CONSTANT NMessages

VARIABLES
  state,      \* "running", "ok", "error" or "killed", as the caller sees it
  broken,     \* some call or process has failed
  sent, mapped, emitted, collected, results, received

counts == <<sent, mapped, emitted, collected, results, received>>
vars == <<state, broken, counts>>

Init ==
  /\ state = "running" /\ broken = FALSE
  /\ sent = 0 /\ mapped = 0 /\ emitted = 0
  /\ collected = 0 /\ results = 0 /\ received = 0

Send ==
  /\ state = "running" /\ sent < NMessages
  /\ sent' = sent + 1
  /\ UNCHANGED <<state, broken, mapped, emitted, collected, results, received>>

\* A message is mapped to a pair or to nothing.
Map ==
  /\ mapped < sent
  /\ mapped' = mapped + 1
  /\ emitted' \in {emitted, emitted + 1}
  /\ UNCHANGED <<state, broken, sent, collected, results, received>>

\* No pair comes in after the first result.
Collect ==
  /\ collected < emitted /\ results = 0
  /\ collected' = collected + 1
  /\ UNCHANGED <<state, broken, sent, mapped, emitted, results, received>>

\* The barrier of MapReduce: all input mapped and all pairs collected before any result.
Reduce ==
  /\ results < collected
  /\ broken \/ (mapped = NMessages /\ collected = emitted)
  /\ results' = results + 1
  /\ UNCHANGED <<state, broken, sent, mapped, emitted, collected, received>>

Receive ==
  /\ state = "running" /\ received < results
  /\ received' = received + 1
  /\ UNCHANGED <<state, broken, sent, mapped, emitted, collected, results>>

\* mr_start returns 0 with all results that were made; if nothing failed, with all there are.
ReturnOk ==
  /\ state = "running" /\ state' = "ok"
  /\ received = results
  /\ broken \/ (mapped = NMessages /\ collected = emitted /\ (emitted > 0 => results > 0))
  /\ UNCHANGED <<broken, counts>>

\* Something fails; mr_start returns -1, or its caller is killed, then or later.
Break ==
  /\ broken' = TRUE
  /\ state' \in {state} \cup IF state = "running" THEN {"error", "killed"} ELSE {}
  /\ ~broken \/ state' # state
  /\ UNCHANGED counts

Next == Send \/ Map \/ Collect \/ Reduce \/ Receive \/ ReturnOk \/ Break

Spec == Init /\ [][Next]_vars
================================================================================
