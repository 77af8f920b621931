------------------------------- MODULE MrReducer -------------------------------
(***************************************************************************)
(* The reducer process of src/src/reducer.c: the controller thread groups  *)
(* the pairs it reads from the mapper in a hash table with chaining, up to *)
(* end of file, then creates the workers and pushes the nodes of the       *)
(* table; a worker pops a node, calls the user's reducer on its values,    *)
(* writes the results it emits to the pipe behind stdout and frees the     *)
(* node.  Controller and workers share the nodes: who frees which, and who *)
(* still reads one, is what most of the properties are about.              *)
(*                                                                         *)
(* The queue is that of QueueCalls.  The mapper process and the user's     *)
(* reducer are the environment: pairs come in any order, the reducer emits *)
(* up to MaxResults results for a token.  Whether it returns 0 or not      *)
(* makes no difference to the worker, which logs it.                       *)
(***************************************************************************)
EXTENDS Integers, Sequences, FiniteSets, Functions

CONSTANTS
  Workers,          \* the reducer_threads worker threads
  Pairs,            \* the pairs the mapper process sends
  Tokens,
  TokenOf,          \* the token of each pair
  NBuckets,         \* MR_REDUCER_HASH_TABLE_SIZE
  Hash,             \* hash_function: the bucket of each token
  InitialCapacity,  \* room for values in a node after the first realloc (8 in the code)
  Capacity,         \* queue_size
  MaxResults,       \* bound: results the user's reducer emits for a token
  MaxFaults,        \* bound: failing library and system calls
  None              \* no worker, no node

Buckets == 1 .. NBuckets

ASSUME WorkersAssumption == IsFiniteSet(Workers) /\ Workers # {}
ASSUME NoneAssumption == None \notin Workers \cup Tokens
ASSUME PairsAssumption == TokenOf \in [Pairs -> Tokens] /\ Hash \in [Tokens -> Buckets]
ASSUME BoundsAssumption ==
  /\ NBuckets \in Nat \ {0} /\ InitialCapacity \in Nat \ {0} /\ Capacity \in Nat \ {0}
  /\ MaxResults \in Nat /\ MaxFaults \in Nat

VARIABLES
  stack, accepted, taken, closed, ended,   \* the queue, of nodes
  idle, asleep, jammed,                    \* who sleeps on it, and a mutex left locked
  ctl,        \* control point of the controller
  input,      \* pairs not yet received
  discarded,  \* pairs freed because they could not be added
  bucket, node, next,   \* the variables i, node and next of the push loop
  destroyed,  \* queue, stdout mutex and thread arguments were destroyed
  exit,       \* exit code of the process, "none" while it runs
  table,      \* hash_table: the chain of nodes, by token, of each bucket
  values,     \* the values of each node
  room,       \* the capacity of each node's array of values
  freed,      \* how many times each node was freed
  wpc,        \* control point of each worker
  wnode,      \* the node a worker popped
  wresults,   \* how many results the user's reducer has tried to emit for it
  part,       \* how many of the frame's three parts the worker has written
  mutex,      \* holder of stdout_mutex
  out,        \* what was written to stdout: <<token, result, part>>
  results,    \* results_count
  reduced,    \* how many times the user's reducer has been called on each token
  failed, faultsLeft

queue   == <<stack, accepted, taken, closed, ended, idle, asleep, jammed>>
loop    == <<bucket, node, next>>
control == <<ctl, input, discarded, loop, destroyed, exit>>
store   == <<table, values, room>>
worker  == <<wpc, wnode, wresults, part>>
stdout  == <<mutex, out, results>>
budget  == <<failed, faultsLeft>>
vars    == <<queue, control, store, freed, worker, stdout, reduced, budget>>

Q == INSTANCE QueueCalls WITH Items <- Tokens, Consumers <- Workers

Parts == 3   \* header, token, result: the write_n calls of send_result_to_main_fd

\* A call of kind k fails.
Fail(k) ==
  /\ faultsLeft > 0
  /\ faultsLeft' = faultsLeft - 1
  /\ failed' = failed \cup {k}

Init ==
  /\ Q!InitCalls
  /\ ctl = "start" /\ input = Pairs /\ discarded = {}
  /\ bucket = 1 /\ node = None /\ next = None
  /\ destroyed = FALSE /\ exit = "none"
  /\ table = [b \in Buckets |-> <<>>]
  /\ values = [t \in Tokens |-> <<>>]
  /\ room = [t \in Tokens |-> 0]
  /\ freed = [t \in Tokens |-> 0]
  /\ wpc = [w \in Workers |-> "none"]
  /\ wnode = [w \in Workers |-> None]
  /\ wresults = [w \in Workers |-> 0]
  /\ part = [w \in Workers |-> 0]
  /\ mutex = None /\ out = <<>> /\ results = 0
  /\ reduced = [t \in Tokens |-> 0]
  /\ failed = {} /\ faultsLeft = MaxFaults

--------------------------------------------------------------------------------
(***************************************************************************)
(* The collection phase: one thread fills the hash table.                  *)
(***************************************************************************)
At(point) == exit = "none" /\ ctl = point
Step(to) == ctl' = to /\ UNCHANGED <<input, discarded, loop, destroyed, exit>>
Exit(status) == exit' = status /\ UNCHANGED <<ctl, input, discarded, loop, destroyed>>

Nodes == UNION {Range(table[b]) : b \in Buckets}
Free(nodes) == freed' = [t \in Tokens |-> freed[t] + (IF t \in nodes THEN 1 ELSE 0)]

\* The first log line.
CtlStart ==
  /\ At("start")
  /\ \/ Step("collect") /\ UNCHANGED budget
     \/ Fail("log") /\ Exit("failure")
  /\ UNCHANGED <<queue, store, freed, worker, stdout, reduced>>

\* A new node becomes the head of its chain.
Link(t) == table' = [table EXCEPT ![Hash[t]] = <<t>> \o @]

\* Mutant: only the head of the chain is compared with the token.
FindOrCreateAtHead(t) ==
  LET chain == table[Hash[t]] IN
    IF chain # <<>> /\ chain[1] = t THEN UNCHANGED table ELSE Link(t)

\* find_or_create_token
FindOrCreate(t) == IF t \in Range(table[Hash[t]]) THEN UNCHANGED table ELSE Link(t)

\* realloc, when the array of values is full.
Grow(t, full) ==
  room' = IF full THEN [room EXCEPT ![t] = IF @ = 0 THEN InitialCapacity ELSE 2 * @]
          ELSE room

\* add_value_to_token
AddValue(p, t) ==
  /\ Grow(t, Len(values[t]) = room[t])
  /\ values' = [values EXCEPT ![t] = Append(@, p)]

\* The body of the collection loop.  When there is no memory for the node (malloc, strdup)
\* or for its values (realloc), the pair is freed and the loop left with an error.
Collect(p, t) ==
  /\ \/ /\ FindOrCreate(t) /\ AddValue(p, t)
        /\ ctl' = "collect"
        /\ UNCHANGED <<discarded, budget>>
     \/ /\ Fail("alloc")
        /\ \/ t \notin Range(table[Hash[t]]) /\ UNCHANGED table
           \/ Len(values[t]) = room[t] /\ FindOrCreate(t)
        /\ discarded' = discarded \cup {p}
        /\ ctl' = "clean"
        /\ UNCHANGED <<values, room>>
  /\ input' = input \ {p}

\* The pairs that may come next, one of each token: tokens come in any order, and two pairs of
\* one token differ in nothing but their names, so that only one order of these is looked at.
NextPairs == {CHOOSE q \in input : TokenOf[q] = TokenOf[p] : p \in input}

\* Mutant: an error of the receive call is taken for the end of the pairs.
CtlCollectIgnoresError ==
  /\ At("collect")
  /\ \/ \E p \in NextPairs : Collect(p, TokenOf[p])
     \/ Fail("recv") /\ ctl' = "init" /\ UNCHANGED <<input, discarded, store>>
  /\ UNCHANGED <<loop, destroyed, exit, queue, freed, worker, stdout, reduced>>

\* receive_pair_from_mapper returns a pair, end of file, or an error.
CtlCollect ==
  /\ At("collect")
  /\ \/ \E p \in NextPairs : Collect(p, TokenOf[p])
     \/ /\ input = {} /\ ctl' = "init"
        /\ UNCHANGED <<input, discarded, store, budget>>
     \/ Fail("recv") /\ ctl' = "clean" /\ UNCHANGED <<input, discarded, store>>
  /\ UNCHANGED <<loop, destroyed, exit, queue, freed, worker, stdout, reduced>>

\* mr_queue_init, mtx_init and the two mallocs.
CtlInit ==
  /\ At("init")
  /\ \/ Step("create") /\ UNCHANGED budget
     \/ Fail("init") /\ Step("clean")
  /\ UNCHANGED <<queue, store, freed, worker, stdout, reduced>>

\* cleanup_hash_table and EXIT_FAILURE: the end of every error path before the push loop.
CtlClean ==
  /\ At("clean")
  /\ Free(Nodes)
  /\ table' = [b \in Buckets |-> <<>>]
  /\ Exit("failure")
  /\ UNCHANGED <<values, room, queue, worker, stdout, reduced, budget>>

--------------------------------------------------------------------------------
(***************************************************************************)
(* The processing phase: create the workers, push every node, close, join. *)
(***************************************************************************)
HeadOf(b) == IF table[b] = <<>> THEN None ELSE table[b][1]

\* thrd_create of the workers, then the start of the push loop.
CtlCreate ==
  /\ At("create")
  /\ \/ \E w \in Workers :
          /\ wpc[w] = "none"
          /\ wpc' = [wpc EXCEPT ![w] = "start"]
          /\ UNCHANGED <<control, budget>>
     \/ /\ \E w \in Workers : wpc[w] = "none"
        /\ Fail("create") /\ Step("shut") /\ UNCHANGED wpc
     \/ /\ \A w \in Workers : wpc[w] # "none"
        /\ ctl' = "visit"
        /\ node' = HeadOf(1)
        /\ UNCHANGED <<input, discarded, bucket, next, destroyed, exit, wpc, budget>>
  /\ UNCHANGED <<wnode, wresults, part, queue, store, freed, stdout, reduced>>

\* mr_queue_close fails: before the queue is closed, or after.
CloseFails ==
  \/ Fail("close") /\ UNCHANGED queue
  \/ Fail("close_signal") /\ Q!CloseNoSignal
  \/ Fail("close_unlock") /\ Q!CloseNoUnlock

\* mr_queue_close on the two error paths, where nobody looks whether it worked.
CloseUnchecked(from, to) ==
  /\ At(from)
  /\ (Q!CloseAndWake /\ UNCHANGED budget) \/ CloseFails
  /\ Step(to)
  /\ UNCHANGED <<store, freed, worker, stdout, reduced>>

CtlShut == CloseUnchecked("shut", "abort")

\* A worker could not be created: the others are joined, everything is destroyed.
CtlAbort ==
  /\ At("abort")
  /\ \A w \in Workers : wpc[w] \in {"none", "ended"}
  /\ destroyed' = TRUE /\ ctl' = "clean"
  /\ UNCHANGED <<input, discarded, loop, exit>>
  /\ UNCHANGED <<queue, store, freed, worker, stdout, reduced, budget>>

\* The place of the current node in its chain, and the node->next behind it.
Place == CHOOSE k \in DOMAIN table[bucket] : table[bucket][k] = node
NextOfNode == IF Place < Len(table[bucket]) THEN table[bucket][Place + 1] ELSE None

\* Mutant: the node is pushed before node->next is read.
CtlVisitPushes ==
  /\ At("visit") /\ node # None
  /\ Q!Push(node)
  /\ ctl' = "push"
  /\ UNCHANGED <<input, discarded, loop, destroyed, exit>>
  /\ UNCHANGED <<store, freed, worker, stdout, reduced, budget>>

\* next = node->next, read before the push gives the node away.
CtlVisit ==
  /\ At("visit") /\ node # None
  /\ next' = NextOfNode
  /\ ctl' = "push"
  /\ UNCHANGED <<input, discarded, bucket, node, destroyed, exit>>
  /\ UNCHANGED <<queue, store, freed, worker, stdout, reduced, budget>>

\* The next bucket, or, after the last, the point after the loop.
Bucket(after) ==
  /\ At("visit") /\ node = None
  /\ \/ /\ bucket < NBuckets
        /\ bucket' = bucket + 1 /\ node' = HeadOf(bucket + 1)
        /\ UNCHANGED ctl
     \/ bucket = NBuckets /\ ctl' = after /\ UNCHANGED <<bucket, node>>
  /\ UNCHANGED <<input, discarded, next, destroyed, exit>>
  /\ UNCHANGED <<queue, store, freed, worker, stdout, reduced, budget>>

\* Mutant: the queue is not closed after the last node.
CtlBucketNoClose == Bucket("join")

CtlBucket == Bucket("close")

\* mr_queue_push of the current node: it succeeds and the loop goes on with node n, or it
\* fails before the node is in the queue, or after.
PushNode(n) ==
  /\ At("push")
  /\ \/ Q!Push(node) /\ node' = n /\ ctl' = "visit" /\ UNCHANGED budget
     \/ /\ \/ Fail("push") /\ Q!PushRefused
           \/ Fail("push_signal") /\ Q!PushNoSignal(node)
           \/ Fail("push_unlock") /\ Q!PushNoUnlock(node)
        /\ ctl' = "pushfailed" /\ UNCHANGED node
  /\ UNCHANGED <<input, discarded, bucket, next, destroyed, exit>>
  /\ UNCHANGED <<store, freed, worker, stdout, reduced>>

\* Mutant: the rest of a chain is skipped.
CtlPushOnePerBucket == PushNode(None)

CtlPush == PushNode(next)

\* While the queue is full the controller sleeps.
CtlPushWait ==
  /\ At("push") /\ Q!PushWaits
  /\ UNCHANGED <<control, store, freed, worker, stdout, reduced, budget>>

CtlPushShut == CloseUnchecked("pushfailed", "giveup")

\* The nodes the loop has not pushed: the current one, those behind it in its chain, and
\* those of the buckets behind.
Unpushed ==
  {table[bucket][k] : k \in Place .. Len(table[bucket])}
    \cup UNION {Range(table[b]) : b \in (bucket + 1) .. NBuckets}

\* The end of the push loop's error path: join, free some nodes, destroy, EXIT_FAILURE.
GiveUp(nodes) ==
  /\ At("giveup")
  /\ \A w \in Workers : wpc[w] = "ended"
  /\ Free(nodes)
  /\ destroyed' = TRUE /\ exit' = "failure"
  /\ UNCHANGED <<ctl, input, discarded, loop>>
  /\ UNCHANGED <<queue, store, worker, stdout, reduced, budget>>

\* Mutants: the whole table is freed; the other buckets are forgotten.
CtlGiveUpAll == GiveUp(Nodes)
CtlGiveUpChain == GiveUp(Unpushed \cap Range(table[bucket]))

CtlGiveUp == GiveUp(Unpushed)

CtlClose ==
  /\ At("close")
  /\ \/ Q!CloseAndWake /\ Step("join") /\ UNCHANGED budget
     \/ CloseFails /\ Exit("failure")
  /\ UNCHANGED <<store, freed, worker, stdout, reduced>>

\* thrd_join of every worker (what it returned is only logged) and the destruction.
CtlJoin ==
  /\ At("join")
  /\ \/ /\ \A w \in Workers : wpc[w] = "ended"
        /\ destroyed' = TRUE /\ ctl' = "finish"
        /\ UNCHANGED <<input, discarded, loop, exit, budget>>
     \/ Fail("join") /\ Exit("failure")
  /\ UNCHANGED <<queue, store, freed, worker, stdout, reduced>>

CtlFinish ==
  /\ At("finish")
  /\ \/ Exit("success") /\ UNCHANGED budget
     \/ Fail("log") /\ Exit("failure")
  /\ UNCHANGED <<queue, store, freed, worker, stdout, reduced>>

Controller ==
  \/ CtlStart \/ CtlCollect \/ CtlInit \/ CtlClean
  \/ CtlCreate \/ CtlShut \/ CtlAbort
  \/ CtlVisit \/ CtlBucket \/ CtlPush \/ CtlPushShut \/ CtlGiveUp
  \/ CtlClose \/ CtlJoin \/ CtlFinish

--------------------------------------------------------------------------------
(***************************************************************************)
(* A worker: reducer_worker, and reducer_emit called back by the user's    *)
(* reducer.                                                                *)
(***************************************************************************)
WAt(w, point) == exit = "none" /\ wpc[w] = point
WGoto(w, to) == wpc' = [wpc EXCEPT ![w] = to]
WStep(w, to) == WGoto(w, to) /\ UNCHANGED <<wnode, wresults, part>>

WorkerStart(w) ==
  /\ WAt(w, "start")
  /\ \/ WStep(w, "pop") /\ UNCHANGED budget
     \/ Fail("log") /\ WStep(w, "ended")
  /\ UNCHANGED <<queue, control, store, freed, stdout, reduced>>

\* mr_queue_pop returns 0 and the user's reducer is called on the node.
TakeNode(w) ==
  /\ Q!Pop(w)
  /\ WGoto(w, "user")
  /\ wnode' = [wnode EXCEPT ![w] = stack[Len(stack)]]
  /\ wresults' = [wresults EXCEPT ![w] = 0]
  /\ reduced' = [reduced EXCEPT ![stack[Len(stack)]] = @ + 1]
  /\ UNCHANGED <<part, budget>>

\* It fails, before or after it has removed a node from the queue, or returns 1: closed
\* and empty.
PopFails(w) ==
  \/ Fail("pop") /\ Q!PopRefused(w)
  \/ Fail("pop_signal") /\ Q!PopNoSignal(w)
  \/ Fail("pop_unlock") /\ Q!PopNoUnlock(w)
PopEnds(w) ==
  \/ Q!PopEnd(w) /\ UNCHANGED budget
  \/ Fail("pop_unlock") /\ Q!PopEndNoUnlock(w)

\* mr_queue_pop: a node, or the end of the loop.
WorkerPop(w) ==
  /\ WAt(w, "pop")
  /\ \/ TakeNode(w)
     \/ (PopFails(w) \/ PopEnds(w)) /\ WStep(w, "last") /\ UNCHANGED reduced
  /\ UNCHANGED <<control, store, freed, stdout>>

\* While the queue is empty and open the worker sleeps.
WorkerPopWait(w) ==
  /\ WAt(w, "pop") /\ Q!PopWaits(w)
  /\ UNCHANGED <<control, store, freed, worker, stdout, reduced, budget>>

\* The user's reducer emits a result.
UserEmit(w) ==
  /\ WAt(w, "user")
  /\ wresults[w] < MaxResults
  /\ WGoto(w, "lock")
  /\ wresults' = [wresults EXCEPT ![w] = @ + 1]
  /\ UNCHANGED <<wnode, part, queue, control, store, freed, stdout, reduced, budget>>

\* The user's reducer returns, with whatever result: the node is freed.
UserReturn(w) ==
  /\ WAt(w, "user")
  /\ Free({wnode[w]})
  /\ WStep(w, "pop")
  /\ UNCHANGED <<queue, control, store, stdout, reduced, budget>>

EnterEmit(w) ==
  /\ WGoto(w, "write")
  /\ part' = [part EXCEPT ![w] = 0]
  /\ UNCHANGED <<wnode, wresults, budget>>

\* Mutant: reducer_emit does not take the mutex.
EmitLockSkipped(w) ==
  /\ WAt(w, "lock") /\ EnterEmit(w)
  /\ UNCHANGED <<stdout, queue, control, store, freed, reduced>>

\* reducer_emit: mtx_lock(stdout_mutex); when it fails emit returns -1 to the user.
EmitLock(w) ==
  /\ WAt(w, "lock")
  /\ \/ mutex = None /\ mutex' = w /\ EnterEmit(w)
     \/ Fail("lock") /\ WStep(w, "user") /\ UNCHANGED mutex
  /\ UNCHANGED <<out, results, queue, control, store, freed, reduced>>

\* send_result_to_main: the next of the frame's write_n calls; the result is counted
\* after the last, and not after an error.
EmitWrite(w) ==
  /\ WAt(w, "write")
  /\ \/ /\ out' = Append(out, <<wnode[w], wresults[w], part[w] + 1>>)
        /\ part' = [part EXCEPT ![w] = @ + 1]
        /\ WGoto(w, IF part[w] + 1 = Parts THEN "count" ELSE "write")
        /\ UNCHANGED <<wnode, wresults, budget>>
     \/ Fail("write") /\ WStep(w, "unlock") /\ UNCHANGED out
  /\ UNCHANGED <<mutex, results, queue, control, store, freed, reduced>>

EmitCount(w) ==
  /\ WAt(w, "count")
  /\ results' = results + 1
  /\ WStep(w, "unlock")
  /\ UNCHANGED <<mutex, out, queue, control, store, freed, reduced, budget>>

EmitUnlock(w) ==
  /\ WAt(w, "unlock")
  /\ \/ mutex' = None /\ UNCHANGED budget
     \/ Fail("unlock") /\ UNCHANGED mutex
  /\ WStep(w, "user")
  /\ UNCHANGED <<out, results, queue, control, store, freed, reduced>>

\* The last log line, after the loop; a failure changes only the thread's return value.
WorkerLast(w) ==
  /\ WAt(w, "last")
  /\ WStep(w, "ended")
  /\ UNCHANGED budget \/ Fail("log")
  /\ UNCHANGED <<queue, control, store, freed, stdout, reduced>>

Worker(w) ==
  \/ WorkerStart(w) \/ WorkerPop(w) \/ UserEmit(w) \/ UserReturn(w)
  \/ EmitLock(w) \/ EmitWrite(w) \/ EmitCount(w) \/ EmitUnlock(w) \/ WorkerLast(w)

--------------------------------------------------------------------------------
\* _exit(exit_code) ends every thread.
Exited == exit # "none" /\ UNCHANGED vars

\* Falling asleep in cnd_wait, and waking up although nobody has signalled.
SpuriousWakeUp ==
  /\ exit = "none" /\ Q!WakeUp
  /\ UNCHANGED <<control, store, freed, worker, stdout, reduced, budget>>
Waiting == CtlPushWait \/ (\E w \in Workers : WorkerPopWait(w)) \/ SpuriousWakeUp

Next == Controller \/ (\E w \in Workers : Worker(w)) \/ Waiting \/ Exited

Spec == Init /\ [][Next]_vars

\* As long as some thread of the process can run, one does (the work is finite, so this is
\* enough); the mapper process eventually sends or closes, main reads, and the user's
\* reducer eventually returns.  Nothing has to fail.
FairSpec ==
  /\ Spec
  /\ WF_vars((Controller \/ \E w \in Workers : Worker(w)) /\ UNCHANGED budget)

--------------------------------------------------------------------------------
(***************************************************************************)
(* Properties                                                              *)
(***************************************************************************)

\* Every variable keeps its type, and no value is stored behind the end of its array.
TypeOK ==
  /\ stack \in Seq(Tokens) /\ Len(stack) <= Capacity
  /\ accepted \subseteq Tokens /\ taken \subseteq Tokens
  /\ closed \in BOOLEAN /\ ended \subseteq Workers
  /\ idle \subseteq Workers /\ asleep \in BOOLEAN /\ jammed \in BOOLEAN
  /\ ctl \in {"start", "collect", "init", "clean", "create", "shut", "abort", "visit",
              "push", "pushfailed", "giveup", "close", "join", "finish"}
  /\ input \subseteq Pairs /\ discarded \subseteq Pairs
  /\ bucket \in Buckets /\ {node, next} \subseteq Tokens \cup {None}
  /\ destroyed \in BOOLEAN /\ exit \in {"none", "success", "failure"}
  /\ table \in [Buckets -> Seq(Tokens)]
  /\ values \in [Tokens -> Seq(Pairs)] /\ room \in [Tokens -> Nat]
  /\ \A t \in Tokens : Len(values[t]) <= room[t]
  /\ freed \in [Tokens -> Nat] /\ reduced \in [Tokens -> Nat]
  /\ wpc \in [Workers -> {"none", "start", "pop", "user", "lock", "write", "count",
                          "unlock", "last", "ended"}]
  /\ wnode \in [Workers -> Tokens \cup {None}]
  /\ wresults \in [Workers -> 0 .. MaxResults] /\ part \in [Workers -> 0 .. Parts]
  /\ mutex \in Workers \cup {None} /\ results \in Nat
  /\ out \in Seq(Tokens \X (1 .. MaxResults) \X (1 .. Parts))
  /\ failed \subseteq {"log", "recv", "alloc", "init", "create", "push", "push_signal",
                       "push_unlock", "close", "close_signal", "close_unlock", "join",
                       "pop", "pop_signal", "pop_unlock", "lock", "write", "unlock"}
  /\ faultsLeft \in Nat

\* The hash table groups: every pair received (and not discarded) is a value of its
\* token's node, once; a token has one node in all the table, in its own bucket.
Grouped ==
  /\ \A t \in Tokens :
       /\ Range(values[t]) = {p \in Pairs \ (input \cup discarded) : TokenOf[p] = t}
       /\ IsInjective(values[t])
       /\ values[t] # <<>> /\ exit = "none" => t \in Nodes
  /\ \A b \in Buckets :
       IsInjective(table[b]) /\ \A k \in DOMAIN table[b] : Hash[table[b][k]] = b

\* The table holds what was received, in arrays that are long enough, and every variable
\* keeps its type.
TableConsistent == TypeOK /\ Grouped

\* The user's reducer sees complete groups only: nothing is reduced, and nothing written
\* to main, before the end of the pairs.  The pipeline relies on it: main does not read
\* results while it is sending.
ReducedAfterAll ==
  (\E t \in Tokens : reduced[t] > 0) => input = {} /\ discarded = {}

\* Controller and workers free a node at most once between them, on every path.  (Not so
\* when a push failed after the insertion: the worker frees the node, then the controller.)
PutThenFailed == failed \cap {"push_signal", "push_unlock"} # {}
FreedOnce == ~PutThenFailed => \A t \in Tokens : freed[t] <= 1

\* Nobody uses what was freed: not a worker in the user's reducer, not the next worker to
\* pop, not the controller following node->next in the push loop or walking what it has not
\* pushed, or all the table, when it cleans up after an error; the queue, the stdout mutex
\* and the workers' arguments outlive every worker.  (The clean-up after a push that failed
\* after the insertion is the exception: cleanup_token_node reads and frees the node that
\* a worker has freed.)
LiveWhenUsed ==
  /\ destroyed => \A w \in Workers : wpc[w] \in {"none", "ended"}
  /\ exit = "none" =>
    /\ \A w \in Workers :
         wpc[w] \in {"user", "lock", "write", "count", "unlock"} => freed[wnode[w]] = 0
    /\ \A k \in DOMAIN stack : freed[stack[k]] = 0
    /\ ctl \in {"visit", "push"} /\ node # None => freed[node] = 0
    /\ ctl \in {"pushfailed", "giveup"} /\ ~PutThenFailed =>
         \A t \in Unpushed : freed[t] = 0
    /\ ctl = "clean" => \A t \in Nodes : freed[t] = 0

\* However the process ends, every node was freed, unless a worker left the queue early
\* or was not waited for, or the controller and a worker both freed one.
NothingLeaks ==
  exit # "none" /\ ~PutThenFailed
    /\ failed \cap {"log", "pop", "pop_signal", "pop_unlock", "close", "close_signal",
                    "close_unlock", "join"} = {} =>
    \A t \in Tokens : values[t] # <<>> => freed[t] = 1

\* stdout_mutex keeps the frames whole, unless a write failed.
FramesWhole ==
  "write" \notin failed =>
    \A k \in 1 .. Len(out) :
      /\ out[k][3] = ((k - 1) % Parts) + 1
      /\ out[k][3] > 1 => out[k - 1][1] = out[k][1] /\ out[k - 1][2] = out[k][2]

\* EXIT_SUCCESS, when no call failed, means that the user's reducer was called once for
\* every token that came in, and that the results counted are those on the pipe.
SuccessIsComplete ==
  exit = "success" /\ failed = {} =>
    /\ \A t \in Tokens : reduced[t] = IF t \in Range(TokenOf) THEN 1 ELSE 0
    /\ Len(out) = Parts * results

\* What can stop the process for good.  Every worker has left and the controller blocks in
\* mr_queue_push; or a wake-up was lost (cnd_signal failed, or the worker that it woke came
\* back from cnd_wait with an error) and the controller and the remaining workers all wait
\* for each other; or the mr_queue_close of an error path failed and a worker waits on; or
\* somebody waits for a mutex that a failing mtx_unlock left locked.
Stuck ==
  \/ ctl = "push" /\ \A w \in Workers : wpc[w] = "ended"
  \/ /\ failed \cap {"pop_signal", "pop"} # {}
     /\ ctl = "push" /\ \A w \in Workers : wpc[w] \in {"pop", "ended"}
  \/ /\ failed \cap {"close", "close_signal"} # {}
     /\ ctl \in {"abort", "giveup"} /\ \E w \in Workers : wpc[w] = "pop"
  \/ /\ jammed
     /\ ctl \in {"push", "shut", "pushfailed", "close"} \/ \E w \in Workers : wpc[w] = "pop"
  \/ "unlock" \in failed /\ \E w \in Workers : wpc[w] = "lock"

\* Whatever fails, the reducer process exits or is stuck in one of these ways: nothing else,
\* no order of pushes, pops, wake-ups and the close, can stop it.
ExitsUnlessStuck == <>[](exit # "none" \/ Stuck)
================================================================================
