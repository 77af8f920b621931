---------------------------- MODULE MrReducerProofs ----------------------------
(***************************************************************************)
(* Proofs about MrReducer, for any number of workers, pairs and tokens, any *)
(* hash function and table size, any queue size, and any number of results *)
(* and failing calls.                                                      *)
(***************************************************************************)
EXTENDS MrReducer, FiniteSetTheorems, SequenceTheorems, TLAPS

\* The controller's points before the first node is pushed.
Before == {"start", "collect", "init", "clean", "create", "shut", "abort"}

\* No node has been given away.
Untouched ==
  /\ stack = <<>> /\ accepted = {} /\ taken = {} /\ bucket = 1
  /\ \A t \in Tokens : reduced[t] = 0 /\ (exit = "none" => freed[t] = 0)
  /\ \A w \in Workers : wpc[w] \in {"none", "start", "pop", "last", "ended"}

\* What is true at each point of the controller.
Phases ==
  /\ ctl \in Before => Untouched
  /\ ctl = "clean" => \A w \in Workers : wpc[w] \in {"none", "ended"}
  /\ ctl # "clean" => discarded = {} /\ "alloc" \notin failed
  /\ ctl \notin {"start", "collect", "clean"} => input = {}
  /\ ctl = "finish" => \A w \in Workers : wpc[w] = "ended"
  /\ ctl \in {"start", "collect", "init"} => \A w \in Workers : wpc[w] = "none"
  /\ destroyed => /\ ctl \in {"clean", "giveup", "finish"}
                  /\ ctl = "giveup" => exit # "none"
                  /\ \A w \in Workers : wpc[w] \in {"none", "ended"}
  /\ exit = "success" => ctl = "finish"
  /\ PutThenFailed => ctl \in {"pushfailed", "giveup"}

\* The hash table: Grouped, and a node that is left without a value is one that could not
\* get its array.
Grouping ==
  /\ \A t \in Tokens :
       /\ Range(values[t]) = {p \in Pairs \ (input \cup discarded) : TokenOf[p] = t}
       /\ IsInjective(values[t])
       /\ values[t] # <<>> /\ (exit = "none" \/ ctl # "clean") => t \in Nodes
       /\ t \in Nodes /\ "alloc" \notin failed => values[t] # <<>>
Chains ==
  \A b \in Buckets :
    IsInjective(table[b]) /\ \A k \in DOMAIN table[b] : Hash[table[b][k]] = b

\* The nodes from the k-th of bucket b on, in the order of the push loop.
Rest(b, k) ==
  {table[b][j] : j \in k .. Len(table[b])}
    \cup UNION {Range(table[c]) : c \in (b + 1) .. NBuckets}
NodeAt(b, k) == IF k <= Len(table[b]) THEN table[b][k] ELSE None

\* The push loop is at place k of its bucket: the nodes before it are in the queue, or have
\* been.  After a push that failed the current node may be there too.
Cursor(k) ==
  /\ node = NodeAt(bucket, k)
  /\ ctl # "visit" => k <= Len(table[bucket])
  /\ ctl = "push" => next = NodeAt(bucket, k + 1)
  /\ \/ accepted = Nodes \ Rest(bucket, k)
     \/ PutThenFailed /\ accepted = Nodes \ Rest(bucket, k + 1)
Loop ==
  /\ ctl \in {"visit", "push", "pushfailed", "giveup"} =>
       \E k \in 1 .. Len(table[bucket]) + 1 : Cursor(k)
  /\ ctl \in {"close", "join", "finish"} => accepted = Nodes

\* What has been accepted is in the queue or taken; what is taken is held by one worker,
\* freed, or lost to a failing pop.
Holding == {w \in Workers : wpc[w] \in {"user", "lock", "write", "count", "unlock"}}
Queued == {stack[k] : k \in DOMAIN stack}
Held == {wnode[w] : w \in Holding}
Owned ==
  /\ accepted = taken \cup Queued /\ taken \cap Queued = {}
  /\ \A i, j \in DOMAIN stack : stack[i] = stack[j] => i = j
  /\ Held \subseteq taken
  /\ \A v, w \in Holding : wnode[v] = wnode[w] => v = w
PopFailed == failed \cap {"pop", "pop_signal", "pop_unlock"} # {}
Life ==
  \A t \in Tokens :
    /\ reduced[t] <= 1
    /\ reduced[t] > 0 => t \in taken
    /\ t \in taken /\ ~PopFailed => reduced[t] = 1
    /\ exit = "none" \/ exit = "success" =>
         /\ freed[t] = 0 \/ (freed[t] = 1 /\ t \in taken \ Held)
         /\ t \in taken /\ ~PopFailed => t \in Held \/ freed[t] = 1

\* A worker that has popped a node has it, and numbers its results from 1.
Hands ==
  /\ \A w \in Holding : wnode[w] \in Tokens
  /\ \A w \in Workers : wpc[w] \in {"lock", "write", "count", "unlock"} => wresults[w] > 0
  /\ \A w \in Workers : wpc[w] = "write" => part[w] < Parts

\* The workers between mtx_lock and mtx_unlock of stdout_mutex hold it.
Inside == {"write", "count", "unlock"}
Locked == \A w \in Workers : wpc[w] \in Inside => mutex = w

\* How far the pipe is past the results counted.
InStep ==
  "write" \notin failed =>
    /\ \A w \in Workers : wpc[w] = "write" =>
         /\ Len(out) = 3 * results + part[w]
         /\ part[w] > 0 => /\ out[Len(out)][1] = wnode[w]
                           /\ out[Len(out)][2] = wresults[w]
    /\ \A w \in Workers : wpc[w] = "count" => Len(out) = 3 * results + 3
    /\ (\A w \in Workers : wpc[w] \notin {"write", "count"}) => Len(out) = 3 * results

\* A worker stops taking nodes only because a call failed, or the queue is closed and empty.
Drained ==
  "log" \notin failed /\ ~PopFailed =>
    \A w \in Workers : wpc[w] \in {"last", "ended"} => closed /\ stack = <<>>

\* The inductive invariant.
IInv ==
  /\ TypeOK /\ Phases /\ Grouping /\ Chains /\ Loop /\ Owned /\ Life
  /\ Hands /\ Locked /\ FramesWhole /\ InStep
  /\ Drained /\ FreedOnce /\ NothingLeaks

--------------------------------------------------------------------------------
(***************************************************************************)
(* Types                                                                   *)
(***************************************************************************)

\* The kinds of call that fail.
Kinds == {"log", "recv", "alloc", "init", "create", "push", "push_signal",
          "push_unlock", "close", "close_signal", "close_unlock", "join", "pop",
          "pop_signal", "pop_unlock", "lock", "write", "unlock"}

\* TypeOK in the parts that the steps of a group of actions can disturb.
QueueType ==
  /\ stack \in Seq(Tokens) /\ Len(stack) <= Capacity
  /\ accepted \subseteq Tokens /\ taken \subseteq Tokens
  /\ closed \in BOOLEAN /\ ended \subseteq Workers
SleepType == idle \subseteq Workers /\ asleep \in BOOLEAN /\ jammed \in BOOLEAN
ControlType ==
  /\ ctl \in {"start", "collect", "init", "clean", "create", "shut", "abort", "visit",
              "push", "pushfailed", "giveup", "close", "join", "finish"}
  /\ input \subseteq Pairs /\ discarded \subseteq Pairs
  /\ destroyed \in BOOLEAN /\ exit \in {"none", "success", "failure"}
LoopType ==
  /\ bucket \in Buckets
  /\ node \in Tokens \cup {None} /\ next \in Tokens \cup {None}
TableType == table \in [Buckets -> Seq(Tokens)]
ValuesType ==
  /\ values \in [Tokens -> Seq(Pairs)] /\ room \in [Tokens -> Nat]
  /\ \A t \in Tokens : Len(values[t]) <= room[t]
CountType == freed \in [Tokens -> Nat] /\ reduced \in [Tokens -> Nat]
WorkerType ==
  /\ wpc \in [Workers -> {"none", "start", "pop", "user", "lock", "write", "count",
                          "unlock", "last", "ended"}]
  /\ wnode \in [Workers -> Tokens \cup {None}]
  /\ wresults \in [Workers -> 0 .. MaxResults] /\ part \in [Workers -> 0 .. Parts]
StdoutType ==
  /\ mutex \in Workers \cup {None} /\ results \in Nat
  /\ out \in Seq(Tokens \X (1 .. MaxResults) \X (1 .. Parts))
BudgetType == failed \subseteq Kinds /\ faultsLeft \in Nat

\* The parts make up TypeOK.
LEMMA TypeParts ==
  TypeOK <=> /\ QueueType /\ SleepType /\ ControlType /\ LoopType /\ TableType /\ ValuesType
             /\ CountType /\ WorkerType /\ StdoutType /\ BudgetType
  BY DEF TypeOK, QueueType, SleepType, ControlType, LoopType, TableType, ValuesType, CountType,
         WorkerType, StdoutType, BudgetType, Kinds

\* The same after a step.
LEMMA TypePartsNext ==
  TypeOK' <=> /\ QueueType' /\ SleepType' /\ ControlType' /\ LoopType' /\ TableType' /\ ValuesType'
              /\ CountType' /\ WorkerType' /\ StdoutType' /\ BudgetType'
  BY DEF TypeOK, QueueType, SleepType, ControlType, LoopType, TableType, ValuesType, CountType,
         WorkerType, StdoutType, BudgetType, Kinds

\* A sequence without its last element.
LEMMA Front ==
  ASSUME NEW S, NEW s \in Seq(S), NEW n \in Nat, Len(s) = n + 1
  PROVE  /\ SubSeq(s, 1, n) \in Seq(S)
         /\ Len(SubSeq(s, 1, n)) = n
         /\ \A k \in 1 .. n : SubSeq(s, 1, n)[k] = s[k]
<1>1. \A k \in 1 .. n : s[k] \in S
  OBVIOUS
<1> QED
  BY <1>1, SubSeqProperties

\* The queue: an element in, on top.
LEMMA PutType ==
  ASSUME QueueType, NEW i \in Tokens, Q!Put(i)
  PROVE  /\ QueueType'
         /\ Len(stack') = Len(stack) + 1
         /\ \A k \in 1 .. Len(stack) : stack'[k] = stack[k]
         /\ stack'[Len(stack) + 1] = i
<1>1. Len(stack) \in Nat /\ Capacity \in Nat
  BY BoundsAssumption DEF QueueType, BoundsAssumption
<1> QED
  BY <1>1 DEF QueueType, Q!Put

\* Taking leaves the rest of the stack as it was.
LEMMA TakeType ==
  ASSUME QueueType, Q!Take
  PROVE  /\ QueueType'
         /\ Len(stack) > 0 /\ Len(stack') = Len(stack) - 1
         /\ \A k \in 1 .. Len(stack') : stack'[k] = stack[k]
         /\ stack[Len(stack)] \in Tokens
<1>1. Len(stack) \in Nat /\ Capacity \in Nat
  BY BoundsAssumption DEF QueueType, BoundsAssumption
<1>2. Len(stack) > 0 /\ stack[Len(stack)] \in Tokens
  BY <1>1 DEF QueueType, Q!Take
<1>3. PICK n \in Nat : n = Len(stack) - 1
  BY <1>1, <1>2
<1>4. stack' = SubSeq(stack, 1, n) /\ Len(stack) = n + 1 /\ stack \in Seq(Tokens)
  BY <1>1, <1>3 DEF QueueType, Q!Take
<1>5. /\ stack' \in Seq(Tokens) /\ Len(stack') = n
      /\ \A k \in 1 .. n : stack'[k] = stack[k]
  BY <1>4, Front
<1> QED
  BY <1>1, <1>2, <1>3, <1>5 DEF QueueType, Q!Take

\* A failing call.
LEMMA FailType ==
  ASSUME BudgetType, NEW k \in Kinds, Fail(k)
  PROVE  BudgetType' /\ failed' = failed \cup {k}
  BY DEF BudgetType, Fail

\* Freeing counts.
LEMMA FreeType ==
  ASSUME CountType, NEW S, Free(S)
  PROVE  /\ freed' \in [Tokens -> Nat]
         /\ \A t \in Tokens : freed'[t] = IF t \in S THEN freed[t] + 1 ELSE freed[t]
<1>1. \A t \in Tokens : freed[t] \in Nat
  BY DEF CountType
<1>2. \A t \in Tokens : freed'[t] = freed[t] + (IF t \in S THEN 1 ELSE 0)
  BY DEF Free
<1>3. DOMAIN freed' = Tokens /\ freed' = [t \in Tokens |-> freed'[t]]
  BY DEF Free
<1> QED
  BY <1>1, <1>2, <1>3

\* A new node is put before the others of its chain; the other chains stay.
LEMMA LinkType ==
  ASSUME TableType, NEW t \in Tokens, Link(t)
  PROVE  /\ TableType' /\ Hash[t] \in Buckets
         /\ \A b \in Buckets \ {Hash[t]} : table'[b] = table[b]
         /\ Len(table'[Hash[t]]) = Len(table[Hash[t]]) + 1
         /\ table'[Hash[t]][1] = t
         /\ \A k \in 1 .. Len(table[Hash[t]]) : table'[Hash[t]][k + 1] = table[Hash[t]][k]
<1>1. Hash[t] \in Buckets
  BY PairsAssumption DEF PairsAssumption
<1> DEFINE h == Hash[t]
           s == table[h]
<1>2. s \in Seq(Tokens) /\ <<t>> \in Seq(Tokens)
  BY <1>1 DEF TableType
<1> HIDE DEF s
<1>3. /\ <<t>> \o s \in Seq(Tokens) /\ Len(<<t>> \o s) = Len(s) + 1
      /\ (<<t>> \o s)[1] = t
      /\ \A k \in 1 .. Len(s) : (<<t>> \o s)[k + 1] = s[k]
  BY <1>2
<1>4. table' = [table EXCEPT ![h] = <<t>> \o s]
  BY DEF Link, s
<1> HIDE DEF h
<1>5. table'[h] = <<t>> \o s /\ \A b \in Buckets \ {h} : table'[b] = table[b]
  BY <1>1, <1>4 DEF TableType, h
<1>6. TableType'
  BY <1>1, <1>3, <1>4 DEF TableType, h
<1> QED
  BY <1>1, <1>3, <1>5, <1>6 DEF h, s

\* A value is added at the end of an array with room for it.
LEMMA AddType ==
  ASSUME ValuesType, NEW p \in Pairs, NEW t \in Tokens, AddValue(p, t)
  PROVE  /\ ValuesType'
         /\ values'[t] = Append(values[t], p)
         /\ \A u \in Tokens \ {t} : values'[u] = values[u]
<1>1. values[t] \in Seq(Pairs) /\ room[t] \in Nat /\ Len(values[t]) \in Nat
  BY DEF ValuesType
<1>2. Len(values[t]) <= room[t] /\ InitialCapacity \in Nat \ {0}
  BY BoundsAssumption DEF ValuesType, BoundsAssumption
<1>3. values' = [values EXCEPT ![t] = Append(values[t], p)]
  BY DEF AddValue
<1>4. Append(values[t], p) \in Seq(Pairs) /\ Len(Append(values[t], p)) = Len(values[t]) + 1
  BY <1>1
<1>5. /\ values' \in [Tokens -> Seq(Pairs)] /\ values'[t] = Append(values[t], p)
      /\ \A u \in Tokens \ {t} : values'[u] = values[u]
  BY <1>3, <1>4 DEF ValuesType
<1> DEFINE r == IF Len(values[t]) = room[t]
                THEN IF room[t] = 0 THEN InitialCapacity ELSE 2 * room[t] ELSE room[t]
<1>6. r \in Nat /\ Len(values[t]) + 1 <= r
  BY <1>1, <1>2
<1>7. room' = [room EXCEPT ![t] = r]
  BY DEF AddValue, Grow, ValuesType
<1> HIDE DEF r
<1>8. /\ room' \in [Tokens -> Nat] /\ room'[t] = r
      /\ \A u \in Tokens \ {t} : room'[u] = room[u]
  BY <1>6, <1>7 DEF ValuesType
<1>9. \A u \in Tokens : Len(values'[u]) <= room'[u]
  BY <1>4, <1>5, <1>6, <1>8 DEF ValuesType
<1> QED
  BY <1>5, <1>8, <1>9 DEF ValuesType

\* What the push loop reads in the table.
LEMMA CursorNode ==
  ASSUME TypeOK, Chains, NEW k \in 1 .. Len(table[bucket]) + 1, node = NodeAt(bucket, k)
  PROVE  /\ node # None <=> k <= Len(table[bucket])
         /\ node # None =>
              /\ node \in Tokens /\ Place = k
              /\ NextOfNode = NodeAt(bucket, k + 1)
              /\ Unpushed = Rest(bucket, k)
<1>1. /\ bucket \in Buckets /\ table[bucket] \in Seq(Tokens) /\ Len(table[bucket]) \in Nat
      /\ DOMAIN table[bucket] = 1 .. Len(table[bucket])
  BY DEF TypeOK
<1>2. k <= Len(table[bucket]) => node = table[bucket][k] /\ node \in Tokens
  BY <1>1 DEF NodeAt
<1>3. node # None <=> k <= Len(table[bucket])
  BY <1>1, <1>2, NoneAssumption DEF NodeAt, NoneAssumption
<1>4. ASSUME node # None
      PROVE  Place = k
  <2>1. k \in DOMAIN table[bucket] /\ table[bucket][k] = node
    BY <1>1, <1>2, <1>3, <1>4
  <2>2. \A j \in DOMAIN table[bucket] : table[bucket][j] = node => j = k
    BY <1>1, <2>1 DEF Chains, IsInjective
  <2> QED
    BY <2>1, <2>2 DEF Place
<1>5. ASSUME node # None
      PROVE  NextOfNode = NodeAt(bucket, k + 1)
  BY <1>1, <1>3, <1>4, <1>5 DEF NextOfNode, NodeAt
<1>6. ASSUME node # None
      PROVE  Unpushed = Rest(bucket, k)
  BY <1>4, <1>6 DEF Unpushed, Rest
<1> QED
  BY <1>2, <1>3, <1>4, <1>5, <1>6

\* The first node of a bucket.
LEMMA HeadNode ==
  ASSUME TypeOK, NEW b \in Buckets
  PROVE  HeadOf(b) = NodeAt(b, 1) /\ HeadOf(b) \in Tokens \cup {None}
<1>1. table[b] \in Seq(Tokens) /\ Len(table[b]) \in Nat
  BY DEF TypeOK
<1>2. table[b] = <<>> <=> Len(table[b]) = 0
  BY <1>1
<1>3. Len(table[b]) # 0 => 1 <= Len(table[b]) /\ table[b][1] \in Tokens
  BY <1>1
<1> QED
  BY <1>1, <1>2, <1>3 DEF HeadOf, NodeAt

\* Any node of the loop is a token or None.
LEMMA NodeType ==
  ASSUME TypeOK, NEW b \in Buckets, NEW k \in Nat \ {0}
  PROVE  NodeAt(b, k) \in Tokens \cup {None}
<1>1. table[b] \in Seq(Tokens) /\ Len(table[b]) \in Nat
  BY DEF TypeOK
<1> QED
  BY <1>1 DEF NodeAt

\* When the loop is about to push, or has failed to, it has a node.
LEMMA PushHasNode ==
  ASSUME TypeOK, Chains, Loop, ctl \in {"push", "pushfailed", "giveup"}
  PROVE  node \in Tokens
<1>1. PICK k \in 1 .. Len(table[bucket]) + 1 : Cursor(k)
  BY DEF Loop
<1> QED
  BY <1>1, CursorNode DEF Cursor

\* What find_or_create_token leaves.
LEMMA FindType ==
  ASSUME TableType, NEW t \in Tokens, FindOrCreate(t)
  PROVE  /\ TableType'
         /\ Nodes' = Nodes \cup {t}
         /\ Chains => Chains'
<1>1. Hash[t] \in Buckets /\ table[Hash[t]] \in Seq(Tokens)
  BY PairsAssumption DEF PairsAssumption, TableType
<1>2. CASE t \in Range(table[Hash[t]])
  <2>1. table' = table
    BY <1>2 DEF FindOrCreate
  <2>2. t \in Nodes
    BY <1>1, <1>2 DEF Nodes
  <2> QED
    BY <2>1, <2>2 DEF TableType, Nodes, Chains
<1>3. CASE t \notin Range(table[Hash[t]])
  <2> DEFINE h == Hash[t]
  <2>1. Link(t)
    BY <1>3 DEF FindOrCreate
  <2>2. /\ TableType' /\ \A b \in Buckets \ {h} : table'[b] = table[b]
        /\ Len(table'[h]) = Len(table[h]) + 1 /\ table'[h][1] = t
        /\ \A k \in 1 .. Len(table[h]) : table'[h][k + 1] = table[h][k]
    BY <2>1, LinkType
  <2>3. /\ table[h] \in Seq(Tokens) /\ table'[h] \in Seq(Tokens) /\ h \in Buckets
    BY <1>1, <2>2 DEF TableType
  <2>4. \A b \in Buckets : table[b] \in Seq(Tokens) /\ Len(table[b]) \in Nat
                            /\ DOMAIN table[b] = 1 .. Len(table[b])
    BY DEF TableType
  <2>5. DOMAIN table'[h] = 1 .. Len(table[h]) + 1 /\ Len(table[h]) \in Nat
    BY <2>2, <2>3
  <2>6. \A k \in DOMAIN table'[h] : k = 1 \/ (k - 1 \in DOMAIN table[h]
                                              /\ table'[h][k] = table[h][k - 1])
    <3> SUFFICES ASSUME NEW k \in 1 .. Len(table[h]) + 1, k # 1
                 PROVE  k - 1 \in DOMAIN table[h] /\ table'[h][k] = table[h][k - 1]
      BY <2>5
    <3>1. k - 1 \in 1 .. Len(table[h]) /\ (k - 1) + 1 = k
      BY <2>5
    <3> QED
      BY <2>2, <2>4, <2>3, <3>1
  <2>7. Range(table'[h]) = Range(table[h]) \cup {t}
    <3>0. \A k \in 1 .. Len(table[h]) : k + 1 \in 1 .. Len(table[h]) + 1
      BY <2>5
    <3>1. \A k \in DOMAIN table[h] :
             k + 1 \in DOMAIN table'[h] /\ table'[h][k + 1] = table[h][k]
      BY <2>2, <2>3, <2>4, <2>5, <3>0
    <3>2. 1 \in DOMAIN table'[h]
      BY <2>5
    <3> HIDE DEF h
    <3> QED
      BY <2>2, <2>6, <3>1, <3>2 DEF Range
  <2>8. Nodes' = Nodes \cup {t}
    <3> HIDE DEF h
    <3> QED
      BY <2>2, <2>3, <2>7 DEF Nodes
  <2>9. ASSUME Chains PROVE Chains'
    <3>1. t \notin Range(table[h])
      BY <1>3
    <3>2. Hash[t] = h
      OBVIOUS
    <3> HIDE DEF h
    <3>3. IsInjective(table'[h])
      <4> SUFFICES ASSUME NEW i \in DOMAIN table'[h], NEW j \in DOMAIN table'[h],
                          table'[h][i] = table'[h][j]
                   PROVE  i = j
        BY DEF IsInjective
      <4>1. i \in Int /\ j \in Int
        BY <2>5
      <4>2. CASE i # 1 /\ j # 1
        <5>1. /\ i - 1 \in DOMAIN table[h] /\ j - 1 \in DOMAIN table[h]
              /\ table[h][i - 1] = table[h][j - 1]
          BY <2>6, <4>2
        <5>2. i - 1 = j - 1
          BY <2>3, <2>9, <5>1 DEF Chains, IsInjective
        <5> QED
          BY <4>1, <5>2
      <4> QED
        BY <2>2, <2>6, <3>1, <4>2 DEF Range
    <3>4. \A k \in DOMAIN table'[h] : Hash[table'[h][k]] = h
      BY <2>2, <2>3, <2>6, <2>9, <3>2 DEF Chains
    <3> QED
      BY <2>2, <2>9, <3>3, <3>4 DEF Chains
  <2> QED
    BY <2>2, <2>8, <2>9
<1> QED
  BY <1>2, <1>3

\* The ways through the body of the collection loop.
Added(p, t) ==
  /\ FindOrCreate(t) /\ AddValue(p, t) /\ ctl' = "collect"
  /\ UNCHANGED <<discarded, budget>>
NoMemory(p, t) ==
  /\ Fail("alloc") /\ (FindOrCreate(t) \/ UNCHANGED table)
  /\ discarded' = discarded \cup {p} /\ ctl' = "clean" /\ UNCHANGED <<values, room>>

\* The controller collects a pair in one of them.
LEMMA CollectCases ==
  ASSUME NEW p \in input, Collect(p, TokenOf[p])
  PROVE  /\ input' = input \ {p}
         /\ Added(p, TokenOf[p]) \/ NoMemory(p, TokenOf[p])
  BY DEF Collect, Added, NoMemory

\* The pair that comes next is one of those still to come.
LEMMA NextPairsOfInput == NextPairs \subseteq input
<1>1. SUFFICES ASSUME NEW p \in input
               PROVE  (CHOOSE q \in input : TokenOf[q] = TokenOf[p]) \in input
  BY DEF NextPairs
<1> QED
  BY <1>1

\* What is in the table after a step of the collection.
LEMMA CollectType ==
  ASSUME TypeOK, NEW p \in input, Collect(p, TokenOf[p])
  PROVE  /\ TableType' /\ ValuesType' /\ BudgetType'
         /\ input' \subseteq Pairs /\ discarded' \subseteq Pairs
         /\ ctl' \in {"collect", "clean"}
<1>1. p \in Pairs /\ TokenOf[p] \in Tokens
  BY PairsAssumption DEF TypeOK, PairsAssumption
<1>2. TableType /\ ValuesType /\ BudgetType /\ ControlType
  BY TypeParts
<1>3. CASE Added(p, TokenOf[p])
  BY <1>1, <1>2, <1>3, CollectCases, AddType, FindType
  DEF Added, budget, BudgetType, ControlType
<1>4. CASE NoMemory(p, TokenOf[p])
  BY <1>1, <1>2, <1>4, CollectCases, FindType, FailType
  DEF NoMemory, TableType, ValuesType, ControlType, Kinds
<1> QED
  BY <1>3, <1>4, CollectCases

\* What a call of the queue does to the buffer, whoever it puts to sleep or wakes up.
Buffer == <<stack, accepted, taken, closed, ended>>
PushStep ==
  /\ At("push")
  /\ \/ Q!Put(node) /\ node' = next /\ ctl' = "visit" /\ UNCHANGED budget
     \/ /\ \/ Fail("push") /\ UNCHANGED Buffer
           \/ (Fail("push_signal") \/ Fail("push_unlock")) /\ Q!Put(node)
        /\ ctl' = "pushfailed" /\ UNCHANGED node
  /\ UNCHANGED <<input, discarded, bucket, next, destroyed, exit>>
  /\ UNCHANGED <<store, freed, worker, stdout, reduced>>
CloseStep ==
  /\ \/ Q!Close /\ UNCHANGED budget
     \/ /\ Fail("close") \/ Fail("close_signal") \/ Fail("close_unlock")
        /\ Q!Close \/ UNCHANGED Buffer
  /\ UNCHANGED <<store, freed, worker, stdout, reduced>>
Got(w) ==
  /\ Q!Take /\ WGoto(w, "user")
  /\ wnode' = [wnode EXCEPT ![w] = stack[Len(stack)]]
  /\ wresults' = [wresults EXCEPT ![w] = 0]
  /\ reduced' = [reduced EXCEPT ![stack[Len(stack)]] = @ + 1]
  /\ UNCHANGED <<part, budget>>
PopStep(w) ==
  /\ WAt(w, "pop") /\ UNCHANGED <<control, store, freed, stdout>>
  /\ \/ Got(w)
     \/ /\ WStep(w, "last") /\ UNCHANGED reduced
        /\ \/ Q!End(w) /\ (UNCHANGED budget \/ Fail("pop_unlock"))
           \/ Fail("pop") /\ UNCHANGED Buffer
           \/ (Fail("pop_signal") \/ Fail("pop_unlock")) /\ Q!Take

\* mr_queue_push
LEMMA PushCases == CtlPush => PushStep
  BY DEF CtlPush, PushNode, PushStep, Buffer, Q!Push, Q!PushRefused, Q!PushNoSignal,
         Q!PushNoUnlock, Q!Insert, Q!vars

\* mr_queue_close: on the two error paths, and after the loop.
LEMMA CloseCases ==
  /\ CtlShut => At("shut") /\ Step("abort") /\ CloseStep
  /\ CtlPushShut => At("pushfailed") /\ Step("giveup") /\ CloseStep
  /\ CtlClose => At("close") /\ CloseStep /\ (Step("join") \/ Exit("failure"))
<1>1. (Q!CloseAndWake /\ UNCHANGED budget) \/ CloseFails =>
         \/ Q!Close /\ UNCHANGED budget
         \/ /\ Fail("close") \/ Fail("close_signal") \/ Fail("close_unlock")
            /\ Q!Close \/ UNCHANGED Buffer
  BY DEF CloseFails, Buffer, Q!CloseAndWake, Q!CloseNoSignal, Q!CloseNoUnlock, queue
<1> QED
  BY <1>1 DEF CtlShut, CtlPushShut, CloseUnchecked, CtlClose, CloseStep

\* mr_queue_pop
LEMMA PopCases == ASSUME NEW w \in Workers, WorkerPop(w) PROVE PopStep(w)
<1>1. Q!Pop(w) \/ Q!PopNoSignal(w) \/ Q!PopNoUnlock(w) => Q!Take
  BY DEF Q!Pop, Q!PopNoSignal, Q!PopNoUnlock, Q!Remove
<1>2. Q!PopEnd(w) \/ Q!PopEndNoUnlock(w) => Q!End(w)
  BY DEF Q!PopEnd, Q!PopEndNoUnlock
<1>3. Q!PopRefused(w) => UNCHANGED Buffer
  BY DEF Q!PopRefused, Q!vars, Buffer
<1> QED
  BY <1>1, <1>2, <1>3 DEF WorkerPop, TakeNode, PopFails, PopEnds, PopStep, Got

\* Whoever falls asleep or wakes up is a worker or the controller.
LEMMA SleepStep == ASSUME TypeOK, Next PROVE SleepType'
<1> USE DEF SleepType, TypeOK
<1>1. (UNCHANGED queue) => SleepType'
  BY DEF queue
<1>2. CtlPush \/ CtlShut \/ CtlPushShut \/ CtlClose \/ CtlPushWait \/ SpuriousWakeUp
      => SleepType'
  BY <1>1 DEF CtlPush, PushNode, CtlShut, CtlPushShut, CloseUnchecked, CtlClose, CloseFails,
     CtlPushWait, SpuriousWakeUp, Q!Push, Q!PushRefused, Q!PushNoSignal, Q!PushNoUnlock,
     Q!Insert, Q!WakeConsumer, Q!CloseAndWake, Q!CloseNoSignal, Q!CloseNoUnlock, Q!PushWaits,
     Q!WakeUp
<1>3. \A w \in Workers : WorkerPop(w) \/ WorkerPopWait(w) => SleepType'
  BY DEF WorkerPop, WorkerPopWait, TakeNode, PopFails, PopEnds, Q!Pop, Q!PopRefused,
     Q!PopNoSignal, Q!PopNoUnlock, Q!PopEnd, Q!PopEndNoUnlock, Q!PopWaits, Q!Remove
<1>4. CtlStart \/ CtlCollect \/ CtlInit \/ CtlClean \/ CtlCreate \/ CtlAbort => SleepType'
  BY <1>1 DEF CtlStart, CtlCollect, CtlInit, CtlClean, CtlCreate, CtlAbort
<1>5. CtlVisit \/ CtlBucket \/ CtlGiveUp \/ CtlJoin \/ CtlFinish \/ Exited => SleepType'
  BY <1>1 DEF CtlVisit, CtlBucket, Bucket, CtlGiveUp, GiveUp, CtlJoin, CtlFinish, Exited, vars
<1>6. ASSUME NEW w \in Workers, Worker(w) PROVE SleepType'
  BY <1>1, <1>3, <1>6 DEF Worker, WorkerStart, UserEmit, UserReturn, EmitLock, EmitWrite,
     EmitCount, EmitUnlock, WorkerLast
<1> QED
  BY <1>2, <1>3, <1>4, <1>5, <1>6 DEF Next, Controller, Waiting

\* Falling asleep and waking up change nothing else.
LEMMA WaitingFrame ==
  Waiting => UNCHANGED <<Buffer, control, store, freed, worker, stdout, reduced, budget>>
  BY DEF Waiting, CtlPushWait, WorkerPopWait, SpuriousWakeUp, Q!PushWaits, Q!PopWaits,
     Q!WakeUp, Q!vars, Buffer

\* The steps of the controller keep every type.
LEMMA ControllerType == ASSUME TypeOK, Chains, Loop, Controller PROVE TypeOK'
<1> USE TypeParts, TypePartsNext
    DEF queue, loop, control, store, worker, stdout, budget, At, Step, Exit
<1>s. SleepType'
  BY SleepStep DEF Next
<1> USE <1>s
<1>1. CASE CtlStart \/ CtlInit \/ CtlShut \/ CtlAbort
  <2>1. BudgetType'
    BY <1>1, FailType, CloseCases
    DEF CtlStart, CtlInit, CloseStep, CtlAbort, BudgetType, Kinds
  <2> QED
    BY <1>1, <2>1, CloseCases DEF CtlStart, CtlInit, CtlAbort, CloseStep, Buffer, Q!Close,
       QueueType, ControlType, LoopType, TableType, ValuesType, CountType, WorkerType,
       StdoutType
<1>2. CASE CtlPushShut \/ CtlClose \/ CtlJoin \/ CtlFinish
  <2>1. BudgetType'
    BY <1>2, FailType, CloseCases DEF CloseStep, CtlJoin, CtlFinish, BudgetType, Kinds
  <2> QED
    BY <1>2, <2>1, CloseCases DEF CtlJoin, CtlFinish, CloseStep, Buffer, Q!Close,
       QueueType, ControlType, LoopType, TableType, ValuesType, CountType, WorkerType,
       StdoutType
<1>3. CASE CtlCollect
  <2>1. TableType' /\ ValuesType' /\ BudgetType'
    BY <1>3, CollectType, FailType, NextPairsOfInput
    DEF CtlCollect, TableType, ValuesType, BudgetType, Kinds
  <2>2. ControlType'
    BY <1>3, CollectType, NextPairsOfInput DEF CtlCollect, ControlType
  <2> QED
    BY <1>3, <2>1, <2>2
    DEF CtlCollect, QueueType, LoopType, CountType, WorkerType, StdoutType
<1>4. CASE CtlClean
  <2>1. CountType'
    BY <1>4, FreeType DEF CtlClean, CountType
  <2>2. TableType'
    BY <1>4 DEF CtlClean, TableType
  <2> QED
    BY <1>4, <2>1, <2>2
    DEF CtlClean, QueueType, ControlType, LoopType, ValuesType, WorkerType, StdoutType,
        BudgetType
<1>5. CASE CtlCreate
  <2>1. 1 \in Buckets
    BY BoundsAssumption DEF Buckets, BoundsAssumption
  <2>2. LoopType' /\ ControlType'
    BY <1>5, <2>1, HeadNode DEF CtlCreate, LoopType, ControlType
  <2>3. WorkerType'
    BY <1>5 DEF CtlCreate, WorkerType
  <2>4. BudgetType'
    BY <1>5, FailType DEF CtlCreate, BudgetType, Kinds
  <2> QED
    BY <1>5, <2>2, <2>3, <2>4
    DEF CtlCreate, QueueType, TableType, ValuesType, CountType, StdoutType
<1>6. CASE CtlVisit
  <2>1. PICK k \in 1 .. Len(table[bucket]) + 1 : Cursor(k)
    BY <1>6 DEF CtlVisit, Loop
  <2>2. Len(table[bucket]) \in Nat /\ bucket \in Buckets
    BY DEF TypeOK
  <2>3. k + 1 \in Nat \ {0}
    BY <2>2
  <2>4. NextOfNode \in Tokens \cup {None}
    BY <1>6, <2>1, <2>2, <2>3, CursorNode, NodeType DEF Cursor, CtlVisit
  <2> QED
    BY <1>6, <2>4 DEF CtlVisit, QueueType, ControlType, LoopType, TableType, ValuesType,
       CountType, WorkerType, StdoutType, BudgetType
<1>7. CASE CtlBucket
  <2>1. LoopType' /\ ControlType'
    <3>1. bucket < NBuckets => bucket + 1 \in Buckets
      BY BoundsAssumption DEF Buckets, BoundsAssumption, LoopType
    <3> QED
      BY <1>7, <3>1, HeadNode DEF CtlBucket, Bucket, LoopType, ControlType
  <2> QED
    BY <1>7, <2>1 DEF CtlBucket, Bucket, QueueType, TableType, ValuesType,
       CountType, WorkerType, StdoutType, BudgetType
<1>8. CASE CtlPush
  <2>1. node \in Tokens
    BY <1>8, PushHasNode, PushCases DEF PushStep
  <2>2. QueueType'
    BY <1>8, <2>1, PutType, PushCases DEF PushStep, Buffer, QueueType
  <2>3. BudgetType'
    BY <1>8, FailType, PushCases DEF PushStep, BudgetType, Kinds
  <2> QED
    BY <1>8, <2>2, <2>3, PushCases DEF PushStep, ControlType, LoopType, TableType, ValuesType,
       CountType, WorkerType, StdoutType
<1>9. CASE CtlGiveUp
  <2>1. CountType'
    BY <1>9, FreeType DEF CtlGiveUp, GiveUp, CountType
  <2> QED
    BY <1>9, <2>1 DEF CtlGiveUp, GiveUp, QueueType, ControlType, LoopType, TableType,
       ValuesType, WorkerType, StdoutType, BudgetType
<1> QED
  BY <1>1, <1>2, <1>3, <1>4, <1>5, <1>6, <1>7, <1>8, <1>9 DEF Controller

\* The steps of a worker keep every type.
LEMMA WorkerTypes == ASSUME TypeOK, Hands, NEW w \in Workers, Worker(w) PROVE TypeOK'
<1> USE TypeParts, TypePartsNext
    DEF queue, control, loop, store, worker, stdout, budget, WAt, WGoto, WStep
<1>s. SleepType'
  BY SleepStep DEF Next
<1> USE <1>s
<1>b. BudgetType'
  <2>1. ASSUME NEW k \in Kinds, Fail(k) PROVE BudgetType'
    BY <2>1, FailType
  <2>2. (UNCHANGED budget) => BudgetType'
    BY DEF BudgetType
  <2> QED
    BY <2>1, <2>2, PopCases DEF Worker, WorkerStart, PopStep, Got, UserEmit, UserReturn,
       EmitLock, EnterEmit, EmitWrite, EmitCount, EmitUnlock, WorkerLast, Kinds
<1>c. ControlType' /\ LoopType' /\ TableType' /\ ValuesType'
  BY PopCases
     DEF Worker, WorkerStart, PopStep, UserEmit, UserReturn, EmitLock, EmitWrite, EmitCount,
         EmitUnlock, WorkerLast, ControlType, LoopType, TableType, ValuesType
<1>1. CASE WorkerStart(w) \/ WorkerLast(w) \/ EmitUnlock(w) \/ EmitCount(w)
  <2>1. WorkerType'
    BY <1>1 DEF WorkerStart, WorkerLast, EmitUnlock, EmitCount, WorkerType
  <2> QED
    BY <1>1, <1>b, <1>c, <2>1
    DEF WorkerStart, WorkerLast, EmitUnlock, EmitCount, QueueType, CountType, StdoutType
<1>2. CASE WorkerPop(w)
  <2>1. QueueType'
    BY <1>2, TakeType, PopCases DEF PopStep, Got, Buffer, Q!End, QueueType
  <2>2. Q!Take => stack[Len(stack)] \in Tokens
    BY TakeType
  <2>3. 0 \in 0 .. MaxResults
    BY BoundsAssumption DEF BoundsAssumption
  <2>4. Got(w) => WorkerType'
    BY <2>2, <2>3 DEF Got, WorkerType
  <2>5. WStep(w, "last") => WorkerType'
    BY DEF WorkerType
  <2>6. WorkerType'
    BY <1>2, <2>4, <2>5, PopCases DEF PopStep
  <2>7. CountType'
    <3>1. Got(w) => reduced' \in [Tokens -> Nat]
      BY <2>2 DEF Got, CountType
    <3>2. Got(w) \/ reduced' = reduced
      BY <1>2, PopCases DEF PopStep
    <3>3. freed' = freed
      BY <1>2, PopCases DEF PopStep
    <3> QED
      BY <3>1, <3>2, <3>3 DEF CountType
  <2> QED
    BY <1>2, <1>b, <1>c, <2>1, <2>6, <2>7, PopCases DEF PopStep, StdoutType
<1>3. CASE UserEmit(w)
  <2>1. WorkerType'
    BY <1>3, BoundsAssumption DEF UserEmit, WorkerType, BoundsAssumption
  <2> QED
    BY <1>3, <1>b, <1>c, <2>1 DEF UserEmit, QueueType, CountType, StdoutType
<1>4. CASE UserReturn(w)
  <2>1. WorkerType' /\ CountType'
    BY <1>4, FreeType DEF UserReturn, WorkerType, CountType
  <2> QED
    BY <1>4, <1>b, <1>c, <2>1 DEF UserReturn, QueueType, StdoutType
<1>5. CASE EmitLock(w)
  <2>1. WorkerType'
    BY <1>5 DEF EmitLock, EnterEmit, WorkerType, Parts
  <2> QED
    BY <1>5, <1>b, <1>c, <2>1 DEF EmitLock, EnterEmit, QueueType, CountType, StdoutType
<1>6. CASE EmitWrite(w)
  <2>1. wpc[w] = "write" /\ part[w] \in 0 .. 3 /\ part[w] < 3
    BY <1>6 DEF EmitWrite, WorkerType, Parts, Hands
  <2>2. part[w] + 1 \in 0 .. 3 /\ part[w] + 1 \in 1 .. 3
    BY <2>1
  <2>3. WorkerType'
    BY <1>6, <2>2 DEF EmitWrite, WorkerType, Parts
  <2>4. wnode[w] \in Tokens
    BY <2>1 DEF Hands, Holding
  <2>5. wresults[w] \in 0 .. MaxResults /\ wresults[w] > 0 /\ MaxResults \in Nat
    BY <2>1, BoundsAssumption DEF Hands, WorkerType, BoundsAssumption
  <2>6. wresults[w] \in 1 .. MaxResults
    BY <2>5
  <2> DEFINE Written == Tokens \X (1 .. MaxResults) \X (1 .. Parts)
  <2>7. <<wnode[w], wresults[w], part[w] + 1>> \in Written
    BY <2>2, <2>4, <2>6 DEF Parts
  <2>8. out \in Seq(Written)
    BY DEF StdoutType
  <2> HIDE DEF Written
  <2>9. out' \in Seq(Written)
    <3>1. PICK e \in Written : e = <<wnode[w], wresults[w], part[w] + 1>>
      BY <2>7
    <3>2. out' = Append(out, e) \/ out' = out
      BY <1>6, <3>1 DEF EmitWrite
    <3> QED
      BY <2>8, <3>1, <3>2
  <2>10. StdoutType'
    BY <1>6, <2>9 DEF EmitWrite, StdoutType, Written
  <2> QED
    BY <1>6, <1>b, <1>c, <2>3, <2>10 DEF EmitWrite, QueueType, CountType
<1> QED
  BY <1>1, <1>2, <1>3, <1>4, <1>5, <1>6 DEF Worker

--------------------------------------------------------------------------------
(***************************************************************************)
(* Control                                                                 *)
(***************************************************************************)

\* What a worker's step leaves alone, whatever it does.
LEMMA WorkerFrame ==
  ASSUME TypeOK, NEW w \in Workers, Worker(w)
  PROVE  /\ UNCHANGED control /\ UNCHANGED store /\ UNCHANGED accepted /\ exit = "none"
         /\ wpc[w] \notin {"none", "ended"} /\ wpc'[w] # "none"
         /\ \A v \in Workers \ {w} : wpc'[v] = wpc[v]
         /\ failed \subseteq failed'
         /\ \A k \in {"alloc", "push_signal", "push_unlock"} : k \in failed' => k \in failed
<1> USE DEF TypeOK, queue, control, budget, WAt, WGoto, WStep, Fail
<1>1. CASE WorkerStart(w) \/ WorkerLast(w)
  BY <1>1 DEF WorkerStart, WorkerLast
<1>4. CASE WorkerPop(w)
  <2>1. PopStep(w)
    BY <1>4, PopCases
  <2>2. accepted' = accepted
    BY <2>1 DEF PopStep, Got, Buffer, Q!Take, Q!End
  <2>3. /\ failed \subseteq failed'
        /\ \A k \in {"alloc", "push_signal", "push_unlock"} : k \in failed' => k \in failed
    BY <2>1 DEF PopStep, Got
  <2>4. wpc[w] = "pop" /\ exit = "none" /\ (WGoto(w, "user") \/ WGoto(w, "last"))
    BY <2>1 DEF PopStep, Got
  <2> QED
    BY <2>1, <2>2, <2>3, <2>4 DEF PopStep
<1>2. CASE UserEmit(w) \/ UserReturn(w)
  BY <1>2 DEF UserEmit, UserReturn
<1>3. CASE EmitLock(w) \/ EmitWrite(w) \/ EmitCount(w) \/ EmitUnlock(w)
  BY <1>3 DEF EmitLock, EnterEmit, EmitWrite, EmitCount, EmitUnlock
<1> QED
  BY <1>1, <1>2, <1>3, <1>4 DEF Worker

\* The same for the pushes that failed after the insertion.
LEMMA WorkerPuts ==
  ASSUME TypeOK, NEW w \in Workers, Worker(w) PROVE PutThenFailed' <=> PutThenFailed
<1>1. \A k \in {"push_signal", "push_unlock"} : k \in failed' <=> k \in failed
  BY WorkerFrame
<1> QED
  BY <1>1 DEF PutThenFailed

\* Before the push loop a worker has nothing to work on.
LEMMA SetupWorker ==
  ASSUME TypeOK, Untouched, NEW w \in Workers, Worker(w) PROVE Untouched'
<1> USE DEF TypeOK, Untouched, queue, control, loop, worker, stdout, WAt, WGoto, WStep
<1>1. WorkerStart(w) \/ WorkerPop(w) \/ WorkerLast(w)
  BY DEF Worker, UserEmit, UserReturn, EmitLock, EmitWrite, EmitCount, EmitUnlock
<1>2. ~Q!Take
  BY DEF Q!Take
<1>3. CASE WorkerStart(w) \/ WorkerLast(w)
  BY <1>3 DEF WorkerStart, WorkerLast
<1>4. CASE WorkerPop(w)
  <2>1. UNCHANGED <<stack, accepted, taken, reduced, control, freed>> /\ WStep(w, "last")
    BY <1>2, <1>4, PopCases DEF PopStep, Got, Buffer, Q!End
  <2> QED
    BY <2>1
<1> QED
  BY <1>1, <1>3, <1>4

\* The phases, when a worker steps.
LEMMA PhasesWorker ==
  ASSUME TypeOK, Phases, NEW w \in Workers, Worker(w) PROVE Phases'
<1>1. /\ UNCHANGED control /\ exit = "none"
      /\ wpc[w] \notin {"none", "ended"}
      /\ ("alloc" \in failed' => "alloc" \in failed) /\ (PutThenFailed' <=> PutThenFailed)
  BY WorkerFrame, WorkerPuts
<1>2. ~destroyed /\ ctl \notin {"start", "collect", "init", "clean", "finish"}
  BY <1>1 DEF Phases
<1>3. ctl \in Before => Untouched'
  BY SetupWorker DEF Phases
<1> QED
  BY <1>1, <1>2, <1>3 DEF Phases, control

\* The phases, when the controller steps.
LEMMA PhasesController == ASSUME TypeOK, Phases, Controller PROVE Phases'
<1>t. ControlType /\ DOMAIN wpc = Workers
  BY TypeParts DEF WorkerType
<1>e. exit = "none"
  BY DEF Controller, CtlStart, CtlCollect, CtlInit, CtlClean, CtlCreate,
     CtlShut, CtlAbort, CloseUnchecked, CtlVisit, CtlBucket, Bucket, CtlPush, PushNode,
     CtlPushShut, CtlGiveUp, GiveUp, CtlClose, CtlJoin, CtlFinish, At
<1> USE <1>t, <1>e DEF PutThenFailed, ControlType, queue, loop, control, worker, budget, At, Step, Exit, Fail
<1>1. CASE CtlStart
  BY <1>1 DEF CtlStart, Phases, Before, Untouched
<1>2. CASE CtlCollect
  <2>1. Untouched'
    BY <1>2 DEF CtlCollect, Phases, Before, Untouched
  <2>2. CASE \E p \in NextPairs : Collect(p, TokenOf[p])
    BY <1>2, <2>1, <2>2 DEF CtlCollect, Collect, Phases, Before
  <2> QED
    BY <1>2, <2>1, <2>2 DEF CtlCollect, Phases, Before
<1>3. CASE CtlInit
  BY <1>3 DEF CtlInit, Phases, Before, Untouched
<1>4. CASE CtlClean
  <2>1. Untouched'
    BY <1>4 DEF CtlClean, Phases, Before, Untouched
  <2> QED
    BY <1>4, <2>1 DEF CtlClean, Phases, Before
<1>5. CASE CtlCreate
  <2>1. CASE ctl' \in Before
    <3>1. Untouched'
      BY <1>5, <2>1 DEF CtlCreate, Phases, Before, Untouched
    <3> QED
      BY <1>5, <2>1, <3>1 DEF CtlCreate, Phases, Before
  <2>2. CASE ctl' \notin Before
    BY <1>5, <2>2 DEF CtlCreate, Phases, Before
  <2> QED
    BY <2>1, <2>2
<1>6. CASE CtlShut \/ CtlAbort
  BY <1>6, CloseCases DEF CloseStep, Buffer, CtlAbort, Q!Close, Phases, Before, Untouched
<1>7. CASE CtlVisit \/ CtlBucket \/ CtlPush
  BY <1>7, PushCases DEF CtlVisit, CtlBucket, Bucket, PushStep, Phases, Before
<1>8. CASE CtlPushShut \/ CtlGiveUp
  BY <1>8, CloseCases DEF CloseStep, CtlGiveUp, GiveUp, Phases, Before
<1>9. CASE CtlClose \/ CtlJoin \/ CtlFinish
  BY <1>9, CloseCases DEF CloseStep, CtlJoin, CtlFinish, Phases, Before
<1> QED
  BY <1>1, <1>2, <1>3, <1>4, <1>5, <1>6, <1>7, <1>8, <1>9 DEF Controller

\* What a controller's step leaves alone: only thrd_create touches a worker.
LEMMA ControllerFrame ==
  ASSUME TypeOK, Controller
  PROVE  /\ UNCHANGED <<wnode, wresults, part, stdout, reduced, taken, ended>>
         /\ exit = "none"
         /\ \A v \in Workers : wpc'[v] = wpc[v] \/ (wpc[v] = "none" /\ wpc'[v] = "start")
         /\ failed \subseteq failed'
         /\ \A k \in {"pop", "pop_signal", "pop_unlock", "write"} : k \in failed' => k \in failed
<1> USE DEF TypeOK, queue, loop, control, worker, stdout, budget, At, Fail
<1>1. CASE CtlStart \/ CtlCollect \/ CtlInit \/ CtlClean
  BY <1>1 DEF CtlStart, CtlCollect, Collect, CtlInit, CtlClean
<1>2. CASE CtlCreate \/ CtlShut \/ CtlAbort
  BY <1>2, CloseCases DEF CtlCreate, CloseStep, Buffer, CtlAbort, Q!Close
<1>3. CASE CtlVisit \/ CtlBucket \/ CtlPush
  BY <1>3, PushCases DEF CtlVisit, CtlBucket, Bucket, PushStep, Buffer, Q!Put
<1>4. CASE CtlPushShut \/ CtlGiveUp
  BY <1>4, CloseCases DEF CloseStep, Buffer, CtlGiveUp, GiveUp, Q!Close
<1>5. CASE CtlClose \/ CtlJoin \/ CtlFinish
  BY <1>5, CloseCases DEF CloseStep, Buffer, CtlJoin, CtlFinish, Q!Close
<1> QED
  BY <1>1, <1>2, <1>3, <1>4, <1>5 DEF Controller

\* The same for the calls that failed after they had changed the queue.
LEMMA ControllerPops ==
  ASSUME TypeOK, Controller
  PROVE  (PopFailed' <=> PopFailed) /\ (PutThenFailed => PutThenFailed')
<1>1. \A k \in {"pop", "pop_signal", "pop_unlock"} : k \in failed' <=> k \in failed
  BY ControllerFrame
<1>2. failed \subseteq failed'
  BY ControllerFrame
<1> QED
  BY <1>1, <1>2 DEF PopFailed, PutThenFailed

\* What the workers hold, when the controller steps.
LEMMA HandsController == ASSUME TypeOK, Hands, Controller PROVE Hands' /\ Holding' = Holding
<1>1. Holding' = Holding
  BY ControllerFrame DEF Holding
<1> QED
  BY <1>1, ControllerFrame DEF Hands

\* What the workers hold, when one of them steps.
LEMMA HandsWorker == ASSUME TypeOK, Hands, NEW w \in Workers, Worker(w) PROVE Hands'
<1>t. WorkerType
  BY TypeParts
<1>u. wresults[w] + 1 > 0 /\ 0 < 3
  BY <1>t, BoundsAssumption DEF WorkerType, BoundsAssumption
<1> USE <1>t DEF WorkerType, WAt, WGoto, WStep, Hands, Holding, Parts
<1>1. CASE WorkerStart(w) \/ WorkerLast(w) \/ UserReturn(w)
  BY <1>1 DEF WorkerStart, WorkerLast, UserReturn
<1>2. CASE WorkerPop(w)
  <2>1. Q!Take => stack[Len(stack)] \in Tokens
    BY TakeType, TypeParts
  <2>2. CASE Got(w)
    BY <2>1, <2>2 DEF Got
  <2>3. CASE WStep(w, "last")
    BY <2>3
  <2> QED
    BY <1>2, <2>2, <2>3, PopCases DEF PopStep
<1>3. CASE UserEmit(w)
  BY <1>3, <1>u DEF UserEmit
<1>4. CASE EmitLock(w)
  BY <1>4, <1>u DEF EmitLock, EnterEmit
<1>5. CASE EmitWrite(w)
  <2>1. part[w] \in 0 .. 3 /\ part[w] < 3
    BY <1>5 DEF EmitWrite
  <2>2. part[w] + 1 # 3 => part[w] + 1 < 3
    BY <2>1
  <2> QED
    BY <1>5, <2>2 DEF EmitWrite
<1>6. CASE EmitCount(w) \/ EmitUnlock(w)
  BY <1>6 DEF EmitCount, EmitUnlock
<1> QED
  BY <1>1, <1>2, <1>3, <1>4, <1>5, <1>6 DEF Worker

\* The mutex, when the controller steps.
LEMMA LockedController == ASSUME TypeOK, Locked, Controller PROVE Locked'
<1>1. /\ mutex' = mutex
      /\ \A v \in Workers : wpc'[v] \in Inside <=> wpc[v] \in Inside
  BY ControllerFrame DEF stdout, Inside
<1> QED
  BY <1>1 DEF Locked

\* The mutex, when a worker steps.
LEMMA LockedWorker == ASSUME TypeOK, Locked, NEW w \in Workers, Worker(w) PROVE Locked'
<1> USE NoneAssumption
    DEF NoneAssumption, TypeOK, stdout, WAt, WGoto, WStep, Locked, Inside
<1>1. CASE WorkerStart(w) \/ WorkerPop(w) \/ WorkerLast(w)
  BY <1>1, PopCases DEF WorkerStart, PopStep, Got, WorkerLast
<1>2. CASE UserEmit(w) \/ UserReturn(w)
  BY <1>2 DEF UserEmit, UserReturn
<1>3. CASE EmitLock(w)
  BY <1>3 DEF EmitLock, EnterEmit
<1>4. CASE EmitWrite(w) \/ EmitCount(w)
  BY <1>4 DEF EmitWrite, EmitCount
<1>5. CASE EmitUnlock(w)
  BY <1>5 DEF EmitUnlock
<1> QED
  BY <1>1, <1>2, <1>3, <1>4, <1>5 DEF Worker

\* Nothing is added to a closed queue, so a drained one stays drained.
LEMMA DrainedStep == ASSUME TypeOK, Drained, Next PROVE Drained'
<1> SUFFICES ASSUME "log" \notin failed', ~PopFailed', NEW v \in Workers,
                    wpc'[v] \in {"last", "ended"}
             PROVE  closed' /\ stack' = <<>>
  BY DEF Drained
<1> USE DEF PopFailed, TypeOK, queue, budget, worker, WAt, WGoto, WStep, Fail
<1>1. CASE Controller
  <2>1. wpc'[v] = wpc[v] /\ "log" \notin failed /\ ~PopFailed
    BY <1>1, ControllerFrame, ControllerPops
  <2>2. closed /\ stack = <<>>
    BY <2>1 DEF Drained
  <2>3. UNCHANGED Buffer \/ Q!Close \/ \E i \in Tokens \cup {None} : Q!Put(i)
    BY <1>1, CloseCases, PushCases DEF Controller, CtlStart, CtlCollect, CtlInit, CtlClean,
       CtlCreate, CloseStep, Buffer, CtlAbort, CtlVisit, CtlBucket, Bucket, PushStep,
       CtlGiveUp, GiveUp, CtlJoin, CtlFinish
  <2> QED
    BY <2>2, <2>3 DEF Buffer, Q!Close, Q!Put
<1>2. ASSUME NEW w \in Workers, Worker(w)
      PROVE  closed' /\ stack' = <<>>
  <2>1. CASE WorkerStart(w) \/ WorkerLast(w)
    BY <2>1 DEF Drained, WorkerStart, WorkerLast
  <2>2. CASE WorkerPop(w)
    <3>1. PopStep(w)
      BY <2>2, PopCases
    <3>2. Got(w) \/ (Q!End(w) /\ WStep(w, "last"))
      BY <3>1 DEF PopStep
    <3>3. CASE Got(w)
      <4>1. wpc[v] \in {"last", "ended"} /\ "log" \notin failed /\ ~PopFailed
        BY <3>3 DEF Got
      <4>2. stack = <<>>
        BY <4>1 DEF Drained
      <4> QED
        BY <3>3, <4>2 DEF Got, Q!Take
    <3>4. CASE Q!End(w) /\ WStep(w, "last")
      BY <3>4 DEF Q!End
    <3> QED
      BY <3>2, <3>3, <3>4
  <2>3. CASE UserEmit(w) \/ UserReturn(w)
    BY <2>3 DEF Drained, UserEmit, UserReturn
  <2>4. CASE EmitLock(w) \/ EmitWrite(w) \/ EmitCount(w) \/ EmitUnlock(w)
    BY <2>4 DEF Drained, EmitLock, EnterEmit, EmitWrite, EmitCount, EmitUnlock
  <2> QED
    BY <1>2, <2>1, <2>2, <2>3, <2>4 DEF Worker
<1>3. CASE Exited \/ Waiting
  BY <1>3, WaitingFrame DEF Drained, Exited, Buffer, vars
<1> QED
  BY <1>1, <1>2, <1>3 DEF Next

--------------------------------------------------------------------------------
(***************************************************************************)
(* The pipe                                                                *)
(***************************************************************************)

\* What a worker's step does to the pipe: nothing, a frame begins, a part is written, a
\* write fails, or the frame is counted.
Aside(w) ==
  /\ wpc[w] \notin {"write", "count"} /\ wpc'[w] \notin {"write", "count"}
  /\ UNCHANGED <<out, results>>
Begin(w) ==
  /\ wpc[w] = "lock" /\ mutex = None /\ wpc'[w] = "write" /\ part'[w] = 0
  /\ UNCHANGED <<out, results>>
PartWritten(w) ==
  /\ wpc[w] = "write"
  /\ out' = Append(out, <<wnode[w], wresults[w], part[w] + 1>>)
  /\ part'[w] = part[w] + 1 /\ wnode'[w] = wnode[w] /\ wresults'[w] = wresults[w]
  /\ wpc'[w] = IF part[w] + 1 = 3 THEN "count" ELSE "write"
  /\ results' = results
Broken(w) ==
  /\ wpc[w] = "write" /\ wpc'[w] = "unlock" /\ "write" \in failed'
  /\ UNCHANGED <<out, results>>
Counted(w) ==
  /\ wpc[w] = "count" /\ wpc'[w] = "unlock" /\ results' = results + 1
  /\ out' = out

\* A worker's step does one of these, and leaves the other workers alone.
LEMMA PipeCases ==
  ASSUME TypeOK, NEW w \in Workers, Worker(w)
  PROVE  /\ Aside(w) \/ Begin(w) \/ PartWritten(w) \/ Broken(w) \/ Counted(w)
         /\ \A v \in Workers \ {w} :
              /\ wpc'[v] = wpc[v] /\ part'[v] = part[v]
              /\ wnode'[v] = wnode[v] /\ wresults'[v] = wresults[v]
         /\ failed \subseteq failed'
<1> USE DEF TypeOK, worker, stdout, budget, WAt, WGoto, WStep, Fail,
            Aside, Begin, PartWritten, Broken, Counted
<1>1. CASE WorkerStart(w) \/ WorkerLast(w)
  BY <1>1 DEF WorkerStart, WorkerLast
<1>7. CASE WorkerPop(w)
  <2>1. PopStep(w)
    BY <1>7, PopCases
  <2>2. CASE Got(w)
    BY <2>1, <2>2 DEF PopStep, Got
  <2>3. CASE WStep(w, "last")
    <3>1. failed \subseteq failed'
      BY <2>1 DEF PopStep, Got
    <3> QED
      BY <2>1, <2>3, <3>1 DEF PopStep
  <2> QED
    BY <2>1, <2>2, <2>3 DEF PopStep
<1>2. CASE UserEmit(w) \/ UserReturn(w)
  BY <1>2 DEF UserEmit, UserReturn
<1>3. CASE EmitLock(w)
  BY <1>3 DEF EmitLock, EnterEmit
<1>4. CASE EmitWrite(w)
  BY <1>4 DEF EmitWrite, Parts
<1>5. CASE EmitCount(w)
  BY <1>5 DEF EmitCount
<1>6. CASE EmitUnlock(w)
  BY <1>6 DEF EmitUnlock
<1> QED
  BY <1>1, <1>2, <1>3, <1>4, <1>5, <1>6, <1>7 DEF Worker

\* What a written part adds to the pipe.
LEMMA Written ==
  ASSUME TypeOK, Hands, NEW w \in Workers, PartWritten(w)
  PROVE  /\ Len(out) \in Nat /\ Len(out') = Len(out) + 1
         /\ \A k \in 1 .. Len(out) : out'[k] = out[k]
         /\ out'[Len(out) + 1] = <<wnode[w], wresults[w], part[w] + 1>>
         /\ part[w] \in 0 .. 2
<1> DEFINE S == Tokens \X (1 .. MaxResults) \X (1 .. Parts)
           e == <<wnode[w], wresults[w], part[w] + 1>>
<1>1. out \in Seq(S)
  BY DEF TypeOK
<1>2. part[w] \in 0 .. 3 /\ part[w] < 3
  BY DEF TypeOK, Hands, PartWritten, Parts
<1>3. out' = Append(out, e)
  BY DEF PartWritten
<1> HIDE DEF S, e
<1>4. /\ Len(out) \in Nat /\ Len(out') = Len(out) + 1
      /\ \A k \in 1 .. Len(out) : out'[k] = out[k]
      /\ out'[Len(out) + 1] = e
  BY <1>1, <1>3
<1> QED
  BY <1>2, <1>4 DEF e

\* The writer is alone.
LEMMA OneWriter ==
  ASSUME TypeOK, Locked, NEW w \in Workers, wpc[w] \in Inside
  PROVE  \A v \in Workers \ {w} : wpc[v] \notin Inside
  BY DEF Locked

\* The pipe stays in step with results_count.
LEMMA InStepWorker ==
  ASSUME TypeOK, Hands, Locked, InStep, NEW w \in Workers, Worker(w)
  PROVE  InStep'
<1> SUFFICES ASSUME "write" \notin failed' PROVE InStep'
  BY DEF InStep
<1>1. /\ \A v \in Workers \ {w} :
          /\ wpc'[v] = wpc[v] /\ part'[v] = part[v]
          /\ wnode'[v] = wnode[v] /\ wresults'[v] = wresults[v]
      /\ "write" \notin failed
  BY PipeCases
<1>2. results \in Nat /\ Len(out) \in Nat
  BY DEF TypeOK
<1>3. CASE Aside(w)
  BY <1>1, <1>3 DEF InStep, Aside
<1>4. CASE Begin(w)
  <2>1. \A v \in Workers : wpc[v] \notin {"write", "count"}
    BY <1>4, NoneAssumption DEF Locked, Inside, Begin, NoneAssumption
  <2>2. Len(out) = 3 * results
    BY <1>1, <2>1 DEF InStep
  <2>3. Len(out') = 3 * results' + part'[w] /\ wpc'[w] = "write" /\ ~(part'[w] > 0)
    BY <1>2, <1>4, <2>2 DEF Begin
  <2> QED
    BY <1>1, <2>1, <2>3 DEF InStep
<1>5. CASE PartWritten(w)
  <2>1. \A v \in Workers \ {w} : wpc[v] \notin {"write", "count"}
    BY <1>5, OneWriter DEF Inside, PartWritten
  <2>2. Len(out) = 3 * results + part[w]
    BY <1>1, <1>5 DEF InStep, PartWritten
  <2>3. /\ Len(out') = Len(out) + 1 /\ part[w] \in 0 .. 2
        /\ out'[Len(out) + 1] = <<wnode[w], wresults[w], part[w] + 1>>
    BY <1>5, Written
  <2>4. /\ part'[w] = part[w] + 1 /\ wnode'[w] = wnode[w] /\ wresults'[w] = wresults[w]
        /\ wpc'[w] = IF part[w] + 1 = 3 THEN "count" ELSE "write"
        /\ results' = results
    BY <1>5 DEF PartWritten
  <2>5. Len(out') = 3 * results' + part'[w]
    BY <1>2, <2>2, <2>3, <2>4
  <2>6. out'[Len(out')][1] = wnode'[w] /\ out'[Len(out')][2] = wresults'[w]
    BY <2>3, <2>4
  <2>7. wpc'[w] = "count" => Len(out') = 3 * results' + 3
    BY <2>3, <2>4, <2>5
  <2> QED
    BY <1>1, <2>1, <2>4, <2>5, <2>6, <2>7 DEF InStep
<1>6. CASE Broken(w)
  BY <1>6 DEF Broken
<1>7. CASE Counted(w)
  <2>1. \A v \in Workers \ {w} : wpc[v] \notin {"write", "count"}
    BY <1>7, OneWriter DEF Inside, Counted
  <2>2. Len(out) = 3 * results + 3
    BY <1>1, <1>7 DEF InStep, Counted
  <2>3. Len(out') = 3 * results' /\ wpc'[w] = "unlock"
    BY <1>2, <1>7, <2>2 DEF Counted
  <2> QED
    BY <1>1, <2>1, <2>3 DEF InStep
<1> QED
  BY <1>3, <1>4, <1>5, <1>6, <1>7, PipeCases

\* The frames stay whole.
LEMMA FramesWorker ==
  ASSUME TypeOK, Hands, InStep, FramesWhole, NEW w \in Workers, Worker(w)
  PROVE  FramesWhole'
<1> SUFFICES ASSUME "write" \notin failed' PROVE FramesWhole'
  BY DEF FramesWhole
<1>1. "write" \notin failed
  BY PipeCases
<1>2. CASE out' = out
  BY <1>1, <1>2 DEF FramesWhole
<1>3. CASE PartWritten(w)
  <2>1. /\ Len(out) \in Nat /\ Len(out') = Len(out) + 1 /\ part[w] \in 0 .. 2
        /\ \A k \in 1 .. Len(out) : out'[k] = out[k]
        /\ out'[Len(out) + 1] = <<wnode[w], wresults[w], part[w] + 1>>
    BY <1>3, Written
  <2>2. /\ Len(out) = 3 * results + part[w]
        /\ part[w] > 0 => /\ out[Len(out)][1] = wnode[w]
                          /\ out[Len(out)][2] = wresults[w]
    BY <1>1, <1>3 DEF InStep, PartWritten
  <2>3. results \in Nat
    BY DEF TypeOK
  <2>4. Len(out) % 3 = part[w]
    BY <2>1, <2>2, <2>3
  <2> SUFFICES ASSUME NEW k \in 1 .. Len(out')
               PROVE  /\ out'[k][3] = ((k - 1) % 3) + 1
                      /\ out'[k][3] > 1 => /\ out'[k - 1][1] = out'[k][1]
                                          /\ out'[k - 1][2] = out'[k][2]
    BY DEF FramesWhole, Parts
  <2>5. CASE k \in 1 .. Len(out)
    <3>1. /\ out[k][3] = ((k - 1) % 3) + 1
          /\ out[k][3] > 1 => out[k - 1][1] = out[k][1] /\ out[k - 1][2] = out[k][2]
      BY <1>1, <2>5 DEF FramesWhole, Parts
    <3>2. out'[k] = out[k]
      BY <2>1, <2>5
    <3>3. out[k][3] > 1 => k - 1 \in 1 .. Len(out)
      BY <2>1, <2>5, <3>1
    <3> QED
      BY <2>1, <3>1, <3>2, <3>3
  <2>6. CASE k = Len(out) + 1
    <3>1. out'[k][1] = wnode[w] /\ out'[k][2] = wresults[w] /\ out'[k][3] = part[w] + 1
      BY <2>1, <2>6
    <3>2. out'[k][3] = ((k - 1) % 3) + 1
      BY <2>1, <2>4, <2>6, <3>1
    <3>3. ASSUME out'[k][3] > 1
          PROVE  out'[k - 1][1] = out'[k][1] /\ out'[k - 1][2] = out'[k][2]
      <4>1. part[w] > 0
        BY <2>1, <3>1, <3>3
      <4>2. k - 1 = Len(out) /\ Len(out) \in 1 .. Len(out)
        BY <2>1, <2>2, <2>3, <2>6, <4>1
      <4> QED
        BY <2>1, <2>2, <3>1, <4>1, <4>2
    <3> QED
      BY <3>2, <3>3
  <2> QED
    BY <2>1, <2>5, <2>6
<1> QED
  BY <1>2, <1>3, PipeCases DEF Aside, Begin, Broken, Counted

\* The controller does not touch the pipe.
LEMMA PipeController ==
  ASSUME TypeOK, InStep, FramesWhole, Controller
  PROVE  InStep' /\ FramesWhole'
<1>1. /\ UNCHANGED <<out, results, part, wnode, wresults>>
      /\ \A v \in Workers : wpc'[v] = wpc[v] \/ (wpc[v] = "none" /\ wpc'[v] = "start")
      /\ "write" \in failed' <=> "write" \in failed
  BY ControllerFrame DEF stdout
<1> QED
  BY <1>1 DEF InStep, FramesWhole

--------------------------------------------------------------------------------
(***************************************************************************)
(* The hash table                                                          *)
(***************************************************************************)

\* What Append adds to a sequence without duplicates.
LEMMA AppendRange ==
  ASSUME NEW S, NEW s \in Seq(S), NEW e \in S, IsInjective(s), e \notin Range(s)
  PROVE  /\ Range(Append(s, e)) = Range(s) \cup {e}
         /\ IsInjective(Append(s, e))
         /\ Append(s, e) # <<>>
<1>1. /\ Len(s) \in Nat /\ DOMAIN s = 1 .. Len(s)
      /\ Append(s, e) \in Seq(S) /\ Len(Append(s, e)) = Len(s) + 1
      /\ \A k \in 1 .. Len(s) : Append(s, e)[k] = s[k]
      /\ Append(s, e)[Len(s) + 1] = e
      /\ Append(s, e) # <<>>
  BY AppendProperties
<1>2. DOMAIN Append(s, e) = (1 .. Len(s)) \cup {Len(s) + 1} /\ Len(s) + 1 \notin 1 .. Len(s)
  BY <1>1
<1> DEFINE a == Append(s, e)
           n == Len(s) + 1
<1>3. /\ DOMAIN a = (DOMAIN s) \cup {n} /\ n \notin DOMAIN s /\ a[n] = e
      /\ \A k \in DOMAIN s : a[k] = s[k]
  BY <1>1, <1>2
<1> HIDE DEF a, n
<1>4. Range(a) = Range(s) \cup {e} /\ IsInjective(a)
  BY <1>3 DEF Range, IsInjective
<1> QED
  BY <1>1, <1>4 DEF a

\* A pair is collected into its group.
LEMMA GroupingCollect ==
  ASSUME TypeOK, Phases, Grouping, ctl = "collect", exit = "none", exit' = "none",
         NEW p \in input, Collect(p, TokenOf[p])
  PROVE  Grouping'
<1>1. p \in Pairs /\ TokenOf[p] \in Tokens /\ TokenOf \in [Pairs -> Tokens]
  BY PairsAssumption DEF TypeOK, PairsAssumption
<1>2. TableType /\ ValuesType /\ input \subseteq Pairs
  BY TypeParts DEF ControlType
<1>3. discarded = {}
  BY DEF Phases
<1>4. input' = input \ {p}
  BY CollectCases
<1> DEFINE u == TokenOf[p]
<1>5. CASE Added(p, u)
  <2>1. values'[u] = Append(values[u], p) /\ \A t \in Tokens \ {u} : values'[t] = values[t]
    BY <1>1, <1>2, <1>5, AddType DEF Added
  <2>2. Nodes' = Nodes \cup {u}
    BY <1>1, <1>2, <1>5, FindType DEF Added
  <2>3. discarded' = discarded /\ failed' = failed
    BY <1>5 DEF Added, budget
  <2>4. values[u] \in Seq(Pairs)
    BY <1>1, <1>2 DEF ValuesType
  <2>5. /\ Range(values[u]) = {q \in Pairs \ (input \cup discarded) : TokenOf[q] = u}
        /\ IsInjective(values[u])
    BY <1>1 DEF Grouping
  <2>6. p \notin Range(values[u])
    BY <2>5
  <2>7. /\ Range(values'[u]) = Range(values[u]) \cup {p} /\ IsInjective(values'[u])
        /\ values'[u] # <<>>
    BY <1>1, <2>1, <2>4, <2>5, <2>6, AppendRange
  <2>8. TokenOf[p] = u
    OBVIOUS
  <2> HIDE DEF u
  <2> SUFFICES ASSUME NEW t \in Tokens
               PROVE  /\ Range(values'[t]) =
                           {q \in Pairs \ (input' \cup discarded') : TokenOf[q] = t}
                      /\ IsInjective(values'[t])
                      /\ t \in Nodes' \/ values'[t] = <<>>
                      /\ t \in Nodes' /\ "alloc" \notin failed' => values'[t] # <<>>
    BY DEF Grouping
  <2>9. CASE t = u
    <3>1. {q \in Pairs \ (input' \cup discarded') : TokenOf[q] = u} =
             {q \in Pairs \ (input \cup discarded) : TokenOf[q] = u} \cup {p}
      BY <1>1, <1>3, <1>4, <2>3, <2>8
    <3> QED
      BY <2>2, <2>5, <2>7, <2>9, <3>1
  <2>10. CASE t # u
    <3>1. {q \in Pairs \ (input' \cup discarded') : TokenOf[q] = t} =
             {q \in Pairs \ (input \cup discarded) : TokenOf[q] = t}
      BY <1>4, <2>3, <2>8, <2>10
    <3>2. values'[t] = values[t]
      BY <2>1, <2>10
    <3>3. /\ Range(values[t]) = {q \in Pairs \ (input \cup discarded) : TokenOf[q] = t}
          /\ IsInjective(values[t])
          /\ values[t] # <<>> => t \in Nodes
          /\ t \in Nodes /\ "alloc" \notin failed => values[t] # <<>>
      BY DEF Grouping
    <3> QED
      BY <2>2, <2>3, <2>10, <3>1, <3>2, <3>3
  <2> QED
    BY <2>9, <2>10
<1>6. CASE NoMemory(p, u)
  <2>1. Nodes \subseteq Nodes'
    BY <1>1, <1>2, <1>6, FindType DEF NoMemory, Nodes
  <2>2. values' = values /\ "alloc" \in failed' /\ discarded' = discarded \cup {p}
    BY <1>6 DEF NoMemory, Fail
  <2>3. input' \cup discarded' = input \cup discarded
    BY <1>4, <2>2
  <2> QED
    BY <2>1, <2>2, <2>3 DEF Grouping
<1> QED
  BY <1>5, <1>6, CollectCases

\* What the other steps of the controller leave alone.
LEMMA TableFrame ==
  ASSUME TypeOK, Controller, ~CtlCollect, ~CtlClean
  PROVE  /\ UNCHANGED <<store, input, discarded>>
         /\ "alloc" \in failed' <=> "alloc" \in failed
<1> USE DEF loop, control, Step, Exit, Fail, budget, BudgetType
<1>1. CASE CtlStart \/ CtlInit \/ CtlCreate \/ CtlShut \/ CtlAbort
  BY <1>1, CloseCases DEF CtlStart, CtlInit, CtlCreate, CloseStep, CtlAbort
<1>2. CASE CtlVisit \/ CtlBucket \/ CtlPush \/ CtlPushShut \/ CtlGiveUp
  BY <1>2, CloseCases, PushCases DEF CtlVisit, CtlBucket, Bucket, PushStep, CloseStep,
     CtlGiveUp, GiveUp
<1>3. CASE CtlClose \/ CtlJoin \/ CtlFinish
  BY <1>3, CloseCases DEF CloseStep, CtlJoin, CtlFinish
<1> QED
  BY <1>1, <1>2, <1>3 DEF Controller

\* The groups, when the controller steps.
LEMMA GroupingController ==
  ASSUME TypeOK, Phases, Grouping, Controller PROVE Grouping'
<1>1. exit = "none"
  BY ControllerFrame
<1>2. CASE CtlCollect
  <2>1. exit' = "none" /\ ctl = "collect"
    BY <1>1, <1>2 DEF CtlCollect, At
  <2>2. ASSUME UNCHANGED <<input, discarded, store>>, "alloc" \in failed' <=> "alloc" \in failed
        PROVE  Grouping'
    BY <1>1, <2>2 DEF Grouping, store, Nodes
  <2> QED
    BY <1>1, <1>2, <2>1, <2>2, GroupingCollect, NextPairsOfInput
    DEF CtlCollect, Fail, budget
<1>3. CASE CtlClean
  <2>1. /\ UNCHANGED <<input, discarded, values>> /\ exit' = "failure" /\ ctl' = "clean"
        /\ \A b \in Buckets : table'[b] = <<>>
    BY <1>3 DEF CtlClean, At, Exit
  <2>2. Nodes' = {}
    BY <2>1 DEF Nodes, Range
  <2> QED
    BY <2>1, <2>2 DEF Grouping
<1>4. CASE ~CtlCollect /\ ~CtlClean
  BY <1>1, <1>4, TableFrame DEF Grouping, store, Nodes
<1> QED
  BY <1>2, <1>3, <1>4

\* The chains, when the controller steps.
LEMMA ChainsController == ASSUME TypeOK, Chains, Controller PROVE Chains'
<1>1. CASE CtlCollect
  <2>1. TableType /\ \A p \in input : TokenOf[p] \in Tokens
    BY TypeParts, PairsAssumption DEF ControlType, PairsAssumption
  <2>2. table' = table => Chains'
    BY DEF Chains
  <2> QED
    BY <1>1, <2>1, <2>2, CollectCases, FindType, NextPairsOfInput
    DEF CtlCollect, store, Added, NoMemory
<1>2. CASE CtlClean
  <2>1. \A b \in Buckets : table'[b] = <<>>
    BY <1>2 DEF CtlClean
  <2> QED
    BY <2>1 DEF Chains, IsInjective
<1>3. CASE ~CtlCollect /\ ~CtlClean
  BY <1>3, TableFrame DEF Chains, store
<1> QED
  BY <1>1, <1>2, <1>3

\* A worker reads the table only.
LEMMA TableWorker ==
  ASSUME TypeOK, Grouping, Chains, NEW w \in Workers, Worker(w)
  PROVE  Grouping' /\ Chains'
<1>1. /\ UNCHANGED <<input, discarded, ctl, exit, table, values>>
      /\ "alloc" \in failed' <=> "alloc" \in failed
  BY WorkerFrame DEF control, store
<1> QED
  BY <1>1 DEF Grouping, Chains, Nodes

--------------------------------------------------------------------------------
(***************************************************************************)
(* The push loop                                                           *)
(***************************************************************************)

\* The rest from one node of a chain is that node and the rest behind it.
LEMMA RestStep ==
  ASSUME TypeOK, Chains, NEW b \in Buckets, NEW k \in 1 .. Len(table[b])
  PROVE  /\ Rest(b, k) = Rest(b, k + 1) \cup {table[b][k]}
         /\ table[b][k] \notin Rest(b, k + 1)
         /\ table[b][k] \in Nodes
<1>1. Len(table[b]) \in Nat /\ DOMAIN table[b] = 1 .. Len(table[b]) /\ b \in Int
  BY SMTT(15) DEF TypeOK, Buckets
<1>2. k .. Len(table[b]) = ((k + 1) .. Len(table[b])) \cup {k}
  BY <1>1
<1>3. \A j \in (k + 1) .. Len(table[b]) : j \in DOMAIN table[b] /\ k \in DOMAIN table[b] /\ j # k
  BY <1>1
<1>4. \A j \in (k + 1) .. Len(table[b]) : table[b][j] # table[b][k]
  BY <1>3 DEF Chains, IsInjective
<1>5. \A c \in (b + 1) .. NBuckets : c \in Buckets /\ c # b
  BY <1>1, BoundsAssumption DEF Buckets, BoundsAssumption
<1>6. k \in DOMAIN table[b]
  BY <1>1
<1>7. \A c \in (b + 1) .. NBuckets : table[b][k] \notin Range(table[c])
  BY <1>5, <1>6 DEF Chains, Range
<1>8. Rest(b, k) = Rest(b, k + 1) \cup {table[b][k]}
  BY <1>2 DEF Rest
<1>9. table[b][k] \notin Rest(b, k + 1)
  BY <1>4, <1>7 DEF Rest
<1>10. table[b][k] \in Nodes
  BY <1>6 DEF Nodes, Range
<1> QED
  BY <1>8, <1>9, <1>10

\* After the last node of a chain the rest is in the next bucket.
LEMMA RestBucket ==
  ASSUME TypeOK, NEW b \in Buckets
  PROVE  /\ b < NBuckets => Rest(b, Len(table[b]) + 1) = Rest(b + 1, 1)
         /\ b = NBuckets => Rest(b, Len(table[b]) + 1) = {}
<1>1. Len(table[b]) \in Nat /\ b \in Int /\ NBuckets \in Nat
  BY BoundsAssumption DEF TypeOK, Buckets, BoundsAssumption
<1>2. (Len(table[b]) + 1) .. Len(table[b]) = {}
  BY <1>1
<1>3. Rest(b, Len(table[b]) + 1) = UNION {Range(table[c]) : c \in (b + 1) .. NBuckets}
  BY <1>2 DEF Rest
<1>4. ASSUME b < NBuckets
      PROVE  Rest(b, Len(table[b]) + 1) = Rest(b + 1, 1)
  <2>1. b + 1 \in Buckets
    BY <1>1, <1>4 DEF Buckets
  <2>2. DOMAIN table[b + 1] = 1 .. Len(table[b + 1])
    BY <2>1 DEF TypeOK
  <2>3. (b + 1) .. NBuckets = {b + 1} \cup ((b + 1) + 1) .. NBuckets
    BY <1>1, <1>4
  <2> QED
    BY <1>3, <2>2, <2>3 DEF Rest, Range
<1>5. ASSUME b = NBuckets
      PROVE  Rest(b, Len(table[b]) + 1) = {}
  <2>1. (b + 1) .. NBuckets = {}
    BY <1>1, <1>5
  <2> QED
    BY <1>3, <2>1
<1> QED
  BY <1>4, <1>5

\* From the first node of the first bucket it is all of them.
LEMMA RestAll == ASSUME TypeOK PROVE Rest(1, 1) = Nodes /\ 1 \in Buckets
<1>1. NBuckets \in Nat \ {0} /\ Buckets = {1} \cup (1 + 1) .. NBuckets /\ 1 \in Buckets
  BY BoundsAssumption DEF Buckets, BoundsAssumption
<1>2. DOMAIN table[1] = 1 .. Len(table[1])
  BY <1>1 DEF TypeOK
<1> QED
  BY <1>1, <1>2 DEF Rest, Nodes, Range

\* The push loop, when the controller steps.
LEMMA LoopController ==
  ASSUME TypeOK, Phases, Chains, Loop, Controller PROVE Loop'
<1> USE DEF loop, control, At, Step, Exit, Fail
<1>1. CASE CtlStart \/ CtlCollect \/ CtlInit \/ CtlClean \/ CtlShut \/ CtlAbort
  <2>1. ctl' \in Before
    BY <1>1 DEF CtlStart, CtlCollect, Collect, CtlInit, CtlClean, CtlShut, CtlAbort,
       CloseUnchecked, Before
  <2> QED
    BY <2>1 DEF Loop, Before
<1>t. Len(table[bucket]) \in Nat /\ bucket \in Buckets
  BY DEF TypeOK
<1>2. CASE CtlCreate
  <2>1. CASE ctl' = "visit"
    <3>1. UNCHANGED <<table, accepted, bucket>> /\ node' = HeadOf(1)
      BY <1>2, <2>1 DEF CtlCreate, store, queue
    <3>2. bucket = 1 /\ accepted = {}
      BY <1>2 DEF CtlCreate, Phases, Before, Untouched
    <3>3. node' = NodeAt(bucket, 1) /\ accepted = Nodes \ Rest(bucket, 1)
      BY <3>1, <3>2, HeadNode, RestAll
    <3>4. Cursor(1)'
      BY <2>1, <3>1, <3>3 DEF Cursor, NodeAt, Nodes, Rest
    <3>5. 1 \in 1 .. Len(table'[bucket']) + 1
      BY <1>t, <3>1
    <3> QED
      BY <2>1, <3>4, <3>5 DEF Loop
  <2>2. CASE ctl' # "visit"
    BY <1>2, <2>2 DEF CtlCreate, Loop
  <2> QED
    BY <2>1, <2>2
<1>3. CASE CtlVisit
  <2>1. PICK k \in 1 .. Len(table[bucket]) + 1 : Cursor(k)
    BY <1>3 DEF CtlVisit, Loop
  <2>2. UNCHANGED <<table, accepted, bucket, node>> /\ next' = NextOfNode /\ ctl' = "push"
        /\ failed' = failed
    BY <1>3 DEF CtlVisit, store, queue, budget
  <2>3. k <= Len(table[bucket]) /\ NextOfNode = NodeAt(bucket, k + 1)
    BY <1>3, <2>1, CursorNode DEF CtlVisit, Cursor
  <2>4. Cursor(k)'
    BY <2>1, <2>2, <2>3 DEF Cursor, PutThenFailed, NodeAt, Nodes, Rest
  <2> QED
    BY <2>2, <2>4 DEF Loop
<1>4. CASE CtlBucket
  <2>1. PICK k \in 1 .. Len(table[bucket]) + 1 : Cursor(k)
    BY <1>4 DEF CtlBucket, Bucket, Loop
  <2>2. UNCHANGED <<table, accepted, failed>> /\ ~PutThenFailed
    BY <1>4 DEF CtlBucket, Bucket, store, queue, budget, Phases
  <2>3. k = Len(table[bucket]) + 1
    BY <1>4, <1>t, <2>1, CursorNode DEF CtlBucket, Bucket, Cursor
  <2>4. accepted = Nodes \ Rest(bucket, Len(table[bucket]) + 1)
    BY <2>1, <2>2, <2>3 DEF Cursor
  <2>5. CASE bucket < NBuckets /\ ctl' = "visit"
    <3>1. bucket' = bucket + 1 /\ node' = HeadOf(bucket + 1) /\ bucket + 1 \in Buckets
      BY <1>4, <1>t, <2>5, BoundsAssumption
      DEF CtlBucket, Bucket, Buckets, BoundsAssumption
    <3>2. node' = NodeAt(bucket', 1) /\ accepted = Nodes \ Rest(bucket', 1)
      BY <1>t, <2>4, <2>5, <3>1, HeadNode, RestBucket
    <3>3. Cursor(1)'
      BY <2>2, <2>5, <3>2 DEF Cursor, NodeAt, Nodes, Rest
    <3>4. Len(table[bucket']) \in Nat
      BY <3>1 DEF TypeOK
    <3>5. 1 \in 1 .. Len(table'[bucket']) + 1
      BY <2>2, <3>4
    <3> QED
      BY <2>5, <3>3, <3>5 DEF Loop
  <2>6. CASE bucket = NBuckets /\ ctl' = "close"
    <3>1. accepted = Nodes
      BY <1>t, <2>4, <2>6, RestBucket
    <3> QED
      BY <2>2, <2>6, <3>1 DEF Loop, Nodes
  <2> QED
    BY <1>4, <2>5, <2>6 DEF CtlBucket, Bucket
<1>5. CASE CtlPush
  <2>1. PICK k \in 1 .. Len(table[bucket]) + 1 : Cursor(k)
    BY <1>5, PushCases DEF PushStep, At, Loop
  <2>2. UNCHANGED <<table, bucket>> /\ ~PutThenFailed /\ ctl = "push"
    BY <1>5, PushCases DEF PushStep, At, store, Phases
  <2>3. /\ k \in 1 .. Len(table[bucket]) /\ k + 1 \in 1 .. Len(table[bucket]) + 1
        /\ node = table[bucket][k] /\ next = NodeAt(bucket, k + 1)
        /\ accepted = Nodes \ Rest(bucket, k)
    BY <1>t, <2>1, <2>2 DEF Cursor, NodeAt
  <2>4. /\ Rest(bucket, k) = Rest(bucket, k + 1) \cup {node}
        /\ node \notin Rest(bucket, k + 1) /\ node \in Nodes
    BY <1>t, <2>3, RestStep
  <2>5. Nodes \ Rest(bucket, k + 1) = accepted \cup {node}
    BY <2>3, <2>4
  <2>6. CASE ctl' = "visit"
    <3>1. node' = next /\ accepted' = accepted \cup {node} /\ failed' = failed
      BY <1>5, <2>6, PushCases DEF PushStep, Q!Put, budget
    <3>2. ASSUME NEW j, j = k + 1 PROVE Cursor(j)'
      <4>1. node' = NodeAt(bucket, j) /\ accepted' = Nodes \ Rest(bucket, j)
        BY <2>3, <2>5, <3>1, <3>2
      <4> QED
        BY <2>2, <2>6, <4>1 DEF Cursor, NodeAt, Nodes, Rest
    <3> QED
      BY <2>2, <2>3, <2>6, <3>2 DEF Loop
  <2>7. CASE ctl' = "pushfailed" /\ accepted' = accepted
    <3>1. node' = node
      BY <1>5, <2>7, PushCases DEF PushStep
    <3>2. Cursor(k)'
      BY <2>2, <2>3, <2>7, <3>1 DEF Cursor, NodeAt, Nodes, Rest
    <3> QED
      BY <2>2, <2>3, <2>7, <3>2 DEF Loop
  <2>8. CASE ctl' = "pushfailed" /\ accepted' = accepted \cup {node} /\ PutThenFailed'
    <3>1. node' = node
      BY <1>5, <2>8, PushCases DEF PushStep
    <3>2. /\ node' = NodeAt(bucket, k) /\ k <= Len(table[bucket])
          /\ accepted' = Nodes \ Rest(bucket, k + 1)
      BY <2>1, <2>3, <2>5, <2>8, <3>1 DEF Cursor
    <3>5. accepted' = Nodes' \ Rest(bucket, k + 1)'
      BY <2>2, <2>3, <3>2 DEF Nodes, Rest
    <3>3. Cursor(k)'
      BY <2>2, <2>8, <3>2, <3>5 DEF Cursor, NodeAt
    <3> QED
      BY <2>2, <2>3, <2>8, <3>3 DEF Loop
  <2> QED
    <3>1. PushStep
      BY <1>5, PushCases
    <3>2. Fail("push_signal") \/ Fail("push_unlock") => PutThenFailed'
      BY DEF Fail, PutThenFailed
    <3> QED
      BY <2>6, <2>7, <2>8, <3>1, <3>2 DEF PushStep, Buffer, Q!Put
<1>6. CASE CtlPushShut \/ CtlGiveUp
  <2>1. PICK k \in 1 .. Len(table[bucket]) + 1 : Cursor(k)
    BY <1>6, CloseCases DEF CtlGiveUp, GiveUp, At, Loop
  <2>2. /\ UNCHANGED <<table, accepted, bucket, node>> /\ ctl \in {"pushfailed", "giveup"}
        /\ ctl' = "giveup" /\ (PutThenFailed => PutThenFailed')
    BY <1>6, CloseCases, ControllerPops DEF Controller, CloseStep, Buffer, CtlGiveUp, GiveUp,
       At, Step, loop, store, queue, budget, Q!Close
  <2>3. Cursor(k)'
    BY <2>1, <2>2 DEF Cursor, NodeAt, Nodes, Rest
  <2> QED
    BY <2>2, <2>3 DEF Loop
<1>7. CASE CtlClose \/ CtlJoin \/ CtlFinish
  <2>1. /\ UNCHANGED <<table, accepted>> /\ ctl \in {"close", "join", "finish"}
        /\ ctl' \in {"close", "join", "finish"}
    BY <1>7, CloseCases DEF CloseStep, Buffer, CtlJoin, CtlFinish, At, Step, Exit, store,
       queue, Q!Close
  <2> QED
    BY <2>1 DEF Loop, Nodes
<1> QED
  BY <1>1, <1>2, <1>3, <1>4, <1>5, <1>6, <1>7 DEF Controller

\* The push loop, when a worker steps.
LEMMA LoopWorker == ASSUME TypeOK, Loop, NEW w \in Workers, Worker(w) PROVE Loop'
<1>1. /\ UNCHANGED <<ctl, bucket, node, next, table, accepted>>
      /\ PutThenFailed' <=> PutThenFailed
  BY WorkerFrame, WorkerPuts DEF control, loop, store
<1>2. \A k \in 1 .. Len(table[bucket]) + 1 : Cursor(k) => Cursor(k)'
  BY <1>1 DEF Cursor, NodeAt, Rest, Nodes
<1>3. Nodes' = Nodes
  BY <1>1 DEF Nodes
<1> QED
  BY <1>1, <1>2, <1>3 DEF Loop

--------------------------------------------------------------------------------
(***************************************************************************)
(* Who has a node                                                          *)
(***************************************************************************)

\* No two slots of the stack have the same node.
StackDistinct == \A i, j \in DOMAIN stack : stack[i] = stack[j] => i = j
\* No two workers have the same node.
HeldDistinct == \A v, w \in Holding : wnode[v] = wnode[w] => v = w

\* A node that is not in the stack is put there.
LEMMA PutPlaces ==
  ASSUME TypeOK, StackDistinct, NEW i \in Tokens, i \notin Queued, Q!Put(i)
  PROVE  Queued' = Queued \cup {i} /\ StackDistinct'
<1>1. /\ QueueType' /\ Len(stack') = Len(stack) + 1 /\ stack'[Len(stack) + 1] = i
      /\ \A k \in 1 .. Len(stack) : stack'[k] = stack[k]
  BY PutType, TypeParts
<1>2. Len(stack) \in Nat /\ DOMAIN stack = 1 .. Len(stack)
  BY DEF TypeOK
<1>3. DOMAIN stack' = 1 .. Len(stack')
  BY <1>1 DEF QueueType
<1>4. DOMAIN stack' = (1 .. Len(stack)) \cup {Len(stack) + 1}
  BY <1>1, <1>2, <1>3
<1> QED
  BY <1>1, <1>2, <1>4 DEF Queued, StackDistinct

\* The top of the stack is taken away.
LEMMA TakePlaces ==
  ASSUME TypeOK, StackDistinct, Q!Take
  PROVE  /\ Queued' = Queued \ {stack[Len(stack)]} /\ StackDistinct'
         /\ stack[Len(stack)] \in Queued
<1>1. /\ QueueType' /\ Len(stack) > 0 /\ Len(stack') = Len(stack) - 1
      /\ \A k \in 1 .. Len(stack') : stack'[k] = stack[k]
  BY TakeType, TypeParts
<1>2. Len(stack) \in Nat /\ DOMAIN stack = 1 .. Len(stack)
  BY DEF TypeOK
<1>3. DOMAIN stack' = 1 .. Len(stack')
  BY <1>1 DEF QueueType
<1>4. DOMAIN stack = (DOMAIN stack') \cup {Len(stack)} /\ Len(stack) \notin DOMAIN stack'
  BY <1>1, <1>2, <1>3
<1> QED
  BY <1>1, <1>3, <1>4 DEF Queued, StackDistinct

\* A worker that has no node gets one that nobody has.
LEMMA GetHeld ==
  ASSUME TypeOK, HeldDistinct, NEW w \in Workers \ Holding, NEW n \in Tokens, n \notin Held,
         Holding' = Holding \cup {w}, wnode' = [wnode EXCEPT ![w] = n]
  PROVE  Held' = Held \cup {n} /\ HeldDistinct'
<1>1. wnode'[w] = n /\ \A v \in Holding : wnode'[v] = wnode[v]
  BY DEF TypeOK, Holding
<1> QED
  BY <1>1 DEF Held, HeldDistinct

\* A worker lets go of its node.
LEMMA DropHeld ==
  ASSUME HeldDistinct, NEW w \in Holding, Holding' = Holding \ {w}, wnode' = wnode
  PROVE  Held' = Held \ {wnode[w]} /\ HeldDistinct' /\ wnode[w] \in Held
  BY DEF Held, HeldDistinct

\* The workers keep what they have.
LEMMA SameHeld ==
  ASSUME HeldDistinct, Holding' = Holding, wnode' = wnode
  PROVE  Held' = Held /\ HeldDistinct'
  BY DEF Held, HeldDistinct

\* What a worker's step does with the nodes: it gets one, a failing pop loses one, it frees
\* the one it has, or nothing.
Gets(w) ==
  /\ Q!Take /\ w \notin Holding /\ Holding' = Holding \cup {w}
  /\ wnode' = [wnode EXCEPT ![w] = stack[Len(stack)]]
  /\ reduced' = [reduced EXCEPT ![stack[Len(stack)]] = @ + 1]
  /\ UNCHANGED <<freed, failed>>
Loses(w) ==
  /\ Q!Take /\ Holding' = Holding /\ PopFailed' /\ UNCHANGED <<wnode, reduced, freed>>
Frees(w) ==
  /\ w \in Holding /\ Holding' = Holding \ {w} /\ Free({wnode[w]})
  /\ UNCHANGED <<wnode, stack, taken, reduced, failed>>
Keeps(w) == Holding' = Holding /\ UNCHANGED <<wnode, stack, taken, reduced, freed>>

\* A worker's step is one of these.
LEMMA NodeCases ==
  ASSUME TypeOK, NEW w \in Workers, Worker(w)
  PROVE  Gets(w) \/ Loses(w) \/ Frees(w) \/ Keeps(w)
<1>t. WorkerType
  BY TypeParts
<1> USE <1>t DEF WorkerType, queue, worker, budget, WAt, WGoto, WStep, Holding
<1>1. CASE WorkerPop(w)
  <2>1. PopStep(w)
    BY <1>1, PopCases
  <2>2. CASE Got(w)
    BY <2>1, <2>2 DEF PopStep, Got, Gets
  <2>3. CASE WStep(w, "last")
    <3>1. Holding' = Holding /\ wnode' = wnode /\ freed' = freed /\ wpc[w] = "pop"
      BY <2>1, <2>3 DEF PopStep
    <3>2. CASE Q!End(w) /\ reduced' = reduced
      BY <3>1, <3>2 DEF Q!End, Keeps
    <3>3. CASE UNCHANGED <<Buffer, reduced>>
      BY <3>1, <3>3 DEF Buffer, Keeps
    <3>4. CASE (Fail("pop_signal") \/ Fail("pop_unlock")) /\ Q!Take /\ reduced' = reduced
      BY <3>1, <3>4 DEF Fail, PopFailed, Loses
    <3>5. CASE Got(w)
      BY <2>2, <3>5
    <3> QED
      BY <2>1, <3>2, <3>3, <3>4, <3>5 DEF PopStep
  <2> QED
    BY <2>1, <2>2, <2>3 DEF PopStep
<1>2. CASE UserReturn(w)
  BY <1>2 DEF UserReturn, Frees
<1>3. CASE WorkerStart(w) \/ UserEmit(w) \/ WorkerLast(w)
  BY <1>3 DEF WorkerStart, UserEmit, WorkerLast, Keeps
<1>4. CASE EmitLock(w) \/ EmitWrite(w) \/ EmitCount(w) \/ EmitUnlock(w)
  BY <1>4 DEF EmitLock, EnterEmit, EmitWrite, EmitCount, EmitUnlock, Keeps
<1> QED
  BY <1>1, <1>2, <1>3, <1>4 DEF Worker

\* Who has which node, when a worker steps.
LEMMA OwnedWorker ==
  ASSUME TypeOK, Owned, Life, NEW w \in Workers, Worker(w)
  PROVE  Owned' /\ Life'
<1>1. /\ accepted' = accepted /\ exit' = "none" /\ exit = "none" /\ failed \subseteq failed'
  BY WorkerFrame DEF control
<1>8. /\ PopFailed => PopFailed'
      /\ failed' = failed => (PopFailed' <=> PopFailed)
  BY <1>1 DEF PopFailed
<1>2. /\ StackDistinct /\ HeldDistinct /\ Held \subseteq taken
      /\ accepted = taken \cup Queued /\ taken \cap Queued = {}
  BY DEF Owned, StackDistinct, HeldDistinct
<1>3. \A t \in Tokens : freed[t] \in Nat /\ reduced[t] \in Nat
  BY DEF TypeOK
<1> DEFINE n == stack[Len(stack)]
<1>4. CASE Gets(w)
  <2>1. /\ Queued' = Queued \ {n} /\ StackDistinct' /\ n \in Queued /\ n \in Tokens
        /\ taken' = taken \cup {n}
    BY <1>2, <1>4, TakePlaces, TakeType, TypeParts DEF Gets, Q!Take
  <2>2. /\ w \in Workers \ Holding /\ Holding' = Holding \cup {w}
        /\ wnode' = [wnode EXCEPT ![w] = n]
        /\ n \notin Held /\ UNCHANGED <<freed, failed>>
    BY <1>2, <1>4, <2>1 DEF Gets
  <2>3. reduced'[n] = reduced[n] + 1 /\ \A t \in Tokens \ {n} : reduced'[t] = reduced[t]
    BY <1>4, <2>1 DEF Gets, TypeOK
  <2> HIDE DEF n
  <2>4. Held' = Held \cup {n} /\ HeldDistinct'
    BY <1>2, <2>1, <2>2, GetHeld
  <2>5. Owned'
    BY <1>1, <1>2, <2>1, <2>4 DEF Owned, StackDistinct, HeldDistinct
  <2>6. reduced[n] = 0 /\ freed[n] = 0
    BY <1>1, <1>2, <1>3, <2>1 DEF Life
  <2>7. Life'
    <3> SUFFICES ASSUME NEW t \in Tokens
                 PROVE  /\ reduced'[t] <= 1
                        /\ reduced'[t] > 0 => t \in taken'
                        /\ t \in taken' /\ ~PopFailed' => reduced'[t] = 1
                        /\ freed'[t] = 0 \/ (freed'[t] = 1 /\ t \in taken' \ Held')
                        /\ t \in taken' /\ ~PopFailed' => t \in Held' \/ freed'[t] = 1
      BY DEF Life
    <3>1. CASE t = n
      BY <1>3, <1>8, <2>1, <2>2, <2>3, <2>4, <2>6, <3>1
    <3>2. CASE t # n
      BY <1>1, <1>8, <2>1, <2>2, <2>3, <2>4, <3>2 DEF Life
    <3> QED
      BY <3>1, <3>2
  <2> QED
    BY <2>5, <2>7
<1>5. CASE Loses(w)
  <2>1. /\ Queued' = Queued \ {n} /\ StackDistinct' /\ n \in Queued
        /\ taken' = taken \cup {n}
    BY <1>2, <1>5, TakePlaces DEF Loses, Q!Take
  <2>2. Held' = Held /\ HeldDistinct'
    BY <1>2, <1>5, SameHeld DEF Loses
  <2>3. UNCHANGED <<reduced, freed>> /\ PopFailed'
    BY <1>5 DEF Loses
  <2> HIDE DEF n
  <2>4. Owned'
    BY <1>1, <1>2, <2>1, <2>2 DEF Owned, StackDistinct, HeldDistinct
  <2>5. Life'
    BY <1>1, <1>8, <2>1, <2>2, <2>3 DEF Life
  <2> QED
    BY <2>4, <2>5
<1>6. CASE Frees(w)
  <2> DEFINE m == wnode[w]
  <2>1. Held' = Held \ {m} /\ HeldDistinct' /\ m \in Held
    BY <1>2, <1>6, DropHeld DEF Frees
  <2>2. UNCHANGED <<stack, taken, reduced, failed>>
    BY <1>6 DEF Frees
  <2>3. \A t \in Tokens : freed'[t] = IF t \in {m} THEN freed[t] + 1 ELSE freed[t]
    BY <1>6, FreeType, TypeParts DEF Frees
  <2> HIDE DEF m
  <2>4. Queued' = Queued /\ StackDistinct'
    BY <1>2, <2>2 DEF Queued, StackDistinct
  <2>5. Owned'
    BY <1>1, <1>2, <2>1, <2>2, <2>4 DEF Owned, StackDistinct, HeldDistinct
  <2>6. Life'
    <3> SUFFICES ASSUME NEW t \in Tokens
                 PROVE  /\ reduced'[t] <= 1
                        /\ reduced'[t] > 0 => t \in taken'
                        /\ t \in taken' /\ ~PopFailed' => reduced'[t] = 1
                        /\ freed'[t] = 0 \/ (freed'[t] = 1 /\ t \in taken' \ Held')
                        /\ t \in taken' /\ ~PopFailed' => t \in Held' \/ freed'[t] = 1
      BY DEF Life
    <3>1. CASE t = m
      <4>1. freed[t] = 0 /\ t \in taken
        BY <1>1, <1>2, <2>1, <3>1 DEF Life
      <4> QED
        BY <1>1, <1>8, <2>1, <2>2, <2>3, <3>1, <4>1 DEF Life
    <3>2. CASE t # m
      BY <1>1, <1>8, <2>1, <2>2, <2>3, <3>2 DEF Life
    <3> QED
      BY <3>1, <3>2
  <2> QED
    BY <2>5, <2>6
<1>7. CASE Keeps(w)
  <2>1. Held' = Held /\ HeldDistinct'
    BY <1>2, <1>7, SameHeld DEF Keeps
  <2>2. UNCHANGED <<stack, taken, reduced, freed>>
    BY <1>7 DEF Keeps
  <2>3. Queued' = Queued /\ StackDistinct'
    BY <1>2, <2>2 DEF Queued, StackDistinct
  <2>4. Owned'
    BY <1>1, <1>2, <2>1, <2>2, <2>3 DEF Owned, StackDistinct, HeldDistinct
  <2>5. Life'
    BY <1>1, <1>8, <2>1, <2>2 DEF Life
  <2> QED
    BY <2>4, <2>5
<1> QED
  BY <1>4, <1>5, <1>6, <1>7, NodeCases

\* What the controller's steps do with the nodes: it gives one away, or nothing.
LEMMA OwnedController ==
  ASSUME TypeOK, Chains, Loop, Hands, Owned, Controller
  PROVE  Owned' /\ Held' = Held
<1>1. Holding' = Holding /\ UNCHANGED <<wnode, taken>>
  BY HandsController, ControllerFrame
<1>2. /\ StackDistinct /\ HeldDistinct /\ Held \subseteq taken
      /\ accepted = taken \cup Queued /\ taken \cap Queued = {}
  BY DEF Owned, StackDistinct, HeldDistinct
<1>3. Held' = Held /\ HeldDistinct'
  BY <1>1, <1>2, SameHeld
<1>4. CASE UNCHANGED <<stack, accepted>>
  <2>1. Queued' = Queued /\ StackDistinct'
    BY <1>2, <1>4 DEF Queued, StackDistinct
  <2> QED
    BY <1>1, <1>2, <1>3, <1>4, <2>1 DEF Owned, StackDistinct, HeldDistinct
<1>5. ASSUME NEW i \in Tokens, Q!Put(i) PROVE Owned'
  <2>1. i \notin accepted /\ accepted' = accepted \cup {i}
    BY <1>5 DEF Q!Put
  <2>2. Queued' = Queued \cup {i} /\ StackDistinct'
    BY <1>2, <1>5, <2>1, PutPlaces
  <2> QED
    BY <1>1, <1>2, <1>3, <2>1, <2>2 DEF Owned, StackDistinct, HeldDistinct
<1>6. CASE CtlPush
  <2>1. node \in Tokens
    BY <1>6, PushHasNode, PushCases DEF PushStep, At
  <2> QED
    BY <1>3, <1>4, <1>5, <1>6, <2>1, PushCases DEF PushStep, Buffer
<1>7. CASE ~CtlPush
  <2>1. UNCHANGED <<stack, accepted>>
    BY <1>7, CloseCases DEF Controller, CtlStart, CtlCollect, CtlInit, CtlClean, CtlCreate,
       CloseStep, Buffer, CtlAbort, CtlVisit, CtlBucket, Bucket, CtlGiveUp, GiveUp, CtlJoin,
       CtlFinish, queue, Q!Close
  <2> QED
    BY <1>3, <1>4, <2>1
<1> QED
  BY <1>3, <1>6, <1>7

\* The controller frees nodes only as its last act.
LEMMA FreedFrame ==
  ASSUME Controller, ~CtlClean, ~CtlGiveUp
  PROVE  freed' = freed
  BY DEF Controller, CtlStart, CtlCollect, CtlInit, CtlCreate, CtlShut, CtlAbort,
     CloseUnchecked, CtlVisit, CtlBucket, Bucket, CtlPush, PushNode, CtlPushShut, CtlClose,
     CtlJoin, CtlFinish

\* The life of a node, when the controller steps.
LEMMA LifeController ==
  ASSUME TypeOK, Chains, Loop, Hands, Owned, Life, Controller
  PROVE  Life'
<1>1. /\ UNCHANGED <<taken, reduced>> /\ exit = "none" /\ Held' = Held
      /\ PopFailed' <=> PopFailed
  BY OwnedController, ControllerFrame, ControllerPops
<1>2. CASE CtlClean \/ CtlGiveUp
  <2>1. exit' = "failure"
    BY <1>2 DEF CtlClean, CtlGiveUp, GiveUp, Exit
  <2> QED
    BY <1>1, <2>1 DEF Life
<1>3. CASE ~CtlClean /\ ~CtlGiveUp
  BY <1>1, <1>3, FreedFrame DEF Life
<1> QED
  BY <1>2, <1>3

\* After a push that failed before the insertion, what the error path of the push loop will
\* walk and free was never in the queue.
LEMMA UnpushedFresh ==
  ASSUME TypeOK, Chains, Loop, Owned, Life, exit = "none",
         ctl \in {"pushfailed", "giveup"}, ~PutThenFailed
  PROVE  /\ Unpushed \cap accepted = {} /\ Nodes \subseteq accepted \cup Unpushed
         /\ Unpushed \subseteq Tokens /\ \A t \in Unpushed : freed[t] = 0
<1>1. PICK k \in 1 .. Len(table[bucket]) + 1 : Cursor(k)
  BY DEF Loop
<1>2. Unpushed = Rest(bucket, k)
  <2>1. node = NodeAt(bucket, k) /\ k <= Len(table[bucket])
    BY <1>1 DEF Cursor
  <2> QED
    BY <2>1, CursorNode
<1>3. Unpushed \cap accepted = {} /\ Nodes \subseteq accepted \cup Unpushed
  BY <1>1, <1>2 DEF Cursor
<1>4. Unpushed \subseteq Tokens
  <2>1. bucket \in 1 .. NBuckets /\ NBuckets \in Nat
    BY BoundsAssumption DEF TypeOK, Buckets, BoundsAssumption
  <2>4. \A b \in 1 .. NBuckets : table[b] \in Seq(Tokens)
    BY DEF TypeOK, Buckets
  <2>5. ASSUME NEW b \in 1 .. NBuckets PROVE Range(table[b]) \subseteq Tokens
    <3>1. \A j \in DOMAIN table[b] : table[b][j] \in Tokens
      BY <2>4
    <3> QED
      BY <3>1 DEF Range
  <2>2. \A b \in (bucket + 1) .. NBuckets : Range(table[b]) \subseteq Tokens
    BY <2>1, <2>5
  <2>3. \A j \in k .. Len(table[bucket]) : table[bucket][j] \in Tokens
    BY <2>1, <2>4
  <2> QED
    BY <1>2, <2>2, <2>3 DEF Rest
<1>5. ASSUME NEW t \in Unpushed PROVE freed[t] = 0
  <2>1. t \in Tokens /\ t \notin taken
    BY <1>3, <1>4, <1>5 DEF Owned
  <2> QED
    BY <2>1 DEF Life
<1> QED
  BY <1>3, <1>4, <1>5

\* What the end of that error path frees.
LEMMA GiveUpFrees ==
  ASSUME TypeOK, Chains, Loop, Owned, Life, CtlGiveUp
  PROVE  /\ \A t \in Tokens : freed'[t] = IF t \in Unpushed THEN freed[t] + 1 ELSE freed[t]
         /\ ~PutThenFailed =>
              /\ Nodes \subseteq accepted \cup Unpushed /\ Unpushed \cap accepted = {}
              /\ \A t \in Unpushed : freed[t] = 0
<1>1. \A t \in Tokens : freed'[t] = IF t \in Unpushed THEN freed[t] + 1 ELSE freed[t]
  BY FreeType, TypeParts DEF CtlGiveUp, GiveUp
<1>2. exit = "none" /\ ctl = "giveup"
  BY DEF CtlGiveUp, GiveUp, At
<1> QED
  BY <1>1, <1>2, UnpushedFresh

\* Nothing is freed twice.
LEMMA FreedController ==
  ASSUME TypeOK, Phases, Chains, Loop, Owned, Life, FreedOnce, Controller
  PROVE  FreedOnce'
<1> SUFFICES ASSUME ~PutThenFailed', NEW t \in Tokens PROVE freed'[t] <= 1
  BY DEF FreedOnce
<1>1. ~PutThenFailed
  BY ControllerPops
<1>2. CASE CtlClean
  <2>1. freed[t] = 0
    BY <1>2 DEF CtlClean, At, Phases, Before, Untouched
  <2>2. freed'[t] = IF t \in Nodes THEN freed[t] + 1 ELSE freed[t]
    BY <1>2, FreeType, TypeParts DEF CtlClean
  <2> QED
    BY <2>1, <2>2
<1>3. CASE CtlGiveUp
  <2>1. freed[t] <= 1 /\ freed[t] \in Nat
    BY <1>1 DEF FreedOnce, TypeOK
  <2> QED
    BY <1>1, <1>3, <2>1, GiveUpFrees
<1>4. CASE ~CtlClean /\ ~CtlGiveUp
  BY <1>1, <1>4, FreedFrame DEF FreedOnce
<1> QED
  BY <1>2, <1>3, <1>4

\* When the workers have left a queue from which no pop failed, every node that was pushed
\* has been freed.
LEMMA AllFreed ==
  ASSUME Owned, Life, Drained, exit = "none", "log" \notin failed, ~PopFailed,
         \A w \in Workers : wpc[w] = "ended"
  PROVE  \A t \in Tokens \cap accepted : freed[t] = 1
<1>1. stack = <<>>
  BY WorkersAssumption DEF Drained, WorkersAssumption
<1>2. Held = {} /\ Queued = {}
  BY <1>1 DEF Held, Holding, Queued
<1>3. accepted = taken
  BY <1>2 DEF Owned
<1> QED
  BY <1>2, <1>3 DEF Life

\* The calls whose failure leaves a node behind.
Lossy == {"log", "pop", "pop_signal", "pop_unlock", "close", "close_signal", "close_unlock",
          "join"}

\* Nothing is left behind.
LEMMA LeaksController ==
  ASSUME TypeOK, Phases, Grouping, Chains, Loop, Owned, Life, Drained, Controller
  PROVE  NothingLeaks'
<1> SUFFICES ASSUME exit' # "none",
                    ~PutThenFailed', failed' \cap Lossy = {},
                    NEW t \in Tokens, values'[t] # <<>>
             PROVE  freed'[t] = 1
  BY DEF NothingLeaks, Lossy
<1>1. /\ exit = "none" /\ failed \cap Lossy = {} /\ "log" \notin failed
      /\ ~PopFailed /\ ~PutThenFailed
  BY ControllerFrame, ControllerPops DEF Lossy, PopFailed
<1>2. CtlClean \/ CtlGiveUp \/ CtlFinish
  <2>1. /\ ~(CtlStart /\ exit' # "none") /\ ~(CtlClose /\ exit' # "none")
        /\ ~(CtlJoin /\ exit' # "none")
    BY <1>1 DEF CtlStart, CtlClose, CloseFails, CtlJoin, Step, Exit, Fail, Lossy
  <2>2. ~CtlCollect /\ ~CtlInit /\ ~CtlCreate /\ ~CtlShut /\ ~CtlAbort
    BY <1>1
    DEF CtlCollect, CtlInit, CtlCreate, CtlShut, CtlAbort, CloseUnchecked, Step, control
  <2>3. ~CtlVisit /\ ~CtlBucket /\ ~CtlPush /\ ~CtlPushShut
    BY <1>1 DEF CtlVisit, CtlBucket, Bucket, CtlPush, PushNode, CtlPushShut, CloseUnchecked,
       Step
  <2> QED
    BY <2>1, <2>2, <2>3 DEF Controller
<1>3. t \in Nodes
  <2>1. values' = values
    BY <1>2 DEF CtlClean, CtlGiveUp, GiveUp, CtlFinish, store
  <2> QED
    BY <1>1, <2>1 DEF Grouping
<1>4. CASE CtlClean
  <2>1. freed[t] = 0
    BY <1>4 DEF CtlClean, At, Phases, Before, Untouched
  <2>2. freed'[t] = IF t \in Nodes THEN freed[t] + 1 ELSE freed[t]
    BY <1>4, FreeType, TypeParts DEF CtlClean
  <2> QED
    BY <1>3, <2>1, <2>2
<1>5. CASE CtlGiveUp
  <2>1. \A w \in Workers : wpc[w] = "ended"
    BY <1>5 DEF CtlGiveUp, GiveUp
  <2>2. t \in accepted => freed[t] = 1
    BY <1>1, <2>1, AllFreed
  <2> QED
    BY <1>1, <1>3, <1>5, <2>2, GiveUpFrees
<1>6. CASE CtlFinish
  <2>1. ctl = "finish" /\ freed' = freed
    BY <1>6 DEF CtlFinish, At
  <2>2. (\A w \in Workers : wpc[w] = "ended") /\ accepted = Nodes
    BY <2>1 DEF Phases, Loop
  <2> QED
    BY <1>1, <1>3, <2>1, <2>2, AllFreed
<1> QED
  BY <1>2, <1>4, <1>5, <1>6

--------------------------------------------------------------------------------
(***************************************************************************)
(* The invariant, and what follows from it                                 *)
(***************************************************************************)

\* The initial state.
LEMMA InitInv == Init => IInv
<1> SUFFICES ASSUME Init PROVE IInv
  OBVIOUS
<1>0. 1 \in Buckets /\ Capacity \in Nat /\ MaxResults \in Nat /\ MaxFaults \in Nat
  BY BoundsAssumption DEF BoundsAssumption, Buckets
<1>1. TypeOK
  <2>1. stack \in Seq(Tokens) /\ Len(stack) <= Capacity
    BY <1>0 DEF Init, Q!InitCalls, Q!Init
  <2>2. out \in Seq(Tokens \X (1 .. MaxResults) \X (1 .. Parts))
    BY DEF Init
  <2>3. wresults \in [Workers -> 0 .. MaxResults] /\ part \in [Workers -> 0 .. Parts]
    BY <1>0 DEF Init, Parts
  <2>4. /\ values \in [Tokens -> Seq(Pairs)] /\ room \in [Tokens -> Nat]
        /\ \A t \in Tokens : Len(values[t]) <= room[t]
    BY DEF Init
  <2>5. /\ table \in [Buckets -> Seq(Tokens)]
        /\ freed \in [Tokens -> Nat] /\ reduced \in [Tokens -> Nat]
    BY DEF Init
  <2>6. /\ wpc \in [Workers -> {"none"}] /\ wnode \in [Workers -> {None}]
    BY DEF Init
  <2> QED
    BY <1>0, <2>1, <2>2, <2>3, <2>4, <2>5, <2>6 DEF TypeOK, Init, Q!InitCalls, Q!Init
<1>2. Phases
  BY DEF Phases, PutThenFailed, Before, Untouched, Init, Q!InitCalls, Q!Init
<1>3. Nodes = {} /\ Held = {} /\ Holding = {} /\ Queued = {}
  BY DEF Init, Q!InitCalls, Q!Init, Nodes, Range, Held, Holding, Queued
<1>4. Grouping
  <2>1. \A t \in Tokens : values[t] = <<>> /\ Range(values[t]) = {} /\ IsInjective(values[t])
    BY DEF Init, Range, IsInjective
  <2>2. input = Pairs /\ discarded = {}
    BY DEF Init
  <2> QED
    BY <1>3, <2>1, <2>2 DEF Grouping
<1>5. Chains
  BY DEF Init, Chains, IsInjective
<1>6. Loop /\ Drained /\ FreedOnce /\ NothingLeaks
  BY DEF Init, Loop, Drained, FreedOnce, NothingLeaks
<1>7. Owned /\ Life
  BY <1>3 DEF Init, Q!InitCalls, Q!Init, Owned, Life
<1>8. Hands /\ Locked /\ FramesWhole /\ InStep
  BY <1>3 DEF Init, Hands, Locked, Inside, FramesWhole, InStep
<1> QED
  BY <1>1, <1>2, <1>4, <1>5, <1>6, <1>7, <1>8 DEF IInv

\* Every step.
LEMMA NextInv == IInv /\ [Next]_vars => IInv'
<1> SUFFICES ASSUME IInv, [Next]_vars PROVE IInv'
  OBVIOUS
<1>1. CASE Controller
  <2>1. TypeOK' /\ Phases' /\ Grouping' /\ Chains' /\ Loop'
    BY <1>1, ControllerType, PhasesController, GroupingController, ChainsController,
       LoopController DEF IInv
  <2>2. Owned' /\ Life' /\ FreedOnce' /\ NothingLeaks'
    BY <1>1, OwnedController, LifeController, FreedController, LeaksController DEF IInv
  <2>3. Hands' /\ Locked' /\ FramesWhole' /\ InStep' /\ Drained'
    BY <1>1, HandsController, LockedController, PipeController, DrainedStep DEF IInv, Next
  <2> QED
    BY <2>1, <2>2, <2>3 DEF IInv
<1>2. ASSUME NEW w \in Workers, Worker(w) PROVE IInv'
  <2>1. TypeOK' /\ Phases' /\ Grouping' /\ Chains' /\ Loop' /\ Owned' /\ Life'
    BY <1>2, WorkerTypes, PhasesWorker, TableWorker, LoopWorker, OwnedWorker DEF IInv
  <2>2. Hands' /\ Locked' /\ FramesWhole' /\ InStep' /\ Drained'
    BY <1>2, HandsWorker, LockedWorker, InStepWorker, FramesWorker, DrainedStep
    DEF IInv, Next
  <2>3. exit' = "none"
    BY <1>2, WorkerFrame DEF IInv, control
  <2>4. FreedOnce' /\ NothingLeaks'
    BY <2>1, <2>3 DEF Life, FreedOnce, NothingLeaks
  <2> QED
    BY <2>1, <2>2, <2>4 DEF IInv
<1>3. CASE Waiting \/ UNCHANGED vars
  <2>1. UNCHANGED <<Buffer, control, store, freed, worker, stdout, reduced, budget>>
    BY <1>3, WaitingFrame DEF vars, queue, Buffer
  <2>0. SleepType'
    BY <1>3, SleepStep, TypeParts DEF IInv, Next, vars, queue, SleepType
  <2>2. TypeOK'
    <3>1. TypeOK
      BY DEF IInv
    <3>2. QueueType' /\ ControlType' /\ LoopType' /\ TableType' /\ ValuesType'
      BY <2>1, <3>1, TypeParts DEF QueueType, ControlType, LoopType, TableType, ValuesType,
         Buffer, control, loop, store
    <3>3. CountType' /\ WorkerType' /\ StdoutType' /\ BudgetType'
      BY <2>1, <3>1, TypeParts DEF CountType, WorkerType, StdoutType, BudgetType, worker,
         stdout, budget
    <3> QED
      BY <2>0, <3>2, <3>3, TypePartsNext
  <2>3. Phases' /\ Chains' /\ Grouping'
    BY <2>1
    DEF IInv, Phases, PutThenFailed, Before, Untouched, Chains, Grouping, Nodes, Buffer, control, loop,
       store, worker, budget
  <2>4. Loop'
    <3>1. /\ UNCHANGED <<ctl, bucket, node, next, table, accepted>> /\ failed' = failed
      BY <2>1 DEF control, loop, store, Buffer, budget
    <3>2. \A k \in 1 .. Len(table[bucket]) + 1 : Cursor(k) => Cursor(k)'
      BY <3>1 DEF Cursor, PutThenFailed, NodeAt, Rest, Nodes
    <3> QED
      BY <3>1, <3>2 DEF IInv, Loop, Nodes
  <2>5. Owned' /\ Life'
    BY <2>1 DEF IInv, Owned, Life, PopFailed, Queued, Held, Holding, Buffer, control, worker, budget
  <2>6. Hands' /\ Locked' /\ FramesWhole' /\ InStep' /\ Drained' /\ FreedOnce' /\ NothingLeaks'
    BY <2>1 DEF IInv, Hands, Holding, Locked, FramesWhole, InStep, Drained, FreedOnce,
       PutThenFailed, PopFailed,
       NothingLeaks, Buffer, control, store, worker, stdout, budget
  <2> QED
    BY <2>2, <2>3, <2>4, <2>5, <2>6 DEF IInv
<1> QED
  BY <1>1, <1>2, <1>3 DEF Next, Exited

\* The invariant is inductive.
LEMMA Inductive == Spec => []IInv
  BY InitInv, NextInv, PTL DEF Spec

\* The hash table groups the pairs: every pair received is a value of its token's one node,
\* once, in an array that is long enough.
THEOREM TableGroups == Spec => []TableConsistent
<1>1. IInv => TableConsistent
  BY DEF IInv, TableConsistent, Grouped, Grouping, Chains
<1> QED
  BY <1>1, Inductive, PTL

\* The barrier: no user reducer is called before the last pair is in the table.
THEOREM ReduceIsLast == Spec => []ReducedAfterAll
<1>1. IInv => ReducedAfterAll
  <2> SUFFICES ASSUME IInv, NEW t \in Tokens, reduced[t] > 0
               PROVE  input = {} /\ discarded = {}
    BY DEF ReducedAfterAll
  <2>1. ctl \notin Before
    BY DEF IInv, Phases, Untouched
  <2> QED
    BY <2>1 DEF IInv, Phases, Before
<1> QED
  BY <1>1, Inductive, PTL

\* Between them controller and workers free a node at most once, unless a push failed after
\* the insertion.
THEOREM NoDoubleFree == Spec => []FreedOnce
  BY Inductive, PTL DEF IInv

\* Nobody uses a node, the queue or the mutex after it was freed or destroyed: not the worker
\* in the user's reducer, not the next to pop, not the controller in its push loop or in the
\* clean-up of an error path, unless a push failed after it had inserted the node (then the
\* clean-up reads and frees a node that a worker has freed).
THEOREM NoUseAfterFree == Spec => []LiveWhenUsed
<1>1. IInv => LiveWhenUsed
  <2> SUFFICES ASSUME IInv PROVE LiveWhenUsed
    OBVIOUS
  <2>1. destroyed => \A w \in Workers : wpc[w] \in {"none", "ended"}
    BY DEF IInv, Phases
  <2>2. ASSUME exit = "none", NEW t \in Tokens, t \in Held \/ t \notin taken
        PROVE  freed[t] = 0
    BY <2>2 DEF IInv, Life
  <2>3. ASSUME exit = "none", NEW w \in Holding PROVE freed[wnode[w]] = 0
    BY <2>2, <2>3 DEF IInv, Hands, Held
  <2>4. ASSUME exit = "none", NEW k \in DOMAIN stack PROVE freed[stack[k]] = 0
    <3>1. stack[k] \in Queued /\ stack[k] \in Tokens
      BY DEF Queued, IInv, TypeOK
    <3> QED
      BY <2>2, <2>4, <3>1 DEF IInv, Owned
  <2>5. ASSUME exit = "none", ctl \in {"visit", "push"}, node # None PROVE freed[node] = 0
    <3>1. PICK k \in 1 .. Len(table[bucket]) + 1 : Cursor(k)
      BY <2>5 DEF IInv, Loop
    <3>2. bucket \in Buckets /\ Len(table[bucket]) \in Nat
      BY DEF IInv, TypeOK
    <3>3. node \in Tokens /\ k <= Len(table[bucket]) /\ ~PutThenFailed
      BY <2>5, <3>1, CursorNode DEF IInv, Cursor, Phases
    <3>4. node = table[bucket][k] /\ k \in 1 .. Len(table[bucket])
      BY <3>1, <3>2, <3>3 DEF Cursor, NodeAt
    <3>5. node \in Rest(bucket, k)
      BY <3>2, <3>4, RestStep DEF IInv
    <3>6. node \notin taken
      BY <3>1, <3>3, <3>5 DEF Cursor, IInv, Owned
    <3> QED
      BY <2>2, <2>5, <3>3, <3>6
  <2>6. ASSUME exit = "none", ctl \in {"pushfailed", "giveup"}, ~PutThenFailed
        PROVE  \A t \in Unpushed : freed[t] = 0
    BY <2>6, UnpushedFresh DEF IInv
  <2>7. ASSUME exit = "none", ctl = "clean" PROVE \A t \in Nodes : freed[t] = 0
    <3>1. \A t \in Tokens : freed[t] = 0
      BY <2>7 DEF IInv, Phases, Before, Untouched
    <3>2. Nodes \subseteq Tokens
      BY DEF IInv, TypeOK, Nodes, Range
    <3> QED
      BY <3>1, <3>2
  <2> QED
    BY <2>1, <2>3, <2>4, <2>5, <2>6, <2>7 DEF LiveWhenUsed, Holding
<1> QED
  BY <1>1, Inductive, PTL

\* However the process ends, every node was freed, unless a worker left the queue early or
\* was not waited for.
THEOREM NoLeak == Spec => []NothingLeaks
  BY Inductive, PTL DEF IInv

\* The frames of the results are whole: stdout_mutex keeps the three writes together.
THEOREM ResultsInStep == Spec => []FramesWhole
  BY Inductive, PTL DEF IInv

\* A process that exits with EXIT_SUCCESS when nothing failed has reduced every token that
\* came in exactly once, and written every result it counted.
THEOREM SuccessReducesAll == Spec => []SuccessIsComplete
<1>1. IInv => SuccessIsComplete
  <2> SUFFICES ASSUME IInv, exit = "success", failed = {}
               PROVE  /\ \A t \in Tokens : reduced[t] = IF t \in Range(TokenOf) THEN 1 ELSE 0
                      /\ Len(out) = Parts * results
    BY DEF SuccessIsComplete
  <2>1. /\ ctl = "finish" /\ \A w \in Workers : wpc[w] = "ended"
        /\ input = {} /\ discarded = {} /\ accepted = Nodes
    BY DEF IInv, Phases, Loop
  <2>2. Len(out) = 3 * results
    BY <2>1 DEF IInv, InStep
  <2>3. stack = <<>>
    BY <2>1, WorkersAssumption DEF IInv, Drained, PopFailed, WorkersAssumption
  <2>4. Queued = {}
    BY <2>3 DEF Queued
  <2>5. taken = Nodes
    BY <2>1, <2>4 DEF IInv, Owned
  <2>6. \A t \in Tokens : reduced[t] = IF t \in Nodes THEN 1 ELSE 0
    <3>1. reduced \in [Tokens -> Nat] /\ ~PopFailed
      BY DEF IInv, TypeOK, PopFailed
    <3>2. \A t \in Tokens : /\ reduced[t] <= 1 /\ (reduced[t] > 0 => t \in taken)
                            /\ t \in taken => reduced[t] = 1
      BY <3>1 DEF IInv, Life
    <3>3. \A t \in Tokens : reduced[t] \in Nat
      BY <3>1
    <3> QED
      BY <2>5, <3>2, <3>3
  <2>7. \A t \in Tokens : t \in Nodes <=> values[t] # <<>>
    BY <2>1 DEF IInv, Grouping
  <2>8. \A t \in Tokens : values[t] # <<>> <=> Range(values[t]) # {}
    <3> SUFFICES ASSUME NEW t \in Tokens PROVE values[t] # <<>> <=> Range(values[t]) # {}
      OBVIOUS
    <3>1. values[t] \in Seq(Pairs)
      BY DEF IInv, TypeOK
    <3>2. values[t] # <<>> => 1 \in DOMAIN values[t]
      BY <3>1
    <3>3. values[t] # <<>> => values[t][1] \in Range(values[t])
      BY <3>2 DEF Range
    <3>4. values[t] = <<>> => DOMAIN values[t] = {}
      OBVIOUS
    <3>5. values[t] = <<>> => Range(values[t]) = {}
      BY <3>4 DEF Range
    <3> QED
      BY <3>3, <3>5
  <2>9. \A t \in Tokens : Range(values[t]) = {p \in Pairs : TokenOf[p] = t}
    BY <2>1 DEF IInv, Grouping
  <2>10. \A t \in Tokens : t \in Range(TokenOf) <=> {p \in Pairs : TokenOf[p] = t} # {}
    BY PairsAssumption DEF PairsAssumption, Range
  <2> QED
    BY <2>2, <2>6, <2>7, <2>8, <2>9, <2>10 DEF Parts
<1> QED
  BY <1>1, Inductive, PTL

================================================================================
