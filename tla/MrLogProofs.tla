------------------------------ MODULE MrLogProofs ------------------------------
(***************************************************************************)
(* Proofs about MrLog, for any number of jobs, runs, threads, lines and    *)
(* failing calls.                                                          *)
(***************************************************************************)
EXTENDS MrLog, FiniteSetTheorems, SequenceTheorems, TLAPS

\* TypeOK without the bound on the values, which needs the invariant: the parts that are
\* not Boolean, and those that are.
DataOK ==
  /\ name \in Sems \cup {None} /\ made \in 0 .. MaxRuns
  /\ value \in [Sems -> Nat]
  /\ orphaned \subseteq Sems /\ sem \in [Jobs -> Sems \cup {None}]
  /\ main \in [Jobs -> {"init", "start", "fork", "send", "wait", "status", "report",
                        "close", "unlink", "returned", "killed"}]
  /\ child \in [Jobs -> {"none", "ended", "dead"} \cup Live]
  /\ pc \in [Loggers -> {"out", "wait"} \cup Section]
  /\ lines \in [Loggers -> 0 .. MaxLines]
  /\ ret \in [Jobs -> {"none", "ok", "error"}]
  /\ overlap \subseteq Jobs
  /\ runsLeft \in 0 .. MaxRuns
  /\ failed \subseteq FaultKinds
  /\ faultsLeft \in 0 .. MaxFaults
FlagsOK == err \in [Jobs -> BOOLEAN] /\ split \in BOOLEAN /\ torn \in BOOLEAN

\* A child that starts logs with one thread.
OneStarts ==
  \A l, m \in Loggers :
    /\ l[1] = m[1] /\ l[2] # Main /\ m[2] # Main
    /\ child[l[1]] = "starting" /\ pc[l] # "out" /\ pc[m] # "out"
    => l = m

\* Main is in mr_log at the points where it logs.  A thread is in mr_log while its child
\* logs, and the child logs while main works for the job, or after main was killed.
Control ==
  /\ \A l \in Loggers : pc[l] # "out" /\ l[2] = Main =>
       main[l[1]] \in {"start", "send", "status", "report"}
  /\ \A l \in Loggers : pc[l] # "out" /\ l[2] # Main =>
       child[l[1]] \in Logging
  /\ \A j \in Jobs : child[j] \in Logging => main[j] \in {"send", "wait", "report", "killed"}
  /\ OneStarts

\* Semaphores are numbered as they are made, at most one a run; a job that has opened the
\* log has one.
Named ==
  /\ made + runsLeft <= MaxRuns
  /\ name = None \/ name \in 1 .. made
  /\ \A j \in Jobs : sem[j] = None \/ sem[j] \in 1 .. made
  /\ \A j \in Jobs : main[j] \notin {"init", "returned"} => sem[j] \in 1 .. made
  /\ orphaned \subseteq 1 .. made
  /\ \A s \in Sems : s > made => value[s] = 0

\* A semaphore is posted more often than it was waited for only after a failing fflush.
Tokens(s) == value[s] + Cardinality(Holders(s))
Bounded ==
  /\ \A s \in Sems : Tokens(s) + faultsLeft <= 1 + MaxFaults
  /\ "flush" \notin failed => \A s \in Sems : Tokens(s) <= 1

\* While nothing fails, the name is there for a job that no other overlaps.
Alone ==
  failed = {} =>
    \A j \in Jobs : Open(j) /\ j \notin overlap =>
      name # None /\ \A k \in Jobs \ {j} : ~Open(k)
\* An error has a cause.
Errors ==
  \A j \in Jobs : err[j] \/ main[j] = "report" \/ child[j] = "escaping" => failed # {}

\* Jobs that are open at the same time have the same semaphore, until they are split.
Agreed == ~split => \A j, k \in Jobs : Open(j) /\ Open(k) => sem[j] = sem[k]

\* In a log where nothing went wrong at most one thread is between sem_wait and sem_post.
Clean == failed \cap {"write", "flush"} = {} /\ orphaned = {} /\ ~split

Text(l) == [by |-> l, part |-> "text"]
Newline(l) == [by |-> l, part |-> "newline"]

\* Where the line of a thread inside is: in the buffer, in the file or part in each.
LineOf(l) ==
  LET b == buffer[Process(l)]
      whole == last.part = "newline" IN
  CASE pc[l] = "text"    -> b = <<>> /\ whole
    [] pc[l] = "newline" -> \/ b = <<Text(l)>> /\ whole
                            \/ b = <<>> /\ last = Text(l)
    [] pc[l] = "flush"   -> \/ b = <<Text(l), Newline(l)>> /\ whole
                            \/ b = <<Newline(l)>> /\ last = Text(l)
    [] pc[l] = "post"    -> b = <<>> /\ whole
    [] OTHER -> TRUE

Fragment == [by : Loggers, part : {"text", "newline"}]
BuffersOK == buffer \in [Jobs \X BOOLEAN -> Seq(Fragment)]
Lines ==
  Clean =>
    /\ ~torn
    /\ \A l \in Loggers : Inside(l) => LineOf(l)
    /\ \A l \in Loggers : buffer[Process(l)] # <<>> =>
         \E k \in Loggers : Inside(k) /\ Process(k) = Process(l)
    /\ (\A l \in Loggers : ~Inside(l)) => last.part = "newline"

--------------------------------------------------------------------------------
(***************************************************************************)
(* Loggers, and what mr_log's return does.                                 *)
(***************************************************************************)

\* A logger is main or a thread of a job.
LEMMA LoggerPair ==
  ASSUME NEW l \in Loggers
  PROVE  /\ l[1] \in Jobs /\ l[2] \in Threads \cup {Main} /\ l = <<l[1], l[2]>>
         /\ l[2] = Main => l = <<l[1], Main>>
         /\ l[2] # Main => l[2] \in Threads /\ l \in ThreadsOf(l[1])
  BY DEF Loggers, ThreadsOf

\* The threads of a job are loggers, and none of them is a main.
LEMMA ThreadsAreLoggers ==
  ASSUME NEW j \in Jobs
  PROVE  /\ ThreadsOf(j) \subseteq Loggers /\ <<j, Main>> \in Loggers
         /\ \A l \in ThreadsOf(j) : l[1] = j /\ l[2] \in Threads /\ l[2] # Main
         /\ \A l \in Loggers : l \in ThreadsOf(j) <=> l[1] = j /\ l[2] # Main
  BY ThreadsAssumption DEF ThreadsAssumption, Loggers, ThreadsOf

\* The two ways a log call of main returns: main goes on, or gives up.
MainGoesOn(l, r) ==
  LET j == l[1] IN
  /\ l[2] = Main
  /\ \/ r = 0 /\ main[j] # "report" /\ main' = [main EXCEPT ![j] = NextPoint[main[j]]]
        /\ pc' = [pc EXCEPT ![l] = "out"]
     \/ r # 0 /\ main[j] = "status" /\ main' = [main EXCEPT ![j] = "report"]
        /\ pc' = [pc EXCEPT ![l] = "wait"]
  /\ UNCHANGED <<child, orphaned, lines, err, sem, ret, overlap, split, runsLeft>>
MainGivesUp(l, r) ==
  LET j == l[1] IN
  /\ l[2] = Main /\ (r # 0 \/ main[j] = "report")
  /\ main' = [main EXCEPT ![j] = "close"] /\ Kill(j, {l})
  /\ err' = [err EXCEPT ![j] = TRUE]
  /\ UNCHANGED <<sem, ret, overlap, split, runsLeft>>

\* A log call returns in one of them, or to a thread of a child.
LEMMA ReturnCases ==
  ASSUME NEW l \in Loggers, NEW r \in {0, -1}, Return(l, r)
  PROVE  \/ MainGoesOn(l, r) \/ MainGivesUp(l, r)
         \/ ChildStarts(l, r) \/ ThreadReturns(l, r)
<1>1. CASE MainReturns(l, r) /\ r = 0 /\ main[l[1]] # "report"
  BY <1>1 DEF MainReturns, MainGoesOn
<1>2. CASE MainReturns(l, r) /\ r # 0 /\ main[l[1]] = "status"
  BY <1>2 DEF MainReturns, MainGoesOn
<1>3. CASE /\ MainReturns(l, r) /\ ~(r = 0 /\ main[l[1]] # "report")
           /\ ~(r # 0 /\ main[l[1]] = "status")
  BY <1>3 DEF MainReturns, MainGivesUp
<1> QED
  BY <1>1, <1>2, <1>3 DEF Return

\* The ways through mr_log: it takes the semaphore, writes, flushes, or returns.
Take(l) ==
  /\ pc[l] = "wait" /\ value[sem[l[1]]] > 0
  /\ value' = [value EXCEPT ![sem[l[1]]] = value[sem[l[1]]] - 1]
  /\ pc' = [pc EXCEPT ![l] = "text"]
  /\ UNCHANGED <<name, made, orphaned, job, lines, stdio, budget>>
Write(l) ==
  /\ pc[l] \in {"text", "newline"} /\ WritePart(l)
  /\ UNCHANGED <<name, made>>
Leave(l, r) ==
  /\ \/ pc[l] = "wait" /\ r = -1 /\ Fail("wait") /\ UNCHANGED value
     \/ pc[l] \in {"text", "newline"} /\ r = -1 /\ Fail("write") /\ SemPost(l)
     \/ pc[l] = "post" /\ r = 0 /\ UNCHANGED budget /\ SemPost(l)
     \/ pc[l] = "post" /\ r = -1 /\ Fail("post") /\ UNCHANGED value
  /\ Return(l, r)
  /\ UNCHANGED <<name, made, stdio>>

\* A step of mr_log is one of these.
LEMMA LogCases ==
  ASSUME NEW l \in Loggers, mr_log(l)
  PROVE  /\ Runs(l)
         /\ Take(l) \/ Write(l) \/ LogFlush(l) \/ \E r \in {0, -1} : Leave(l, r)
<1>1. CASE LogWait(l)
  BY <1>1 DEF LogWait, Take, Leave
<1>2. CASE LogWrite(l)
  BY <1>2 DEF LogWrite, Write, Leave, After
<1>3. CASE LogFlush(l)
  BY <1>3 DEF LogFlush
<1>4. CASE LogPost(l)
  BY <1>4 DEF LogPost, Leave
<1> QED
  BY <1>1, <1>2, <1>3, <1>4 DEF mr_log

\* The steps of a child that change nothing but its state.
ChildMoves(j) == ChildExit(j) \/ ChildHangs(j) \/ EscapedExits(j)

\* A step of the specification, action by action.
LEMMA NextCases ==
  ASSUME [Next]_vars
  PROVE  \/ \E l \in Loggers : mr_log(l)
         \/ \E j \in Jobs : \/ mr_log_init(j) \/ MainFork(j) \/ MainWait(j)
                            \/ DestroyClose(j) \/ DestroyUnlink(j)
                            \/ ChildMoves(j) \/ ChildDies(j) \/ ChildUnlinks(j)
         \/ UNCHANGED vars
  BY DEF Next, mr_run, child_process, ChildMoves

--------------------------------------------------------------------------------
(***************************************************************************)
(* Types, control points and the numbers of semaphores.                    *)
(***************************************************************************)

Core == DataOK /\ Control /\ Named

\* A failing call uses up one fault and is remembered.
LEMMA FailType ==
  ASSUME DataOK, NEW k, Fail(k)
  PROVE  /\ failed' \subseteq FaultKinds /\ faultsLeft' \in 0 .. MaxFaults
         /\ faultsLeft' = faultsLeft - 1 /\ failed' = failed \cup {k} /\ k \in FaultKinds
  BY BoundsAssumption DEF BoundsAssumption, DataOK, Fail

\* A running job has a semaphore.
LEMMA SemOfJob ==
  ASSUME Core, NEW l \in Loggers, pc[l] # "out"
  PROVE  /\ sem[l[1]] \in 1 .. made /\ sem[l[1]] \in Sems
         /\ main[l[1]] \notin {"init", "returned"}
<1>1. main[l[1]] \in {"start", "send", "status", "report", "wait", "killed"}
  BY LoggerPair DEF Core, Control
<1>2. sem[l[1]] \in 1 .. made
  BY <1>1, LoggerPair DEF Core, Named
<1> QED
  BY <1>1, <1>2, BoundsAssumption DEF Core, DataOK, Sems, BoundsAssumption

\* A killed child's threads are out, and its semaphore is orphaned when one was inside.
Killed(j, out) ==
  /\ pc' \in [Loggers -> {"out", "wait"} \cup Section]
  /\ \A l \in Loggers : pc'[l] = IF l \in ThreadsOf(j) \cup out THEN "out" ELSE pc[l]
  /\ child' \in [Jobs -> {"none", "ended", "dead"} \cup Live]
  /\ child'[j] \notin Live /\ \A k \in Jobs \ {j} : child'[k] = child[k]
  /\ lines' \in [Loggers -> 0 .. MaxLines]
  /\ \A l \in Loggers \ ThreadsOf(j) : lines'[l] = lines[l]
  /\ \/ orphaned' = orphaned /\ \A l \in ThreadsOf(j) : ~Inside(l)
     \/ /\ orphaned' = orphaned \cup {sem[j]} /\ sem[j] \in 1 .. made
        /\ \E l \in ThreadsOf(j) : Inside(l)

\* That is what Kill does.
LEMMA KillEffect ==
  ASSUME Core, NEW j \in Jobs, NEW out \in SUBSET Loggers, Kill(j, out)
  PROVE  Killed(j, out)
<1>1. \A l \in ThreadsOf(j) : child[j] \notin Live => pc[l] = "out"
  <2> SUFFICES ASSUME NEW l \in ThreadsOf(j), child[j] \notin Live PROVE pc[l] = "out"
    OBVIOUS
  <2>1. l \in Loggers /\ l[1] = j /\ l[2] # Main
    BY ThreadsAreLoggers
  <2> QED
    BY <2>1 DEF Core, Control, Live
<1>2. /\ pc' \in [Loggers -> {"out", "wait"} \cup Section]
      /\ \A l \in Loggers : pc'[l] = IF l \in ThreadsOf(j) \cup out THEN "out" ELSE pc[l]
  BY <1>1, ThreadsAreLoggers DEF Kill, Core, DataOK
<1>3. /\ child' \in [Jobs -> {"none", "ended", "dead"} \cup Live]
      /\ child'[j] \notin Live /\ \A k \in Jobs \ {j} : child'[k] = child[k]
  BY DEF Kill, Core, DataOK, Live, Logging
<1>4. /\ lines' \in [Loggers -> 0 .. MaxLines]
      /\ \A l \in Loggers \ ThreadsOf(j) : lines'[l] = lines[l]
  BY BoundsAssumption DEF BoundsAssumption, Kill, Core, DataOK
<1>5. ASSUME NEW l \in ThreadsOf(j), Inside(l)
      PROVE  sem[j] \in 1 .. made /\ orphaned' = orphaned \cup {sem[j]}
  <2>1. child[j] \in Live /\ sem[j] \in 1 .. made
    BY <1>5, <1>1, ThreadsAreLoggers, SemOfJob DEF Inside, Section
  <2> QED
    BY <1>5, <2>1 DEF Kill
<1>6. CASE \A l \in ThreadsOf(j) : ~Inside(l)
  <2>1. orphaned' = orphaned
    BY <1>6 DEF Kill
  <2> QED
    BY <2>1, <1>2, <1>3, <1>4, <1>6 DEF Killed
<1> QED
  BY <1>2, <1>3, <1>4, <1>5, <1>6 DEF Killed

\* The initial state.
LEMMA CoreInit == Init => Core
<1> SUFFICES ASSUME Init PROVE Core
  OBVIOUS
<1> USE BoundsAssumption, NoneAssumption DEF BoundsAssumption, NoneAssumption
<1>1. DataOK
  BY DEF Init, DataOK
<1>2. Control
  BY LoggerPair DEF Init, Control, OneStarts, Logging
<1>3. Named
  BY DEF Init, Named
<1> QED
  BY <1>1, <1>2, <1>3 DEF Core

\* sem_post keeps the values natural numbers.
LEMMA PostType ==
  ASSUME Core, NEW l \in Loggers, pc[l] # "out", SemPost(l)
  PROVE  /\ value' \in [Sems -> Nat]
         /\ \A s \in Sems : value'[s] = IF s = sem[l[1]] THEN value[s] + 1 ELSE value[s]
  BY SemOfJob DEF SemPost, Core, DataOK

\* What a returning call does to semaphores and faults keeps their types.
LEMMA LeaveData ==
  ASSUME Core, NEW l \in Loggers, NEW r \in {0, -1}, Leave(l, r)
  PROVE  /\ value' \in [Sems -> Nat] /\ failed' \subseteq FaultKinds
         /\ faultsLeft' \in 0 .. MaxFaults
         /\ \A s \in Sems : s > made => value'[s] = value[s]
<1>1. pc[l] # "out"
  BY DEF Leave
<1>2. value' = value \/ SemPost(l)
  BY DEF Leave
<1>3. /\ value' \in [Sems -> Nat]
      /\ \A s \in Sems : s > made => value'[s] = value[s]
  <2>1. CASE value' = value
    BY <2>1 DEF Core, DataOK
  <2>2. CASE SemPost(l)
    <3>1. sem[l[1]] \in 1 .. made /\ made \in Nat
      BY <1>1, SemOfJob, BoundsAssumption DEF Core, DataOK, BoundsAssumption
    <3>2. \A s \in Sems : s > made => s # sem[l[1]]
      BY <3>1 DEF Sems
    <3> QED
      BY <1>1, <2>2, <3>2, PostType
  <2> QED
    BY <1>2, <2>1, <2>2
<1>4. failed' \subseteq FaultKinds /\ faultsLeft' \in 0 .. MaxFaults
  BY FailType DEF Leave, Core, DataOK, budget
<1> QED
  BY <1>3, <1>4

\* A log call that returns to main.
LEMMA MainGoesOnCore ==
  ASSUME Core, NEW l \in Loggers, NEW r \in {0, -1}, Leave(l, r), MainGoesOn(l, r)
  PROVE  Core'
<1>1. l[1] \in Jobs /\ l[2] = Main
  BY LoggerPair DEF MainGoesOn
<1>2. pc[l] # "out" /\ main[l[1]] \in {"start", "send", "status", "report"}
  BY <1>1 DEF Leave, Core, Control
<1>3. /\ value' \in [Sems -> Nat] /\ failed' \subseteq FaultKinds
      /\ faultsLeft' \in 0 .. MaxFaults
      /\ \A s \in Sems : s > made => value'[s] = value[s]
  BY LeaveData
<1>4. UNCHANGED <<name, made, orphaned, child, lines, sem, ret, overlap, runsLeft>>
  BY DEF Leave, MainGoesOn
<1>5. PICK p \in {"fork", "wait", "close", "report"}, q \in {"out", "wait"} :
        /\ main' = [main EXCEPT ![l[1]] = p] /\ pc' = [pc EXCEPT ![l] = q]
        /\ q = "wait" => p = "report"
        /\ main[l[1]] = "send" => p = "wait"
        /\ main[l[1]] = "report" => p = "report"
  BY <1>2 DEF MainGoesOn, NextPoint
<1>6. DataOK'
  BY <1>1, <1>3, <1>4, <1>5 DEF Core, DataOK
<1>7. Control'
  <2>1. ASSUME NEW m \in Loggers, pc'[m] # "out", m[2] = Main
        PROVE  main'[m[1]] \in {"start", "send", "status", "report"}
    BY <2>1, <1>1, <1>5, LoggerPair DEF Core, Control, DataOK
  <2>2. ASSUME NEW m \in Loggers, pc'[m] # "out", m[2] # Main
        PROVE  pc[m] # "out" /\ child'[m[1]] \in Logging
    BY <2>2, <1>1, <1>4, <1>5 DEF Core, Control, DataOK
  <2>3. ASSUME NEW j \in Jobs, child'[j] \in Logging
        PROVE  main'[j] \in {"send", "wait", "report", "killed"}
    BY <2>3, <1>1, <1>2, <1>4, <1>5 DEF Core, Control, DataOK
  <2>4. OneStarts'
    BY <2>2, <1>4 DEF Core, Control, OneStarts
  <2> QED
    BY <2>1, <2>2, <2>3, <2>4 DEF Control, OneStarts
<1>8. Named'
  BY <1>1, <1>2, <1>3, <1>4, <1>5 DEF Core, Named, DataOK
<1> QED
  BY <1>6, <1>7, <1>8 DEF Core

\* A log call after which main gives the job up.
LEMMA MainGivesUpCore ==
  ASSUME Core, NEW l \in Loggers, NEW r \in {0, -1}, Leave(l, r), MainGivesUp(l, r)
  PROVE  Core'
<1> DEFINE j == l[1]
<1>1. j \in Jobs /\ l[2] = Main /\ main' = [main EXCEPT ![j] = "close"] /\ Kill(j, {l})
  BY LoggerPair DEF MainGivesUp
<1>2. pc[l] # "out" /\ main[j] \in {"start", "send", "status", "report"}
  BY <1>1 DEF Leave, Core, Control
<1>3. /\ value' \in [Sems -> Nat] /\ failed' \subseteq FaultKinds
      /\ faultsLeft' \in 0 .. MaxFaults
      /\ \A s \in Sems : s > made => value'[s] = value[s]
  BY LeaveData
<1>4. UNCHANGED <<name, made, sem, ret, overlap, runsLeft>>
  BY DEF Leave, MainGivesUp
<1> HIDE DEF j
<1>5. /\ pc' \in [Loggers -> {"out", "wait"} \cup Section]
      /\ \A m \in Loggers : pc'[m] = IF m \in ThreadsOf(j) \cup {l} THEN "out" ELSE pc[m]
      /\ child' \in [Jobs -> {"none", "ended", "dead"} \cup Live]
      /\ child'[j] \notin Live /\ \A k \in Jobs \ {j} : child'[k] = child[k]
      /\ lines' \in [Loggers -> 0 .. MaxLines]
      /\ \A m \in Loggers \ ThreadsOf(j) : lines'[m] = lines[m]
      /\ \/ orphaned' = orphaned
         \/ orphaned' = orphaned \cup {sem[j]} /\ sem[j] \in 1 .. made
  <2>1. {l} \in SUBSET Loggers
    OBVIOUS
  <2>2. Killed(j, {l})
    BY <1>1, <2>1, KillEffect
  <2> QED
    BY <2>2 DEF Killed
<1>6. sem[j] \in 1 .. made => sem[j] \in Sems
  BY BoundsAssumption DEF Core, DataOK, Sems, BoundsAssumption
<1>7. DataOK'
  BY <1>1, <1>3, <1>4, <1>5, <1>6 DEF Core, DataOK
<1>8. Control'
  <2>1. ASSUME NEW m \in Loggers, pc'[m] # "out"
        PROVE  m # l /\ (m[1] # j \/ m[2] = Main)
    BY <2>1, <1>1, <1>5, ThreadsAreLoggers
  <2>2. \A m \in Loggers : m[1] = j /\ m[2] = Main => m = l
    BY <1>1, LoggerPair DEF j
  <2>3. ASSUME NEW m \in Loggers, pc'[m] # "out"
        PROVE  /\ m[1] # j /\ pc[m] # "out" /\ main'[m[1]] = main[m[1]]
               /\ child'[m[1]] = child[m[1]]
    <3>1. m[1] # j /\ m[1] \in Jobs /\ m \notin ThreadsOf(j)
      BY <2>1, <2>2, <2>3, <1>1, LoggerPair, ThreadsAreLoggers
    <3> QED
      BY <3>1, <2>3, <1>1, <1>5 DEF Core, DataOK
  <2>4. ASSUME NEW k \in Jobs, child'[k] \in Logging
        PROVE  main'[k] \in {"send", "wait", "report", "killed"}
    BY <2>4, <1>1, <1>5 DEF Core, Control, DataOK, Live
  <2>5. OneStarts'
    BY <2>3 DEF OneStarts, Control, Core
  <2> QED
    BY <2>3, <2>4, <2>5 DEF Control, Core
<1>9. Named'
  BY <1>1, <1>2, <1>3, <1>4, <1>5 DEF Core, Named, DataOK
<1> QED
  BY <1>7, <1>8, <1>9 DEF Core

\* A log call that returns to a thread of a child, seen from outside: the thread goes on or
\* ends, or all threads of a child that was starting begin; the child goes on logging.
ThreadEffect(l) ==
  /\ UNCHANGED <<sem, main, err, ret, overlap, split, runsLeft, orphaned>>
  /\ child[l[1]] \in Logging
  /\ \E c \in Logging : /\ child' = [child EXCEPT ![l[1]] = c] /\ c # "starting"
                        /\ c = "escaping" => child[l[1]] = "escaping" \/ failed' # {}
  /\ lines' \in [Loggers -> 0 .. MaxLines]
  /\ pc' \in [Loggers -> {"out", "wait"} \cup Section]
  /\ pc'[l] \in {"out", "wait"}
  /\ \A m \in Loggers \ {l} :
       \/ pc'[m] = pc[m]
       \/ m \in ThreadsOf(l[1]) /\ pc[m] = "out" /\ pc'[m] = "wait"

\* It is a call that did not fail, or one that is remembered.
LEMMA LeaveFails ==
  ASSUME Core, NEW l \in Loggers, NEW r \in {0, -1}, Leave(l, r)
  PROVE  failed \subseteq failed' /\ (r # 0 => failed' # {})
  BY FailType DEF Leave, Core, budget

\* That is what it does.
LEMMA ThreadCases ==
  ASSUME Core, NEW l \in Loggers, NEW r \in {0, -1}, Leave(l, r),
         ChildStarts(l, r) \/ ThreadReturns(l, r)
  PROVE  l[2] # Main /\ ThreadEffect(l)
<1> DEFINE j == l[1]
<1>1. l[2] # Main /\ j \in Jobs /\ l \in ThreadsOf(j)
  BY LoggerPair DEF ChildStarts, ThreadReturns
<1>2. pc[l] # "out" /\ child[j] \in Logging
  BY <1>1 DEF Leave, Core, Control
<1>3. UNCHANGED <<sem, main, err, ret, overlap, split, runsLeft, orphaned>>
  BY DEF ChildStarts, ThreadReturns
<1>4. r # 0 => failed' # {}
  BY LeaveFails
<1>5. CASE ChildStarts(l, r) /\ r = 0
  <2>1. /\ child[j] = "starting" /\ child' = [child EXCEPT ![j] = "running"]
        /\ pc' = [k \in Loggers |-> IF k \in ThreadsOf(j) THEN "wait" ELSE pc[k]]
        /\ lines' = [k \in Loggers |-> IF k \in ThreadsOf(j) THEN MaxLines ELSE lines[k]]
    BY <1>5 DEF ChildStarts
  <2>2. ASSUME NEW m \in ThreadsOf(j) \ {l} PROVE pc[m] = "out"
    <3>1. m \in Loggers /\ m[1] = j /\ m[2] # Main
      BY <1>1, <2>2, ThreadsAreLoggers
    <3> QED
      BY <3>1, <2>1, <2>2, <1>1, <1>2 DEF Core, Control, OneStarts
  <2>3. /\ lines' \in [Loggers -> 0 .. MaxLines]
        /\ pc' \in [Loggers -> {"out", "wait"} \cup Section]
    BY <2>1, BoundsAssumption DEF Core, DataOK, BoundsAssumption
  <2>4. pc'[l] = "wait"
    BY <1>1, <2>1
  <2>5. ASSUME NEW m \in Loggers \ {l}
        PROVE  pc'[m] = pc[m] \/ (m \in ThreadsOf(j) /\ pc[m] = "out" /\ pc'[m] = "wait")
    BY <2>1, <2>2
  <2> QED
    BY <1>1, <1>2, <1>3, <2>1, <2>3, <2>4, <2>5 DEF ThreadEffect, Logging
<1>6. CASE ChildStarts(l, r) /\ r # 0
  <2>1. /\ child' = [child EXCEPT ![j] = "escaping"] /\ pc' = [pc EXCEPT ![l] = "wait"]
        /\ UNCHANGED lines
    BY <1>6 DEF ChildStarts
  <2> QED
    BY <1>1, <1>2, <1>3, <1>4, <1>6, <2>1 DEF ThreadEffect, Logging, Core, DataOK
<1>7. CASE ThreadReturns(l, r)
  <2>1. PICK n \in 0 .. MaxLines : lines' = [lines EXCEPT ![l] = n]
    <3>1. lines[l] \in 0 .. MaxLines /\ MaxLines \in Nat
      BY BoundsAssumption DEF Core, DataOK, BoundsAssumption
    <3>2. PICK n : /\ lines' = [lines EXCEPT ![l] = n]
                   /\ n = 0 \/ (lines[l] > 1 /\ n = lines[l] - 1)
      BY <1>7 DEF ThreadReturns
    <3>3. n \in 0 .. MaxLines
      BY <3>1, <3>2
    <3> QED
      BY <3>2, <3>3
  <2>2. PICK q \in {"out", "wait"} : pc' = [pc EXCEPT ![l] = q]
    BY <1>7 DEF ThreadReturns
  <2>3. /\ child[j] # "starting"
        /\ child' = child \/ (child[j] = "running" /\ child' = [child EXCEPT ![j] = "hung"])
    BY <1>7 DEF ThreadReturns
  <2>4. PICK c \in Logging : /\ child' = [child EXCEPT ![j] = c] /\ c # "starting"
                             /\ c = "escaping" => child[j] = "escaping"
    <3>1. CASE child' = child
      BY <3>1, <1>1, <1>2, <2>3 DEF Core, DataOK
    <3>2. CASE child' = [child EXCEPT ![j] = "hung"]
      BY <3>2 DEF Logging
    <3> QED
      BY <2>3, <3>1, <3>2
  <2>5. /\ lines' \in [Loggers -> 0 .. MaxLines]
        /\ pc' \in [Loggers -> {"out", "wait"} \cup Section] /\ pc'[l] \in {"out", "wait"}
        /\ \A m \in Loggers \ {l} : pc'[m] = pc[m]
    BY <2>1, <2>2 DEF Core, DataOK
  <2> QED
    BY <1>1, <1>2, <1>3, <2>4, <2>5 DEF ThreadEffect
<1> QED
  BY <1>5, <1>6, <1>7

\* So it keeps types and control points.
LEMMA ThreadCore ==
  ASSUME Core, NEW l \in Loggers, NEW r \in {0, -1}, Leave(l, r), l[2] # Main,
         ThreadEffect(l)
  PROVE  Core'
<1> DEFINE j == l[1]
<1>1. j \in Jobs /\ l[2] # Main /\ l \in ThreadsOf(j) /\ l[1] = j
  BY LoggerPair
<1>2. /\ value' \in [Sems -> Nat] /\ failed' \subseteq FaultKinds
      /\ faultsLeft' \in 0 .. MaxFaults
      /\ \A s \in Sems : s > made => value'[s] = value[s]
  BY LeaveData
<1>3. UNCHANGED <<name, made, orphaned, main, sem, ret, overlap, runsLeft>>
  BY DEF Leave, ThreadEffect
<1>4. PICK c \in Logging : child' = [child EXCEPT ![j] = c] /\ c # "starting"
  BY DEF ThreadEffect
<1>5. /\ lines' \in [Loggers -> 0 .. MaxLines] /\ child[j] \in Logging
      /\ pc' \in [Loggers -> {"out", "wait"} \cup Section]
      /\ \A m \in Loggers \ {l} : pc'[m] = pc[m] \/ m \in ThreadsOf(j)
  BY DEF ThreadEffect
<1> HIDE DEF j
<1>6. DataOK'
  BY <1>1, <1>2, <1>3, <1>4, <1>5 DEF Core, DataOK, Live
<1>7. Control'
  <2>1. /\ child'[j] = c /\ c \in Logging
        /\ \A k \in Jobs \ {j} : child'[k] = child[k]
    BY <1>1, <1>4 DEF Core, DataOK
  <2>2. ASSUME NEW m \in Loggers, m[1] # j \/ m[2] = Main
        PROVE  pc'[m] = pc[m] /\ m[1] \in Jobs
    <3>1. m \notin ThreadsOf(j) /\ m # l
      BY <2>2, <1>1, ThreadsAreLoggers
    <3> QED
      BY <3>1, <1>5, LoggerPair
  <2>3. ASSUME NEW m \in Loggers, pc'[m] # "out", m[2] = Main
        PROVE  main'[m[1]] \in {"start", "send", "status", "report"}
    BY <2>2, <2>3, <1>3 DEF Core, Control
  <2>4. ASSUME NEW m \in Loggers, pc'[m] # "out", m[2] # Main
        PROVE  child'[m[1]] \in Logging
    BY <2>1, <2>2, <2>4 DEF Core, Control
  <2>5. ASSUME NEW k \in Jobs, child'[k] \in Logging
        PROVE  main'[k] \in {"send", "wait", "report", "killed"}
    BY <2>1, <2>5, <1>3, <1>5 DEF Core, Control
  <2>6. OneStarts'
    <3> SUFFICES ASSUME NEW m \in Loggers, NEW n \in Loggers, m[1] = n[1], m[2] # Main,
                        n[2] # Main, child'[m[1]] = "starting", pc'[m] # "out", pc'[n] # "out"
                 PROVE  m = n
      BY DEF OneStarts
    <3>1. m[1] # j
      BY <2>1, <1>4
    <3>2. pc[m] # "out" /\ pc[n] # "out" /\ child[m[1]] = "starting"
      BY <3>1, <2>1, <2>2
    <3> QED
      BY <3>2 DEF Core, Control, OneStarts
  <2> QED
    BY <2>3, <2>4, <2>5, <2>6 DEF Control
<1>8. Named'
  BY <1>2, <1>3 DEF Core, Named
<1> QED
  BY <1>6, <1>7, <1>8 DEF Core

\* sem_wait, writing and fflush.
LEMMA InsideCore ==
  ASSUME Core, NEW l \in Loggers, Take(l) \/ Write(l) \/ LogFlush(l)
  PROVE  Core'
<1>1. pc[l] # "out"
  BY DEF Take, Write, LogFlush
<1>2. sem[l[1]] \in 1 .. made /\ sem[l[1]] \in Sems
  BY <1>1, SemOfJob
<1>3. UNCHANGED <<name, made, orphaned, job, lines>>
  BY DEF Take, Write, WritePart, LogFlush
<1>4. PICK q \in Section : pc' = [pc EXCEPT ![l] = q]
  BY DEF Take, Write, WritePart, LogFlush, Section, After
<1>5. failed' \subseteq FaultKinds /\ faultsLeft' \in 0 .. MaxFaults
  BY FailType DEF Take, Write, WritePart, LogFlush, Core, DataOK, budget
<1>6. /\ value' \in [Sems -> Nat]
      /\ \A s \in Sems : s # sem[l[1]] => value'[s] = value[s]
  <2>1. CASE Take(l)
    BY <2>1, <1>2 DEF Take, Core, DataOK
  <2>2. CASE UNCHANGED value
    BY <2>2 DEF Core, DataOK
  <2>3. CASE SemPost(l)
    BY <2>3, <1>1, PostType
  <2> QED
    BY <2>1, <2>2, <2>3 DEF Write, WritePart, LogFlush
<1>7. DataOK'
  BY <1>3, <1>4, <1>5, <1>6 DEF Core, DataOK, job
<1>8. Control'
  <2>1. \A m \in Loggers : pc'[m] # "out" => pc[m] # "out"
    BY <1>1, <1>4 DEF Core, DataOK
  <2>2. OneStarts'
    BY <2>1, <1>3 DEF Core, Control, OneStarts, job
  <2> QED
    BY <2>1, <2>2, <1>3 DEF Core, Control, job
<1>9. Named'
  <2>1. made \in Nat
    BY BoundsAssumption DEF Core, DataOK, BoundsAssumption
  <2>2. \A s \in Sems : s > made => s # sem[l[1]]
    BY <1>2, <2>1 DEF Sems
  <2> QED
    BY <1>3, <1>6, <2>2 DEF Core, Named, job
<1> QED
  BY <1>7, <1>8, <1>9 DEF Core

\* mr_log.
LEMMA LogCore == ASSUME Core, NEW l \in Loggers, mr_log(l) PROVE Core'
<1>1. ASSUME NEW r \in {0, -1}, Leave(l, r) PROVE Core'
  <2>1. Return(l, r)
    BY <1>1 DEF Leave
  <2> QED
    BY <1>1, <2>1, ReturnCases, MainGoesOnCore, MainGivesUpCore, ThreadCases, ThreadCore
<1> QED
  BY <1>1, LogCases, InsideCore

\* No thread of a job is in mr_log before the log is opened, or after it is destroyed.
LEMMA QuietJob ==
  ASSUME Core, NEW j \in Jobs, pc[<<j, Main>>] = "out",
         main[j] \notin {"send", "wait", "report", "killed"}
  PROVE  child[j] \notin Logging /\ \A l \in Loggers : l[1] = j => pc[l] = "out"
<1>1. child[j] \notin Logging
  BY DEF Core, Control
<1>2. ASSUME NEW l \in Loggers, l[1] = j PROVE pc[l] = "out"
  <2>1. CASE l[2] = Main
    BY <2>1, <1>2, LoggerPair
  <2>2. CASE l[2] # Main
    BY <2>2, <1>1, <1>2 DEF Core, Control
  <2> QED
    BY <2>1, <2>2
<1> QED
  BY <1>1, <1>2

\* Opening the log: with a semaphore that is there, or a new one.
OpenOk(j, s) ==
  /\ s = IF name = None THEN made + 1 ELSE name
  /\ name' = s /\ sem' = [sem EXCEPT ![j] = s]
  /\ IF name = None THEN made' = s /\ value' = [value EXCEPT ![s] = 1]
                    ELSE UNCHANGED <<made, value>>
  /\ main' = [main EXCEPT ![j] = "start"]
  /\ pc' = [pc EXCEPT ![<<j, Main>>] = "wait"]
  /\ ret' = [ret EXCEPT ![j] = "none"]
  /\ overlap' = IF {k \in Jobs \ {j} : Open(k)} = {} THEN overlap \ {j}
                ELSE overlap \cup {k \in Jobs \ {j} : Open(k)} \cup {j}
  /\ split' = (split \/ \E k \in {m \in Jobs \ {j} : Open(m)} : sem[k] # s)
  /\ UNCHANGED budget
OpenFails(j) ==
  /\ Fail("open") /\ main' = [main EXCEPT ![j] = "returned"]
  /\ ret' = [ret EXCEPT ![j] = "error"]
  /\ UNCHANGED <<name, made, value, sem, overlap, split, pc>>

\* mr_log_init takes one of them.
LEMMA OpenCases ==
  ASSUME Core, NEW j \in Jobs, mr_log_init(j)
  PROVE  /\ main[j] \in {"init", "returned"} /\ pc[<<j, Main>>] = "out"
         /\ runsLeft > 0 /\ runsLeft' = runsLeft - 1
         /\ child[j] \notin Logging /\ child' = [child EXCEPT ![j] = "none"]
         /\ err' = [err EXCEPT ![j] = FALSE]
         /\ UNCHANGED <<orphaned, lines, stdio>>
         /\ (\E s : OpenOk(j, s)) \/ OpenFails(j)
<1>1. /\ main[j] \in {"init", "returned"} /\ pc[<<j, Main>>] = "out"
      /\ runsLeft > 0 /\ runsLeft' = runsLeft - 1
      /\ child' = [child EXCEPT ![j] = "none"] /\ err' = [err EXCEPT ![j] = FALSE]
      /\ UNCHANGED <<orphaned, lines, stdio>>
  BY DEF mr_log_init, At
<1>2. child[j] \notin Logging
  BY <1>1, QuietJob
<1>3. CASE OpenFails(j)
  BY <1>1, <1>2, <1>3
<1>4. CASE ~OpenFails(j)
  <2> DEFINE s == IF name = None THEN made + 1 ELSE name
  <2>1. GotoLog(j, "start", {})
    BY <1>4 DEF mr_log_init, OpenFails, Goto
  <2>2. pc' = [pc EXCEPT ![<<j, Main>>] = "wait"]
    BY <2>1 DEF GotoLog, Core, DataOK
  <2>3. OpenOk(j, s)
    BY <1>4, <2>1, <2>2 DEF mr_log_init, OpenFails, OpenOk, GotoLog, Goto
  <2> QED
    BY <1>1, <1>2, <2>3
<1> QED
  BY <1>3, <1>4

\* A new semaphore has the next number.
LEMMA OpenNumber ==
  ASSUME Core, NEW j \in Jobs, mr_log_init(j), NEW s, OpenOk(j, s)
  PROVE  /\ made \in Nat /\ made' \in Nat /\ made <= made' /\ s \in 1 .. made' /\ s \in Sems
         /\ made' + runsLeft' <= MaxRuns /\ made' \in 0 .. MaxRuns
         /\ \/ name # None /\ s = name /\ s \in 1 .. made /\ UNCHANGED <<made, value>>
            \/ /\ name = None /\ s = made + 1 /\ made' = s
               /\ value' = [value EXCEPT ![s] = 1]
<1>1. /\ made \in Nat /\ runsLeft \in Nat /\ runsLeft > 0 /\ runsLeft' = runsLeft - 1
      /\ made + runsLeft <= MaxRuns /\ MaxRuns \in Nat
  <2>1. runsLeft > 0 /\ runsLeft' = runsLeft - 1
    BY DEF mr_log_init
  <2>2. /\ made \in 0 .. MaxRuns /\ runsLeft \in 0 .. MaxRuns /\ made + runsLeft <= MaxRuns
        /\ MaxRuns \in Nat
    BY BoundsAssumption DEF Core, DataOK, Named, BoundsAssumption
  <2> QED
    BY <2>1, <2>2
<1> USE <1>1
<1>2. CASE name = None
  BY <1>2 DEF OpenOk, Sems
<1>3. CASE name # None
  BY <1>3 DEF OpenOk, Sems, Core, Named
<1> QED
  BY <1>2, <1>3

\* mr_log_init.
LEMMA InitLogCore == ASSUME Core, NEW j \in Jobs, mr_log_init(j) PROVE Core'
<1>1. /\ main[j] \in {"init", "returned"} /\ pc[<<j, Main>>] = "out"
      /\ runsLeft > 0 /\ runsLeft' = runsLeft - 1
      /\ child[j] \notin Logging /\ child' = [child EXCEPT ![j] = "none"]
      /\ UNCHANGED <<orphaned, lines>>
      /\ (\E s : OpenOk(j, s)) \/ OpenFails(j)
  BY OpenCases
<1>2. runsLeft' \in 0 .. MaxRuns
  BY <1>1, BoundsAssumption DEF Core, DataOK, BoundsAssumption
<1>3. child' \in [Jobs -> {"none", "ended", "dead"} \cup Live]
  BY <1>1 DEF Core, DataOK
<1>4. ASSUME NEW s, OpenOk(j, s) PROVE Core'
  <2>1. /\ made \in Nat /\ made' \in Nat /\ made <= made' /\ s \in 1 .. made' /\ s \in Sems
        /\ made' + runsLeft' <= MaxRuns
        /\ \/ name # None /\ s = name /\ s \in 1 .. made /\ UNCHANGED <<made, value>>
           \/ /\ name = None /\ s = made + 1 /\ made' = s
              /\ value' = [value EXCEPT ![s] = 1]
    BY <1>4, OpenNumber
  <2>2. /\ name' = s /\ sem' = [sem EXCEPT ![j] = s]
        /\ main' = [main EXCEPT ![j] = "start"]
        /\ pc' = [pc EXCEPT ![<<j, Main>>] = "wait"]
        /\ ret' = [ret EXCEPT ![j] = "none"] /\ overlap' \subseteq Jobs
        /\ UNCHANGED <<failed, faultsLeft>>
    BY <1>4 DEF OpenOk, budget, Core, DataOK
  <2>3. made' \in 0 .. MaxRuns
    BY <1>4, OpenNumber
  <2>4. value' \in [Sems -> Nat]
    BY <2>1 DEF Core, DataOK
  <2>5. DataOK'
    BY <1>1, <1>2, <1>3, <2>1, <2>2, <2>3, <2>4 DEF Core, DataOK
  <2>6. Control'
    <3>1. ASSUME NEW l \in Loggers, pc'[l] # "out", l[2] = Main
          PROVE  main'[l[1]] \in {"start", "send", "status", "report"}
      BY <3>1, <2>2, LoggerPair DEF Core, Control, DataOK
    <3>2. ASSUME NEW l \in Loggers, pc'[l] # "out", l[2] # Main
          PROVE  pc[l] # "out" /\ l[1] # j /\ l[1] \in Jobs /\ child'[l[1]] \in Logging
      <4>1. pc[l] # "out"
        BY <3>2, <2>2 DEF Core, DataOK
      <4> QED
        BY <4>1, <3>2, <1>1, LoggerPair DEF Core, Control, DataOK
    <3>3. ASSUME NEW k \in Jobs, child'[k] \in Logging
          PROVE  main'[k] \in {"send", "wait", "report", "killed"}
      BY <3>3, <1>1, <2>2 DEF Core, Control, DataOK, Logging
    <3>4. OneStarts'
      BY <3>2, <1>1 DEF Core, Control, OneStarts, DataOK
    <3> QED
      BY <3>1, <3>2, <3>3, <3>4 DEF Control
  <2>7. Named'
    <3>1. \A k \in Jobs : sem'[k] = None \/ sem'[k] \in 1 .. made'
      BY <2>1, <2>2 DEF Core, Named, DataOK
    <3>2. \A k \in Jobs : main'[k] \notin {"init", "returned"} => sem'[k] \in 1 .. made'
      BY <2>1, <2>2 DEF Core, Named, DataOK
    <3>3. orphaned' \subseteq 1 .. made'
      BY <1>1, <2>1 DEF Core, Named
    <3>4. \A t \in Sems : t > made' => value'[t] = 0
      <4> SUFFICES ASSUME NEW t \in Sems, t > made' PROVE value'[t] = 0
        OBVIOUS
      <4>1. t \in Nat /\ t > made /\ t # s
        BY <2>1 DEF Sems
      <4> QED
        BY <4>1, <2>1 DEF Core, Named, DataOK
    <3> QED
      BY <2>1, <2>2, <3>1, <3>2, <3>3, <3>4 DEF Named
  <2> QED
    BY <2>5, <2>6, <2>7 DEF Core
<1>5. CASE OpenFails(j)
  <2>1. /\ main' = [main EXCEPT ![j] = "returned"] /\ ret' = [ret EXCEPT ![j] = "error"]
        /\ failed' \subseteq FaultKinds /\ faultsLeft' \in 0 .. MaxFaults
        /\ UNCHANGED <<name, made, value, sem, overlap, pc>>
    BY <1>5, FailType DEF OpenFails, Core
  <2>2. DataOK'
    BY <1>1, <1>2, <1>3, <2>1 DEF Core, DataOK
  <2>3. \A l \in Loggers : l[1] = j => pc[l] = "out"
    BY <1>1, QuietJob
  <2>4. Control'
    <3>1. ASSUME NEW l \in Loggers, pc'[l] # "out"
          PROVE  /\ l[1] # j /\ l[1] \in Jobs /\ pc[l] # "out"
                 /\ main'[l[1]] = main[l[1]] /\ child'[l[1]] = child[l[1]]
      BY <3>1, <1>1, <2>1, <2>3, LoggerPair DEF Core, DataOK
    <3>2. ASSUME NEW k \in Jobs, child'[k] \in Logging
          PROVE  main'[k] \in {"send", "wait", "report", "killed"}
      BY <3>2, <1>1, <2>1 DEF Core, Control, DataOK, Logging
    <3>3. OneStarts'
      BY <3>1 DEF Core, Control, OneStarts
    <3> QED
      BY <3>1, <3>2, <3>3 DEF Core, Control
  <2>5. Named'
    BY <1>1, <2>1, BoundsAssumption DEF Core, Named, DataOK, BoundsAssumption
  <2> QED
    BY <2>2, <2>4, <2>5 DEF Core
<1> QED
  BY <1>1, <1>4, <1>5

\* spawn_processes: main and one thread of the child begin to log.
LEMMA ForkCases ==
  ASSUME Core, NEW j \in Jobs, MainFork(j)
  PROVE  /\ main[j] = "fork" /\ pc[<<j, Main>>] = "out"
         /\ \A l \in Loggers : l[1] = j => pc[l] = "out"
         /\ child' = [child EXCEPT ![j] = "starting"] /\ main' = [main EXCEPT ![j] = "send"]
         /\ UNCHANGED <<kernel, sem, lines, err, ret, overlap, runsLeft, budget>>
         /\ \E t \in ThreadsOf(j) :
              \A l \in Loggers : pc'[l] = IF l \in {t, <<j, Main>>} THEN "wait" ELSE pc[l]
         /\ pc' \in [Loggers -> {"out", "wait"} \cup Section]
<1>1. /\ main[j] = "fork" /\ pc[<<j, Main>>] = "out"
      /\ child' = [child EXCEPT ![j] = "starting"]
      /\ UNCHANGED <<kernel, sem, lines, err, ret, overlap, runsLeft, budget>>
  BY DEF MainFork, At
<1>2. PICK t \in ThreadsOf(j) : GotoLog(j, "send", {t})
  BY DEF MainFork
<1>3. /\ main' = [main EXCEPT ![j] = "send"]
      /\ pc' = [l \in Loggers |-> IF l \in {t} \cup {<<j, Main>>} THEN "wait" ELSE pc[l]]
  BY <1>2 DEF GotoLog, Goto
<1>4. \A l \in Loggers : l[1] = j => pc[l] = "out"
  BY <1>1, QuietJob
<1>5. /\ \A l \in Loggers : pc'[l] = IF l \in {t, <<j, Main>>} THEN "wait" ELSE pc[l]
      /\ pc' \in [Loggers -> {"out", "wait"} \cup Section]
  BY <1>3 DEF Core, DataOK
<1> QED
  BY <1>1, <1>3, <1>4, <1>5

\* It keeps types and control points.
LEMMA ForkCore == ASSUME Core, NEW j \in Jobs, MainFork(j) PROVE Core'
<1>1. /\ main[j] = "fork" /\ child' = [child EXCEPT ![j] = "starting"]
      /\ main' = [main EXCEPT ![j] = "send"]
      /\ UNCHANGED <<kernel, sem, lines, err, ret, overlap, runsLeft, budget>>
      /\ \A l \in Loggers : l[1] = j => pc[l] = "out"
      /\ pc' \in [Loggers -> {"out", "wait"} \cup Section]
  BY ForkCases
<1>2. PICK t \in ThreadsOf(j) :
        \A l \in Loggers : pc'[l] = IF l \in {t, <<j, Main>>} THEN "wait" ELSE pc[l]
  BY ForkCases
<1>3. DataOK'
  BY <1>1 DEF Core, DataOK, kernel, budget, Live, Logging
<1>4. Control'
  <2>1. ASSUME NEW l \in Loggers, l[1] # j
        PROVE  /\ pc'[l] = pc[l] /\ l[1] \in Jobs
               /\ main'[l[1]] = main[l[1]] /\ child'[l[1]] = child[l[1]]
    <3>1. l \notin ThreadsOf(j) /\ l # <<j, Main>> /\ l[1] \in Jobs
      <4>1. <<j, Main>>[1] = j
        OBVIOUS
      <4> QED
        BY <4>1, <2>1, LoggerPair, ThreadsAreLoggers
    <3> QED
      BY <3>1, <2>1, <1>1, <1>2 DEF Core, DataOK
  <2>2. main'[j] = "send" /\ child'[j] = "starting"
    BY <1>1 DEF Core, DataOK
  <2>3. ASSUME NEW l \in Loggers, pc'[l] # "out", l[2] = Main
        PROVE  main'[l[1]] \in {"start", "send", "status", "report"}
    BY <2>1, <2>2, <2>3 DEF Core, Control
  <2>4. ASSUME NEW l \in Loggers, pc'[l] # "out", l[2] # Main
        PROVE  child'[l[1]] \in Logging
    BY <2>1, <2>2, <2>4 DEF Core, Control, Logging
  <2>5. ASSUME NEW k \in Jobs, child'[k] \in Logging
        PROVE  main'[k] \in {"send", "wait", "report", "killed"}
    BY <2>2, <2>5, <1>1 DEF Core, Control, DataOK
  <2>6. OneStarts'
    <3> SUFFICES ASSUME NEW l \in Loggers, NEW m \in Loggers, l[1] = m[1], l[2] # Main,
                        m[2] # Main, child'[l[1]] = "starting", pc'[l] # "out", pc'[m] # "out"
                 PROVE  l = m
      BY DEF OneStarts
    <3>1. CASE l[1] = j
      <4>1. l # <<j, Main>> /\ m # <<j, Main>>
        OBVIOUS
      <4> QED
        BY <3>1, <4>1, <1>1, <1>2
    <3>2. CASE l[1] # j
      BY <3>2, <2>1 DEF Core, Control, OneStarts
    <3> QED
      BY <3>1, <3>2
  <2> QED
    BY <2>3, <2>4, <2>5, <2>6 DEF Control
<1>5. Named'
  BY <1>1 DEF Core, Named, DataOK, kernel
<1> QED
  BY <1>3, <1>4, <1>5 DEF Core

\* Main waits for its child, gives up, or is killed; only its own place changes, and
\* perhaps that it logs next.
LEMMA WaitCases ==
  ASSUME Core, NEW j \in Jobs, MainWait(j)
  PROVE  /\ main[j] = "wait" /\ pc[<<j, Main>>] = "out"
         /\ UNCHANGED <<kernel, child, lines, sem, err, ret, overlap, split, runsLeft, stdio>>
         /\ \/ /\ main' = [main EXCEPT ![j] = "status"] /\ child[j] \in {"ended", "dead"}
               /\ pc' = [pc EXCEPT ![<<j, Main>>] = "wait"] /\ UNCHANGED budget
            \/ /\ main' = [main EXCEPT ![j] = "report"] /\ Fail("run")
               /\ pc' = [pc EXCEPT ![<<j, Main>>] = "wait"]
            \/ /\ main' = [main EXCEPT ![j] = "killed"] /\ UNCHANGED pc
               /\ UNCHANGED budget \/ Fail("run")
<1>1. /\ main[j] = "wait" /\ pc[<<j, Main>>] = "out"
      /\ UNCHANGED <<kernel, child, lines, sem, err, ret, overlap, split, runsLeft, stdio>>
  BY DEF MainWait, At, kernel
<1>2. ASSUME NEW p, GotoLog(j, p, {})
      PROVE  main' = [main EXCEPT ![j] = p] /\ pc' = [pc EXCEPT ![<<j, Main>>] = "wait"]
  BY <1>2 DEF GotoLog, Goto, Core, DataOK
<1> QED
  BY <1>1, <1>2 DEF MainWait, Goto

\* Waiting for the child.
LEMMA WaitCore == ASSUME Core, NEW j \in Jobs, MainWait(j) PROVE Core'
<1>1. /\ main[j] = "wait" /\ pc[<<j, Main>>] = "out"
      /\ UNCHANGED <<kernel, child, lines, sem, err, ret, overlap, runsLeft>>
  BY WaitCases
<1>2. PICK p \in {"status", "report", "killed"} :
        /\ main' = [main EXCEPT ![j] = p]
        /\ p = "status" => child[j] \notin Logging
        /\ \/ pc' = [pc EXCEPT ![<<j, Main>>] = "wait"] /\ p # "killed"
           \/ pc' = pc
        /\ UNCHANGED budget \/ Fail("run")
  BY WaitCases DEF Logging
<1>3. failed' \subseteq FaultKinds /\ faultsLeft' \in 0 .. MaxFaults
  BY <1>2, FailType DEF Core, DataOK, budget
<1>4. DataOK'
  BY <1>1, <1>2, <1>3 DEF Core, DataOK, kernel
<1>5. Control'
  <2>1. ASSUME NEW l \in Loggers, pc'[l] # "out", l[2] = Main
        PROVE  main'[l[1]] \in {"start", "send", "status", "report"}
    BY <2>1, <1>1, <1>2, LoggerPair DEF Core, Control, DataOK
  <2>2. ASSUME NEW l \in Loggers, pc'[l] # "out", l[2] # Main
        PROVE  pc[l] # "out" /\ child'[l[1]] \in Logging
    BY <2>2, <1>1, <1>2 DEF Core, Control, DataOK
  <2>3. ASSUME NEW k \in Jobs, child'[k] \in Logging
        PROVE  main'[k] \in {"send", "wait", "report", "killed"}
    BY <2>3, <1>1, <1>2 DEF Core, Control, DataOK
  <2>4. OneStarts'
    BY <2>2, <1>1 DEF Core, Control, OneStarts
  <2> QED
    BY <2>1, <2>2, <2>3, <2>4 DEF Control
<1>6. Named'
  BY <1>1, <1>2 DEF Core, Named, DataOK, kernel
<1> QED
  BY <1>4, <1>5, <1>6 DEF Core

\* mr_log_destroy.
LEMMA DestroyCore ==
  ASSUME Core, NEW j \in Jobs, DestroyClose(j) \/ DestroyUnlink(j)
  PROVE  Core'
<1>1. PICK p \in {"unlink", "returned"} :
        /\ main' = [main EXCEPT ![j] = p]
        /\ main[j] \in {"close", "unlink"} /\ pc[<<j, Main>>] = "out"
  BY DEF DestroyClose, DestroyUnlink, At, Goto
<1>2. /\ UNCHANGED <<made, value, orphaned, sem, child, overlap, runsLeft, pc, lines>>
      /\ name' = name \/ name' = None
      /\ UNCHANGED budget \/ Fail("close")
  BY DEF DestroyClose, DestroyUnlink, kernel
<1>3. ret' \in [Jobs -> {"none", "ok", "error"}]
  BY DEF DestroyClose, DestroyUnlink, Core, DataOK
<1>4. failed' \subseteq FaultKinds /\ faultsLeft' \in 0 .. MaxFaults
  BY <1>2, FailType DEF Core, DataOK, budget
<1>5. DataOK'
  BY <1>1, <1>2, <1>3, <1>4 DEF Core, DataOK
<1>6. \A l \in Loggers : l[1] = j => pc[l] = "out"
  BY <1>1, QuietJob
<1>7. Control'
  <2>1. child[j] \notin Logging
    BY <1>1, QuietJob
  <2>2. ASSUME NEW l \in Loggers, pc[l] # "out"
        PROVE  l[1] # j /\ l[1] \in Jobs /\ main'[l[1]] = main[l[1]]
    BY <2>2, <1>1, <1>6, LoggerPair DEF Core, DataOK
  <2>3. ASSUME NEW k \in Jobs, child[k] \in Logging
        PROVE  main'[k] \in {"send", "wait", "report", "killed"}
    BY <2>1, <2>3, <1>1 DEF Core, Control, DataOK
  <2>4. OneStarts'
    BY <1>2 DEF Core, Control, OneStarts
  <2> QED
    BY <1>2, <2>2, <2>3, <2>4 DEF Core, Control
<1>8. Named'
  BY <1>1, <1>2 DEF Core, Named, DataOK
<1> QED
  BY <1>5, <1>7, <1>8 DEF Core

\* A child that moves goes on logging with the same threads, or has none in mr_log.
LEMMA MoveCases ==
  ASSUME Core, NEW j \in Jobs, ChildMoves(j) \/ ChildUnlinks(j)
  PROVE  /\ UNCHANGED <<made, value, orphaned, sem, main, err, ret, overlap, split,
                        runsLeft, pc, lines>>
         /\ failed \subseteq failed'
         /\ failed' \subseteq FaultKinds /\ faultsLeft' \in 0 .. MaxFaults
         /\ faultsLeft' <= faultsLeft
         /\ \E c \in {"hung", "ended", "escaped"} :
              /\ child' = [child EXCEPT ![j] = c]
              /\ c = "hung" => child[j] \in Logging
              /\ c # "hung" => \A l \in ThreadsOf(j) : pc[l] = "out"
<1>1. faultsLeft \in Nat
  BY BoundsAssumption DEF Core, DataOK, BoundsAssumption
<1>2. CASE ChildExit(j)
  BY <1>1, <1>2 DEF ChildExit, kernel, budget, Core, DataOK
<1>3. CASE ChildHangs(j)
  BY <1>1, <1>3, FailType DEF ChildHangs, kernel, Core, Logging
<1>4. CASE EscapedExits(j)
  <2>1. ASSUME NEW l \in ThreadsOf(j) PROVE pc[l] = "out"
    <3>1. l \in Loggers /\ l[1] = j /\ l[2] # Main
      BY ThreadsAreLoggers
    <3>2. child[j] \notin Logging
      BY <1>4 DEF EscapedExits, Logging
    <3> QED
      BY <3>1, <3>2 DEF Core, Control
  <2> QED
    BY <1>1, <1>4, <2>1 DEF EscapedExits, kernel, budget, Core, DataOK
<1>5. CASE ChildUnlinks(j)
  BY <1>1, <1>5 DEF ChildUnlinks, budget, Core, DataOK
<1> QED
  BY <1>2, <1>3, <1>4, <1>5 DEF ChildMoves

\* The child hangs, ends, escapes or is killed.
LEMMA ChildCore ==
  ASSUME Core, NEW j \in Jobs, ChildMoves(j) \/ ChildDies(j) \/ ChildUnlinks(j)
  PROVE  Core'
<1>1. CASE ChildMoves(j) \/ ChildUnlinks(j)
  <2>1. /\ UNCHANGED <<made, value, orphaned, sem, main, ret, overlap, runsLeft, pc, lines>>
        /\ failed' \subseteq FaultKinds /\ faultsLeft' \in 0 .. MaxFaults
    BY <1>1, MoveCases
  <2>2. PICK c \in {"hung", "ended", "escaped"} :
          /\ child' = [child EXCEPT ![j] = c]
          /\ c = "hung" => child[j] \in Logging
          /\ c # "hung" => \A l \in ThreadsOf(j) : pc[l] = "out"
    BY <1>1, MoveCases
  <2>3. name' = name \/ name' = None
    BY <1>1 DEF ChildMoves, ChildExit, ChildHangs, EscapedExits, ChildUnlinks, kernel
  <2>4. DataOK'
    BY <2>1, <2>2, <2>3 DEF Core, DataOK, Live, Logging
  <2>5. child'[j] = c /\ \A k \in Jobs \ {j} : child'[k] = child[k]
    BY <2>2 DEF Core, DataOK
  <2>6. ASSUME NEW l \in Loggers, pc[l] # "out", l[2] # Main
        PROVE  child'[l[1]] \in Logging
    <3>1. CASE l[1] = j
      BY <3>1, <2>2, <2>5, <2>6, ThreadsAreLoggers DEF Logging
    <3>2. CASE l[1] # j
      BY <3>2, <2>5, <2>6, LoggerPair DEF Core, Control
    <3> QED
      BY <3>1, <3>2
  <2>7. ASSUME NEW k \in Jobs, child'[k] \in Logging
        PROVE  main[k] \in {"send", "wait", "report", "killed"}
    BY <2>2, <2>5, <2>7 DEF Core, Control, Logging
  <2>8. OneStarts'
    BY <2>1, <2>5, LoggerPair DEF Core, Control, OneStarts
  <2>9. Control'
    BY <2>1, <2>6, <2>7, <2>8 DEF Core, Control
  <2>10. Named'
    BY <2>1, <2>3 DEF Core, Named
  <2> QED
    BY <2>4, <2>9, <2>10 DEF Core
<1>2. CASE ChildDies(j)
  <2>0. UNCHANGED <<name, made, value, sem, main, ret, overlap, runsLeft>>
    BY <1>2 DEF ChildDies
  <2>1. Kill(j, {}) /\ failed' \subseteq FaultKinds /\ faultsLeft' \in 0 .. MaxFaults
    BY <1>2, FailType DEF ChildDies, Core
  <2>2. Killed(j, {})
    BY <2>1, KillEffect
  <2>3. sem[j] \in 1 .. made => sem[j] \in Sems
    BY BoundsAssumption DEF Core, DataOK, Sems, BoundsAssumption
  <2>4. DataOK'
    BY <2>0, <2>1, <2>2, <2>3 DEF Core, DataOK, Killed
  <2>5. Control'
    <3>1. ASSUME NEW l \in Loggers, pc'[l] # "out", l[2] # Main
          PROVE  pc[l] # "out" /\ child'[l[1]] = child[l[1]] /\ child'[l[1]] \in Logging
      <4>1. l \notin ThreadsOf(j) /\ l[1] \in Jobs /\ l[1] # j /\ pc[l] # "out"
        BY <3>1, <2>2, LoggerPair, ThreadsAreLoggers DEF Killed
      <4> QED
        BY <4>1, <3>1, <2>2 DEF Killed, Core, Control
    <3>2. ASSUME NEW k \in Jobs, child'[k] \in Logging
          PROVE  main'[k] \in {"send", "wait", "report", "killed"}
      BY <3>2, <2>0, <2>2 DEF Killed, Core, Control, Live
    <3>3. OneStarts'
      BY <3>1 DEF Core, Control, OneStarts
    <3>4. ASSUME NEW l \in Loggers, pc'[l] # "out", l[2] = Main
          PROVE  main'[l[1]] \in {"start", "send", "status", "report"}
      BY <3>4, <2>0, <2>2 DEF Killed, Core, Control
    <3> QED
      BY <3>1, <3>2, <3>3, <3>4 DEF Control
  <2>6. Named'
    BY <2>0, <2>2 DEF Core, Named, DataOK, Killed
  <2> QED
    BY <2>4, <2>5, <2>6 DEF Core
<1> QED
  BY <1>1, <1>2

\* Every step keeps types, control points and numbers.
LEMMA CoreStep == Core /\ [Next]_vars => Core'
<1> SUFFICES ASSUME Core, [Next]_vars PROVE Core'
  OBVIOUS
<1>1. CASE UNCHANGED vars
  BY <1>1 DEF vars, kernel, job, budget, Core, DataOK, Control, OneStarts, Named
<1> QED
  BY <1>1, NextCases, LogCore, InitLogCore, ForkCore, WaitCore, DestroyCore, ChildCore

--------------------------------------------------------------------------------
(***************************************************************************)
(* Tokens: a semaphore's value and the threads between its wait and its    *)
(* post.                                                                   *)
(***************************************************************************)

\* There are finitely many of them.
LEMMA HoldersFinite ==
  ASSUME NEW s
  PROVE  /\ IsFiniteSet(Holders(s)) /\ Cardinality(Holders(s)) \in Nat
         /\ IsFiniteSet(Holders(s)') /\ Cardinality(Holders(s)') \in Nat
<1>1. IsFiniteSet(Threads \cup {Main})
  BY FiniteAssumption, FS_AddElement DEF FiniteAssumption
<1>2. IsFiniteSet(Loggers)
  BY <1>1, FiniteAssumption, FS_Product DEF FiniteAssumption, Loggers
<1>3. Holders(s) \in SUBSET Loggers /\ Holders(s)' \in SUBSET Loggers
  BY DEF Holders
<1>4. IsFiniteSet(Holders(s)) /\ IsFiniteSet(Holders(s)')
  BY <1>2, <1>3, FS_Subset
<1> QED
  BY <1>4, FS_CardinalityType

\* A step with respect to one semaphore: its tokens are bounded by the faults that are left,
\* are not more than before unless fflush fails, and are the same unless a holder dies.
TokenStep(s) ==
  /\ Tokens(s)' + faultsLeft' <= Tokens(s) + faultsLeft
  /\ "flush" \notin failed' => Tokens(s)' <= Tokens(s)
  /\ failed' \cap {"flush", "post"} = {} /\ Tokens(s) <= 1 =>
       \/ Tokens(s)' = Tokens(s) /\ (s \in orphaned' <=> s \in orphaned)
       \/ Tokens(s)' = 0 /\ s \in orphaned'

\* A step that makes a semaphore, or none.
TokensStep ==
  /\ failed \subseteq failed'
  /\ made' \in Nat
  /\ \A s \in Sems : s # made + 1 \/ made' = made => TokenStep(s)
  /\ \/ made' = made
     \/ \E s \in Sems :
          s = made + 1 /\ made' = s /\ Tokens(s)' = 1 /\ s \notin orphaned'

\* Steps of this kind keep the invariants.
LEMMA TokensKept ==
  ASSUME Core, Core', Bounded, TokenConserved, TokensStep
  PROVE  Bounded' /\ TokenConserved'
<1>1. /\ made \in Nat /\ made <= MaxRuns /\ made' <= MaxRuns /\ MaxRuns \in Nat
      /\ MaxFaults \in Nat /\ faultsLeft' \in Nat /\ faultsLeft' <= MaxFaults
      /\ faultsLeft \in Nat
  BY BoundsAssumption DEF Core, DataOK, BoundsAssumption
<1>2. \A s \in Sems : Tokens(s) \in Nat /\ Tokens(s)' \in Nat
  BY HoldersFinite DEF Tokens, Core, DataOK
<1>3. ASSUME NEW s \in Sems
      PROVE  /\ Tokens(s)' + faultsLeft' <= 1 + MaxFaults
             /\ "flush" \notin failed' => Tokens(s)' <= 1
  <2>1. CASE s = made + 1 /\ made' # made
    BY <2>1, <1>1, <1>2 DEF TokensStep
  <2>2. CASE ~(s = made + 1 /\ made' # made)
    BY <2>2, <1>1, <1>2 DEF TokensStep, TokenStep, Bounded
  <2> QED
    BY <2>1, <2>2
<1>4. Bounded'
  BY <1>3 DEF Bounded
<1>5. ASSUME failed' \cap {"flush", "post"} = {}, NEW s \in 1 .. made'
      PROVE  Tokens(s)' = IF s \in orphaned' THEN 0 ELSE 1
  <2>1. CASE s = made + 1 /\ made' # made
    BY <2>1 DEF TokensStep
  <2>2. CASE ~(s = made + 1 /\ made' # made)
    <3>1. s \in Sems /\ s \in 1 .. made
      BY <2>2, <1>1 DEF TokensStep, Sems
    <3>2. Tokens(s) = IF s \in orphaned THEN 0 ELSE 1
      BY <3>1, <1>5 DEF TokenConserved, Tokens, TokensStep
    <3> QED
      BY <3>1, <3>2, <2>2, <1>5 DEF TokensStep, TokenStep
  <2> QED
    BY <2>1, <2>2
<1>6. TokenConserved'
  BY <1>5 DEF TokenConserved, Tokens
<1> QED
  BY <1>4, <1>6

\* A step that moves no thread in or out and posts nothing.
LEMMA TokensSame ==
  ASSUME Core, Core', UNCHANGED <<made, value, orphaned>>, failed \subseteq failed',
         faultsLeft' <= faultsLeft,
         \A l \in Loggers : Inside(l)' <=> Inside(l),
         \A l \in Loggers : Inside(l) => sem'[l[1]] = sem[l[1]]
  PROVE  TokensStep
<1>1. \A s \in Sems : Holders(s)' = Holders(s)
  BY DEF Holders
<1>2. \A s \in Sems : Tokens(s)' = Tokens(s) /\ Tokens(s) \in Nat
  BY <1>1, HoldersFinite DEF Tokens, Core, DataOK
<1>3. faultsLeft \in Nat /\ faultsLeft' \in Nat /\ made' \in Nat
  BY BoundsAssumption DEF Core, DataOK, BoundsAssumption
<1> QED
  BY <1>2, <1>3 DEF TokensStep, TokenStep

\* What can happen to one semaphore: nothing,
LEMMA TokenSame ==
  ASSUME Core, Core', NEW s \in Sems, Holders(s)' = Holders(s), value'[s] = value[s],
         s \in orphaned' <=> s \in orphaned, faultsLeft' <= faultsLeft
  PROVE  TokenStep(s)
<1>1. Tokens(s)' = Tokens(s) /\ Tokens(s) \in Nat
  BY HoldersFinite DEF Tokens, Core, DataOK
<1>2. faultsLeft \in Nat /\ faultsLeft' \in Nat
  BY BoundsAssumption DEF Core, DataOK, BoundsAssumption
<1> QED
  BY <1>1, <1>2 DEF TokenStep

\* a holder posts it,
LEMMA TokenPosted ==
  ASSUME Core, Core', NEW s \in Sems, NEW l \in Holders(s), Holders(s)' = Holders(s) \ {l},
         value'[s] = value[s] + 1, s \in orphaned' <=> s \in orphaned,
         faultsLeft' <= faultsLeft
  PROVE  TokenStep(s)
<1>1. Cardinality(Holders(s)') = Cardinality(Holders(s)) - 1
  <2>1. IsFiniteSet(Holders(s)) /\ l \in Holders(s)
    BY HoldersFinite
  <2>2. Cardinality(Holders(s) \ {l}) = Cardinality(Holders(s)) - 1
    BY <2>1, FS_RemoveElement
  <2> QED
    BY <2>2
<1>2. Tokens(s)' = Tokens(s) /\ Tokens(s) \in Nat
  BY <1>1, HoldersFinite DEF Tokens, Core, DataOK
<1>3. faultsLeft \in Nat /\ faultsLeft' \in Nat
  BY BoundsAssumption DEF Core, DataOK, BoundsAssumption
<1> QED
  BY <1>2, <1>3 DEF TokenStep

\* a holder leaves without posting it,
LEMMA TokenLost ==
  ASSUME Core, Core', NEW s \in Sems, Holders(s)' \subseteq Holders(s), value'[s] = value[s],
         "post" \in failed', faultsLeft' <= faultsLeft
  PROVE  TokenStep(s)
<1>1. Cardinality(Holders(s)') <= Cardinality(Holders(s))
  BY HoldersFinite, FS_Subset
<1>2. Tokens(s)' <= Tokens(s) /\ Tokens(s) \in Nat /\ Tokens(s)' \in Nat
  BY <1>1, HoldersFinite DEF Tokens, Core, DataOK
<1>3. faultsLeft \in Nat /\ faultsLeft' \in Nat
  BY BoundsAssumption DEF Core, DataOK, BoundsAssumption
<1> QED
  BY <1>2, <1>3 DEF TokenStep

\* or holders die, and perhaps another one posts it in the same step.
LEMMA TokenOrphaned ==
  ASSUME Core, Core', NEW s \in Sems, Holders(s)' \subseteq Holders(s), s \in orphaned',
         NEW t \in Holders(s) \ Holders(s)', NEW l,
         \/ value'[s] = value[s]
         \/ value'[s] = value[s] + 1 /\ l # t /\ l \in Holders(s) \ Holders(s)',
         faultsLeft' <= faultsLeft
  PROVE  TokenStep(s)
<1> DEFINE H == Holders(s)
           K == Holders(s)'
           R == H \ {t}
<1>1. /\ IsFiniteSet(H) /\ Cardinality(H) \in Nat /\ IsFiniteSet(K) /\ Cardinality(K) \in Nat
  BY HoldersFinite
<1>2. K \subseteq R /\ t \in H
  OBVIOUS
<1> HIDE DEF H, K
<1>3. IsFiniteSet(R) /\ Cardinality(R) = Cardinality(H) - 1
  BY <1>1, <1>2, FS_RemoveElement
<1>4. Cardinality(K) <= Cardinality(R)
  BY <1>2, <1>3, FS_Subset
<1>5. CASE value'[s] = value[s]
  <2>1. Tokens(s)' < Tokens(s) /\ Tokens(s) \in Nat /\ Tokens(s)' \in Nat
    BY <1>1, <1>3, <1>4, <1>5 DEF Tokens, Core, DataOK, H, K
  <2>2. faultsLeft \in Nat /\ faultsLeft' \in Nat
    BY BoundsAssumption DEF Core, DataOK, BoundsAssumption
  <2> QED
    BY <2>1, <2>2 DEF TokenStep
<1>6. CASE value'[s] = value[s] + 1 /\ l # t /\ l \in Holders(s) \ Holders(s)'
  <2>1. K \subseteq R \ {l} /\ l \in R
    BY <1>2, <1>6 DEF H, K
  <2>2. IsFiniteSet(R \ {l}) /\ Cardinality(R \ {l}) = Cardinality(R) - 1
    BY <2>1, <1>3, FS_RemoveElement
  <2>3. Cardinality(K) <= Cardinality(R \ {l})
    BY <2>1, <2>2, FS_Subset
  <2>4. Tokens(s)' < Tokens(s) /\ Tokens(s) \in Nat /\ Tokens(s)' \in Nat
    BY <1>1, <1>3, <2>2, <2>3, <1>6 DEF Tokens, Core, DataOK, H, K
  <2>5. faultsLeft \in Nat /\ faultsLeft' \in Nat
    BY BoundsAssumption DEF Core, DataOK, BoundsAssumption
  <2> QED
    BY <2>4, <2>5 DEF TokenStep
<1> QED
  BY <1>5, <1>6

\* sem_wait: the token goes from the value to the holder.
LEMMA TakeTokens ==
  ASSUME Core, Core', NEW l \in Loggers, Take(l)
  PROVE  TokensStep
<1> DEFINE d == sem[l[1]]
<1>1. d \in Sems
  BY SemOfJob DEF Take
<1>2. /\ value[d] > 0 /\ value' = [value EXCEPT ![d] = value[d] - 1]
      /\ pc[l] = "wait" /\ pc' = [pc EXCEPT ![l] = "text"]
      /\ UNCHANGED <<made, orphaned, sem, failed, faultsLeft>>
  BY DEF Take, job, budget
<1> HIDE DEF d
<1>3. ASSUME NEW s \in Sems PROVE TokenStep(s)
  <2>1. CASE s = d
    <3>1. l \notin Holders(s) /\ Holders(s)' = Holders(s) \cup {l}
      BY <2>1, <1>2 DEF Holders, Inside, Section, Core, DataOK, d
    <3>2. Cardinality(Holders(s)') = Cardinality(Holders(s)) + 1
      BY <3>1, HoldersFinite, FS_AddElement
    <3>3. Tokens(s)' = Tokens(s) /\ Tokens(s) \in Nat
      BY <2>1, <3>2, <1>2, HoldersFinite DEF Tokens, Core, DataOK
    <3>4. faultsLeft \in Nat
      BY BoundsAssumption DEF Core, DataOK, BoundsAssumption
    <3> QED
      BY <3>3, <3>4, <1>2 DEF TokenStep
  <2>2. CASE s # d
    <3>1. Holders(s)' = Holders(s)
      BY <2>2, <1>2 DEF Holders, Inside, Section, Core, DataOK, d
    <3>2. faultsLeft' <= faultsLeft
      BY <1>2, BoundsAssumption DEF Core, DataOK, BoundsAssumption
    <3> QED
      BY <2>2, <3>1, <3>2, <1>1, <1>2, TokenSame DEF Core, DataOK
  <2> QED
    BY <2>1, <2>2
<1>4. made' \in Nat
  BY BoundsAssumption DEF Core, DataOK, BoundsAssumption
<1> QED
  BY <1>2, <1>3, <1>4 DEF TokensStep

\* Writing and flushing; a failing fflush posts once more than it should.
LEMMA FlushTokens ==
  ASSUME Core, Core', NEW l \in Loggers, Write(l) \/ LogFlush(l)
  PROVE  TokensStep
<1> DEFINE d == sem[l[1]]
<1>1. d \in Sems /\ pc[l] # "out"
  BY SemOfJob DEF Write, LogFlush
<1>2. /\ UNCHANGED <<made, orphaned, sem>>
      /\ \A m \in Loggers : Inside(m)' <=> Inside(m)
  BY DEF Write, WritePart, LogFlush, job, Inside, Section, After, Core, DataOK
<1>3. faultsLeft \in Nat /\ made' \in Nat
  BY BoundsAssumption DEF Core, DataOK, BoundsAssumption
<1>4. CASE UNCHANGED <<value, failed, faultsLeft>>
  BY <1>2, <1>3, <1>4, TokensSame
<1>5. CASE Fail("flush") /\ SemPost(l)
  <2>1. /\ "flush" \in failed' /\ failed \subseteq failed' /\ faultsLeft' = faultsLeft - 1
    BY <1>5, FailType DEF Core
  <2>2. ASSUME NEW s \in Sems PROVE TokenStep(s)
    <3>1. Holders(s)' = Holders(s)
      BY <1>2 DEF Holders
    <3>2. value'[s] = value[s] \/ value'[s] = value[s] + 1
      BY <1>1, <1>5, PostType
    <3>3. /\ Tokens(s)' = Tokens(s) \/ Tokens(s)' = Tokens(s) + 1
          /\ Tokens(s) \in Nat
      BY <3>1, <3>2, HoldersFinite DEF Tokens, Core, DataOK
    <3> QED
      BY <2>1, <3>3, <1>3 DEF TokenStep
  <2> QED
    BY <2>1, <2>2, <1>2, <1>3 DEF TokensStep
<1> QED
  BY <1>4, <1>5 DEF Write, WritePart, LogFlush, budget

\* What a log call that returns does to the threads inside: its own thread leaves, and when
\* main gives up over a child with a thread inside, that one dies too.
Deaths(j, l) ==
  \E t \in Loggers : /\ t # l /\ t[1] = j /\ Inside(t) /\ pc'[t] = "out"
                     /\ orphaned' = orphaned \cup {sem[j]}
LeaveEffect(l) ==
  /\ UNCHANGED <<made, sem>> /\ failed \subseteq failed' /\ faultsLeft' <= faultsLeft
  /\ pc'[l] \in {"out", "wait"}
  /\ \A m \in Loggers : Inside(m)' => Inside(m) /\ pc'[m] = pc[m]
  /\ \A m \in Loggers : m[1] # l[1] => (Inside(m)' <=> Inside(m))
  /\ \/ orphaned' = orphaned /\ \A m \in Loggers \ {l} : Inside(m)' <=> Inside(m)
     \/ Deaths(l[1], l)

\* That is what Return does.
LEMMA LeaveInside ==
  ASSUME Core, Core', NEW l \in Loggers, NEW r \in {0, -1}, Leave(l, r)
  PROVE  LeaveEffect(l)
<1>1. MainGoesOn(l, r) \/ MainGivesUp(l, r) \/ ThreadEffect(l)
  BY ReturnCases, ThreadCases DEF Leave
<1>2. UNCHANGED <<made, sem>>
  BY <1>1 DEF Leave, MainGoesOn, MainGivesUp, ThreadEffect
<1>3. failed \subseteq failed' /\ faultsLeft' <= faultsLeft
  <2>1. faultsLeft \in Nat
    BY BoundsAssumption DEF Core, DataOK, BoundsAssumption
  <2> QED
    BY <2>1, FailType DEF Leave, Core, budget
<1>4. CASE MainGoesOn(l, r) \/ ThreadEffect(l)
  <2>1. orphaned' = orphaned
    BY <1>4 DEF MainGoesOn, ThreadEffect
  <2>2. /\ pc'[l] \in {"out", "wait"}
        /\ \A m \in Loggers \ {l} : pc'[m] = pc[m] \/ (pc[m] = "out" /\ pc'[m] = "wait")
    BY <1>4 DEF MainGoesOn, ThreadEffect, Core, DataOK
  <2>3. ~Inside(l)'
    BY <2>2 DEF Inside, Section
  <2>4. \A m \in Loggers \ {l} : /\ Inside(m)' <=> Inside(m)
                                 /\ Inside(m)' => pc'[m] = pc[m]
    BY <2>2 DEF Inside, Section
  <2> QED
    BY <1>2, <1>3, <2>1, <2>2, <2>3, <2>4 DEF LeaveEffect
<1>5. CASE MainGivesUp(l, r)
  <2> DEFINE j == l[1]
  <2>1. Kill(j, {l}) /\ j \in Jobs /\ l[2] = Main /\ {l} \in SUBSET Loggers
    BY <1>5, LoggerPair DEF MainGivesUp
  <2>2. Killed(j, {l})
    BY <2>1, KillEffect
  <2> HIDE DEF j
  <2>3. \A m \in Loggers : pc'[m] = IF m \in ThreadsOf(j) \cup {l} THEN "out" ELSE pc[m]
    BY <2>2 DEF Killed
  <2>4. /\ pc'[l] = "out"
        /\ \A m \in Loggers : Inside(m)' => Inside(m) /\ pc'[m] = pc[m]
    BY <2>3 DEF Inside, Section
  <2>5. \A m \in Loggers : m[1] # j => m \notin ThreadsOf(j) \cup {l}
    BY <2>1, ThreadsAreLoggers DEF j
  <2>6. \A m \in Loggers : m[1] # j => (Inside(m)' <=> Inside(m))
    BY <2>3, <2>5 DEF Inside
  <2>7. CASE orphaned' = orphaned /\ \A m \in ThreadsOf(j) : ~Inside(m)
    <3>1. \A m \in Loggers \ {l} : Inside(m)' <=> Inside(m)
      BY <2>3, <2>4, <2>7 DEF Inside
    <3> QED
      BY <1>2, <1>3, <2>4, <2>6, <2>7, <3>1 DEF LeaveEffect, j
  <2>8. CASE orphaned' = orphaned \cup {sem[j]} /\ \E m \in ThreadsOf(j) : Inside(m)
    <3>1. PICK t \in ThreadsOf(j) : Inside(t)
      BY <2>8
    <3>2. t \in Loggers /\ t # l /\ t[1] = j
      BY <2>1, ThreadsAreLoggers
    <3>3. pc'[t] = "out"
      BY <2>3, <3>2
    <3>4. Deaths(j, l)
      BY <2>8, <3>1, <3>2, <3>3 DEF Deaths
    <3> QED
      BY <1>2, <1>3, <2>4, <2>6, <3>4 DEF LeaveEffect, j
  <2> QED
    BY <2>2, <2>7, <2>8 DEF Killed
<1> QED
  BY <1>1, <1>4, <1>5

\* The tokens when a log call returns.
LEMMA LeaveTokens ==
  ASSUME Core, Core', NEW l \in Loggers, NEW r \in {0, -1}, Leave(l, r)
  PROVE  TokensStep
<1> DEFINE d == sem[l[1]]
<1>1. d \in Sems /\ pc[l] # "out"
  BY SemOfJob DEF Leave
<1>2. LeaveEffect(l)
  BY LeaveInside
<1>3. ~Inside(l)'
  BY <1>2 DEF LeaveEffect, Inside, Section
<1>4. \/ UNCHANGED value /\ (Inside(l) => "post" \in failed')
      \/ SemPost(l) /\ Inside(l)
  BY FailType DEF Leave, Inside, Section, Core
<1>5. ASSUME NEW s \in Sems PROVE TokenStep(s)
  <2>1. Holders(s)' \subseteq Holders(s) \ {l}
    BY <1>2, <1>3 DEF Holders, LeaveEffect
  <2>2. faultsLeft' <= faultsLeft
    BY <1>2 DEF LeaveEffect
  <2>3. CASE s # d
    <3>1. Holders(s)' = Holders(s)
      BY <1>2, <2>3 DEF Holders, LeaveEffect
    <3>2. value'[s] = value[s]
      BY <1>1, <1>4, <2>3, PostType
    <3>3. s \in orphaned' <=> s \in orphaned
      BY <1>2, <2>3 DEF LeaveEffect, Deaths
    <3> QED
      BY <2>2, <3>1, <3>2, <3>3, TokenSame
  <2>4. CASE s = d /\ orphaned' = orphaned /\ \A m \in Loggers \ {l} : Inside(m)' <=> Inside(m)
    <3>1. Holders(s)' = Holders(s) \ {l}
      BY <1>2, <1>3, <2>4 DEF Holders, LeaveEffect
    <3>2. CASE UNCHANGED value /\ ~Inside(l)
      <4>1. Holders(s)' = Holders(s)
        BY <3>1, <3>2 DEF Holders
      <4> QED
        BY <2>2, <2>4, <3>2, <4>1, TokenSame
    <3>3. CASE UNCHANGED value /\ "post" \in failed'
      BY <2>1, <2>2, <3>3, TokenLost
    <3>4. CASE SemPost(l) /\ Inside(l)
      <4>1. l \in Holders(s) /\ value'[s] = value[s] + 1
        BY <1>1, <2>4, <3>4, PostType DEF Holders
      <4> QED
        BY <2>2, <2>4, <3>1, <4>1, TokenPosted
    <3> QED
      BY <1>4, <3>2, <3>3, <3>4
  <2>5. CASE s = d /\ Deaths(l[1], l)
    <3>1. PICK t \in Loggers : /\ t # l /\ t[1] = l[1] /\ Inside(t) /\ pc'[t] = "out"
                               /\ orphaned' = orphaned \cup {d}
      BY <2>5 DEF Deaths
    <3>2. t \in Holders(s) \ Holders(s)' /\ s \in orphaned'
      BY <2>5, <3>1 DEF Holders, Inside, Section
    <3>3. \/ value'[s] = value[s]
          \/ value'[s] = value[s] + 1 /\ l # t /\ l \in Holders(s) \ Holders(s)'
      <4>1. CASE UNCHANGED value
        BY <4>1
      <4>2. CASE SemPost(l) /\ Inside(l)
        BY <4>2, <1>1, <1>3, <2>5, <3>1, PostType DEF Holders
      <4> QED
        BY <1>4, <4>1, <4>2
    <3> QED
      BY <2>1, <2>2, <3>2, <3>3, TokenOrphaned
  <2> QED
    BY <1>2, <2>3, <2>4, <2>5 DEF LeaveEffect
<1>6. made' = made /\ made' \in Nat /\ failed \subseteq failed'
  BY <1>2, BoundsAssumption DEF LeaveEffect, Core, DataOK, BoundsAssumption
<1> QED
  BY <1>5, <1>6 DEF TokensStep

\* mr_log_init makes a free semaphore or takes the one that is there.
LEMMA InitLogTokens ==
  ASSUME Core, Core', NEW j \in Jobs, mr_log_init(j)
  PROVE  TokensStep
<1>1. /\ main[j] \in {"init", "returned"} /\ pc[<<j, Main>>] = "out" /\ UNCHANGED orphaned
      /\ (\E s : OpenOk(j, s)) \/ OpenFails(j)
  BY OpenCases
<1>2. \A l \in Loggers : l[1] = j => pc[l] = "out"
  BY <1>1, QuietJob
<1>3. faultsLeft \in Nat /\ made \in Nat
  BY BoundsAssumption DEF Core, DataOK, BoundsAssumption
<1>4. CASE OpenFails(j)
  <2>1. /\ UNCHANGED <<made, value, sem, pc>>
        /\ failed \subseteq failed' /\ faultsLeft' <= faultsLeft
    BY <1>3, <1>4, FailType DEF OpenFails, Core
  <2> QED
    BY <1>1, <2>1, TokensSame DEF Inside
<1>5. ASSUME NEW s, OpenOk(j, s) PROVE TokensStep
  <2>1. /\ s \in Sems
        /\ \/ name # None /\ s \in 1 .. made /\ UNCHANGED <<made, value>>
           \/ /\ name = None /\ s = made + 1 /\ made' = s
              /\ value' = [value EXCEPT ![s] = 1]
    BY <1>5, OpenNumber
  <2>2. /\ sem' = [sem EXCEPT ![j] = s] /\ pc' = [pc EXCEPT ![<<j, Main>>] = "wait"]
        /\ UNCHANGED <<failed, faultsLeft>>
    BY <1>5 DEF OpenOk, budget
  <2>3. \A l \in Loggers : Inside(l)' <=> Inside(l)
    BY <1>1, <2>2, ThreadsAreLoggers DEF Inside, Section, Core, DataOK
  <2>4. \A l \in Loggers : Inside(l) => sem'[l[1]] = sem[l[1]]
    BY <1>2, <2>2, LoggerPair DEF Inside, Section, Core, DataOK
  <2>5. CASE UNCHANGED <<made, value>>
    BY <1>1, <1>3, <2>2, <2>3, <2>4, <2>5, TokensSame
  <2>6. CASE s = made + 1 /\ made' = s /\ value' = [value EXCEPT ![s] = 1]
    <3>1. \A t \in Sems : Holders(t)' = Holders(t)
      BY <2>3, <2>4 DEF Holders
    <3>2. Holders(s) = {}
      <4> SUFFICES ASSUME NEW l \in Loggers, Inside(l), sem[l[1]] = s PROVE FALSE
        BY DEF Holders
      <4>1. sem[l[1]] \in 1 .. made
        BY SemOfJob DEF Inside, Section
      <4> QED
        BY <4>1, <2>6, <1>3
    <3>3. Tokens(s)' = 1
      <4>1. value'[s] = 1
        BY <2>1, <2>6 DEF Core, DataOK
      <4>2. Holders(s)' = {}
        BY <3>1, <3>2, <2>1
      <4>3. Cardinality(Holders(s)') = 0
        BY <4>2, FS_EmptySet
      <4> QED
        BY <4>1, <4>3 DEF Tokens
    <3>4. s \notin orphaned'
      BY <1>1, <1>3, <2>6 DEF Core, Named
    <3>5. ASSUME NEW t \in Sems, t # s PROVE TokenStep(t)
      <4>1. value'[t] = value[t]
        BY <3>5, <2>6 DEF Core, DataOK
      <4> QED
        BY <1>1, <1>3, <2>2, <3>1, <4>1, TokenSame
    <3> QED
      BY <1>3, <2>1, <2>2, <2>6, <3>3, <3>4, <3>5 DEF TokensStep
  <2> QED
    BY <2>1, <2>5, <2>6
<1> QED
  BY <1>1, <1>4, <1>5

\* spawn_processes moves nobody in or out.
LEMMA ForkInside ==
  ASSUME Core, NEW j \in Jobs, MainFork(j)
  PROVE  \A l \in Loggers : (Inside(l)' <=> Inside(l)) /\ (Inside(l) => pc'[l] = pc[l])
<1>1. \A l \in Loggers : l[1] = j => pc[l] = "out"
  BY ForkCases
<1>2. PICK t \in ThreadsOf(j) :
        \A l \in Loggers : pc'[l] = IF l \in {t, <<j, Main>>} THEN "wait" ELSE pc[l]
  BY ForkCases
<1>3. t[1] = j /\ <<j, Main>>[1] = j
  BY ThreadsAreLoggers
<1>4. ASSUME NEW l \in Loggers, l[1] # j PROVE pc'[l] = pc[l]
  BY <1>2, <1>3, <1>4
<1>5. ASSUME NEW l \in Loggers, l[1] = j PROVE pc[l] = "out" /\ pc'[l] \in {"out", "wait"}
  BY <1>1, <1>2, <1>5
<1> QED
  BY <1>4, <1>5 DEF Inside, Section

\* The other steps of main and of the child move nobody in, and nobody out unless a signal
\* kills the child.
LEMMA OtherTokens ==
  ASSUME Core, Core', NEW j \in Jobs,
         \/ MainFork(j) \/ MainWait(j) \/ DestroyClose(j) \/ DestroyUnlink(j)
         \/ ChildMoves(j) \/ ChildDies(j) \/ ChildUnlinks(j)
  PROVE  TokensStep
<1>1. faultsLeft \in Nat /\ made' \in Nat
  BY BoundsAssumption DEF Core, DataOK, BoundsAssumption
<1>2. /\ UNCHANGED <<made, value, sem>>
      /\ failed \subseteq failed' /\ faultsLeft' <= faultsLeft
  BY <1>1, FailType, MoveCases
  DEF Core, MainFork, MainWait, DestroyClose, DestroyUnlink, ChildDies, kernel, budget
<1>3. CASE MainFork(j)
  <2>1. UNCHANGED orphaned
    BY <1>3 DEF MainFork, kernel
  <2>2. \A l \in Loggers : Inside(l)' <=> Inside(l)
    BY <1>3, ForkInside
  <2> QED
    BY <1>2, <2>1, <2>2, TokensSame
<1>4. CASE MainWait(j)
  <2>1. /\ pc[<<j, Main>>] = "out" /\ UNCHANGED orphaned
        /\ pc' = pc \/ pc' = [pc EXCEPT ![<<j, Main>>] = "wait"]
    BY <1>4, WaitCases DEF kernel
  <2>2. \A l \in Loggers : Inside(l)' <=> Inside(l)
    BY <2>1 DEF Inside, Section, Core, DataOK
  <2> QED
    BY <1>2, <2>1, <2>2, TokensSame
<1>5. CASE DestroyClose(j) \/ DestroyUnlink(j) \/ ChildMoves(j) \/ ChildUnlinks(j)
  <2>1. UNCHANGED <<orphaned, pc>>
    BY <1>5, MoveCases DEF DestroyClose, DestroyUnlink, kernel
  <2> QED
    BY <1>2, <2>1, TokensSame DEF Inside
<1>6. CASE ChildDies(j)
  <2>1. Killed(j, {})
    BY <1>6, KillEffect DEF ChildDies
  <2>2. \A m \in Loggers : pc'[m] = IF m \in ThreadsOf(j) THEN "out" ELSE pc[m]
    BY <2>1 DEF Killed
  <2>3. CASE orphaned' = orphaned /\ \A l \in ThreadsOf(j) : ~Inside(l)
    <3>1. \A l \in Loggers : Inside(l)' <=> Inside(l)
      BY <2>2, <2>3 DEF Inside, Section
    <3> QED
      BY <1>2, <2>3, <3>1, TokensSame
  <2>4. CASE orphaned' = orphaned \cup {sem[j]} /\ \E l \in ThreadsOf(j) : Inside(l)
    <3>1. PICK t \in ThreadsOf(j) : Inside(t)
      BY <2>4
    <3>2. t \in Loggers /\ t[1] = j
      BY ThreadsAreLoggers
    <3>3. ASSUME NEW s \in Sems PROVE TokenStep(s)
      <4>1. Holders(s)' \subseteq Holders(s)
        BY <1>2, <2>2 DEF Holders, Inside, Section
      <4>2. CASE s = sem[j]
        <5>1. t \in Holders(s) \ Holders(s)' /\ s \in orphaned'
          BY <4>2, <3>1, <3>2, <2>2, <2>4 DEF Holders, Inside, Section
        <5> QED
          BY <1>2, <4>1, <5>1, TokenOrphaned
      <4>3. CASE s # sem[j]
        <5>1. Holders(s)' = Holders(s)
          <6>1. ASSUME NEW m \in Loggers, sem[m[1]] = s PROVE pc'[m] = pc[m]
            BY <6>1, <4>3, <2>2, ThreadsAreLoggers
          <6>2. sem' = sem
            BY <1>2
          <6> QED
            BY <6>1, <6>2 DEF Holders, Inside
        <5> QED
          BY <4>3, <5>1, <1>2, <2>4, TokenSame
      <4> QED
        BY <4>2, <4>3
    <3> QED
      BY <1>1, <1>2, <3>3 DEF TokensStep
  <2> QED
    BY <2>1, <2>3, <2>4 DEF Killed
<1> QED
  BY <1>3, <1>4, <1>5, <1>6

\* The initial state has no semaphore.
LEMMA TokensInit == Init => Bounded /\ TokenConserved
<1> SUFFICES ASSUME Init PROVE Bounded /\ TokenConserved
  OBVIOUS
<1>1. ASSUME NEW s \in Sems PROVE Tokens(s) = 0
  <2>1. Holders(s) = {} /\ value[s] = 0
    BY <1>1 DEF Init, Holders, Inside, Section
  <2> QED
    BY <2>1, FS_EmptySet DEF Tokens
<1>2. Bounded
  BY <1>1, BoundsAssumption DEF Init, Bounded, BoundsAssumption
<1>3. TokenConserved
  BY DEF Init, TokenConserved
<1> QED
  BY <1>2, <1>3

\* Every step keeps the tokens.
LEMMA TokensInv ==
  Core /\ Bounded /\ TokenConserved /\ [Next]_vars => Bounded' /\ TokenConserved'
<1> SUFFICES ASSUME Core, Bounded, TokenConserved, [Next]_vars
             PROVE  Bounded' /\ TokenConserved'
  OBVIOUS
<1>1. Core'
  BY CoreStep
<1>2. CASE UNCHANGED vars
  BY <1>2
  DEF vars, kernel, job, budget, Bounded, TokenConserved, Tokens, Holders, Inside
<1>3. ASSUME NEW l \in Loggers, mr_log(l) PROVE TokensStep
  BY <1>1, <1>3, LogCases, TakeTokens, FlushTokens, LeaveTokens
<1>4. ASSUME NEW j \in Jobs, mr_log_init(j) PROVE TokensStep
  BY <1>1, <1>4, InitLogTokens
<1>5. ASSUME NEW j \in Jobs,
             \/ MainFork(j) \/ MainWait(j) \/ DestroyClose(j) \/ DestroyUnlink(j)
             \/ ChildMoves(j) \/ ChildDies(j) \/ ChildUnlinks(j)
      PROVE  TokensStep
  BY <1>1, <1>5, OtherTokens
<1> QED
  BY <1>1, <1>2, <1>3, <1>4, <1>5, NextCases, TokensKept

--------------------------------------------------------------------------------
(***************************************************************************)
(* Jobs: who is open, the name of the semaphore, and errors.               *)
(***************************************************************************)

Jobwise == Alone /\ Errors /\ Agreed /\ NameRemoved /\ QuietJobsSucceed

\* The flags stay Boolean.
LEMMA FlagsStep == FlagsOK /\ [Next]_vars => FlagsOK'
<1> SUFFICES ASSUME FlagsOK, [Next]_vars PROVE FlagsOK'
  OBVIOUS
<1> USE DEF FlagsOK
<1>1. CASE UNCHANGED vars
  BY <1>1 DEF vars, job, stdio
<1>2. ASSUME NEW l \in Loggers, mr_log(l) PROVE FlagsOK'
  <2>1. err' \in [Jobs -> BOOLEAN] /\ split' \in BOOLEAN
    <3>1. ASSUME NEW r \in {0, -1}, Leave(l, r)
          PROVE  err' \in [Jobs -> BOOLEAN] /\ split' \in BOOLEAN
      <4>1. \/ MainGoesOn(l, r) \/ MainGivesUp(l, r)
            \/ ChildStarts(l, r) \/ ThreadReturns(l, r)
        BY <3>1, ReturnCases DEF Leave
      <4>2. split' = split /\ (err' = err \/ err' = [err EXCEPT ![l[1]] = TRUE])
        BY <4>1 DEF MainGoesOn, MainGivesUp, ChildStarts, ThreadReturns
      <4> QED
        BY <4>2
    <3>2. CASE Take(l) \/ Write(l) \/ LogFlush(l)
      BY <3>2 DEF Take, Write, WritePart, LogFlush, job
    <3> QED
      BY <1>2, <3>1, <3>2, LogCases
  <2>2. torn' \in BOOLEAN
    BY <1>2 DEF mr_log, LogWait, LogWrite, WritePart, LogFlush, LogPost, Append2File, stdio
  <2> QED
    BY <2>1, <2>2
<1>3. ASSUME NEW j \in Jobs, mr_log_init(j) PROVE FlagsOK'
  <2>1. err' = [err EXCEPT ![j] = FALSE] /\ torn' = torn
    BY <1>3 DEF mr_log_init, stdio
  <2>2. split' \in BOOLEAN
    BY <1>3 DEF mr_log_init
  <2> QED
    BY <2>1, <2>2
<1>4. ASSUME NEW j \in Jobs, MainFork(j) \/ MainWait(j) \/ ChildMoves(j) \/ ChildDies(j)
      PROVE  FlagsOK'
  BY <1>4
  DEF MainFork, MainWait, ChildMoves, ChildExit, ChildHangs, EscapedExits, ChildDies, stdio
<1>5. ASSUME NEW j \in Jobs, DestroyUnlink(j) PROVE FlagsOK'
  BY <1>5 DEF DestroyUnlink, stdio
<1>6. ASSUME NEW j \in Jobs, DestroyClose(j) \/ ChildUnlinks(j) PROVE FlagsOK'
  BY <1>6 DEF DestroyClose, ChildUnlinks, Append2File
<1> QED
  BY <1>1, <1>2, <1>3, <1>4, <1>5, <1>6, NextCases

\* A step that opens no log, removes no name and makes no error without a cause.
JobStep ==
  /\ UNCHANGED <<name, sem, overlap, split, ret>> /\ failed \subseteq failed'
  /\ \A k \in Jobs : Open(k)' => Open(k)
  /\ \A k \in Jobs : main'[k] \in {"init", "returned"} => main[k] \in {"init", "returned"}
  /\ \A k \in Jobs : err'[k] \/ main'[k] = "report" \/ child'[k] = "escaping" =>
       err[k] \/ main[k] = "report" \/ child[k] = "escaping" \/ failed' # {}

\* Such a step keeps what is said about jobs.
LEMMA JobwiseKept == ASSUME Jobwise, JobStep PROVE Jobwise'
<1>1. Alone'
  BY DEF Jobwise, Alone, JobStep
<1>2. Errors'
  BY DEF Jobwise, Errors, JobStep
<1>3. Agreed'
  BY DEF Jobwise, Agreed, JobStep
<1>4. NameRemoved'
  BY DEF Jobwise, NameRemoved, JobStep
<1>5. QuietJobsSucceed'
  BY DEF Jobwise, QuietJobsSucceed, JobStep
<1> QED
  BY <1>1, <1>2, <1>3, <1>4, <1>5 DEF Jobwise

\* Where main is and whether the child runs decide whether a job is open.
LEMMA OpenFalls ==
  ASSUME Core, NEW j \in Jobs, NEW p,
         main' = [main EXCEPT ![j] = p], main[j] \notin {"init", "returned", "killed"},
         \A k \in Jobs \ {j} : child'[k] = child[k]
  PROVE  \A k \in Jobs : Open(k)' => Open(k)
  BY DEF Open, Core, DataOK

\* mr_log is such a step.
LEMMA LogIsJobStep ==
  ASSUME Core, FlagsOK, NEW l \in Loggers, mr_log(l)
  PROVE  JobStep
<1>1. CASE Take(l) \/ Write(l) \/ LogFlush(l)
  <2>1. UNCHANGED <<name, job>>
    BY <1>1 DEF Take, Write, WritePart, LogFlush
  <2>2. failed \subseteq failed'
    BY <1>1, FailType DEF Take, Write, WritePart, LogFlush, budget, Core
  <2> QED
    BY <2>1, <2>2 DEF JobStep, job, Open
<1>2. ASSUME NEW r \in {0, -1}, Leave(l, r) PROVE JobStep
  <2> DEFINE j == l[1]
  <2>1. j \in Jobs
    BY LoggerPair
  <2>2. MainGoesOn(l, r) \/ MainGivesUp(l, r) \/ (l[2] # Main /\ ThreadEffect(l))
    BY <1>2, ReturnCases, ThreadCases DEF Leave
  <2>3. UNCHANGED <<name, sem, overlap, split, ret>>
    BY <1>2, <2>2 DEF Leave, MainGoesOn, MainGivesUp, ThreadEffect
  <2>4. /\ failed \subseteq failed' /\ (r # 0 => failed' # {})
        /\ main[j] \notin {"init", "returned"}
    BY <1>2, FailType, SemOfJob DEF Leave, Core, budget
  <2>5. CASE ThreadEffect(l)
    <3>1. UNCHANGED <<main, err>> /\ child[j] \in Logging
      BY <2>5 DEF ThreadEffect
    <3>2. PICK c \in Logging : /\ child' = [child EXCEPT ![j] = c]
                               /\ c = "escaping" => child[j] = "escaping" \/ failed' # {}
      BY <2>5 DEF ThreadEffect
    <3>3. child'[j] = c /\ \A k \in Jobs \ {j} : child'[k] = child[k]
      BY <2>1, <3>2 DEF Core, DataOK
    <3>4. \A k \in Jobs : Open(k)' => Open(k)
      BY <3>1, <3>3 DEF Open
    <3> QED
      BY <2>3, <2>4, <3>1, <3>2, <3>3, <3>4 DEF JobStep
  <2>6. CASE l[2] = Main /\ (MainGoesOn(l, r) \/ MainGivesUp(l, r))
    <3>1. main[j] \in {"start", "send", "status", "report"}
      BY <1>2, <2>6 DEF Leave, Core, Control
    <3>2. PICK p \in {"fork", "wait", "close", "report"} :
            /\ main' = [main EXCEPT ![j] = p]
            /\ p = "report" => failed' # {}
      BY <2>4, <2>6, <3>1 DEF MainGoesOn, MainGivesUp, NextPoint
    <3>3. \A k \in Jobs \ {j} : child'[k] = child[k]
      <4>1. CASE MainGoesOn(l, r)
        BY <4>1 DEF MainGoesOn
      <4>2. CASE MainGivesUp(l, r)
        <5>1. {l} \in SUBSET Loggers /\ Kill(j, {l})
          BY <4>2 DEF MainGivesUp
        <5> QED
          BY <2>1, <5>1, KillEffect DEF Killed
      <4> QED
        BY <2>6, <4>1, <4>2
    <3>4. \A k \in Jobs : Open(k)' => Open(k)
      BY <2>1, <3>1, <3>2, <3>3, OpenFalls
    <3>5. \A k \in Jobs : main'[k] \in {"init", "returned"} => main[k] \in {"init", "returned"}
      BY <3>2 DEF Core, DataOK
    <3>6. ASSUME NEW k \in Jobs, ~(failed' # {}), ~(main[k] = "report")
          PROVE  err'[k] = err[k] /\ main'[k] # "report"
      BY <2>4, <2>6, <3>2, <3>6
      DEF MainGoesOn, MainGivesUp, Core, DataOK, FlagsOK
    <3>7. ASSUME NEW k \in Jobs, child'[k] = "escaping" PROVE child[k] = "escaping"
      <4>1. CASE MainGoesOn(l, r)
        BY <3>7, <4>1 DEF MainGoesOn
      <4>2. CASE MainGivesUp(l, r)
        <5>1. {l} \in SUBSET Loggers /\ Kill(j, {l})
          BY <4>2 DEF MainGivesUp
        <5>2. child'[j] \notin Live
          BY <2>1, <5>1, KillEffect DEF Killed
        <5> QED
          BY <3>3, <3>7, <5>2 DEF Live, Logging
      <4> QED
        BY <2>6, <4>1, <4>2
    <3> QED
      BY <2>3, <2>4, <3>4, <3>5, <3>6, <3>7 DEF JobStep
  <2> QED
    BY <2>2, <2>5, <2>6 DEF MainGoesOn, MainGivesUp
<1> QED
  BY <1>1, <1>2, LogCases

\* And so are the steps of main and the child between mr_log_init and sem_unlink.
LEMMA OtherIsJobStep ==
  ASSUME Core, FlagsOK, NEW j \in Jobs,
         \/ MainFork(j) \/ MainWait(j) \/ DestroyClose(j) \/ ChildMoves(j) \/ ChildDies(j)
  PROVE  JobStep
<1>1. UNCHANGED <<name, sem, overlap, split, ret>> /\ failed \subseteq failed'
  BY FailType
  DEF Core, MainFork, MainWait, DestroyClose, ChildMoves, ChildExit, ChildHangs,
      EscapedExits, ChildDies, kernel, budget
<1>2. CASE MainFork(j) \/ MainWait(j) \/ DestroyClose(j)
  <2>1. PICK p \in {"send", "status", "report", "killed", "unlink"} :
          /\ main' = [main EXCEPT ![j] = p]
          /\ p = "report" => failed' # {}
    BY <1>2, FailType
    DEF MainFork, MainWait, DestroyClose, GotoLog, Goto, Core
  <2>2. main[j] \in {"fork", "wait", "close"} /\ \A k \in Jobs \ {j} : child'[k] = child[k]
    BY <1>2 DEF MainFork, MainWait, DestroyClose, At, Core, DataOK
  <2>3. \A k \in Jobs : Open(k)' => Open(k)
    BY <2>1, <2>2, OpenFalls
  <2>4. err' = err \/ (err' = [err EXCEPT ![j] = TRUE] /\ failed' # {})
    BY <1>2, FailType DEF MainFork, MainWait, DestroyClose, Core
  <2>5. ASSUME NEW k \in Jobs, ~(failed' # {}), ~(main[k] = "report")
        PROVE  err'[k] = err[k] /\ main'[k] # "report"
    BY <2>1, <2>4, <2>5 DEF Core, DataOK, FlagsOK
  <2>6. \A k \in Jobs : main'[k] \in {"init", "returned"} => main[k] \in {"init", "returned"}
    BY <2>1 DEF Core, DataOK
  <2>7. \A k \in Jobs : child'[k] = "escaping" => child[k] = "escaping"
    BY <1>2 DEF MainFork, MainWait, DestroyClose, Core, DataOK
  <2> QED
    BY <1>1, <2>3, <2>5, <2>6, <2>7 DEF JobStep
<1>3. CASE ChildMoves(j) \/ ChildDies(j)
  <2>1. UNCHANGED <<main, err>>
    BY <1>3, MoveCases DEF ChildDies
  <2>2. \A k \in Jobs : /\ child'[k] \in Logging => child[k] \in Logging
                        /\ child'[k] = "escaping" => child[k] = "escaping"
    <3>1. CASE ChildMoves(j)
      <4>1. PICK c \in {"hung", "ended", "escaped"} :
              child' = [child EXCEPT ![j] = c] /\ (c = "hung" => child[j] \in Logging)
        BY <3>1, MoveCases
      <4> QED
        BY <4>1 DEF Core, DataOK, Logging
    <3>2. CASE ChildDies(j)
      BY <3>2, KillEffect DEF ChildDies, Killed, Live, Logging
    <3> QED
      BY <1>3, <3>1, <3>2
  <2> QED
    BY <1>1, <2>1, <2>2 DEF JobStep, Open
<1> QED
  BY <1>2, <1>3

\* mr_log_init puts a job that meets open jobs, and those jobs, into overlap.
LEMMA InitLogJobwise ==
  ASSUME Core, FlagsOK, Jobwise, NEW j \in Jobs, mr_log_init(j)
  PROVE  Jobwise'
<1>1. /\ main[j] \in {"init", "returned"} /\ child[j] \notin Logging
      /\ child' = [child EXCEPT ![j] = "none"] /\ err' = [err EXCEPT ![j] = FALSE]
      /\ (\E s : OpenOk(j, s)) \/ OpenFails(j)
  BY OpenCases
<1>2. ~Open(j)
  BY <1>1 DEF Open
<1>3. PICK p \in {"start", "returned"} : main' = [main EXCEPT ![j] = p]
  BY <1>1 DEF OpenOk, OpenFails
<1>4. \A k \in Jobs \ {j} : Open(k)' <=> Open(k)
  BY <1>1, <1>3 DEF Open, Core, DataOK
<1>5. \A k \in Jobs : main'[k] = "report" => main[k] = "report"
  BY <1>3 DEF Core, DataOK
<1>9. \A k \in Jobs : child'[k] = "escaping" => child[k] = "escaping"
  BY <1>1 DEF Core, DataOK
<1>6. err'[j] = FALSE /\ \A k \in Jobs \ {j} : err'[k] = err[k]
  BY <1>1 DEF FlagsOK
<1>7. ASSUME NEW s, OpenOk(j, s) PROVE Jobwise'
  <2> DEFINE others == {k \in Jobs \ {j} : Open(k)}
  <2>1. /\ name' = s /\ sem' = [sem EXCEPT ![j] = s]
        /\ ret' = [ret EXCEPT ![j] = "none"] /\ main'[j] = "start"
        /\ overlap' = IF others = {} THEN overlap \ {j} ELSE overlap \cup others \cup {j}
        /\ split' = (split \/ \E k \in others : sem[k] # s)
        /\ failed' = failed
    BY <1>7 DEF OpenOk, budget, Core, DataOK
  <2>2. s # None
    BY <1>7, OpenNumber, NoneAssumption DEF Sems, NoneAssumption
  <2>3. Alone'
    <3> SUFFICES ASSUME NEW k \in Jobs, Open(k)', k \notin overlap'
                 PROVE  name' # None /\ \A m \in Jobs \ {k} : ~Open(m)'
      BY DEF Alone
    <3>1. CASE k = j
      BY <3>1, <2>1, <2>2, <1>4
    <3>2. CASE k # j
      BY <3>2, <2>1, <1>4
    <3> QED
      BY <3>1, <3>2
  <2>4. Errors'
    <3> SUFFICES ASSUME NEW k \in Jobs,
                        err'[k] \/ main'[k] = "report" \/ child'[k] = "escaping"
                 PROVE  failed' # {}
      BY DEF Errors
    <3>1. CASE k = j
      BY <3>1, <1>6, <1>9, <2>1 DEF Jobwise, Errors
    <3>2. CASE k # j
      BY <3>2, <1>5, <1>6, <1>9, <2>1 DEF Jobwise, Errors
    <3> QED
      BY <3>1, <3>2
  <2>5. Agreed'
    <3> SUFFICES ASSUME ~split', NEW k \in Jobs, NEW m \in Jobs, Open(k)', Open(m)'
                 PROVE  sem'[k] = sem'[m]
      BY DEF Agreed
    <3>1. ~split /\ \A n \in others : sem[n] = s
      BY <2>1
    <3>2. sem'[j] = s /\ \A n \in Jobs \ {j} : sem'[n] = sem[n]
      BY <2>1 DEF Core, DataOK
    <3>3. \A n \in Jobs : Open(n)' => sem'[n] = s
      BY <3>1, <3>2, <1>4
    <3> QED
      BY <3>3
  <2>6. NameRemoved'
    BY <2>1 DEF NameRemoved
  <2>7. QuietJobsSucceed'
    BY <2>1 DEF QuietJobsSucceed, Jobwise, Core, DataOK
  <2> QED
    BY <2>3, <2>4, <2>5, <2>6, <2>7 DEF Jobwise
<1>8. CASE OpenFails(j)
  <2>1. /\ main'[j] = "returned" /\ failed' # {} /\ UNCHANGED <<name, sem, overlap, split>>
        /\ ret' = [ret EXCEPT ![j] = "error"]
    BY <1>8, FailType DEF OpenFails, Core, DataOK
  <2>2. ~Open(j)'
    BY <2>1, <1>1 DEF Open, Core, DataOK, Logging
  <2>3. Alone' /\ Agreed'
    BY <2>1, <2>2, <1>2, <1>4 DEF Jobwise, Alone, Agreed
  <2>4. Errors' /\ QuietJobsSucceed'
    BY <2>1 DEF Errors, QuietJobsSucceed
  <2>5. NameRemoved'
    BY <2>1, <1>1, <1>3 DEF Jobwise, NameRemoved, Core, DataOK
  <2> QED
    BY <2>3, <2>4, <2>5 DEF Jobwise
<1> QED
  BY <1>1, <1>7, <1>8

\* sem_unlink fails only after an error, or when another job has removed the name.
LEMMA UnlinkJobwise ==
  ASSUME Core, FlagsOK, Jobwise, NEW j \in Jobs, DestroyUnlink(j)
  PROVE  Jobwise'
<1>1. /\ main[j] = "unlink" /\ pc[<<j, Main>>] = "out" /\ name' = None
      /\ ret' = [ret EXCEPT ![j] = IF err[j] \/ name = None THEN "error" ELSE "ok"]
      /\ main' = [main EXCEPT ![j] = "returned"]
      /\ UNCHANGED <<sem, child, err, overlap, split, failed>>
  BY DEF DestroyUnlink, At, Goto, budget
<1>2. child[j] \notin Logging /\ Open(j) /\ ~Open(j)'
  BY <1>1, QuietJob DEF Open, Core, DataOK
<1>3. \A k \in Jobs \ {j} : Open(k)' <=> Open(k)
  BY <1>1 DEF Open, Core, DataOK
<1>4. Alone'
  BY <1>1, <1>2, <1>3 DEF Jobwise, Alone
<1>5. Errors'
  BY <1>1 DEF Jobwise, Errors, Core, DataOK
<1>6. Agreed'
  BY <1>1, <1>2, <1>3 DEF Jobwise, Agreed
<1>7. NameRemoved'
  BY <1>1 DEF NameRemoved
<1>8. QuietJobsSucceed'
  <2> SUFFICES ASSUME NEW k \in Jobs, ret'[k] = "error", failed = {} PROVE k \in overlap
    BY <1>1 DEF QuietJobsSucceed
  <2>1. CASE k = j
    <3>1. err[j] \/ name = None
      BY <2>1, <1>1 DEF Core, DataOK
    <3>2. ~err[j]
      BY DEF Jobwise, Errors
    <3> QED
      BY <2>1, <3>1, <3>2, <1>2 DEF Jobwise, Alone
  <2>2. CASE k # j
    BY <2>2, <1>1 DEF Jobwise, QuietJobsSucceed, Core, DataOK
  <2> QED
    BY <2>1, <2>2
<1> QED
  BY <1>4, <1>5, <1>6, <1>7, <1>8 DEF Jobwise

\* A child that destroys the log takes the name away, but then something failed.
LEMMA EscapeJobwise ==
  ASSUME Core, FlagsOK, Jobwise, NEW j \in Jobs, ChildUnlinks(j)
  PROVE  Jobwise'
<1>1. /\ child[j] = "escaping" /\ child' = [child EXCEPT ![j] = "escaped"] /\ name' = None
      /\ UNCHANGED <<sem, main, err, ret, overlap, split, failed>>
  BY DEF ChildUnlinks, budget
<1>2. failed # {}
  BY <1>1 DEF Jobwise, Errors
<1>3. \A k \in Jobs : Open(k)' => Open(k)
  BY <1>1 DEF Open, Core, DataOK, Logging
<1>4. Alone' /\ Errors' /\ QuietJobsSucceed'
  BY <1>1, <1>2 DEF Alone, Errors, QuietJobsSucceed
<1>5. Agreed'
  BY <1>1, <1>3 DEF Jobwise, Agreed
<1>6. NameRemoved'
  BY <1>1 DEF NameRemoved
<1> QED
  BY <1>4, <1>5, <1>6 DEF Jobwise

\* Every step keeps what is said about jobs.
LEMMA JobwiseStep == Core /\ FlagsOK /\ Jobwise /\ [Next]_vars => Jobwise'
<1> SUFFICES ASSUME Core, FlagsOK, Jobwise, [Next]_vars PROVE Jobwise'
  OBVIOUS
<1>1. CASE UNCHANGED vars
  <2>1. JobStep
    BY <1>1 DEF vars, kernel, job, budget, JobStep, Open
  <2> QED
    BY <2>1, JobwiseKept
<1> QED
  BY <1>1, NextCases, LogIsJobStep, OtherIsJobStep, JobwiseKept, InitLogJobwise,
     UnlinkJobwise, EscapeJobwise

\* The initial state has no open job and no name.
LEMMA JobwiseInit == Init => FlagsOK /\ Jobwise
<1> SUFFICES ASSUME Init PROVE FlagsOK /\ Jobwise
  OBVIOUS
<1>1. FlagsOK
  BY DEF Init, FlagsOK
<1>2. Alone /\ Agreed
  BY DEF Init, Alone, Agreed, Open, Logging
<1>3. Errors /\ NameRemoved /\ QuietJobsSucceed
  BY DEF Init, Errors, NameRemoved, QuietJobsSucceed
<1> QED
  BY <1>1, <1>2, <1>3 DEF Jobwise

--------------------------------------------------------------------------------
(***************************************************************************)
(* Lines: what is in the buffers and at the end of the file.               *)
(***************************************************************************)

\* A logger's process.
LEMMA ProcessType ==
  /\ \A l \in Loggers : Process(l) \in Jobs \X BOOLEAN
  /\ \A j \in Jobs : MainOf(j) \in Jobs \X BOOLEAN /\ ChildOf(j) \in Jobs \X BOOLEAN
<1>1. ASSUME NEW l \in Loggers PROVE Process(l) \in Jobs \X BOOLEAN
  BY LoggerPair DEF Process
<1> QED
  BY <1>1 DEF MainOf, ChildOf

\* The loggers of main's process and of the child's.
LEMMA ProcessOf ==
  ASSUME NEW l \in Loggers, NEW j \in Jobs
  PROVE  /\ Process(l) = MainOf(j) => l = <<j, Main>>
         /\ Process(l) = ChildOf(j) => l \in ThreadsOf(j)
<1>1. CASE l[2] = Main
  BY <1>1, LoggerPair DEF Process, MainOf, ChildOf
<1>2. CASE l[2] # Main
  BY <1>2, LoggerPair DEF Process, MainOf, ChildOf
<1> QED
  BY <1>1, <1>2

\* A thread in mr_log belongs to a job that is open.
LEMMA InsideOpen ==
  ASSUME Core, NEW l \in Loggers, pc[l] # "out"
  PROVE  Open(l[1])
<1>1. main[l[1]] \in {"start", "send", "status", "report"} \/ child[l[1]] \in Logging
  BY LoggerPair DEF Core, Control
<1> QED
  BY <1>1 DEF Open

\* The items of short sequences.
LEMMA ShortSequences ==
  ASSUME NEW a, NEW x, NEW y
  PROVE  /\ DOMAIN <<>> = {} /\ (<<a>> \o <<>>)[Len(<<>>) + 1] = a
         /\ DOMAIN <<x>> = {1} /\ Len(<<x>>) = 1 /\ <<x>>[1] = x
         /\ DOMAIN <<x, y>> = {1, 2} /\ Len(<<x, y>>) = 2
         /\ <<x, y>>[1] = x /\ <<x, y>>[2] = y
         /\ (<<a>> \o <<x>>)[1] = a /\ (<<a>> \o <<x>>)[2] = x
         /\ (<<a>> \o <<x, y>>)[1] = a /\ (<<a>> \o <<x, y>>)[2] = x
         /\ (<<a>> \o <<x, y>>)[3] = y
<1>1. <<a>> \in Seq({a, x, y}) /\ <<x>> \in Seq({a, x, y}) /\ <<x, y>> \in Seq({a, x, y})
  OBVIOUS
<1>2. DOMAIN <<>> = {} /\ (<<a>> \o <<>>)[Len(<<>>) + 1] = a
  OBVIOUS
<1>3. /\ DOMAIN <<x>> = {1} /\ Len(<<x>>) = 1 /\ <<x>>[1] = x
      /\ DOMAIN <<x, y>> = {1, 2} /\ Len(<<x, y>>) = 2 /\ <<x, y>>[1] = x /\ <<x, y>>[2] = y
  OBVIOUS
<1>4. (<<a>> \o <<x>>)[1] = a /\ (<<a>> \o <<x>>)[2] = x
  BY <1>1
<1>5. /\ (<<a>> \o <<x, y>>)[1] = a /\ (<<a>> \o <<x, y>>)[2] = x
      /\ (<<a>> \o <<x, y>>)[3] = y
  BY <1>1
<1> QED
  BY <1>2, <1>3, <1>4, <1>5

\* Appending to them.
LEMMA ShortAppends ==
  ASSUME NEW x, NEW y
  PROVE  Append(<<>>, x) = <<x>> /\ Append(<<x>>, y) = <<x, y>>
<1>1. <<>> \in Seq({x, y}) /\ <<x>> \in Seq({x, y}) /\ <<x, y>> \in Seq({x, y})
  OBVIOUS
<1>2. Append(<<>>, x) = <<x>>
  BY <1>1
<1>3. Append(<<x>>, y) = <<x, y>>
  <2>1. Append(<<x>>, y) \in Seq({x, y}) /\ Len(Append(<<x>>, y)) = 2 /\ Len(<<x, y>>) = 2
    BY <1>1
  <2>2. Append(<<x>>, y)[1] = x /\ Append(<<x>>, y)[2] = y
    BY <1>1
  <2>3. \A i \in 1 .. 2 : Append(<<x>>, y)[i] = <<x, y>>[i]
    BY <2>2
  <2> QED
    BY <1>1, <2>1, <2>3, SeqEqual
<1> QED
  BY <1>2, <1>3

\* Writing nothing leaves the end of the file as it is.
LEMMA AppendNothing ==
  ASSUME Append2File(<<>>), ~torn
  PROVE  last' = last /\ ~torn'
  BY ShortSequences DEF Append2File

\* A fragment that may follow the last one does not tear a line.
LEMMA AppendOne ==
  ASSUME NEW x, Append2File(<<x>>), Follows(last, x), ~torn
  PROVE  last' = x /\ ~torn'
<1>1. (<<last>> \o <<x>>)[1] = last /\ (<<last>> \o <<x>>)[2] = x /\ Len(<<x>>) = 1
  BY ShortSequences
<1>2. DOMAIN <<x>> = {1} /\ <<x>>[1] = x
  BY ShortSequences
<1>3. last' = x
  BY <1>1 DEF Append2File
<1>4. \A k \in DOMAIN <<x>> : Follows((<<last>> \o <<x>>)[k], <<x>>[k])
  BY <1>1, <1>2
<1> QED
  BY <1>3, <1>4 DEF Append2File

\* Nor do two, if the second may follow the first.
LEMMA AppendTwo ==
  ASSUME NEW x, NEW y, Append2File(<<x, y>>), Follows(last, x), Follows(x, y), ~torn
  PROVE  last' = y /\ ~torn'
<1>1. /\ (<<last>> \o <<x, y>>)[1] = last /\ (<<last>> \o <<x, y>>)[2] = x
      /\ (<<last>> \o <<x, y>>)[3] = y /\ Len(<<x, y>>) = 2
  BY ShortSequences
<1>2. DOMAIN <<x, y>> = {1, 2} /\ <<x, y>>[1] = x /\ <<x, y>>[2] = y
  BY ShortSequences
<1>3. last' = y
  BY <1>1 DEF Append2File
<1>4. \A k \in DOMAIN <<x, y>> : Follows((<<last>> \o <<x, y>>)[k], <<x, y>>[k])
  BY <1>1, <1>2
<1> QED
  BY <1>3, <1>4 DEF Append2File

\* Two threads are never inside at once, but for a failing fflush or a split: they have the
\* same semaphore, and it has one token.
LEMMA OneInside ==
  ASSUME Core, Bounded, Agreed, "flush" \notin failed, ~split, NEW l \in Loggers, NEW m \in Loggers,
         Inside(l), Inside(m)
  PROVE  l = m
<1> DEFINE s == sem[l[1]]
           H == Holders(s)
<1>1. s \in Sems /\ Open(l[1]) /\ Open(m[1]) /\ l[1] \in Jobs /\ m[1] \in Jobs
  BY SemOfJob, InsideOpen, LoggerPair DEF Inside, Section
<1>2. sem[m[1]] = s
  BY <1>1 DEF Agreed
<1>3. l \in H /\ m \in H
  BY <1>2 DEF Holders
<1>4. Tokens(s) <= 1 /\ value[s] \in Nat
  BY <1>1 DEF Bounded, Core, DataOK
<1>5. IsFiniteSet(H) /\ Cardinality(H) \in Nat
  BY HoldersFinite
<1>6. Cardinality(H) <= 1
  BY <1>4, <1>5 DEF Tokens
<1> HIDE DEF s, H
<1>7. IsFiniteSet(H \ {l}) /\ Cardinality(H \ {l}) = Cardinality(H) - 1
  BY <1>3, <1>5, FS_RemoveElement
<1>8. Cardinality(H \ {l}) = 0
  BY <1>5, <1>6, <1>7, FS_CardinalityType
<1>9. H \ {l} = {}
  BY <1>7, <1>8, FS_EmptySet
<1> QED
  BY <1>3, <1>9

\* And none is inside when the semaphore can be taken.
LEMMA NoneInside ==
  ASSUME Core, Bounded, Agreed, Clean, NEW l \in Loggers, Take(l)
  PROVE  \A m \in Loggers : ~Inside(m)
<1> SUFFICES ASSUME NEW m \in Loggers, Inside(m) PROVE FALSE
  OBVIOUS
<1> DEFINE s == sem[l[1]]
           H == Holders(s)
<1>1. /\ s \in Sems /\ value[s] > 0 /\ Open(l[1]) /\ Open(m[1])
      /\ l[1] \in Jobs /\ m[1] \in Jobs
  BY SemOfJob, InsideOpen, LoggerPair DEF Inside, Section, Take
<1>2. m \in H
  BY <1>1 DEF Clean, Agreed, Holders
<1>3. Tokens(s) <= 1 /\ value[s] \in Nat
  BY <1>1 DEF Bounded, Clean, Core, DataOK
<1>4. IsFiniteSet(H) /\ Cardinality(H) \in Nat
  BY HoldersFinite
<1>5. Cardinality(H) = 0
  BY <1>1, <1>3, <1>4 DEF Tokens
<1> QED
  BY <1>2, <1>4, <1>5, FS_EmptySet

\* The buffers keep their type.
LEMMA BuffersStep ==
  ASSUME BuffersOK, [Next]_vars
  PROVE  BuffersOK'
<1> USE DEF BuffersOK
<1>1. CASE UNCHANGED stdio
  BY <1>1 DEF stdio
<1>2. ASSUME NEW l \in Loggers, Write(l) PROVE BuffersOK'
  <2> DEFINE b == Append(buffer[Process(l)], [by |-> l, part |-> pc[l]])
  <2>1. Process(l) \in Jobs \X BOOLEAN
    BY ProcessType
  <2>2. [by |-> l, part |-> pc[l]] \in Fragment
    BY <1>2 DEF Write, Fragment
  <2>3. b \in Seq(Fragment)
    BY <2>1, <2>2
  <2>4. \/ buffer' = [buffer EXCEPT ![Process(l)] = b]
        \/ buffer' = [buffer EXCEPT ![Process(l)] = <<>>]
    BY <1>2 DEF Write, WritePart
  <2> HIDE DEF b
  <2>5. <<>> \in Seq(Fragment)
    OBVIOUS
  <2> QED
    BY <2>1, <2>3, <2>4, <2>5
<1>3. ASSUME NEW l \in Loggers, LogFlush(l) PROVE BuffersOK'
  <2>1. buffer' = buffer \/ buffer' = [buffer EXCEPT ![Process(l)] = <<>>]
    BY <1>3 DEF LogFlush
  <2>2. Process(l) \in Jobs \X BOOLEAN /\ <<>> \in Seq(Fragment)
    BY ProcessType
  <2> QED
    BY <2>1, <2>2
<1>4. ASSUME NEW j \in Jobs, MainFork(j) PROVE BuffersOK'
  BY <1>4, ProcessType DEF MainFork
<1>5. ASSUME NEW j \in Jobs, DestroyClose(j) \/ ChildUnlinks(j) PROVE BuffersOK'
  <2>1. PICK q \in Jobs \X BOOLEAN : buffer' = [buffer EXCEPT ![q] = <<>>]
    BY <1>5, ProcessType DEF DestroyClose, ChildUnlinks
  <2>2. <<>> \in Seq(Fragment)
    OBVIOUS
  <2> QED
    BY <2>1, <2>2
<1>6. ASSUME NEW j \in Jobs,
             \/ mr_log_init(j) \/ MainWait(j) \/ DestroyUnlink(j)
             \/ ChildMoves(j) \/ ChildDies(j)
      PROVE  BuffersOK'
  BY <1>6, <1>1
  DEF mr_log_init, MainWait, DestroyUnlink, ChildMoves, ChildExit, ChildHangs, EscapedExits,
      ChildDies
<1>7. ASSUME NEW l \in Loggers, mr_log(l) PROVE BuffersOK'
  <2>1. \/ Take(l) \/ Write(l) \/ LogFlush(l)
        \/ \E r \in {0, -1} : Leave(l, r)
    BY <1>7, LogCases
  <2>2. Take(l) => UNCHANGED stdio
    BY DEF Take
  <2>3. ASSUME NEW r \in {0, -1}, Leave(l, r) PROVE UNCHANGED stdio
    BY <2>3 DEF Leave
  <2> QED
    BY <1>1, <1>2, <1>3, <2>1, <2>2, <2>3
<1>8. CASE UNCHANGED vars
  BY <1>8, <1>1 DEF vars
<1> QED
  BY <1>4, <1>5, <1>6, <1>7, <1>8, NextCases

\* The log was clean before a step after which it is clean.
LEMMA CleanBefore ==
  ASSUME Core, FlagsOK, Core', [Next]_vars, Clean'
  PROVE  Clean
<1>1. failed \subseteq failed'
  <2>1. ASSUME NEW l \in Loggers, mr_log(l) PROVE failed \subseteq failed'
    BY <2>1, LogIsJobStep DEF JobStep
  <2>2. ASSUME NEW j \in Jobs,
               \/ MainFork(j) \/ MainWait(j) \/ DestroyClose(j) \/ ChildMoves(j) \/ ChildDies(j)
        PROVE  failed \subseteq failed'
    BY <2>2, OtherIsJobStep DEF JobStep
  <2>3. ASSUME NEW j \in Jobs, DestroyUnlink(j) \/ mr_log_init(j) \/ ChildUnlinks(j)
        PROVE  failed \subseteq failed'
    BY <2>3, FailType DEF DestroyUnlink, mr_log_init, ChildUnlinks, budget, Core
  <2> QED
    BY <2>1, <2>2, <2>3, NextCases DEF vars, budget
<1>2. orphaned \subseteq orphaned'
  <2>1. ASSUME NEW l \in Loggers, mr_log(l) PROVE orphaned \subseteq orphaned'
    <3>1. CASE Take(l) \/ Write(l) \/ LogFlush(l)
      BY <3>1 DEF Take, Write, WritePart, LogFlush
    <3>2. ASSUME NEW r \in {0, -1}, Leave(l, r) PROVE orphaned \subseteq orphaned'
      BY <3>2, LeaveInside DEF LeaveEffect, Deaths
    <3> QED
      BY <2>1, <3>1, <3>2, LogCases
  <2>2. ASSUME NEW j \in Jobs, ChildDies(j) PROVE orphaned \subseteq orphaned'
    BY <2>2, KillEffect DEF ChildDies, Killed
  <2>3. ASSUME NEW j \in Jobs,
               \/ mr_log_init(j) \/ MainFork(j) \/ MainWait(j) \/ DestroyClose(j)
               \/ DestroyUnlink(j) \/ ChildMoves(j) \/ ChildUnlinks(j)
        PROVE  orphaned \subseteq orphaned'
    BY <2>3, MoveCases
    DEF mr_log_init, MainFork, MainWait, DestroyClose, DestroyUnlink, kernel
  <2> QED
    BY <2>1, <2>2, <2>3, NextCases DEF vars, kernel
<1>3. split => split'
  <2>1. ASSUME NEW l \in Loggers, mr_log(l) PROVE split' = split
    BY <2>1, LogIsJobStep DEF JobStep
  <2>2. ASSUME NEW j \in Jobs,
               \/ MainFork(j) \/ MainWait(j) \/ DestroyClose(j) \/ ChildMoves(j) \/ ChildDies(j)
        PROVE  split' = split
    BY <2>2, OtherIsJobStep DEF JobStep
  <2>3. ASSUME NEW j \in Jobs, DestroyUnlink(j) \/ ChildUnlinks(j) PROVE split' = split
    BY <2>3 DEF DestroyUnlink, ChildUnlinks
  <2>4. ASSUME NEW j \in Jobs, mr_log_init(j) PROVE split => split'
    BY <2>4 DEF mr_log_init
  <2> QED
    BY <2>1, <2>2, <2>3, <2>4, NextCases DEF vars, job
<1> QED
  BY <1>1, <1>2, <1>3 DEF Clean

\* A step that leaves the file, the buffers and the threads inside as they are.
LEMMA LinesSame ==
  ASSUME Lines, Clean, UNCHANGED stdio,
         \A l \in Loggers : Inside(l)' <=> Inside(l),
         \A l \in Loggers : Inside(l) => pc'[l] = pc[l]
  PROVE  Lines'
<1>1. ASSUME NEW l \in Loggers, Inside(l)' PROVE LineOf(l)'
  BY <1>1 DEF Lines, LineOf, stdio, Process
<1> QED
  BY <1>1 DEF Lines, stdio, Process

\* Taking the semaphore begins a line after whole lines.
LEMMA TakeLines ==
  ASSUME Core, Bounded, Agreed, Clean, Lines, NEW l \in Loggers, Take(l)
  PROVE  Lines'
<1>1. \A m \in Loggers : ~Inside(m)
  BY NoneInside
<1>2. /\ pc' = [pc EXCEPT ![l] = "text"] /\ UNCHANGED <<buffer, last, torn>>
  BY DEF Take, stdio
<1>3. ~torn /\ last.part = "newline" /\ \A m \in Loggers : buffer[Process(m)] = <<>>
  BY <1>1 DEF Lines
<1>4. \A m \in Loggers : Inside(m)' => m = l
  BY <1>1, <1>2 DEF Inside, Core, DataOK
<1>5. pc'[l] = "text" /\ Inside(l)'
  BY <1>2 DEF Inside, Section, Core, DataOK
<1>6. LineOf(l)'
  BY <1>2, <1>3, <1>5 DEF LineOf, Process
<1> QED
  BY <1>2, <1>3, <1>4, <1>5, <1>6 DEF Lines, Process

\* While it is inside, a thread works on its own line alone.
LEMMA SoleLines ==
  ASSUME Core, Bounded, Agreed, Clean, Lines, BuffersOK, NEW l \in Loggers, Inside(l),
         pc'[l] \in Section, \A m \in Loggers \ {l} : pc'[m] = pc[m],
         NEW b, buffer' = [buffer EXCEPT ![Process(l)] = b], ~torn', LineOf(l)'
  PROVE  Lines'
<1>1. \A m \in Loggers : Inside(m) => m = l
  BY OneInside DEF Clean
<1>2. \A m \in Loggers : Inside(m)' => m = l
  BY <1>1 DEF Inside
<1>3. Inside(l)'
  BY DEF Inside
<1>4. ASSUME NEW m \in Loggers, buffer'[Process(m)] # <<>>
      PROVE  Process(m) = Process(l)
  <2>1. CASE Process(m) # Process(l)
    <3>1. buffer'[Process(m)] = buffer[Process(m)]
      BY <2>1, ProcessType DEF BuffersOK
    <3> QED
      BY <3>1, <1>1, <1>4 DEF Lines
  <2> QED
    BY <2>1
<1> QED
  BY <1>2, <1>3, <1>4 DEF Lines, Process

\* A fragment goes into the buffer, or into the file.
LEMMA WriteLines ==
  ASSUME Core, Bounded, Agreed, Clean, Lines, BuffersOK, NEW l \in Loggers, Write(l)
  PROVE  Lines'
<1> DEFINE P == Process(l)
<1>1. P \in Jobs \X BOOLEAN /\ buffer[P] \in Seq(Fragment)
  BY ProcessType DEF BuffersOK
<1>2. Inside(l) /\ pc' = [pc EXCEPT ![l] = After[pc[l]]] /\ ~torn /\ LineOf(l)
  BY DEF Write, WritePart, Inside, Section, Lines
<1>3. \A m \in Loggers \ {l} : pc'[m] = pc[m]
  BY <1>2 DEF Core, DataOK
<1> HIDE DEF P
<1>4. CASE pc[l] = "text"
  <2>1. pc'[l] = "newline" /\ buffer[P] = <<>> /\ last.part = "newline"
    BY <1>2, <1>4 DEF LineOf, After, Core, DataOK, P
  <2>2. Append(buffer[P], Text(l)) = <<Text(l)>>
    BY <2>1
  <2>3. CASE buffer' = [buffer EXCEPT ![P] = <<Text(l)>>] /\ UNCHANGED <<last, torn>>
    <3>1. LineOf(l)'
      BY <2>1, <2>3, <1>1 DEF LineOf, Process, BuffersOK, P, Text
    <3> QED
      BY <1>2, <1>3, <2>1, <2>3, <3>1, SoleLines DEF Section, P
  <2>4. CASE buffer' = [buffer EXCEPT ![P] = <<>>] /\ Append2File(<<Text(l)>>)
    <3>1. Follows(last, Text(l))
      BY <2>1 DEF Follows, Text
    <3>2. last' = Text(l) /\ ~torn'
      BY <1>2, <2>4, <3>1, AppendOne
    <3>3. LineOf(l)'
      BY <2>1, <2>4, <3>2, <1>1 DEF LineOf, Process, BuffersOK, P, Text
    <3> QED
      BY <1>2, <1>3, <2>1, <2>4, <3>2, <3>3, SoleLines DEF Section, P
  <2> QED
    BY <1>4, <2>2, <2>3, <2>4 DEF Write, WritePart, Text, P
<1>5. CASE pc[l] = "newline"
  <2>1. pc'[l] = "flush"
    BY <1>2, <1>5 DEF After, Core, DataOK
  <2>2. \/ buffer[P] = <<Text(l)>> /\ last.part = "newline"
        \/ buffer[P] = <<>> /\ last = Text(l)
    BY <1>2, <1>5 DEF LineOf, P
  <2>3. /\ Append(<<Text(l)>>, Newline(l)) = <<Text(l), Newline(l)>>
        /\ Append(<<>>, Newline(l)) = <<Newline(l)>>
    BY ShortAppends
  <2>4. buffer' = [buffer EXCEPT ![P] = Append(buffer[P], Newline(l))]
        /\ UNCHANGED <<last, torn>>
    BY <1>5 DEF Write, WritePart, Newline, P
  <2>5. LineOf(l)'
    BY <2>1, <2>2, <2>3, <2>4, <1>1 DEF LineOf, Process, BuffersOK, P, Text, Newline
  <2> QED
    BY <1>2, <1>3, <2>1, <2>4, <2>5, SoleLines DEF Section, P
<1> QED
  BY <1>4, <1>5 DEF Write

\* fflush ends the line in the file.
LEMMA FlushLines ==
  ASSUME Core, Bounded, Agreed, Clean, Lines, BuffersOK, NEW l \in Loggers, LogFlush(l),
         Clean'
  PROVE  Lines'
<1> DEFINE P == Process(l)
<1>1. P \in Jobs \X BOOLEAN
  BY ProcessType
<1>2. Inside(l) /\ pc[l] = "flush" /\ pc' = [pc EXCEPT ![l] = "post"] /\ ~torn /\ LineOf(l)
  BY DEF LogFlush, Inside, Section, Lines
<1>3. pc'[l] = "post" /\ \A m \in Loggers \ {l} : pc'[m] = pc[m]
  BY <1>2 DEF Core, DataOK
<1>4. Append2File(buffer[P]) /\ buffer' = [buffer EXCEPT ![P] = <<>>]
  BY FailType DEF LogFlush, Clean, Core
<1> HIDE DEF P
<1>5. \/ buffer[P] = <<Text(l), Newline(l)>> /\ last.part = "newline"
      \/ buffer[P] = <<Newline(l)>> /\ last = Text(l)
  BY <1>2 DEF LineOf, P
<1>6. Follows(Text(l), Newline(l)) /\ (last.part = "newline" => Follows(last, Text(l)))
  BY DEF Follows, Text, Newline
<1>7. last' = Newline(l) /\ ~torn'
  BY <1>2, <1>4, <1>5, <1>6, AppendOne, AppendTwo
<1>8. LineOf(l)'
  BY <1>1, <1>3, <1>4, <1>7 DEF LineOf, Process, BuffersOK, P, Newline
<1> QED
  BY <1>2, <1>3, <1>4, <1>7, <1>8, SoleLines DEF Section, P

\* A call that returns leaves whole lines, or the log is no longer clean.
LEMMA LeaveLines ==
  ASSUME Core, Core', Bounded, Agreed, Clean, Lines, NEW l \in Loggers,
         NEW r \in {0, -1}, Leave(l, r), Clean'
  PROVE  Lines'
<1>1. UNCHANGED stdio /\ (pc[l] = "wait" \/ pc[l] = "post")
  BY FailType DEF Leave, Clean, Core
<1>2. /\ pc'[l] \in {"out", "wait"}
      /\ \A m \in Loggers : Inside(m)' => Inside(m) /\ pc'[m] = pc[m]
      /\ \A m \in Loggers \ {l} : Inside(m)' <=> Inside(m)
  BY LeaveInside DEF LeaveEffect, Deaths, Clean
<1>3. CASE pc[l] = "wait"
  <2>1. \A m \in Loggers : (Inside(m)' <=> Inside(m)) /\ (Inside(m) => pc'[m] = pc[m])
    BY <1>2, <1>3 DEF Inside, Section
  <2> QED
    BY <1>1, <2>1, LinesSame
<1>4. CASE pc[l] = "post"
  <2>1. Inside(l) /\ \A m \in Loggers : Inside(m) => m = l
    BY <1>4, OneInside DEF Clean, Inside, Section
  <2>2. LineOf(l)
    BY <2>1 DEF Lines
  <2>3. buffer[Process(l)] = <<>> /\ last.part = "newline"
    BY <1>4, <2>2 DEF LineOf
  <2>4. \A m \in Loggers : buffer[Process(m)] = <<>>
    BY <2>1, <2>3 DEF Lines
  <2>5. \A m \in Loggers : ~Inside(m)'
    BY <1>2, <2>1 DEF Inside, Section
  <2> QED
    BY <1>1, <2>3, <2>4, <2>5 DEF Lines, stdio, Process
<1> QED
  BY <1>1, <1>3, <1>4

\* The buffer of a main that is not in mr_log is empty: fork copies nothing, and fclose
\* writes nothing.
LEMMA MainBufferEmpty ==
  ASSUME Lines, Clean, NEW j \in Jobs, pc[<<j, Main>>] = "out"
  PROVE  buffer[MainOf(j)] = <<>>
<1>1. <<j, Main>> \in Loggers /\ Process(<<j, Main>>) = MainOf(j)
  BY ThreadsAreLoggers DEF Process, MainOf
<1>2. ASSUME NEW k \in Loggers, Inside(k) PROVE Process(k) # MainOf(j)
  BY <1>2, ProcessOf DEF Inside, Section
<1> QED
  BY <1>1, <1>2 DEF Lines

\* spawn_processes.
LEMMA ForkLines ==
  ASSUME Core, Clean, Lines, BuffersOK, NEW j \in Jobs, MainFork(j)
  PROVE  Lines'
<1>1. /\ pc[<<j, Main>>] = "out" /\ UNCHANGED <<last, torn>>
      /\ buffer' = [buffer EXCEPT ![ChildOf(j)] = buffer[MainOf(j)]]
  BY DEF MainFork, At
<1>2. \A l \in Loggers : l[1] = j => pc[l] = "out"
  BY ForkCases
<1>4. \A l \in Loggers : (Inside(l)' <=> Inside(l)) /\ (Inside(l) => pc'[l] = pc[l])
  BY ForkInside
<1>5. \A l \in Loggers : Inside(l) => Process(l) # ChildOf(j)
  BY <1>2, ProcessOf, ThreadsAreLoggers DEF Inside, Section
<1>6. buffer[MainOf(j)] = <<>>
  BY <1>1, MainBufferEmpty
<1>7. /\ buffer'[ChildOf(j)] = <<>>
      /\ \A p \in (Jobs \X BOOLEAN) \ {ChildOf(j)} : buffer'[p] = buffer[p]
  BY <1>1, <1>6, ProcessType DEF BuffersOK
<1>8. ASSUME NEW l \in Loggers, Inside(l)' PROVE LineOf(l)'
  <2>1. Inside(l) /\ pc'[l] = pc[l] /\ buffer'[Process(l)] = buffer[Process(l)]
    BY <1>4, <1>5, <1>7, <1>8, ProcessType
  <2>2. LineOf(l)
    BY <2>1 DEF Lines
  <2>3. pc'[l] = pc[l] /\ buffer'[Process(l)] = buffer[Process(l)] /\ last' = last
    BY <2>1, <1>1
  <2> QED
    BY <2>2, <2>3 DEF LineOf, Process
<1>9. ASSUME NEW l \in Loggers, buffer'[Process(l)] # <<>>
      PROVE  \E k \in Loggers : Inside(k)' /\ Process(k) = Process(l)
  <2>1. buffer[Process(l)] # <<>>
    BY <1>7, <1>9, ProcessType
  <2> QED
    BY <2>1, <1>4 DEF Lines
<1>10. (\A l \in Loggers : ~Inside(l)') => last'.part = "newline"
  BY <1>1, <1>4 DEF Lines
<1> QED
  BY <1>1, <1>8, <1>9, <1>10 DEF Lines, Process

\* Nor is there anything in the buffer of a child without a thread in mr_log.
LEMMA ChildBufferEmpty ==
  ASSUME Lines, Clean, NEW j \in Jobs, \A l \in ThreadsOf(j) : pc[l] = "out",
         NEW t \in Threads
  PROVE  buffer[ChildOf(j)] = <<>>
<1>1. <<j, t>> \in Loggers /\ Process(<<j, t>>) = ChildOf(j)
  BY ThreadsAssumption DEF ThreadsAssumption, Loggers, Process, ChildOf
<1>2. ASSUME NEW k \in Loggers, Inside(k) PROVE Process(k) # ChildOf(j)
  BY <1>2, ProcessOf DEF Inside, Section
<1> QED
  BY <1>1, <1>2 DEF Lines

\* fclose has nothing to write then.
LEMMA CloseLines ==
  ASSUME Lines, Clean, BuffersOK, NEW p \in Jobs \X BOOLEAN, buffer[p] = <<>>,
         Append2File(buffer[p]), buffer' = [buffer EXCEPT ![p] = <<>>], UNCHANGED pc
  PROVE  Lines'
<1>1. last' = last /\ ~torn'
  BY AppendNothing DEF Lines
<1>2. \A q \in Jobs \X BOOLEAN : buffer'[q] = buffer[q]
  BY DEF BuffersOK
<1>3. \A l \in Loggers : buffer'[Process(l)] = buffer[Process(l)]
  BY <1>2, ProcessType
<1>4. ASSUME NEW l \in Loggers, Inside(l)' PROVE LineOf(l)'
  <2>1. Inside(l) /\ pc'[l] = pc[l]
    BY <1>4 DEF Inside
  <2>2. LineOf(l)
    BY <2>1 DEF Lines
  <2>3. buffer'[Process(l)] = buffer[Process(l)]
    BY <1>3
  <2> QED
    BY <1>1, <2>1, <2>2, <2>3 DEF LineOf, Process
<1>5. \A l \in Loggers : Inside(l)' <=> Inside(l)
  BY DEF Inside
<1> QED
  BY <1>1, <1>3, <1>4, <1>5 DEF Lines, Process

\* mr_log_destroy, called by main,
LEMMA MainCloseLines ==
  ASSUME Core, Clean, Lines, BuffersOK, NEW j \in Jobs, DestroyClose(j)
  PROVE  Lines'
<1>1. /\ pc[<<j, Main>>] = "out" /\ Append2File(buffer[MainOf(j)]) /\ UNCHANGED pc
      /\ buffer' = [buffer EXCEPT ![MainOf(j)] = <<>>]
  BY DEF DestroyClose, At
<1>2. buffer[MainOf(j)] = <<>> /\ MainOf(j) \in Jobs \X BOOLEAN
  BY <1>1, MainBufferEmpty, ProcessType
<1> QED
  BY <1>1, <1>2, CloseLines

\* and by a child that returned into mr_run.
LEMMA ChildCloseLines ==
  ASSUME Core, Clean, Lines, BuffersOK, NEW j \in Jobs, ChildUnlinks(j), Threads # {}
  PROVE  Lines'
<1>1. /\ \A l \in ThreadsOf(j) : pc[l] = "out"
      /\ Append2File(buffer[ChildOf(j)]) /\ UNCHANGED pc
      /\ buffer' = [buffer EXCEPT ![ChildOf(j)] = <<>>]
  BY DEF ChildUnlinks
<1>2. buffer[ChildOf(j)] = <<>> /\ ChildOf(j) \in Jobs \X BOOLEAN
  BY <1>1, ChildBufferEmpty, ProcessType
<1> QED
  BY <1>1, <1>2, CloseLines

\* The steps that touch neither buffers nor file.
LEMMA OtherLines ==
  ASSUME Core, Clean, Lines, NEW j \in Jobs, Clean',
         \/ mr_log_init(j) \/ MainWait(j) \/ DestroyUnlink(j) \/ ChildMoves(j) \/ ChildDies(j)
  PROVE  Lines'
<1>1. UNCHANGED stdio
  BY DEF mr_log_init, MainWait, DestroyUnlink, ChildMoves, ChildExit, ChildHangs,
         EscapedExits, ChildDies
<1>2. CASE pc' = pc
  BY <1>1, <1>2, LinesSame DEF Inside
<1>3. CASE pc' = [pc EXCEPT ![<<j, Main>>] = "wait"] /\ pc[<<j, Main>>] = "out"
  <2>1. \A l \in Loggers : (Inside(l)' <=> Inside(l)) /\ (Inside(l) => pc'[l] = pc[l])
    BY <1>3 DEF Inside, Section, Core, DataOK
  <2> QED
    BY <1>1, <2>1, LinesSame
<1>4. CASE ChildDies(j)
  <2>1. Killed(j, {})
    BY <1>4, KillEffect DEF ChildDies
  <2>2. \A l \in ThreadsOf(j) : ~Inside(l)
    BY <2>1 DEF Killed, Clean
  <2>3. \A l \in Loggers : (Inside(l)' <=> Inside(l)) /\ (Inside(l) => pc'[l] = pc[l])
    BY <2>1, <2>2 DEF Killed, Inside, Section
  <2> QED
    BY <1>1, <2>3, LinesSame
<1>5. CASE mr_log_init(j)
  BY <1>2, <1>3, <1>5, OpenCases DEF OpenOk, OpenFails
<1>6. CASE MainWait(j)
  BY <1>2, <1>3, <1>6, WaitCases
<1>7. CASE DestroyUnlink(j) \/ ChildMoves(j)
  BY <1>2, <1>7, MoveCases DEF DestroyUnlink
<1> QED
  BY <1>4, <1>5, <1>6, <1>7

\* Every step keeps the lines whole.
LEMMA LinesStep ==
  Core /\ FlagsOK /\ Bounded /\ Agreed /\ BuffersOK /\ Lines /\ [Next]_vars => Lines'
<1> SUFFICES ASSUME Core, FlagsOK, Bounded, Agreed, BuffersOK, Lines, [Next]_vars, Clean'
             PROVE  Lines'
  BY DEF Lines
<1>1. Core'
  BY CoreStep
<1>2. Clean
  BY <1>1, CleanBefore
<1>3. CASE UNCHANGED vars
  BY <1>2, <1>3, LinesSame DEF vars, Inside
<1>4. ASSUME NEW l \in Loggers, mr_log(l) PROVE Lines'
  BY <1>1, <1>2, <1>4, LogCases, TakeLines, WriteLines, FlushLines, LeaveLines
<1> QED
  BY <1>2, <1>3, <1>4, NextCases, ForkLines, MainCloseLines, ChildCloseLines, OtherLines,
     ThreadsAssumption DEF ThreadsAssumption

--------------------------------------------------------------------------------
(***************************************************************************)
(* Theorems                                                                *)
(***************************************************************************)

\* The inductive invariant.
IInv == Core /\ FlagsOK /\ Bounded /\ TokenConserved /\ Jobwise /\ BuffersOK /\ Lines

\* It holds in every behaviour.
LEMMA Inductive == Spec => []IInv
<1>1. Init => IInv
  <2> SUFFICES ASSUME Init PROVE BuffersOK /\ Lines
    BY CoreInit, TokensInit, JobwiseInit DEF IInv
  <2>1. BuffersOK
    BY DEF Init, BuffersOK
  <2>2. Lines
    BY ProcessType DEF Init, Lines, Inside, Section
  <2> QED
    BY <2>1, <2>2
<1>2. IInv /\ [Next]_vars => IInv'
  <2> SUFFICES ASSUME IInv, [Next]_vars PROVE IInv'
    OBVIOUS
  <2> USE DEF IInv
  <2>1. Core' /\ FlagsOK' /\ BuffersOK'
    BY CoreStep, FlagsStep, BuffersStep
  <2>2. Bounded' /\ TokenConserved'
    BY TokensInv
  <2>3. Jobwise'
    BY JobwiseStep
  <2>4. Lines'
    BY LinesStep DEF Jobwise
  <2> QED
    BY <2>1, <2>2, <2>3, <2>4
<1> QED
  BY <1>1, <1>2, PTL DEF Spec

\* The semaphores are as mr_log needs them: free, held once or orphaned, unless sem_post or
\* fflush failed; and every variable keeps its type.
THEOREM SemaphoresKept == Spec => []SemConsistent
<1>1. IInv => SemConsistent
  <2> SUFFICES ASSUME IInv PROVE SemConsistent
    OBVIOUS
  <2>1. ASSUME NEW s \in Sems PROVE value[s] \in 0 .. 1 + MaxFaults
    <3>1. value[s] \in Nat /\ faultsLeft \in Nat /\ MaxFaults \in Nat
      BY BoundsAssumption DEF IInv, Core, DataOK, BoundsAssumption
    <3>2. Cardinality(Holders(s)) \in Nat
      BY HoldersFinite
    <3>3. value[s] + Cardinality(Holders(s)) + faultsLeft <= 1 + MaxFaults
      BY DEF IInv, Bounded, Tokens
    <3> QED
      BY <3>1, <3>2, <3>3
  <2>2. value \in [Sems -> 0 .. 1 + MaxFaults]
    BY <2>1 DEF IInv, Core, DataOK
  <2>3. TypeOK
    BY <2>2 DEF IInv, Core, DataOK, FlagsOK, TypeOK
  <2> QED
    BY <2>3 DEF IInv, SemConsistent
<1> QED
  BY <1>1, Inductive, PTL

\* No line in the file is torn unless a call of the log failed, a child died inside one, or
\* jobs that overlap have different semaphores.
THEOREM LinesInOnePiece == Spec => []LinesWhole
<1>1. IInv => LinesWhole
  BY DEF IInv, Lines, Clean, LinesWhole
<1> QED
  BY <1>1, Inductive, PTL

\* A job in which nothing fails returns 0, unless it overlaps another.
THEOREM QuietJobs == Spec => []QuietJobsSucceed
<1>1. IInv => QuietJobsSucceed
  BY DEF IInv, Jobwise
<1> QED
  BY <1>1, Inductive, PTL

\* When every job has returned the name of the semaphore is gone.
THEOREM NameIsRemoved == Spec => []NameRemoved
<1>1. IInv => NameRemoved
  BY DEF IInv, Jobwise
<1> QED
  BY <1>1, Inductive, PTL

\* Mutual exclusion in the file: while fflush has not failed and no overlapping jobs have
\* different semaphores, two threads are never between sem_wait and sem_post at once.
MutualExclusion ==
  "flush" \notin failed /\ ~split =>
    \A l, m \in Loggers : Inside(l) /\ Inside(m) => l = m

\* The log is written by one thread at a time, for any number of jobs and threads.
THEOREM OneWriter == Spec => []MutualExclusion
<1>1. IInv => MutualExclusion
  BY OneInside DEF IInv, Jobwise, MutualExclusion
<1> QED
  BY <1>1, Inductive, PTL
================================================================================
