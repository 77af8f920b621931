--------------------------------- MODULE MrLog ---------------------------------
(***************************************************************************)
(* The log of src/src/log.c, shared by all processes of all jobs on the    *)
(* machine: one file opened for appending and one named semaphore.  A job  *)
(* is a program that calls mr_run, and may call it again: main opens the   *)
(* log, forks a child whose threads log too (it stands for the mapper and  *)
(* the reducer), waits for it and destroys the log.  A child whose first   *)
(* log call fails returns into mr_run, destroys the log there and goes on  *)
(* with the user's program, which is not followed further, nor is what     *)
(* such a reducer does to the mapper on its way (core.c:378).              *)
(*                                                                         *)
(* The kernel keeps the semaphores and what their name denotes; stdio      *)
(* keeps a buffer in each process, which fork copies, and may write it out *)
(* before fflush asks for it.  Of the file only the last fragment is kept, *)
(* and whether some line was torn.                                         *)
(***************************************************************************)
EXTENDS Integers, Sequences, FiniteSets

CONSTANTS
  Jobs,       \* programs that call mr_run, with the same log_file
  MaxRuns,    \* bound: calls of mr_run
  Threads,    \* threads of a job's child that log
  MaxLines,   \* lines each of them logs
  FaultKinds, \* the kinds of failure in this instance
  MaxFaults,  \* bound: failing calls and children killed by a signal main did not send
  None        \* no semaphore

Main == "main"
ASSUME ThreadsAssumption == Threads # {} /\ Main \notin Threads
ASSUME FiniteAssumption == IsFiniteSet(Jobs) /\ IsFiniteSet(Threads)
ASSUME BoundsAssumption ==
  MaxRuns \in Nat /\ MaxLines \in Nat \ {0} /\ MaxFaults \in Nat
ASSUME FaultKindsAssumption ==
  FaultKinds \subseteq {"open", "wait", "write", "flush", "post", "run", "close", "signal"}
ASSUME NoneAssumption == None \notin Nat

VARIABLES
  name,     \* the semaphore that MR_LOG_SEM_NAME denotes, or None
  made,     \* how many semaphores were ever created: 1 .. made
  value,    \* value of each of them
  orphaned, \* semaphores whose holder died inside: the kernel does not post them
  sem,      \* log->sem of each job
  main,     \* control point of each main process
  child,    \* the job's child (see Logging and Live), "ended" after its work or "dead" before
  pc,       \* control point of each thread in mr_log, "out" when it is not in a call
  lines,    \* lines each thread of a child has still to log
  buffer,   \* what stdio holds back in each process
  last,     \* the last fragment in the file
  torn,     \* some line in the file is not in one piece
  err, ret, \* a call of main failed; what mr_run returned: "none", "ok", "error"
  overlap,  \* jobs that are or were open at the same time as another one
  split,    \* jobs that were open at the same time had different semaphores
  runsLeft, \* calls of mr_run to come
  failed, faultsLeft

kernel == <<name, made, value, orphaned>>
job    == <<sem, main, child, err, ret, overlap, split, runsLeft>>
stdio  == <<buffer, last, torn>>
budget == <<failed, faultsLeft>>
vars   == <<kernel, job, pc, lines, stdio, budget>>

Sems == 1 .. MaxRuns
Loggers == Jobs \X (Threads \cup {Main})
ThreadsOf(j) == {j} \X Threads
Process(l) == <<l[1], l[2] = Main>>
MainOf(j) == <<j, TRUE>>
ChildOf(j) == <<j, FALSE>>

\* The steps of mr_log between sem_wait and sem_post.
Section == {"text", "newline", "flush", "post"}
After == [text |-> "newline", newline |-> "flush"]
Inside(l) == pc[l] \in Section

\* A child makes its first log call, runs its threads, or hangs: its controller is blocked
\* for good while its threads go on.  One that escapes is on its way back to mr_run's
\* caller, where an escaped one runs the user's program.
Logging == {"starting", "running", "hung", "escaping"}
Live == Logging \cup {"escaped"}
Runs(l) == IF l[2] = Main THEN main[l[1]] # "killed" ELSE child[l[1]] \in Logging
Open(j) == main[j] \notin {"init", "returned", "killed"} \/ child[j] \in Logging

Init ==
  /\ name = None /\ made = 0 /\ value = [s \in Sems |-> 0] /\ orphaned = {}
  /\ sem = [j \in Jobs |-> None]
  /\ main = [j \in Jobs |-> "init"]
  /\ child = [j \in Jobs |-> "none"]
  /\ pc = [l \in Loggers |-> "out"]
  /\ lines = [l \in Loggers |-> 0]
  /\ buffer = [p \in Jobs \X BOOLEAN |-> <<>>]
  /\ last = [by |-> None, part |-> "newline"] /\ torn = FALSE
  /\ err = [j \in Jobs |-> FALSE] /\ ret = [j \in Jobs |-> "none"]
  /\ overlap = {} /\ split = FALSE /\ runsLeft = MaxRuns
  /\ failed = {} /\ faultsLeft = MaxFaults

Fail(k) ==
  /\ k \in FaultKinds /\ faultsLeft > 0
  /\ faultsLeft' = faultsLeft - 1
  /\ failed' = failed \cup {k}

--------------------------------------------------------------------------------
(***************************************************************************)
(* mr_log                                                                  *)
(***************************************************************************)
SemPost(l) == value' = [value EXCEPT ![sem[l[1]]] = @ + 1]

\* Fragment y may follow fragment x in a file of whole lines.
Follows(x, y) ==
  IF y.part = "text" THEN x.part = "newline" ELSE x.part = "text" /\ x.by = y.by

\* One write(2) at the end of the file.
Append2File(s) ==
  /\ last' = (<<last>> \o s)[Len(s) + 1]
  /\ torn' = (torn \/ \E k \in DOMAIN s : ~Follows((<<last>> \o s)[k], s[k]))

\* The signal that kills job j's child ends its threads where they are; out is the set of
\* threads that leave mr_log in the same step.
Kill(j, out) ==
  LET dead == IF child[j] \in Live THEN ThreadsOf(j) ELSE {} IN
  /\ child' = [child EXCEPT ![j] = IF @ \in Live THEN "dead" ELSE @]
  /\ orphaned' = orphaned \cup {sem[j] : l \in {t \in dead : Inside(t)}}
  /\ pc' = [l \in Loggers |-> IF l \in dead \cup out THEN "out" ELSE pc[l]]
  /\ lines' = [l \in Loggers |-> IF l \in dead THEN 0 ELSE lines[l]]

\* A log call of main returns.  After an error main kills its child, waits for it and
\* destroys the log, but logs the error before ("report") when the call that failed was in
\* wait_for_process.
NextPoint == [start |-> "fork", send |-> "wait", status |-> "close"]
MainReturns(l, r) ==
  LET j == l[1]
      point(p) == main' = [main EXCEPT ![j] = p]
      leave(p) == pc' = [pc EXCEPT ![l] = p] IN
  /\ l[2] = Main
  /\ CASE r = 0 /\ main[j] # "report" ->
            point(NextPoint[main[j]]) /\ leave("out")
            /\ UNCHANGED <<child, orphaned, lines, err>>
       [] r # 0 /\ main[j] = "status" ->
            point("report") /\ leave("wait")
            /\ UNCHANGED <<child, orphaned, lines, err>>
       [] OTHER ->
            point("close") /\ Kill(j, {l}) /\ err' = [err EXCEPT ![j] = TRUE]
  /\ UNCHANGED <<sem, ret, overlap, split, runsLeft>>

\* The first log call of a child returns: its threads begin to log, or, when the call
\* failed, the child logs that too and leaves for mr_run.
ChildStarts(l, r) ==
  LET j == l[1] IN
  /\ l[2] # Main /\ child[j] = "starting"
  /\ \/ /\ r = 0
        /\ child' = [child EXCEPT ![j] = "running"]
        /\ pc' = [k \in Loggers |-> IF k \in ThreadsOf(j) THEN "wait" ELSE pc[k]]
        /\ lines' = [k \in Loggers |-> IF k \in ThreadsOf(j) THEN MaxLines ELSE lines[k]]
     \/ /\ r # 0
        /\ child' = [child EXCEPT ![j] = "escaping"]
        /\ pc' = [pc EXCEPT ![l] = "wait"]
        /\ UNCHANGED lines
  /\ UNCHANGED <<sem, main, err, ret, overlap, split, runsLeft, orphaned>>

\* A thread of a child goes on to its next line, and ends when the call failed.  When the
\* workers end so, nobody takes what the controller puts into the queue, and it may hang.
ThreadReturns(l, r) ==
  LET j == l[1]
      more == r = 0 /\ lines[l] > 1 IN
  /\ l[2] # Main /\ child[j] # "starting"
  /\ lines' = [lines EXCEPT ![l] = IF more THEN @ - 1 ELSE 0]
  /\ pc' = [pc EXCEPT ![l] = IF more THEN "wait" ELSE "out"]
  /\ \/ UNCHANGED child
     \/ r # 0 /\ child[j] = "running" /\ child' = [child EXCEPT ![j] = "hung"]
  /\ UNCHANGED <<sem, main, err, ret, overlap, split, runsLeft, orphaned>>

\* The log call of l returns r.
Return(l, r) == MainReturns(l, r) \/ ChildStarts(l, r) \/ ThreadReturns(l, r)

\* Mutant: the semaphore is not waited for.
LogWaitSkipped(l) ==
  /\ Runs(l) /\ pc[l] = "wait"
  /\ pc' = [pc EXCEPT ![l] = "text"]
  /\ UNCHANGED <<kernel, job, lines, stdio, budget>>

LogWait(l) ==
  /\ Runs(l) /\ pc[l] = "wait"
  /\ \/ /\ value[sem[l[1]]] > 0
        /\ value' = [value EXCEPT ![sem[l[1]]] = @ - 1]
        /\ pc' = [pc EXCEPT ![l] = "text"]
        /\ UNCHANGED <<orphaned, job, lines, budget>>
     \/ Fail("wait") /\ Return(l, -1) /\ UNCHANGED value
  /\ UNCHANGED <<name, made, stdio>>

\* A fragment goes into the buffer; stdio writes a long text out at once.
WritePart(l) ==
  LET b == Append(buffer[Process(l)], [by |-> l, part |-> pc[l]]) IN
  /\ \/ buffer' = [buffer EXCEPT ![Process(l)] = b] /\ UNCHANGED <<last, torn>>
     \/ /\ pc[l] = "text"
        /\ buffer' = [buffer EXCEPT ![Process(l)] = <<>>]
        /\ Append2File(b)
  /\ pc' = [pc EXCEPT ![l] = After[@]]
  /\ UNCHANGED <<value, orphaned, job, lines, budget>>

\* Mutant: the error path leaves without sem_post.
LogWriteKeepsSem(l) ==
  /\ Runs(l) /\ pc[l] \in DOMAIN After
  /\ \/ WritePart(l)
     \/ Fail("write") /\ Return(l, -1) /\ UNCHANGED <<value, stdio>>
  /\ UNCHANGED <<name, made>>

\* time, fprintf of the prefix and vfprintf of the message; fputc of the newline.  When
\* one fails nothing takes back what is in the buffer already.
LogWrite(l) ==
  /\ Runs(l) /\ pc[l] \in DOMAIN After
  /\ \/ WritePart(l)
     \/ Fail("write") /\ SemPost(l) /\ Return(l, -1) /\ UNCHANGED stdio
  /\ UNCHANGED <<name, made>>

\* Mutant: the line is left to stdio.
LogFlushLater(l) ==
  /\ Runs(l) /\ pc[l] = "flush"
  /\ pc' = [pc EXCEPT ![l] = "post"]
  /\ UNCHANGED <<kernel, job, lines, stdio, budget>>

\* After a failing fflush, which may or may not keep the buffer, the semaphore is posted
\* here and once more in LogPost.
LogFlush(l) ==
  /\ Runs(l) /\ pc[l] = "flush"
  /\ \/ /\ Append2File(buffer[Process(l)])
        /\ buffer' = [buffer EXCEPT ![Process(l)] = <<>>]
        /\ UNCHANGED <<value, budget>>
     \/ /\ Fail("flush")
        /\ SemPost(l)
        /\ buffer' \in {buffer, [buffer EXCEPT ![Process(l)] = <<>>]}
        /\ UNCHANGED <<last, torn>>
  /\ pc' = [pc EXCEPT ![l] = "post"]
  /\ UNCHANGED <<name, made, orphaned, job, lines>>

LogPost(l) ==
  /\ Runs(l) /\ pc[l] = "post"
  /\ \/ SemPost(l) /\ Return(l, 0) /\ UNCHANGED budget
     \/ Fail("post") /\ Return(l, -1) /\ UNCHANGED value
  /\ UNCHANGED <<name, made, stdio>>

mr_log(l) == LogWait(l) \/ LogWrite(l) \/ LogFlush(l) \/ LogPost(l)

--------------------------------------------------------------------------------
(***************************************************************************)
(* mr_run: mr_log_init, the job, mr_log_destroy.                           *)
(***************************************************************************)
At(j, ps) == main[j] \in ps /\ pc[<<j, Main>>] = "out"
Goto(j, p) == main' = [main EXCEPT ![j] = p]
\* Main goes to point p, whose log call begins; so does that of each of threads.
GotoLog(j, p, threads) ==
  /\ Goto(j, p)
  /\ pc' = [l \in Loggers |-> IF l \in threads \cup {<<j, Main>>} THEN "wait" ELSE pc[l]]

\* fopen and sem_open, which creates the semaphore with value 1 when there is none.
mr_log_init(j) ==
  /\ At(j, {"init", "returned"}) /\ runsLeft > 0
  /\ runsLeft' = runsLeft - 1
  /\ \/ LET s == IF name = None THEN made + 1 ELSE name
            others == {k \in Jobs \ {j} : Open(k)} IN
        /\ name' = s
        /\ made' = IF name = None THEN s ELSE made
        /\ value' = IF name = None THEN [value EXCEPT ![s] = 1] ELSE value
        /\ sem' = [sem EXCEPT ![j] = s]
        /\ overlap' = IF others = {} THEN overlap \ {j} ELSE overlap \cup others \cup {j}
        /\ split' = (split \/ \E k \in others : sem[k] # s)
        /\ GotoLog(j, "start", {})
        /\ ret' = [ret EXCEPT ![j] = "none"]
        /\ UNCHANGED budget
     \/ /\ Fail("open")
        /\ Goto(j, "returned")
        /\ ret' = [ret EXCEPT ![j] = "error"]
        /\ UNCHANGED <<name, made, value, sem, overlap, split, pc>>
  /\ child' = [child EXCEPT ![j] = "none"]
  /\ err' = [err EXCEPT ![j] = FALSE]
  /\ UNCHANGED <<orphaned, lines, stdio>>

\* spawn_processes: the child inherits the handles and a copy of the buffer, and one of its
\* threads makes its first log call.
MainFork(j) ==
  /\ At(j, {"fork"})
  /\ child' = [child EXCEPT ![j] = "starting"]
  /\ buffer' = [buffer EXCEPT ![ChildOf(j)] = buffer[MainOf(j)]]
  /\ \E l \in ThreadsOf(j) : GotoLog(j, "send", {l})
  /\ UNCHANGED <<kernel, sem, lines, err, ret, overlap, split, runsLeft, last, torn, budget>>

\* Main works for the job until the child is over, then logs how it ended; or a step of the
\* job fails, and main logs it and kills the child; or main is killed by SIGPIPE: nobody
\* reads what it sends, its child being gone before its work was done, or a part of it.
MainWait(j) ==
  /\ At(j, {"wait"})
  /\ \/ /\ child[j] \in {"ended", "dead"}
        /\ GotoLog(j, "status", {})
        /\ UNCHANGED <<orphaned, child, lines, err, budget>>
     \/ /\ Fail("run")
        /\ GotoLog(j, "report", {})
        /\ UNCHANGED <<orphaned, child, lines, err>>
     \/ /\ \/ child[j] \in {"dead", "escaping", "escaped"} /\ UNCHANGED budget
           \/ Fail("run")
        /\ Goto(j, "killed")
        /\ UNCHANGED <<orphaned, child, err, pc, lines>>
  /\ UNCHANGED <<name, made, value, sem, ret, overlap, split, runsLeft, stdio>>

\* Mutant: the name is removed here and once more in DestroyUnlink.
DestroyCloseUnlinks(j) ==
  /\ At(j, {"close"})
  /\ Append2File(buffer[MainOf(j)])
  /\ buffer' = [buffer EXCEPT ![MainOf(j)] = <<>>]
  /\ name' = None
  /\ Goto(j, "unlink")
  /\ UNCHANGED <<made, value, orphaned, sem, child, err, ret, overlap, split, runsLeft,
                 pc, lines, budget>>

\* mr_log_destroy: fclose, which writes out what stdio still holds, and sem_close; when
\* one of them fails the rest is done all the same.
DestroyClose(j) ==
  /\ At(j, {"close"})
  /\ \/ UNCHANGED <<err, budget>>
     \/ Fail("close") /\ err' = [err EXCEPT ![j] = TRUE]
  /\ Append2File(buffer[MainOf(j)])
  /\ buffer' = [buffer EXCEPT ![MainOf(j)] = <<>>]
  /\ Goto(j, "unlink")
  /\ UNCHANGED <<kernel, sem, child, ret, overlap, split, runsLeft, pc, lines>>

\* Mutant: after an error the name is not removed.
DestroyNoUnlink(j) ==
  /\ At(j, {"unlink"})
  /\ name' = IF err[j] THEN name ELSE None
  /\ ret' = [ret EXCEPT ![j] = IF err[j] \/ name = None THEN "error" ELSE "ok"]
  /\ Goto(j, "returned")
  /\ UNCHANGED <<made, value, orphaned, sem, child, err, overlap, split, runsLeft,
                 pc, lines, stdio, budget>>

\* sem_unlink fails when there is no such name; mr_run returns.
DestroyUnlink(j) ==
  /\ At(j, {"unlink"})
  /\ name' = None
  /\ ret' = [ret EXCEPT ![j] = IF err[j] \/ name = None THEN "error" ELSE "ok"]
  /\ Goto(j, "returned")
  /\ UNCHANGED <<made, value, orphaned, sem, child, err, overlap, split, runsLeft,
                 pc, lines, stdio, budget>>

mr_run(j) ==
  \/ mr_log_init(j) \/ MainFork(j) \/ MainWait(j) \/ DestroyClose(j) \/ DestroyUnlink(j)

\* The child _exits when its threads have ended; what its buffer holds is lost.
ChildExit(j) ==
  /\ child[j] = "running"
  /\ \A l \in ThreadsOf(j) : pc[l] = "out"
  /\ child' = [child EXCEPT ![j] = "ended"]
  /\ UNCHANGED <<kernel, sem, main, err, ret, overlap, split, runsLeft,
                 pc, lines, stdio, budget>>

\* Workers leave for another reason than the log, and the controller hangs.
ChildHangs(j) ==
  /\ child[j] = "running" /\ Fail("run")
  /\ child' = [child EXCEPT ![j] = "hung"]
  /\ UNCHANGED <<kernel, sem, main, err, ret, overlap, split, runsLeft, pc, lines, stdio>>

\* The child is killed by SIGPIPE, by a fault in the user's functions or from outside; or a
\* step of it fails, and it _exits with its threads where they are.
ChildDies(j) ==
  /\ \/ child[j] \in Live /\ Fail("signal")
     \/ child[j] = "running" /\ Fail("run")
  /\ Kill(j, {})
  /\ UNCHANGED <<name, made, value, sem, main, err, ret, overlap, split, runsLeft, stdio>>

\* A child that returned into mr_run destroys the log: stdio writes out what its buffer
\* holds, and the name is removed though main and others use it.
ChildUnlinks(j) ==
  /\ child[j] = "escaping" /\ \A l \in ThreadsOf(j) : pc[l] = "out"
  /\ Append2File(buffer[ChildOf(j)])
  /\ buffer' = [buffer EXCEPT ![ChildOf(j)] = <<>>]
  /\ name' = None
  /\ child' = [child EXCEPT ![j] = "escaped"]
  /\ UNCHANGED <<made, value, orphaned, sem, main, err, ret, overlap, split, runsLeft,
                 pc, lines, budget>>

\* The user's program in the child ends, if it ever does.
EscapedExits(j) ==
  /\ child[j] = "escaped"
  /\ child' = [child EXCEPT ![j] = "ended"]
  /\ UNCHANGED <<kernel, sem, main, err, ret, overlap, split, runsLeft,
                 pc, lines, stdio, budget>>

child_process(j) ==
  ChildExit(j) \/ ChildHangs(j) \/ ChildDies(j) \/ ChildUnlinks(j) \/ EscapedExits(j)

Next ==
  \/ \E l \in Loggers : mr_log(l)
  \/ \E j \in Jobs : mr_run(j) \/ child_process(j)

Spec == Init /\ [][Next]_vars

\* As long as some thread of some job can run, one does (the work is finite, so this is
\* enough); nothing has to fail, and the user's program need not end.
FairSpec ==
  /\ Spec
  /\ WF_vars(/\ UNCHANGED budget
             /\ \/ \E l \in Loggers : mr_log(l)
                \/ \E j \in Jobs : mr_run(j) \/ ChildExit(j) \/ ChildUnlinks(j))

--------------------------------------------------------------------------------
(***************************************************************************)
(* Properties                                                              *)
(***************************************************************************)

\* Every variable keeps its type; a semaphore's value is at most the number of posts
\* that were never waited for.
TypeOK ==
  /\ name \in Sems \cup {None} /\ made \in 0 .. MaxRuns
  /\ value \in [Sems -> 0 .. 1 + MaxFaults]
  /\ orphaned \subseteq Sems /\ sem \in [Jobs -> Sems \cup {None}]
  /\ main \in [Jobs -> {"init", "start", "fork", "send", "wait", "status", "report",
                        "close", "unlink", "returned", "killed"}]
  /\ child \in [Jobs -> {"none", "ended", "dead"} \cup Live]
  /\ pc \in [Loggers -> {"out", "wait"} \cup Section]
  /\ lines \in [Loggers -> 0 .. MaxLines]
  /\ err \in [Jobs -> BOOLEAN] /\ ret \in [Jobs -> {"none", "ok", "error"}]
  /\ overlap \subseteq Jobs /\ split \in BOOLEAN /\ torn \in BOOLEAN
  /\ runsLeft \in 0 .. MaxRuns
  /\ failed \subseteq FaultKinds
  /\ faultsLeft \in 0 .. MaxFaults

Holders(s) == {l \in Loggers : Inside(l) /\ sem[l[1]] = s}

\* Each semaphore is free, held once or orphaned, on every path through mr_log but two: a
\* failing sem_post, and a failing fflush, after which it is posted twice.
TokenConserved ==
  failed \cap {"flush", "post"} = {} =>
    \A s \in 1 .. made :
      value[s] + Cardinality(Holders(s)) = IF s \in orphaned THEN 0 ELSE 1

\* The semaphores are as mr_log needs them and every variable keeps its type.
SemConsistent == TypeOK /\ TokenConserved

\* Every line in the file is in one piece, whoever writes and whatever stdio writes out
\* early, unless a call of the log failed, a child died inside one, or jobs that overlap
\* each other use different semaphores.
LinesWhole ==
  torn => \/ failed \cap {"write", "flush"} # {}
          \/ orphaned # {}
          \/ split

\* A job in which no call fails returns 0, unless it overlaps another job: then the name
\* it has to remove may be gone (sem_unlink in mr_log_destroy).
QuietJobsSucceed ==
  \A j \in Jobs : ret[j] = "error" /\ failed = {} => j \in overlap

\* When every job has returned, the name of the semaphore is gone, however they failed.
NameRemoved == (\A j \in Jobs : main[j] \in {"init", "returned"}) => name = None

\* No process waits for the log for good, whatever fails in it, unless a sem_post failed
\* or a child died inside: then its semaphore is never posted, and every job that opens
\* the log later waits for it too.  Every job ends but one whose main waits for a child
\* that is not in mr_log: it hangs for want of workers, or runs the user's program.
EveryJobEnds ==
  []("post" \notin failed /\ orphaned = {}) =>
    \A j \in Jobs :
      \/ []<>(main[j] \in {"init", "returned", "killed"})
      \/ <>[](/\ main[j] = "wait" /\ child[j] \in {"hung", "escaped"}
              /\ \A l \in ThreadsOf(j) : pc[l] = "out")
================================================================================
