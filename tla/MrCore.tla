-------------------------------- MODULE MrCore --------------------------------
(***************************************************************************)
(* The pipeline of src/src/core.c: main makes three pipes, forks the       *)
(* mapper and the reducer, sends the input, receives the results and waits *)
(* for both.  Every process is a program of system calls, one step each,   *)
(* over descriptor tables that fork copies; a pipe delivers end of file    *)
(* when no process holds its write end, and kills a writer with SIGPIPE    *)
(* when none holds its read end (nothing in src/ handles that signal).     *)
(*                                                                         *)
(* Lines, pairs and results are counted, not told apart.  What happens     *)
(* between the threads of the mapper and of the reducer is in MrMapper and *)
(* MrReducer; here a body works, has lost all its workers, or is stuck.    *)
(***************************************************************************)
EXTENDS Integers, Sequences, FiniteSets

CONSTANTS
  NMessages,   \* messages main sends: file names, lines and ends of file
  PipeCap,     \* messages a pipe holds before a writer blocks
  Backlog,     \* lines the mapper process holds: its queue and its workers
  FaultKinds,  \* the kinds of call that may fail in this instance
  MaxFaults    \* bound: failing calls

ASSUME BoundsAssumption ==
  /\ NMessages \in Nat /\ PipeCap \in Nat \ {0} /\ Backlog \in Nat \ {0}
  /\ MaxFaults \in Nat
ASSUME FaultKindsAssumption ==
  FaultKinds \subseteq {"log", "pipe", "fork", "close", "dup2", "io", "wait",
                  "body", "worker"}

VARIABLES
  pc,         \* index of the next step of each process's program
  st,         \* "none", "running", "zombie", "reaped"; main: "returned", "killed";
              \* a child that returned from mr_start into the caller: "escaped"
  code,       \* how a child ended: "success", "failure" or "signal"
  fds,        \* pipe ends each process holds under the number pipe() gave them
  std,        \* pipe ends each process holds as stdin or stdout
  data,       \* messages in each pipe
  sent, backlog, mapped, emitted,    \* main's and the mapper's progress
  collected, toEmit, results,        \* the reducer's progress
  workers,    \* the threads of each body: "work", all "left", or "stuck" for good
  received,   \* results main wrote to the output file
  ret,        \* what spawn_processes returned in main: "none", "ok", "error"
  failed, faultsLeft

progress ==
  <<sent, backlog, mapped, emitted, collected, toEmit, results, received, workers>>
budget == <<failed, faultsLeft>>
vars == <<pc, st, code, fds, std, data, progress, ret, budget>>

Procs == {"main", "mapper", "reducer"}
Children == {"mapper", "reducer"}
Pipes == {"main_to_mapper", "mapper_to_reducer", "reducer_to_main"}
R(k) == <<k, "r">>
W(k) == <<k, "w">>
Both(k) == {R(k), W(k)}
Ends == UNION {Both(k) : k \in Pipes}

Op(op, arg) == [op |-> op, arg |-> arg]

\* spawn_processes up to the closing of the last pipe end.
MainRuns == <<
  Op("log", ""),
  Op("pipe", "main_to_mapper"),
  Op("pipe", "mapper_to_reducer"),
  Op("pipe", "reducer_to_main"),
  Op("fork", "mapper"),
  Op("fork", "reducer"),
  Op("close", R("main_to_mapper")),
  Op("close", R("mapper_to_reducer")),
  Op("close", W("mapper_to_reducer")),
  Op("close", W("reducer_to_main")),
  Op("log", ""),
  Op("send", "main_to_mapper"),
  Op("close", W("main_to_mapper")),
  Op("receive", "reducer_to_main"),
  Op("close", R("reducer_to_main"))>>

\* Mutant: the reducer is not waited for.
MainProgramNoWait == MainRuns \o <<Op("wait", "mapper"), Op("return", "")>>

\* spawn_processes
MainProgram ==
  MainRuns \o <<Op("wait", "mapper"), Op("wait", "reducer"), Op("return", "")>>

\* What the command block of each step does before spawn_processes returns -1: the
\* children it kills and waits for, and the ends it closes.  (Where spawn_*_process
\* closes some ends first and its caller closes them again, both are one set.)
Undo(kill, close) == [kill |-> kill, close |-> close]
Cleanup == <<
  Undo({}, {}),
  Undo({}, {}),
  Undo({}, Both("main_to_mapper")),
  Undo({}, Both("main_to_mapper") \cup Both("mapper_to_reducer")),
  Undo({}, Ends),
  Undo({"mapper"}, Ends \ {R("main_to_mapper")}),
  Undo({"mapper"}, Ends \ {R("main_to_mapper")}),
  Undo(Children, Ends \ {R("main_to_mapper"), R("mapper_to_reducer")}),
  Undo(Children, {W("main_to_mapper")} \cup Both("reducer_to_main")),
  Undo(Children, Ends \ {R("main_to_mapper")}),
  Undo(Children, {W("main_to_mapper"), R("reducer_to_main")}),
  Undo(Children, {W("main_to_mapper"), R("reducer_to_main")}),
  Undo(Children, {R("reducer_to_main")}),
  Undo(Children, {R("reducer_to_main")}),
  Undo(Children, {}),
  Undo({"reducer"}, {}),
  Undo({}, {})>>

\* The mapper child of spawn_mapper_process after the write end of its input pipe.
MapperRest == <<
  Op("close", R("mapper_to_reducer")),
  Op("close", R("reducer_to_main")),
  Op("close", W("reducer_to_main")),
  Op("dup2", R("main_to_mapper")),
  Op("close", R("main_to_mapper")),
  Op("dup2", W("mapper_to_reducer")),
  Op("close", W("mapper_to_reducer")),
  Op("body", "")>>

\* Mutant: the mapper keeps the write end of its own input pipe.
MapperProgramNoClose == <<Op("log", "")>> \o MapperRest

\* The mapper child of spawn_mapper_process.
MapperProgram == <<Op("log", ""), Op("close", W("main_to_mapper"))>> \o MapperRest

\* The reducer child of spawn_reducer_process.
ReducerProgram == <<
  Op("log", ""),
  Op("close", R("main_to_mapper")),
  Op("close", W("main_to_mapper")),
  Op("close", W("mapper_to_reducer")),
  Op("close", R("reducer_to_main")),
  Op("dup2", R("mapper_to_reducer")),
  Op("close", R("mapper_to_reducer")),
  Op("dup2", W("reducer_to_main")),
  Op("close", W("reducer_to_main")),
  Op("body", "")>>

Program == [main |-> MainProgram, mapper |-> MapperProgram, reducer |-> ReducerProgram]

Init ==
  /\ pc = [p \in Procs |-> 1]
  /\ st = [p \in Procs |-> IF p = "main" THEN "running" ELSE "none"]
  /\ code = [p \in Children |-> "none"]
  /\ fds = [p \in Procs |-> {}]
  /\ std = [p \in Procs |-> {}]
  /\ data = [k \in Pipes |-> 0]
  /\ sent = 0 /\ backlog = 0 /\ mapped = 0 /\ emitted = 0
  /\ collected = 0 /\ toEmit = -1 /\ results = 0 /\ received = 0
  /\ workers = [p \in Children |-> "work"]
  /\ ret = "none"
  /\ failed = {} /\ faultsLeft = MaxFaults

--------------------------------------------------------------------------------
(***************************************************************************)
(* Processes and pipes.                                                    *)
(***************************************************************************)
Doing(p, op) == st[p] = "running" /\ Program[p][pc[p]].op = op
Arg(p) == Program[p][pc[p]].arg
Advance(p) == pc' = [pc EXCEPT ![p] = @ + 1]

Holders(e) == {p \in Procs : e \in fds[p] \cup std[p]}
HasReader(k) == Holders(R(k)) # {}
Eof(k) == data[k] = 0 /\ Holders(W(k)) = {}

Fail(k) ==
  /\ k \in FaultKinds
  /\ faultsLeft > 0
  /\ faultsLeft' = faultsLeft - 1
  /\ failed' = failed \cup {k}

\* Child p ends with status s: the kernel closes its descriptors, the parent has to wait.
EndChild(p, s) ==
  /\ st' = [st EXCEPT ![p] = "zombie"]
  /\ code' = [code EXCEPT ![p] = s]
  /\ fds' = [fds EXCEPT ![p] = {}]
  /\ std' = [std EXCEPT ![p] = {}]

\* A command block of spawn_processes: SIGTERM and waitpid for the children in kill, the
\* ends in close are closed, -1 is returned; those in waited had been waited for before.
GiveUp(kill, close, waited) ==
  /\ st' = [p \in Procs |-> IF p = "main" THEN "returned"
                            ELSE IF p \in kill \cup waited THEN "reaped" ELSE st[p]]
  /\ code' = [p \in Children |-> IF p \in kill /\ st[p] # "zombie"
                                 THEN "signal" ELSE code[p]]
  /\ fds' = [p \in Procs |-> IF p = "main" THEN fds[p] \ close
                             ELSE IF p \in kill THEN {} ELSE fds[p]]
  /\ std' = [p \in Procs |-> IF p \in kill THEN {} ELSE std[p]]
  /\ ret' = "error"
  /\ UNCHANGED pc

\* Mutant: the error path does not close the pipes.
MainGivesUpLeaks(closed, waited) == GiveUp(Cleanup[pc["main"]].kill, closed, waited)

\* The current step of main fails, after it has itself closed the ends in closed and waited
\* for the children in waited.
MainGivesUp(closed, waited) ==
  GiveUp(Cleanup[pc["main"]].kill, Cleanup[pc["main"]].close \cup closed, waited)

--------------------------------------------------------------------------------
(***************************************************************************)
(* Main: spawn_processes.                                                  *)
(***************************************************************************)
MainLog ==
  /\ Doing("main", "log")
  /\ \/ Advance("main") /\ UNCHANGED <<st, code, fds, std, ret, budget>>
     \/ Fail("log") /\ MainGivesUp({}, {})
  /\ UNCHANGED <<data, progress>>

MainPipe ==
  /\ Doing("main", "pipe")
  /\ \/ /\ fds' = [fds EXCEPT !["main"] = @ \cup Both(Arg("main"))]
        /\ Advance("main")
        /\ UNCHANGED <<st, code, std, ret, budget>>
     \/ Fail("pipe") /\ MainGivesUp({}, {})
  /\ UNCHANGED <<data, progress>>

\* fork: the child starts with a copy of main's descriptors.
MainFork ==
  /\ Doing("main", "fork")
  /\ \/ /\ st' = [st EXCEPT ![Arg("main")] = "running"]
        /\ fds' = [fds EXCEPT ![Arg("main")] = fds["main"]]
        /\ Advance("main")
        /\ UNCHANGED <<code, std, ret, budget>>
     \/ Fail("fork") /\ MainGivesUp({}, {})
  /\ UNCHANGED <<data, progress>>

\* close: on Linux the descriptor is gone even when close reports an error.
MainClose ==
  /\ Doing("main", "close")
  /\ \/ /\ fds' = [fds EXCEPT !["main"] = @ \ {Arg("main")}]
        /\ Advance("main")
        /\ UNCHANGED <<st, code, std, ret, budget>>
     \/ Fail("close") /\ MainGivesUp({Arg("main")}, {})
  /\ UNCHANGED <<data, progress>>

\* One message goes into the pipe; with nobody left to read it, it kills main (SIGPIPE).
SendMessage ==
  /\ \/ /\ HasReader(Arg("main"))
        /\ data[Arg("main")] < PipeCap
        /\ data' = [data EXCEPT ![Arg("main")] = @ + 1]
        /\ sent' = sent + 1
        /\ UNCHANGED <<st, fds>>
     \/ /\ ~HasReader(Arg("main"))
        /\ st' = [st EXCEPT !["main"] = "killed"]
        /\ fds' = [fds EXCEPT !["main"] = {}]
        /\ UNCHANGED <<data, sent>>
  /\ UNCHANGED <<pc, code, std, ret, budget>>
SentAll == Advance("main") /\ UNCHANGED <<st, code, fds, std, data, sent, ret, budget>>

\* send_input_to_mapper
MainSend ==
  /\ Doing("main", "send")
  /\ \/ sent < NMessages /\ SendMessage
     \/ sent = NMessages /\ SentAll
     \/ Fail("io") /\ MainGivesUp({}, {}) /\ UNCHANGED <<data, sent>>
  /\ UNCHANGED <<backlog, mapped, emitted, collected, toEmit, results, received, workers>>

\* One result comes out of the pipe and goes into the output file.
TakeResult ==
  /\ data[Arg("main")] > 0
  /\ data' = [data EXCEPT ![Arg("main")] = @ - 1]
  /\ received' = received + 1
  /\ UNCHANGED <<pc, st, code, fds, std, ret, budget>>
TookAll == Advance("main") /\ UNCHANGED <<st, code, fds, std, data, received, ret, budget>>

\* receive_output_from_reducer
MainReceive ==
  /\ Doing("main", "receive")
  /\ \/ TakeResult
     \/ Eof(Arg("main")) /\ TookAll
     \/ Fail("io") /\ MainGivesUp({}, {}) /\ UNCHANGED <<data, received>>
  /\ UNCHANGED <<sent, backlog, mapped, emitted, collected, toEmit, results, workers>>

\* wait_for_process: the status of the child is logged and not looked at.
MainWait ==
  /\ Doing("main", "wait")
  /\ \/ /\ st[Arg("main")] = "zombie"
        /\ st' = [st EXCEPT ![Arg("main")] = "reaped"]
        /\ Advance("main")
        /\ UNCHANGED <<code, fds, std, ret, budget>>
     \/ st[Arg("main")] = "zombie" /\ Fail("log") /\ MainGivesUp({}, {Arg("main")})
     \/ Fail("wait") /\ MainGivesUp({}, {})
  /\ UNCHANGED <<data, progress>>

\* spawn_processes returns 0; mr_run destroys the log, which may fail.
MainReturn ==
  /\ Doing("main", "return")
  /\ st' = [st EXCEPT !["main"] = "returned"]
  /\ \/ ret' = "ok" /\ UNCHANGED budget
     \/ ret' = "error" /\ Fail("log")
  /\ UNCHANGED <<pc, code, fds, std, data, progress>>

Main ==
  \/ MainLog \/ MainPipe \/ MainFork \/ MainClose
  \/ MainSend \/ MainReceive \/ MainWait \/ MainReturn

--------------------------------------------------------------------------------
(***************************************************************************)
(* The set-up of a child.                                                  *)
(***************************************************************************)

\* When the first log line fails the child returns -1 to spawn_processes, whose command
\* block it runs as if it were main: the reducer's copy kills the mapper.  Then mr_start
\* returns -1 to the user's program, in the child.
ChildLog(p) ==
  /\ Doing(p, "log")
  /\ \/ /\ Advance(p)
        /\ UNCHANGED <<st, code, fds, std, budget>>
     \/ /\ Fail("log")
        /\ LET killed == {q \in {"mapper"} \ {p} : st[q] \in {"running", "escaped"}} IN
             /\ st' = [q \in Procs |-> IF q = p THEN "escaped"
                                       ELSE IF q \in killed THEN "zombie" ELSE st[q]]
             /\ code' = [q \in Children |-> IF q \in killed THEN "signal" ELSE code[q]]
             /\ fds' = [q \in Procs |-> IF q \in killed \cup {p} THEN {} ELSE fds[q]]
             /\ std' = [q \in Procs |-> IF q \in killed THEN {} ELSE std[q]]
        /\ UNCHANGED pc
  /\ UNCHANGED <<data, progress, ret>>

\* close and dup2 onto stdin or stdout; a failure is _exit(EXIT_FAILURE).
ChildClose(p) ==
  /\ Doing(p, "close")
  /\ \/ /\ fds' = [fds EXCEPT ![p] = @ \ {Arg(p)}]
        /\ Advance(p)
        /\ UNCHANGED <<st, code, std, budget>>
     \/ Fail("close") /\ EndChild(p, "failure") /\ UNCHANGED pc
  /\ UNCHANGED <<data, progress, ret>>

ChildDup2(p) ==
  /\ Doing(p, "dup2")
  /\ \/ /\ std' = [std EXCEPT ![p] = @ \cup {Arg(p)}]
        /\ Advance(p)
        /\ UNCHANGED <<st, code, fds, budget>>
     \/ Fail("dup2") /\ EndChild(p, "failure") /\ UNCHANGED pc
  /\ UNCHANGED <<data, progress, ret>>

\* mapper_process_main or reducer_process_main returns EXIT_FAILURE.
ChildFails(p) ==
  /\ Doing(p, "body")
  /\ workers[p] # "stuck"
  /\ Fail("body")
  /\ EndChild(p, "failure")
  /\ UNCHANGED <<pc, data, progress, ret>>

\* A worker of the body leaves: the user's mapper returned -1, or a call on the queue or
\* the log failed.  The line or the result it was at may be lost, and it may have been
\* the last worker; the controller is not told.
WorkerLeaves(p) ==
  /\ Doing(p, "body")
  /\ workers[p] = "work"
  /\ Fail("worker")
  /\ \/ UNCHANGED <<backlog, toEmit>>
     \/ p = "mapper" /\ backlog > 0 /\ backlog' = backlog - 1 /\ UNCHANGED toEmit
     \/ p = "reducer" /\ toEmit > 0 /\ toEmit' = toEmit - 1 /\ UNCHANGED backlog
  /\ UNCHANGED workers \/ workers' = [workers EXCEPT ![p] = "left"]
  /\ UNCHANGED <<pc, st, code, fds, std, data, ret,
                 sent, mapped, emitted, collected, results, received>>

\* The threads of a body come to wait for each other for good: behind a mutex that could
\* not be unlocked, for a wake-up that was not sent or that went to a thread that left,
\* or the reducer's controller for room in a queue that no worker empties.
BodyHangs(p) ==
  /\ Doing(p, "body")
  /\ workers[p] # "stuck"
  /\ Fail("worker")
  /\ workers' = [workers EXCEPT ![p] = "stuck"]
  /\ UNCHANGED <<pc, st, code, fds, std, data, ret,
                 sent, backlog, mapped, emitted, collected, toEmit, results, received>>

--------------------------------------------------------------------------------
(***************************************************************************)
(* The body of the mapper: the controller reads while there is room, the   *)
(* workers map what was read.  Without workers it reads until the queue is *)
(* full, or ends at end of file with the lines still in the queue.         *)
(***************************************************************************)
MapperRead ==
  /\ Doing("mapper", "body")
  /\ workers["mapper"] # "stuck"
  /\ data["main_to_mapper"] > 0
  /\ backlog < Backlog
  /\ data' = [data EXCEPT !["main_to_mapper"] = @ - 1]
  /\ backlog' = backlog + 1
  /\ UNCHANGED <<pc, st, code, fds, std, ret, budget,
                 sent, mapped, emitted, collected, toEmit, results, received, workers>>

\* A line yields no pair, or a pair that goes into the pipe or meets SIGPIPE.
MapperMap ==
  /\ Doing("mapper", "body")
  /\ workers["mapper"] = "work"
  /\ backlog > 0
  /\ \/ /\ backlog' = backlog - 1
        /\ mapped' = mapped + 1
        /\ UNCHANGED <<st, code, fds, std, data, emitted>>
     \/ /\ HasReader("mapper_to_reducer")
        /\ data["mapper_to_reducer"] < PipeCap
        /\ data' = [data EXCEPT !["mapper_to_reducer"] = @ + 1]
        /\ backlog' = backlog - 1
        /\ mapped' = mapped + 1
        /\ emitted' = emitted + 1
        /\ UNCHANGED <<st, code, fds, std>>
     \/ /\ ~HasReader("mapper_to_reducer")
        /\ EndChild("mapper", "signal")
        /\ UNCHANGED <<data, backlog, mapped, emitted>>
  /\ UNCHANGED <<pc, ret, budget, sent, collected, toEmit, results, received, workers>>

MapperEnd ==
  /\ Doing("mapper", "body")
  /\ Eof("main_to_mapper")
  /\ \/ workers["mapper"] = "work" /\ backlog = 0
     \/ workers["mapper"] = "left"
  /\ EndChild("mapper", "success")
  /\ UNCHANGED <<pc, data, progress, ret, budget>>

Mapper ==
  \/ ChildLog("mapper") \/ ChildClose("mapper") \/ ChildDup2("mapper")
  \/ MapperRead \/ MapperMap \/ MapperEnd
  \/ ChildFails("mapper") \/ WorkerLeaves("mapper") \/ BodyHangs("mapper")

(***************************************************************************)
(* The body of the reducer: collect up to end of file, then emit at least  *)
(* one result if there were pairs (at most one for each).                  *)
(***************************************************************************)
\* receive_pair_from_mapper returns a pair.
CollectPair ==
  /\ data["mapper_to_reducer"] > 0
  /\ data' = [data EXCEPT !["mapper_to_reducer"] = @ - 1]
  /\ collected' = collected + 1
  /\ UNCHANGED toEmit

\* Mutant: the collection loop does not leave at end of file.
ReducerCollectIgnoresEof ==
  /\ Doing("reducer", "body")
  /\ workers["reducer"] # "stuck"
  /\ toEmit = -1
  /\ CollectPair \/ (Eof("mapper_to_reducer") /\ UNCHANGED vars)
  /\ UNCHANGED <<pc, st, code, fds, std, ret, budget,
                 sent, backlog, mapped, emitted, results, received, workers>>

\* Mutant: an empty pipe is taken for the end of the pairs.
ReducerCollectEarly ==
  /\ Doing("reducer", "body")
  /\ workers["reducer"] # "stuck"
  /\ toEmit = -1
  /\ \/ CollectPair
     \/ /\ data["mapper_to_reducer"] = 0
        /\ toEmit' = collected
        /\ UNCHANGED <<data, collected>>
  /\ UNCHANGED <<pc, st, code, fds, std, ret, budget,
                 sent, backlog, mapped, emitted, results, received, workers>>

ReducerCollect ==
  /\ Doing("reducer", "body")
  /\ workers["reducer"] # "stuck"
  /\ toEmit = -1
  /\ \/ CollectPair
     \/ /\ Eof("mapper_to_reducer")
        /\ toEmit' \in IF collected = 0 THEN {0} ELSE 1 .. collected
        /\ UNCHANGED <<data, collected>>
  /\ UNCHANGED <<pc, st, code, fds, std, ret, budget,
                 sent, backlog, mapped, emitted, results, received, workers>>

ReducerEmit ==
  /\ Doing("reducer", "body")
  /\ workers["reducer"] = "work"
  /\ toEmit > 0
  /\ \/ /\ HasReader("reducer_to_main")
        /\ data["reducer_to_main"] < PipeCap
        /\ data' = [data EXCEPT !["reducer_to_main"] = @ + 1]
        /\ toEmit' = toEmit - 1
        /\ results' = results + 1
        /\ UNCHANGED <<st, code, fds, std>>
     \/ /\ ~HasReader("reducer_to_main")
        /\ EndChild("reducer", "signal")
        /\ UNCHANGED <<data, toEmit, results>>
  /\ UNCHANGED <<pc, ret, budget,
                 sent, backlog, mapped, emitted, collected, received, workers>>

ReducerEnd ==
  /\ Doing("reducer", "body")
  /\ \/ workers["reducer"] = "work" /\ toEmit = 0
     \/ workers["reducer"] = "left" /\ toEmit >= 0
  /\ EndChild("reducer", "success")
  /\ UNCHANGED <<pc, data, progress, ret, budget>>

Reducer ==
  \/ ChildLog("reducer") \/ ChildClose("reducer") \/ ChildDup2("reducer")
  \/ ReducerCollect \/ ReducerEmit \/ ReducerEnd
  \/ ChildFails("reducer") \/ WorkerLeaves("reducer") \/ BodyHangs("reducer")

--------------------------------------------------------------------------------
\* Nothing runs any more.
Over == (\A p \in Procs : st[p] # "running") /\ UNCHANGED vars

Next == Main \/ Mapper \/ Reducer \/ Over

Spec == Init /\ [][Next]_vars

\* The kernel schedules every process that can run; no call has to fail (budget is
\* unchanged).
FairSpec ==
  /\ Spec
  /\ WF_vars(Main /\ UNCHANGED budget)
  /\ WF_vars(Mapper /\ UNCHANGED budget)
  /\ WF_vars(Reducer /\ UNCHANGED budget)

--------------------------------------------------------------------------------
(***************************************************************************)
(* Properties                                                              *)
(***************************************************************************)

\* Every variable keeps its type and no pipe holds more than it can.
TypeOK ==
  /\ pc \in [Procs -> 1 .. Len(MainProgram)]
  /\ \A p \in Procs : pc[p] <= Len(Program[p])
  /\ st \in [Procs -> {"none", "running", "zombie", "reaped", "escaped",
                       "returned", "killed"}]
  /\ code \in [Children -> {"none", "success", "failure", "signal"}]
  /\ fds \in [Procs -> SUBSET Ends]
  /\ std \in [Procs -> SUBSET Ends]
  /\ data \in [Pipes -> 0 .. PipeCap]
  /\ sent \in 0 .. NMessages /\ backlog \in 0 .. Backlog
  /\ mapped \in 0 .. NMessages /\ emitted \in 0 .. NMessages
  /\ collected \in 0 .. NMessages /\ toEmit \in -1 .. NMessages
  /\ results \in 0 .. NMessages /\ received \in 0 .. NMessages
  /\ workers \in [Children -> {"work", "left", "stuck"}]
  /\ ret \in {"none", "ok", "error"}
  /\ failed \subseteq FaultKinds /\ faultsLeft \in 0 .. MaxFaults

\* A process that has finished its set-up holds the pipe ends it uses and no other: a
\* write end left open anywhere would keep end of file from a reader.
OnlyUsedEnds ==
  /\ Doing("mapper", "body") =>
       fds["mapper"] = {} /\ std["mapper"] = {R("main_to_mapper"), W("mapper_to_reducer")}
  /\ Doing("reducer", "body") =>
       fds["reducer"] = {} /\ std["reducer"] = {R("mapper_to_reducer"), W("reducer_to_main")}
  /\ Doing("main", "send") => fds["main"] = {W("main_to_mapper"), R("reducer_to_main")}
  /\ Doing("main", "receive") => fds["main"] = {R("reducer_to_main")}

\* The descriptors of all three processes are as each stage needs them, the pipes within
\* their bounds and every variable in its type.
EndsConsistent == TypeOK /\ OnlyUsedEnds

\* When spawn_processes returns 0 both children have been waited for and main holds no
\* pipe end; nor does any other process.
OkIsClean ==
  ret = "ok" => /\ \A p \in Children : st[p] = "reaped"
                /\ \A p \in Procs : fds[p] = {} /\ std[p] = {}

\* What an error leaves behind: no child, unless close or waitpid failed (see NoZombies),
\* and no descriptor, except that the error path of a failed second fork forgets the read
\* end of main_to_mapper.
ErrorIsClean ==
  ret = "error" =>
    /\ failed \cap {"close", "wait"} = {} => \A p \in Children : st[p] \in {"none", "reaped"}
    /\ fds["main"] # {} => "fork" \in failed /\ fds["main"] = {R("main_to_mapper")}

\* The pipeline implements the job a caller has in mind: the barrier between mapping and
\* reducing, which no single process enforces, and 0 only with every result received,
\* also when something failed.
Job == INSTANCE AbstractJob WITH
         broken <- failed # {},
         state <- IF st["main"] = "killed" THEN "killed"
                  ELSE IF ret = "none" THEN "running" ELSE ret
ImplementsJob == Job!Spec

\* The body of a child waits for good: its threads for each other, or the mapper's
\* controller for room in a queue that no worker is left to empty.
Stuck(p) ==
  /\ Doing(p, "body")
  /\ \/ workers[p] = "stuck"
     \/ /\ p = "mapper" /\ workers[p] = "left"
        /\ backlog = Backlog /\ data["main_to_mapper"] > 0

\* Whatever fails, but for the log (which can send a child back into the user's program)
\* and short of a body that is stuck inside a child, no process is left blocked: main
\* returns or is killed and both children end, also when workers have left.  End of file
\* travels from main through both children and back, however little the pipes hold.
EveryoneEnds ==
  []("log" \notin failed) =>
    <>[]((\A p \in Procs : st[p] # "running") \/ \E p \in Children : Stuck(p))

\* mr_start returns: "blocking and returns only when the execution is finished or an
\* error occurs" (mr.h).
StartReturns == <>(ret # "none")

\* mr.h, mr_start: "0 on success, -1 on error": 0 means that both children succeeded.
OkMeansSuccess == ret = "ok" => \A p \in Children : code[p] = "success"

\* Relazione.tex: waitpid is used "garantendo che non rimangano processi zombie".
NoZombies == ret # "none" => \A p \in Children : st[p] \in {"none", "reaped"}
================================================================================
