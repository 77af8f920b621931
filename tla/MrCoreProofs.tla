----------------------------- MODULE MrCoreProofs -----------------------------
(***************************************************************************)
(* Proofs about MrCore: for any number of messages, any capacity of the    *)
(* pipes and any failing calls, the descriptors of the three processes are *)
(* as each stage needs them, what a return leaves behind is as stated, and *)
(* the pipeline implements AbstractJob.                                    *)
(*                                                                         *)
(* The inductive invariant says which pipe ends each process holds at each *)
(* step of its program (MainEnds, MapperEnds, ReducerEnds), which states   *)
(* of the children go with which step of main (Stages), where every        *)
(* message is (Counts, Passed), and what can have happened while nothing   *)
(* has failed (Unbroken): the end of file that lets one process go on      *)
(* proves that the one before it is through.                               *)
(***************************************************************************)
EXTENDS MrCore, SequenceTheorems, TLAPS

InPipe == "main_to_mapper"
PairPipe == "mapper_to_reducer"
OutPipe == "reducer_to_main"

\* The states of main and of its children; a child exists from its fork on and is reaped
\* by the wait for it, or by an error path.
Stages ==
  /\ st["main"] \in {"running", "returned", "killed"}
  /\ \A p \in Children : st[p] \in {"none", "running", "zombie", "reaped", "escaped"}
  /\ ret = "none" <=> st["main"] # "returned"
  /\ st["main"] = "running" =>
       /\ st["mapper"] = "none" <=> pc["main"] <= 5
       /\ st["reducer"] = "none" <=> pc["main"] <= 6
       /\ st["mapper"] = "reaped" <=> pc["main"] >= 17
       /\ st["reducer"] = "reaped" <=> pc["main"] >= 18
  /\ st["mapper"] = "none" => st["reducer"] = "none"
  /\ \A p \in Children : st[p] = "none" => pc[p] = 1
  /\ ret = "ok" => \A p \in Children : st[p] = "reaped"

\* The steps between which main holds each end.
MainEnds ==
  st["main"] = "running" =>
    /\ R(InPipe) \in fds["main"] <=> pc["main"] \in 3 .. 7
    /\ W(InPipe) \in fds["main"] <=> pc["main"] \in 3 .. 13
    /\ R(PairPipe) \in fds["main"] <=> pc["main"] \in 4 .. 8
    /\ W(PairPipe) \in fds["main"] <=> pc["main"] \in 4 .. 9
    /\ R(OutPipe) \in fds["main"] <=> pc["main"] \in 5 .. 15
    /\ W(OutPipe) \in fds["main"] <=> pc["main"] \in 5 .. 10

\* The same for the mapper, with the two it moves to stdin and stdout.
MapperEnds ==
  st["mapper"] = "running" =>
    /\ R(InPipe) \in fds["mapper"] <=> pc["mapper"] <= 7
    /\ W(InPipe) \in fds["mapper"] <=> pc["mapper"] <= 2
    /\ R(PairPipe) \in fds["mapper"] <=> pc["mapper"] <= 3
    /\ W(PairPipe) \in fds["mapper"] <=> pc["mapper"] <= 9
    /\ R(OutPipe) \in fds["mapper"] <=> pc["mapper"] <= 4
    /\ W(OutPipe) \in fds["mapper"] <=> pc["mapper"] <= 5
    /\ R(InPipe) \in std["mapper"] <=> pc["mapper"] > 6
    /\ W(PairPipe) \in std["mapper"] <=> pc["mapper"] > 8
    /\ std["mapper"] \subseteq {R(InPipe), W(PairPipe)}

\* The same for the reducer.
ReducerEnds ==
  st["reducer"] = "running" =>
    /\ R(InPipe) \in fds["reducer"] <=> pc["reducer"] <= 2
    /\ W(InPipe) \in fds["reducer"] <=> pc["reducer"] <= 3
    /\ R(PairPipe) \in fds["reducer"] <=> pc["reducer"] <= 7
    /\ W(PairPipe) \in fds["reducer"] <=> pc["reducer"] <= 4
    /\ R(OutPipe) \in fds["reducer"] <=> pc["reducer"] <= 5
    /\ W(OutPipe) \in fds["reducer"] <=> pc["reducer"] <= 9
    /\ R(PairPipe) \in std["reducer"] <=> pc["reducer"] > 6
    /\ W(OutPipe) \in std["reducer"] <=> pc["reducer"] > 8
    /\ std["reducer"] \subseteq {R(PairPipe), W(OutPipe)}

\* Who does not run holds nothing, but for what an error path of main forgets.
Dropped ==
  /\ \A p \in Children : st[p] # "running" => fds[p] = {} /\ std[p] = {}
  /\ std["main"] = {}
  /\ st["main"] = "killed" \/ ret = "ok" => fds["main"] = {}

\* Every message is in a pipe, in the mapper, has been dealt with, or was lost with a
\* worker that left, which is a failure.
Counts ==
  /\ sent >= data[InPipe] + backlog + mapped
  /\ emitted <= mapped
  /\ emitted = data[PairPipe] + collected
  /\ results = data[OutPipe] + received
  /\ toEmit = -1 => results = 0
  /\ toEmit >= 0 => toEmit + results <= collected
  /\ failed = {} =>
       /\ \A p \in Children : workers[p] = "work"
       /\ sent = data[InPipe] + backlog + mapped
       /\ toEmit >= 0 /\ collected > 0 => toEmit + results > 0

\* What main has seen when it goes on: all messages sent; then the end of the results.
Passed ==
  st["main"] = "running" =>
    /\ pc["main"] >= 13 => sent = NMessages
    /\ pc["main"] >= 15 => st["reducer"] # "running" /\ data[OutPipe] = 0

\* While nothing has failed no process ends before its input has: the mapper has mapped
\* all there is, and the reducer has emitted all results it had to.
Unbroken ==
  failed = {} =>
    /\ st["main"] # "killed" /\ ret # "error"
    /\ \A p \in Children : st[p] # "escaped"
    /\ st["mapper"] \in {"zombie", "reaped"} =>
         mapped = NMessages /\ (st["main"] = "running" => pc["main"] >= 14)
    /\ toEmit >= 0 => st["mapper"] \in {"zombie", "reaped"} /\ collected = emitted
    /\ st["reducer"] \in {"zombie", "reaped"} => toEmit = 0

IInv ==
  /\ TypeOK /\ Stages /\ MainEnds /\ MapperEnds /\ ReducerEnds /\ Dropped
  /\ ErrorIsClean /\ Counts /\ Passed /\ Unbroken

--------------------------------------------------------------------------------
(***************************************************************************)
(* The six ends, the programs and the error paths, read off step by step.  *)
(***************************************************************************)

\* The six pipe ends are six different things.
LEMMA SixEnds ==
  /\ R(InPipe) # W(InPipe) /\ R(InPipe) # R(PairPipe) /\ R(InPipe) # W(PairPipe)
  /\ R(InPipe) # R(OutPipe) /\ R(InPipe) # W(OutPipe)
  /\ W(InPipe) # R(PairPipe) /\ W(InPipe) # W(PairPipe)
  /\ W(InPipe) # R(OutPipe) /\ W(InPipe) # W(OutPipe)
  /\ R(PairPipe) # W(PairPipe) /\ R(PairPipe) # R(OutPipe) /\ R(PairPipe) # W(OutPipe)
  /\ W(PairPipe) # R(OutPipe) /\ W(PairPipe) # W(OutPipe)
  /\ R(OutPipe) # W(OutPipe)
  BY DEF R, W, InPipe, PairPipe, OutPipe

\* They are all there are, two for each pipe.
LEMMA AllEnds ==
  /\ Ends = {R(InPipe), W(InPipe), R(PairPipe), W(PairPipe), R(OutPipe), W(OutPipe)}
  /\ \A k : Both(k) = {R(k), W(k)}
<1>1. \A k : Both(k) = {R(k), W(k)}
  BY DEF Both
<1>2. Pipes = {InPipe, PairPipe, OutPipe}
  BY DEF Pipes, InPipe, PairPipe, OutPipe
<1> QED
  BY <1>1, <1>2 DEF Ends

\* The names of the processes and of the pipes are all different.
LEMMA Names ==
  /\ Procs = {"main", "mapper", "reducer"} /\ Children = {"mapper", "reducer"}
  /\ Pipes = {InPipe, PairPipe, OutPipe}
  /\ InPipe # PairPipe /\ InPipe # OutPipe /\ PairPipe # OutPipe
  BY DEF Procs, Children, Pipes, InPipe, PairPipe, OutPipe

\* A concatenation, element by element.
LEMMA Concat ==
  ASSUME NEW S, NEW s \in Seq(S), NEW t \in Seq(S), NEW u, u = s \o t
  PROVE  /\ Len(u) = Len(s) + Len(t)
         /\ \A i \in Len(s) + 1 .. Len(s) + Len(t) : u[i] = t[i - Len(s)]
  BY ConcatProperties

\* The program of main: spawn_processes has eighteen steps.
LEMMA MainIs ==
  /\ Len(MainProgram) = 18 /\ Program["main"] = MainProgram
  /\ MainProgram[1] = Op("log", "")
  /\ MainProgram[2] = Op("pipe", InPipe)
  /\ MainProgram[3] = Op("pipe", PairPipe)
  /\ MainProgram[4] = Op("pipe", OutPipe)
  /\ MainProgram[5] = Op("fork", "mapper")
  /\ MainProgram[6] = Op("fork", "reducer")
  /\ MainProgram[7] = Op("close", R(InPipe))
  /\ MainProgram[8] = Op("close", R(PairPipe))
  /\ MainProgram[9] = Op("close", W(PairPipe))
  /\ MainProgram[10] = Op("close", W(OutPipe))
  /\ MainProgram[11] = Op("log", "")
  /\ MainProgram[12] = Op("send", InPipe)
  /\ MainProgram[13] = Op("close", W(InPipe))
  /\ MainProgram[14] = Op("receive", OutPipe)
  /\ MainProgram[15] = Op("close", R(OutPipe))
  /\ MainProgram[16] = Op("wait", "mapper")
  /\ MainProgram[17] = Op("wait", "reducer")
  /\ MainProgram[18] = Op("return", "")
<1>1. Len(MainProgram) = 18
  BY DEF MainProgram, MainRuns
<1>2. Program["main"] = MainProgram
  BY DEF Program
<1>3. /\ MainProgram[1] = Op("log", "")
      /\ MainProgram[2] = Op("pipe", InPipe)
      /\ MainProgram[3] = Op("pipe", PairPipe)
      /\ MainProgram[4] = Op("pipe", OutPipe)
      /\ MainProgram[5] = Op("fork", "mapper")
      /\ MainProgram[6] = Op("fork", "reducer")
      /\ MainProgram[7] = Op("close", R(InPipe))
      /\ MainProgram[8] = Op("close", R(PairPipe))
  BY DEF MainProgram, MainRuns, InPipe, PairPipe, OutPipe
<1>4. /\ MainProgram[9] = Op("close", W(PairPipe))
      /\ MainProgram[10] = Op("close", W(OutPipe))
      /\ MainProgram[11] = Op("log", "")
      /\ MainProgram[12] = Op("send", InPipe)
      /\ MainProgram[13] = Op("close", W(InPipe))
      /\ MainProgram[14] = Op("receive", OutPipe)
      /\ MainProgram[15] = Op("close", R(OutPipe))
  BY DEF MainProgram, MainRuns, InPipe, PairPipe, OutPipe
<1>5. /\ MainProgram[16] = Op("wait", "mapper")
      /\ MainProgram[17] = Op("wait", "reducer")
      /\ MainProgram[18] = Op("return", "")
  <2> DEFINE t == <<Op("wait", "mapper"), Op("wait", "reducer"), Op("return", "")>>
  <2>2. /\ Len(t) = 3
        /\ t[1] = Op("wait", "mapper") /\ t[2] = Op("wait", "reducer")
        /\ t[3] = Op("return", "")
    OBVIOUS
  <2>3. MainRuns = [i \in 1 .. 15 |-> MainRuns[i]] /\ Len(MainRuns) = 15
    BY DEF MainRuns
  <2>4. t = [i \in 1 .. 3 |-> t[i]]
    OBVIOUS
  <2>7. MainProgram = MainRuns \o t
    BY DEF MainProgram
  <2> HIDE DEF t
  <2>5. PICK S : S = {MainRuns[i] : i \in 1 .. 15} \cup {t[i] : i \in 1 .. 3}
    OBVIOUS
  <2>6. MainRuns \in Seq(S) /\ t \in Seq(S)
    BY <2>3, <2>4, <2>5
  <2>8. \A i \in Len(MainRuns) + 1 .. Len(MainRuns) + Len(t) :
          MainProgram[i] = t[i - Len(MainRuns)]
    BY <2>6, <2>7, Concat
  <2>9. \A i \in 15 + 1 .. 15 + 3 : MainProgram[i] = t[i - 15]
    BY <2>2, <2>3, <2>8
  <2>10. MainProgram[16] = t[1] /\ MainProgram[17] = t[2] /\ MainProgram[18] = t[3]
    BY <2>9
  <2> QED
    BY <2>2, <2>10
<1> QED
  BY <1>1, <1>2, <1>3, <1>4, <1>5

\* The program of the mapper child.
LEMMA MapperIs ==
  /\ Len(MapperProgram) = 10 /\ Program["mapper"] = MapperProgram
  /\ MapperProgram[1] = Op("log", "")
  /\ MapperProgram[2] = Op("close", W(InPipe))
  /\ MapperProgram[3] = Op("close", R(PairPipe))
  /\ MapperProgram[4] = Op("close", R(OutPipe))
  /\ MapperProgram[5] = Op("close", W(OutPipe))
  /\ MapperProgram[6] = Op("dup2", R(InPipe))
  /\ MapperProgram[7] = Op("close", R(InPipe))
  /\ MapperProgram[8] = Op("dup2", W(PairPipe))
  /\ MapperProgram[9] = Op("close", W(PairPipe))
  /\ MapperProgram[10] = Op("body", "")
<1>1. Len(MapperProgram) = 10
  BY DEF MapperProgram, MapperRest
<1>2. Program["mapper"] = MapperProgram
  BY DEF Program
<1>3. MapperProgram[1] = Op("log", "") /\ MapperProgram[2] = Op("close", W(InPipe))
  BY DEF MapperProgram, MapperRest, InPipe
<1>4. \A i \in 3 .. 10 : MapperProgram[i] = MapperRest[i - 2]
  <2> DEFINE t == <<Op("log", ""), Op("close", W("main_to_mapper"))>>
  <2>2. Len(t) = 2
    OBVIOUS
  <2>3. MapperRest = [i \in 1 .. 8 |-> MapperRest[i]] /\ Len(MapperRest) = 8
    BY DEF MapperRest
  <2>4. t = [i \in 1 .. 2 |-> t[i]]
    OBVIOUS
  <2>7. MapperProgram = t \o MapperRest
    BY DEF MapperProgram
  <2> HIDE DEF t
  <2>5. PICK S : S = {MapperRest[i] : i \in 1 .. 8} \cup {t[i] : i \in 1 .. 2}
    OBVIOUS
  <2>6. MapperRest \in Seq(S) /\ t \in Seq(S)
    BY <2>3, <2>4, <2>5
  <2>8. \A i \in Len(t) + 1 .. Len(t) + Len(MapperRest) :
          MapperProgram[i] = MapperRest[i - Len(t)]
    BY <2>6, <2>7, Concat
  <2> QED
    BY <2>2, <2>3, <2>8
<1>5. /\ MapperProgram[3] = MapperRest[1] /\ MapperProgram[4] = MapperRest[2]
      /\ MapperProgram[5] = MapperRest[3] /\ MapperProgram[6] = MapperRest[4]
      /\ MapperProgram[7] = MapperRest[5] /\ MapperProgram[8] = MapperRest[6]
      /\ MapperProgram[9] = MapperRest[7] /\ MapperProgram[10] = MapperRest[8]
  BY <1>4
<1>6. /\ MapperRest[1] = Op("close", R(PairPipe))
      /\ MapperRest[2] = Op("close", R(OutPipe))
      /\ MapperRest[3] = Op("close", W(OutPipe))
      /\ MapperRest[4] = Op("dup2", R(InPipe))
      /\ MapperRest[5] = Op("close", R(InPipe))
      /\ MapperRest[6] = Op("dup2", W(PairPipe))
      /\ MapperRest[7] = Op("close", W(PairPipe))
      /\ MapperRest[8] = Op("body", "")
  BY DEF MapperRest, InPipe, PairPipe, OutPipe
<1> QED
  BY <1>1, <1>2, <1>3, <1>5, <1>6

\* The program of the reducer child.
LEMMA ReducerIs ==
  /\ Len(ReducerProgram) = 10 /\ Program["reducer"] = ReducerProgram
  /\ ReducerProgram[1] = Op("log", "")
  /\ ReducerProgram[2] = Op("close", R(InPipe))
  /\ ReducerProgram[3] = Op("close", W(InPipe))
  /\ ReducerProgram[4] = Op("close", W(PairPipe))
  /\ ReducerProgram[5] = Op("close", R(OutPipe))
  /\ ReducerProgram[6] = Op("dup2", R(PairPipe))
  /\ ReducerProgram[7] = Op("close", R(PairPipe))
  /\ ReducerProgram[8] = Op("dup2", W(OutPipe))
  /\ ReducerProgram[9] = Op("close", W(OutPipe))
  /\ ReducerProgram[10] = Op("body", "")
<1>1. Len(ReducerProgram) = 10
  BY DEF ReducerProgram
<1>2. Program["reducer"] = ReducerProgram
  BY DEF Program
<1>3. /\ ReducerProgram[1] = Op("log", "")
      /\ ReducerProgram[2] = Op("close", R(InPipe))
      /\ ReducerProgram[3] = Op("close", W(InPipe))
      /\ ReducerProgram[4] = Op("close", W(PairPipe))
      /\ ReducerProgram[5] = Op("close", R(OutPipe))
  BY DEF ReducerProgram, InPipe, PairPipe, OutPipe
<1>4. /\ ReducerProgram[6] = Op("dup2", R(PairPipe))
      /\ ReducerProgram[7] = Op("close", R(PairPipe))
      /\ ReducerProgram[8] = Op("dup2", W(OutPipe))
      /\ ReducerProgram[9] = Op("close", W(OutPipe))
      /\ ReducerProgram[10] = Op("body", "")
  BY DEF ReducerProgram, InPipe, PairPipe, OutPipe
<1> QED
  BY <1>1, <1>2, <1>3, <1>4

\* The error paths: whom they kill.
LEMMA Kills ==
  /\ \A i \in 1 .. 5 : Cleanup[i].kill = {}
  /\ \A i \in 6 .. 7 : Cleanup[i].kill = {"mapper"}
  /\ \A i \in 8 .. 15 : Cleanup[i].kill = Children
  /\ Cleanup[16].kill = {"reducer"}
  /\ Cleanup[17].kill = {}
<1>1. /\ Cleanup[1].kill = {} /\ Cleanup[2].kill = {} /\ Cleanup[3].kill = {}
      /\ Cleanup[4].kill = {} /\ Cleanup[5].kill = {}
  BY DEF Cleanup, Undo
<1>2. Cleanup[6].kill = {"mapper"} /\ Cleanup[7].kill = {"mapper"}
  BY DEF Cleanup, Undo
<1>3. /\ Cleanup[8].kill = Children /\ Cleanup[9].kill = Children
      /\ Cleanup[10].kill = Children /\ Cleanup[11].kill = Children
      /\ Cleanup[12].kill = Children /\ Cleanup[13].kill = Children
      /\ Cleanup[14].kill = Children /\ Cleanup[15].kill = Children
  BY DEF Cleanup, Undo
<1>4. Cleanup[16].kill = {"reducer"} /\ Cleanup[17].kill = {}
  BY DEF Cleanup, Undo
<1> QED
  BY <1>1, <1>2, <1>3, <1>4

\* The error paths: what they close.
LEMMA Closes ==
  /\ Cleanup[3].close = Both(InPipe)
  /\ Cleanup[4].close = Both(InPipe) \cup Both(PairPipe)
  /\ Cleanup[5].close = Ends
  /\ Cleanup[6].close = Ends \ {R(InPipe)}
  /\ Cleanup[7].close = Ends \ {R(InPipe)}
  /\ Cleanup[8].close = Ends \ {R(InPipe), R(PairPipe)}
  /\ Cleanup[9].close = {W(InPipe)} \cup Both(OutPipe)
  /\ Cleanup[10].close = Ends \ {R(InPipe)}
  /\ Cleanup[11].close = {W(InPipe), R(OutPipe)}
  /\ Cleanup[12].close = {W(InPipe), R(OutPipe)}
  /\ Cleanup[13].close = {R(OutPipe)}
  /\ Cleanup[14].close = {R(OutPipe)}
  BY DEF Cleanup, Undo, InPipe, PairPipe, OutPipe

\* Which step of main does what.
LEMMA MainDoing ==
  ASSUME pc["main"] \in 1 .. 18
  PROVE  /\ Doing("main", "log") <=> st["main"] = "running" /\ pc["main"] \in {1, 11}
         /\ Doing("main", "pipe") <=> st["main"] = "running" /\ pc["main"] \in {2, 3, 4}
         /\ Doing("main", "fork") <=> st["main"] = "running" /\ pc["main"] \in {5, 6}
         /\ Doing("main", "close") <=>
              st["main"] = "running" /\ pc["main"] \in {7, 8, 9, 10, 13, 15}
         /\ Doing("main", "send") <=> st["main"] = "running" /\ pc["main"] = 12
         /\ Doing("main", "receive") <=> st["main"] = "running" /\ pc["main"] = 14
         /\ Doing("main", "wait") <=> st["main"] = "running" /\ pc["main"] \in {16, 17}
         /\ Doing("main", "return") <=> st["main"] = "running" /\ pc["main"] = 18
<1>1. /\ MainProgram[1].op = "log" /\ MainProgram[5].op = "fork"
      /\ MainProgram[6].op = "fork" /\ MainProgram[11].op = "log"
      /\ MainProgram[16].op = "wait" /\ MainProgram[17].op = "wait"
      /\ MainProgram[18].op = "return"
  <2>1. /\ MainProgram[5] = Op("fork", "mapper") /\ MainProgram[6] = Op("fork", "reducer")
        /\ MainProgram[16] = Op("wait", "mapper") /\ MainProgram[17] = Op("wait", "reducer")
    BY MainIs
  <2>2. PICK a : /\ MainProgram[1] = Op("log", a) /\ MainProgram[11] = Op("log", a)
                 /\ MainProgram[18] = Op("return", a)
    BY MainIs, Zenon
  <2>3. /\ MainProgram[5].op = "fork" /\ MainProgram[6].op = "fork"
        /\ MainProgram[16].op = "wait" /\ MainProgram[17].op = "wait"
    BY <2>1 DEF Op
  <2>4. /\ MainProgram[1].op = "log" /\ MainProgram[11].op = "log"
        /\ MainProgram[18].op = "return"
    BY <2>2 DEF Op
  <2> QED
    BY <2>3, <2>4
<1>2. /\ MainProgram[2].op = "pipe" /\ MainProgram[3].op = "pipe"
      /\ MainProgram[4].op = "pipe" /\ MainProgram[7].op = "close"
      /\ MainProgram[8].op = "close" /\ MainProgram[9].op = "close"
      /\ MainProgram[10].op = "close" /\ MainProgram[12].op = "send"
      /\ MainProgram[13].op = "close" /\ MainProgram[14].op = "receive"
      /\ MainProgram[15].op = "close"
  <2>1. /\ MainProgram[2] = Op("pipe", InPipe) /\ MainProgram[3] = Op("pipe", PairPipe)
        /\ MainProgram[4] = Op("pipe", OutPipe) /\ MainProgram[7] = Op("close", R(InPipe))
        /\ MainProgram[8] = Op("close", R(PairPipe))
        /\ MainProgram[9] = Op("close", W(PairPipe))
        /\ MainProgram[10] = Op("close", W(OutPipe)) /\ MainProgram[12] = Op("send", InPipe)
        /\ MainProgram[13] = Op("close", W(InPipe))
        /\ MainProgram[14] = Op("receive", OutPipe)
        /\ MainProgram[15] = Op("close", R(OutPipe))
    BY MainIs
  <2> QED
    BY <2>1 DEF Op
<1>3. pc["main"] \in {1, 2, 3, 4, 5, 6, 7, 8, 9, 10, 11, 12, 13, 14, 15, 16, 17, 18}
  OBVIOUS
<1>p. Program["main"] = MainProgram
  BY MainIs
<1>4. /\ Doing("main", "log") <=> st["main"] = "running" /\ pc["main"] \in {1, 11}
      /\ Doing("main", "pipe") <=> st["main"] = "running" /\ pc["main"] \in {2, 3, 4}
  BY <1>1, <1>2, <1>3, <1>p DEF Doing
<1>5. /\ Doing("main", "fork") <=> st["main"] = "running" /\ pc["main"] \in {5, 6}
      /\ Doing("main", "close") <=>
           st["main"] = "running" /\ pc["main"] \in {7, 8, 9, 10, 13, 15}
  BY <1>1, <1>2, <1>3, <1>p DEF Doing
<1>6. /\ Doing("main", "send") <=> st["main"] = "running" /\ pc["main"] = 12
      /\ Doing("main", "receive") <=> st["main"] = "running" /\ pc["main"] = 14
  BY <1>1, <1>2, <1>3, <1>p DEF Doing
<1>7. /\ Doing("main", "wait") <=> st["main"] = "running" /\ pc["main"] \in {16, 17}
      /\ Doing("main", "return") <=> st["main"] = "running" /\ pc["main"] = 18
  BY <1>1, <1>2, <1>3, <1>p DEF Doing
<1> QED
  BY <1>4, <1>5, <1>6, <1>7

\* On what.
LEMMA MainArgs ==
  /\ pc["main"] = 2 => Arg("main") = InPipe
  /\ pc["main"] = 3 => Arg("main") = PairPipe
  /\ pc["main"] = 4 => Arg("main") = OutPipe
  /\ pc["main"] = 5 => Arg("main") = "mapper"
  /\ pc["main"] = 6 => Arg("main") = "reducer"
  /\ pc["main"] = 7 => Arg("main") = R(InPipe)
  /\ pc["main"] = 8 => Arg("main") = R(PairPipe)
  /\ pc["main"] = 9 => Arg("main") = W(PairPipe)
  /\ pc["main"] = 10 => Arg("main") = W(OutPipe)
  /\ pc["main"] = 12 => Arg("main") = InPipe
  /\ pc["main"] = 13 => Arg("main") = W(InPipe)
  /\ pc["main"] = 14 => Arg("main") = OutPipe
  /\ pc["main"] = 15 => Arg("main") = R(OutPipe)
  /\ pc["main"] = 16 => Arg("main") = "mapper"
  /\ pc["main"] = 17 => Arg("main") = "reducer"
<1>1. /\ MainProgram[5].arg = "mapper" /\ MainProgram[6].arg = "reducer"
      /\ MainProgram[16].arg = "mapper" /\ MainProgram[17].arg = "reducer"
  <2>1. /\ MainProgram[5] = Op("fork", "mapper") /\ MainProgram[6] = Op("fork", "reducer")
        /\ MainProgram[16] = Op("wait", "mapper") /\ MainProgram[17] = Op("wait", "reducer")
    BY MainIs
  <2> QED
    BY <2>1 DEF Op
<1>2. /\ MainProgram[2].arg = InPipe /\ MainProgram[3].arg = PairPipe
      /\ MainProgram[4].arg = OutPipe
      /\ MainProgram[7].arg = R(InPipe) /\ MainProgram[8].arg = R(PairPipe)
      /\ MainProgram[9].arg = W(PairPipe) /\ MainProgram[10].arg = W(OutPipe)
      /\ MainProgram[12].arg = InPipe /\ MainProgram[13].arg = W(InPipe)
      /\ MainProgram[14].arg = OutPipe /\ MainProgram[15].arg = R(OutPipe)
  <2>1. /\ MainProgram[2] = Op("pipe", InPipe) /\ MainProgram[3] = Op("pipe", PairPipe)
        /\ MainProgram[4] = Op("pipe", OutPipe) /\ MainProgram[7] = Op("close", R(InPipe))
        /\ MainProgram[8] = Op("close", R(PairPipe))
        /\ MainProgram[9] = Op("close", W(PairPipe))
        /\ MainProgram[10] = Op("close", W(OutPipe)) /\ MainProgram[12] = Op("send", InPipe)
        /\ MainProgram[13] = Op("close", W(InPipe))
        /\ MainProgram[14] = Op("receive", OutPipe)
        /\ MainProgram[15] = Op("close", R(OutPipe))
    BY MainIs
  <2> QED
    BY <2>1 DEF Op
<1>3. Arg("main") = MainProgram[pc["main"]].arg
  <2>1. Program["main"] = MainProgram
    BY MainIs
  <2> QED
    BY <2>1 DEF Arg
<1> QED
  BY <1>1, <1>2, <1>3

\* The same for the mapper.
LEMMA MapperDoing ==
  ASSUME pc["mapper"] \in 1 .. 10
  PROVE  /\ Doing("mapper", "log") <=> st["mapper"] = "running" /\ pc["mapper"] = 1
         /\ Doing("mapper", "close") <=>
              st["mapper"] = "running" /\ pc["mapper"] \in {2, 3, 4, 5, 7, 9}
         /\ Doing("mapper", "dup2") <=> st["mapper"] = "running" /\ pc["mapper"] \in {6, 8}
         /\ Doing("mapper", "body") <=> st["mapper"] = "running" /\ pc["mapper"] = 10
         /\ pc["mapper"] = 2 => Arg("mapper") = W(InPipe)
         /\ pc["mapper"] = 3 => Arg("mapper") = R(PairPipe)
         /\ pc["mapper"] = 4 => Arg("mapper") = R(OutPipe)
         /\ pc["mapper"] = 5 => Arg("mapper") = W(OutPipe)
         /\ pc["mapper"] \in {6, 7} => Arg("mapper") = R(InPipe)
         /\ pc["mapper"] \in {8, 9} => Arg("mapper") = W(PairPipe)
<1>1. MapperProgram[1].op = "log" /\ MapperProgram[10].op = "body"
  <2>1. PICK a : MapperProgram[1] = Op("log", a) /\ MapperProgram[10] = Op("body", a)
    BY MapperIs, Zenon
  <2> QED
    BY <2>1 DEF Op
<1>2. /\ MapperProgram[2].op = "close" /\ MapperProgram[2].arg = W(InPipe)
      /\ MapperProgram[3].op = "close" /\ MapperProgram[3].arg = R(PairPipe)
      /\ MapperProgram[4].op = "close" /\ MapperProgram[4].arg = R(OutPipe)
      /\ MapperProgram[5].op = "close" /\ MapperProgram[5].arg = W(OutPipe)
      /\ MapperProgram[6].op = "dup2" /\ MapperProgram[6].arg = R(InPipe)
      /\ MapperProgram[7].op = "close" /\ MapperProgram[7].arg = R(InPipe)
      /\ MapperProgram[8].op = "dup2" /\ MapperProgram[8].arg = W(PairPipe)
      /\ MapperProgram[9].op = "close" /\ MapperProgram[9].arg = W(PairPipe)
  <2>1. /\ MapperProgram[2] = Op("close", W(InPipe))
        /\ MapperProgram[3] = Op("close", R(PairPipe))
        /\ MapperProgram[4] = Op("close", R(OutPipe))
        /\ MapperProgram[5] = Op("close", W(OutPipe))
        /\ MapperProgram[6] = Op("dup2", R(InPipe))
        /\ MapperProgram[7] = Op("close", R(InPipe))
        /\ MapperProgram[8] = Op("dup2", W(PairPipe))
        /\ MapperProgram[9] = Op("close", W(PairPipe))
    BY MapperIs
  <2> QED
    BY <2>1 DEF Op
<1>3. Program["mapper"] = MapperProgram
  BY MapperIs
<1>4. pc["mapper"] \in {1, 2, 3, 4, 5, 6, 7, 8, 9, 10}
  OBVIOUS
<1>5. /\ Doing("mapper", "log") <=> st["mapper"] = "running" /\ pc["mapper"] = 1
      /\ Doing("mapper", "close") <=>
           st["mapper"] = "running" /\ pc["mapper"] \in {2, 3, 4, 5, 7, 9}
      /\ Doing("mapper", "dup2") <=> st["mapper"] = "running" /\ pc["mapper"] \in {6, 8}
      /\ Doing("mapper", "body") <=> st["mapper"] = "running" /\ pc["mapper"] = 10
  BY <1>1, <1>2, <1>3, <1>4 DEF Doing
<1>6. Arg("mapper") = MapperProgram[pc["mapper"]].arg
  BY <1>3 DEF Arg
<1> QED
  BY <1>2, <1>5, <1>6

\* The same for the reducer.
LEMMA ReducerDoing ==
  ASSUME pc["reducer"] \in 1 .. 10
  PROVE  /\ Doing("reducer", "log") <=> st["reducer"] = "running" /\ pc["reducer"] = 1
         /\ Doing("reducer", "close") <=>
              st["reducer"] = "running" /\ pc["reducer"] \in {2, 3, 4, 5, 7, 9}
         /\ Doing("reducer", "dup2") <=>
              st["reducer"] = "running" /\ pc["reducer"] \in {6, 8}
         /\ Doing("reducer", "body") <=> st["reducer"] = "running" /\ pc["reducer"] = 10
         /\ pc["reducer"] = 2 => Arg("reducer") = R(InPipe)
         /\ pc["reducer"] = 3 => Arg("reducer") = W(InPipe)
         /\ pc["reducer"] = 4 => Arg("reducer") = W(PairPipe)
         /\ pc["reducer"] = 5 => Arg("reducer") = R(OutPipe)
         /\ pc["reducer"] \in {6, 7} => Arg("reducer") = R(PairPipe)
         /\ pc["reducer"] \in {8, 9} => Arg("reducer") = W(OutPipe)
<1>1. ReducerProgram[1].op = "log" /\ ReducerProgram[10].op = "body"
  <2>1. PICK a : ReducerProgram[1] = Op("log", a) /\ ReducerProgram[10] = Op("body", a)
    BY ReducerIs, Zenon
  <2> QED
    BY <2>1 DEF Op
<1>2. /\ ReducerProgram[2].op = "close" /\ ReducerProgram[2].arg = R(InPipe)
      /\ ReducerProgram[3].op = "close" /\ ReducerProgram[3].arg = W(InPipe)
      /\ ReducerProgram[4].op = "close" /\ ReducerProgram[4].arg = W(PairPipe)
      /\ ReducerProgram[5].op = "close" /\ ReducerProgram[5].arg = R(OutPipe)
      /\ ReducerProgram[6].op = "dup2" /\ ReducerProgram[6].arg = R(PairPipe)
      /\ ReducerProgram[7].op = "close" /\ ReducerProgram[7].arg = R(PairPipe)
      /\ ReducerProgram[8].op = "dup2" /\ ReducerProgram[8].arg = W(OutPipe)
      /\ ReducerProgram[9].op = "close" /\ ReducerProgram[9].arg = W(OutPipe)
  <2>1. /\ ReducerProgram[2] = Op("close", R(InPipe))
        /\ ReducerProgram[3] = Op("close", W(InPipe))
        /\ ReducerProgram[4] = Op("close", W(PairPipe))
        /\ ReducerProgram[5] = Op("close", R(OutPipe))
        /\ ReducerProgram[6] = Op("dup2", R(PairPipe))
        /\ ReducerProgram[7] = Op("close", R(PairPipe))
        /\ ReducerProgram[8] = Op("dup2", W(OutPipe))
        /\ ReducerProgram[9] = Op("close", W(OutPipe))
    BY ReducerIs
  <2> QED
    BY <2>1 DEF Op
<1>3. Program["reducer"] = ReducerProgram
  BY ReducerIs
<1>4. pc["reducer"] \in {1, 2, 3, 4, 5, 6, 7, 8, 9, 10}
  OBVIOUS
<1>5. /\ Doing("reducer", "log") <=> st["reducer"] = "running" /\ pc["reducer"] = 1
      /\ Doing("reducer", "close") <=>
           st["reducer"] = "running" /\ pc["reducer"] \in {2, 3, 4, 5, 7, 9}
      /\ Doing("reducer", "dup2") <=> st["reducer"] = "running" /\ pc["reducer"] \in {6, 8}
      /\ Doing("reducer", "body") <=> st["reducer"] = "running" /\ pc["reducer"] = 10
  BY <1>1, <1>2, <1>3, <1>4 DEF Doing
<1>6. Arg("reducer") = ReducerProgram[pc["reducer"]].arg
  BY <1>3 DEF Arg
<1> QED
  BY <1>2, <1>5, <1>6

\* The states of a process and the ways a child ends, as in TypeOK.
States == {"none", "running", "zombie", "reaped", "escaped", "returned", "killed"}
Codes == {"none", "success", "failure", "signal"}

\* The control half of TypeOK, pointwise, with the lengths of the programs.
LEMMA ControlType ==
  ASSUME TypeOK
  PROVE  /\ pc["main"] \in 1 .. 18 /\ pc["mapper"] \in 1 .. 10 /\ pc["reducer"] \in 1 .. 10
         /\ pc \in [Procs -> 1 .. 18]
         /\ st \in [Procs -> States] /\ code \in [Children -> Codes]
         /\ fds \in [Procs -> SUBSET Ends] /\ std \in [Procs -> SUBSET Ends]
         /\ failed \subseteq FaultKinds /\ faultsLeft \in 0 .. MaxFaults
<1>1. pc \in [Procs -> 1 .. 18] /\ \A p \in Procs : pc[p] <= Len(Program[p])
  BY MainIs DEF TypeOK
<1>2. pc["main"] \in 1 .. 18 /\ pc["mapper"] \in 1 .. 18 /\ pc["reducer"] \in 1 .. 18
  BY <1>1, Names
<1>3. pc["mapper"] <= 10 /\ pc["reducer"] <= 10
  BY <1>1, MapperIs, ReducerIs, Names
<1>4. /\ st \in [Procs -> States] /\ code \in [Children -> Codes]
      /\ fds \in [Procs -> SUBSET Ends] /\ std \in [Procs -> SUBSET Ends]
      /\ failed \subseteq FaultKinds /\ faultsLeft \in 0 .. MaxFaults
  BY DEF TypeOK, States, Codes
<1> QED
  BY <1>1, <1>2, <1>3, <1>4

\* The data half of TypeOK, pointwise.
LEMMA DataType ==
  ASSUME TypeOK
  PROVE  /\ data \in [Pipes -> Int]
         /\ data[InPipe] \in 0 .. PipeCap /\ data[PairPipe] \in 0 .. PipeCap
         /\ data[OutPipe] \in 0 .. PipeCap
         /\ sent \in 0 .. NMessages /\ backlog \in 0 .. Backlog
         /\ mapped \in 0 .. NMessages /\ emitted \in 0 .. NMessages
         /\ collected \in 0 .. NMessages /\ toEmit \in -1 .. NMessages
         /\ results \in 0 .. NMessages /\ received \in 0 .. NMessages
         /\ NMessages \in Nat /\ PipeCap \in Nat /\ Backlog \in Nat
  BY Names, BoundsAssumption DEF TypeOK, BoundsAssumption

--------------------------------------------------------------------------------
(***************************************************************************)
(* The steps, sorted by what they do: control steps leave the data alone   *)
(* (Still), transfers leave the control alone (Quiet).                     *)
(***************************************************************************)
Still == UNCHANGED <<data, progress>>
Quiet == UNCHANGED <<pc, st, code, fds, std, ret, budget>>

\* Main goes on: after a log line, with all messages sent, at the end of the results.
MainPasses ==
  /\ \/ pc["main"] \in {1, 11}
     \/ pc["main"] = 12 /\ sent = NMessages
     \/ pc["main"] = 14 /\ Eof(OutPipe)
  /\ Advance("main") /\ UNCHANGED <<st, code, fds, std, ret, budget>>

\* Main makes pipe k.
MainMakes(k) ==
  /\ fds' = [fds EXCEPT !["main"] = @ \cup Both(k)]
  /\ Advance("main") /\ UNCHANGED <<st, code, std, ret, budget>>

\* Main forks child p.
MainForks(p) ==
  /\ st' = [st EXCEPT ![p] = "running"]
  /\ fds' = [fds EXCEPT ![p] = fds["main"]]
  /\ Advance("main") /\ UNCHANGED <<code, std, ret, budget>>

\* Main closes end e.
MainCloses(e) ==
  /\ fds' = [fds EXCEPT !["main"] = @ \ {e}]
  /\ Advance("main") /\ UNCHANGED <<st, code, std, ret, budget>>

\* Main waits for child p.
MainWaits(p) ==
  /\ st[p] = "zombie"
  /\ st' = [st EXCEPT ![p] = "reaped"]
  /\ Advance("main") /\ UNCHANGED <<code, fds, std, ret, budget>>

\* Main has no reader any more.
MainDies ==
  /\ pc["main"] = 12 /\ ~HasReader(InPipe)
  /\ st' = [st EXCEPT !["main"] = "killed"]
  /\ fds' = [fds EXCEPT !["main"] = {}]
  /\ UNCHANGED <<pc, code, std, ret, budget>>

\* Main returns 0, or -1 when the log cannot be destroyed.
MainReturns ==
  /\ pc["main"] = 18
  /\ st' = [st EXCEPT !["main"] = "returned"]
  /\ \/ ret' = "ok" /\ UNCHANGED budget
     \/ ret' = "error" /\ Fail("log")
  /\ UNCHANGED <<pc, code, fds, std>>

\* The failing steps of main.
MainErrs ==
  \/ pc["main"] \in {1, 11} /\ Fail("log") /\ MainGivesUp({}, {})
  \/ pc["main"] \in {2, 3, 4} /\ Fail("pipe") /\ MainGivesUp({}, {})
  \/ pc["main"] \in {5, 6} /\ Fail("fork") /\ MainGivesUp({}, {})
  \/ pc["main"] \in {12, 14} /\ Fail("io") /\ MainGivesUp({}, {})
  \/ /\ pc["main"] \in {7, 8, 9, 10, 13, 15}
     /\ Fail("close") /\ MainGivesUp({Arg("main")}, {})
  \/ /\ pc["main"] = 16 /\ st["mapper"] = "zombie"
     /\ Fail("log") /\ MainGivesUp({}, {"mapper"})
  \/ /\ pc["main"] = 17 /\ st["reducer"] = "zombie"
     /\ Fail("log") /\ MainGivesUp({}, {"reducer"})
  \/ pc["main"] \in {16, 17} /\ Fail("wait") /\ MainGivesUp({}, {})

\* The control steps of main.
MainControl ==
  \/ MainPasses
  \/ pc["main"] = 2 /\ MainMakes(InPipe)
  \/ pc["main"] = 3 /\ MainMakes(PairPipe)
  \/ pc["main"] = 4 /\ MainMakes(OutPipe)
  \/ pc["main"] = 5 /\ MainForks("mapper")
  \/ pc["main"] = 6 /\ MainForks("reducer")
  \/ pc["main"] = 7 /\ MainCloses(R(InPipe))
  \/ pc["main"] = 8 /\ MainCloses(R(PairPipe))
  \/ pc["main"] = 9 /\ MainCloses(W(PairPipe))
  \/ pc["main"] = 10 /\ MainCloses(W(OutPipe))
  \/ pc["main"] = 13 /\ MainCloses(W(InPipe))
  \/ pc["main"] = 15 /\ MainCloses(R(OutPipe))
  \/ pc["main"] = 16 /\ MainWaits("mapper")
  \/ pc["main"] = 17 /\ MainWaits("reducer")
  \/ MainDies \/ MainReturns \/ MainErrs

\* The transfers of main.
MainMoves ==
  \/ /\ pc["main"] = 12 /\ sent < NMessages /\ data[InPipe] < PipeCap
     /\ data' = [data EXCEPT ![InPipe] = @ + 1] /\ sent' = sent + 1
     /\ UNCHANGED <<backlog, mapped, emitted, collected, toEmit, results, received,
                   workers>>
  \/ /\ pc["main"] = 14 /\ data[OutPipe] > 0
     /\ data' = [data EXCEPT ![OutPipe] = @ - 1] /\ received' = received + 1
     /\ UNCHANGED <<sent, backlog, mapped, emitted, collected, toEmit, results,
                   workers>>

\* Every step of main is one of these.
LEMMA MainSteps ==
  ASSUME TypeOK, Main
  PROVE  /\ st["main"] = "running"
         /\ (Still /\ MainControl) \/ (Quiet /\ MainMoves)
<1> USE ControlType, MainDoing, MainArgs
<1>1. CASE MainLog
  <2>1. st["main"] = "running" /\ pc["main"] \in {1, 11} /\ Still
    BY <1>1 DEF MainLog, Still, progress
  <2>2. MainPasses \/ MainErrs
    BY <1>1, <2>1 DEF MainLog, MainPasses, MainErrs
  <2> QED
    BY <2>1, <2>2 DEF MainControl
<1>2. CASE MainPipe
  <2>1. st["main"] = "running" /\ pc["main"] \in {2, 3, 4} /\ Still
    BY <1>2 DEF MainPipe, Still, progress
  <2>2. MainMakes(Arg("main")) \/ MainErrs
    BY <1>2, <2>1 DEF MainPipe, MainMakes, MainErrs
  <2> QED
    BY <2>1, <2>2 DEF MainControl
<1>3. CASE MainFork
  <2>1. st["main"] = "running" /\ pc["main"] \in {5, 6} /\ Still
    BY <1>3 DEF MainFork, Still, progress
  <2>2. MainForks(Arg("main")) \/ MainErrs
    BY <1>3, <2>1 DEF MainFork, MainForks, MainErrs
  <2> QED
    BY <2>1, <2>2 DEF MainControl
<1>4. CASE MainClose
  <2>1. st["main"] = "running" /\ pc["main"] \in {7, 8, 9, 10, 13, 15} /\ Still
    BY <1>4 DEF MainClose, Still, progress
  <2>2. MainCloses(Arg("main")) \/ MainErrs
    BY <1>4, <2>1 DEF MainClose, MainCloses, MainErrs
  <2> QED
    BY <2>1, <2>2 DEF MainControl
<1>5. CASE MainSend
  <2>1. st["main"] = "running" /\ pc["main"] = 12 /\ Arg("main") = InPipe
    BY <1>5 DEF MainSend
  <2>2. CASE sent < NMessages /\ SendMessage
    <3>1. \/ MainDies /\ Still
          \/ Quiet /\ MainMoves
      BY <1>5, <2>1, <2>2 DEF MainSend, SendMessage, MainDies, MainMoves, Still, Quiet,
           progress, budget
    <3> QED
      BY <2>1, <3>1 DEF MainControl
  <2>3. CASE sent = NMessages /\ SentAll
    <3>1. MainPasses /\ Still
      BY <1>5, <2>1, <2>3 DEF MainSend, SentAll, MainPasses, Still, progress
    <3> QED
      BY <2>1, <3>1 DEF MainControl
  <2>4. CASE Fail("io") /\ MainGivesUp({}, {}) /\ UNCHANGED <<data, sent>>
    <3>1. MainErrs /\ Still
      BY <1>5, <2>1, <2>4 DEF MainSend, MainErrs, Still, progress
    <3> QED
      BY <2>1, <3>1 DEF MainControl
  <2> QED
    BY <1>5, <2>2, <2>3, <2>4 DEF MainSend
<1>6. CASE MainReceive
  <2>1. st["main"] = "running" /\ pc["main"] = 14 /\ Arg("main") = OutPipe
    BY <1>6 DEF MainReceive
  <2>2. CASE TakeResult
    <3>1. Quiet /\ MainMoves
      BY <1>6, <2>1, <2>2 DEF MainReceive, TakeResult, MainMoves, Quiet, budget
    <3> QED
      BY <2>1, <3>1
  <2>3. CASE Eof(Arg("main")) /\ TookAll
    <3>1. MainPasses /\ Still
      BY <1>6, <2>1, <2>3 DEF MainReceive, TookAll, MainPasses, Still, progress
    <3> QED
      BY <2>1, <3>1 DEF MainControl
  <2>4. CASE Fail("io") /\ MainGivesUp({}, {}) /\ UNCHANGED <<data, received>>
    <3>1. MainErrs /\ Still
      BY <1>6, <2>1, <2>4 DEF MainReceive, MainErrs, Still, progress
    <3> QED
      BY <2>1, <3>1 DEF MainControl
  <2> QED
    BY <1>6, <2>2, <2>3, <2>4 DEF MainReceive
<1>7. CASE MainWait
  <2>1. st["main"] = "running" /\ pc["main"] \in {16, 17} /\ Still
    BY <1>7 DEF MainWait, Still, progress
  <2>2. MainWaits(Arg("main")) \/ MainErrs
    BY <1>7, <2>1 DEF MainWait, MainWaits, MainErrs
  <2> QED
    BY <2>1, <2>2 DEF MainControl
<1>8. CASE MainReturn
  <2>1. st["main"] = "running" /\ pc["main"] = 18 /\ Still
    BY <1>8 DEF MainReturn, Still, progress
  <2>2. MainReturns
    BY <1>8, <2>1 DEF MainReturn, MainReturns
  <2> QED
    BY <2>1, <2>2 DEF MainControl
<1> QED
  BY <1>1, <1>2, <1>3, <1>4, <1>5, <1>6, <1>7, <1>8 DEF Main

\* Child p goes on to its next step.
ChildPasses(p) ==
  /\ Advance(p) /\ UNCHANGED <<st, code, fds, std, ret, budget>>
ChildCloses(p, e) ==
  /\ fds' = [fds EXCEPT ![p] = @ \ {e}]
  /\ Advance(p) /\ UNCHANGED <<st, code, std, ret, budget>>
ChildDups(p, e) ==
  /\ std' = [std EXCEPT ![p] = @ \cup {e}]
  /\ Advance(p) /\ UNCHANGED <<st, code, fds, ret, budget>>

\* Child p fails and exits.
ChildErrs(p) ==
  /\ \E k : Fail(k)
  /\ EndChild(p, "failure") /\ UNCHANGED <<pc, ret>>

\* Child p returns into the user's program; the reducer takes the mapper down with it.
ChildEscapes(p) ==
  /\ Fail("log")
  /\ st'[p] = "escaped" /\ fds'[p] = {} /\ std'[p] = std[p]
  /\ st' \in [Procs -> States] /\ code' \in [Children -> Codes]
  /\ fds' \in [Procs -> SUBSET Ends] /\ std' \in [Procs -> SUBSET Ends]
  /\ \A q \in Procs \ {p} :
       \/ st'[q] = st[q] /\ fds'[q] = fds[q] /\ std'[q] = std[q]
       \/ /\ q = "mapper" /\ st[q] \in {"running", "escaped"}
          /\ st'[q] = "zombie" /\ fds'[q] = {} /\ std'[q] = {}
  /\ UNCHANGED <<pc, ret>>

\* Child p exits with status s, nothing having failed in this step.
ChildEnds(p, s) == EndChild(p, s) /\ UNCHANGED <<pc, ret, budget>>

\* The control steps of the mapper.
MapperControl ==
  \/ pc["mapper"] = 1 /\ ChildPasses("mapper")
  \/ pc["mapper"] = 2 /\ ChildCloses("mapper", W(InPipe))
  \/ pc["mapper"] = 3 /\ ChildCloses("mapper", R(PairPipe))
  \/ pc["mapper"] = 4 /\ ChildCloses("mapper", R(OutPipe))
  \/ pc["mapper"] = 5 /\ ChildCloses("mapper", W(OutPipe))
  \/ pc["mapper"] = 6 /\ ChildDups("mapper", R(InPipe))
  \/ pc["mapper"] = 7 /\ ChildCloses("mapper", R(InPipe))
  \/ pc["mapper"] = 8 /\ ChildDups("mapper", W(PairPipe))
  \/ pc["mapper"] = 9 /\ ChildCloses("mapper", W(PairPipe))
  \/ ChildErrs("mapper")
  \/ pc["mapper"] = 1 /\ ChildEscapes("mapper")
  \/ /\ pc["mapper"] = 10 /\ Eof(InPipe) /\ (workers["mapper"] = "work" => backlog = 0)
     /\ ChildEnds("mapper", "success")
  \/ /\ pc["mapper"] = 10 /\ ~HasReader(PairPipe)
     /\ ChildEnds("mapper", "signal")

\* The transfers of the mapper.
MapperMoves ==
  \/ /\ data[InPipe] > 0 /\ backlog < Backlog
     /\ data' = [data EXCEPT ![InPipe] = @ - 1] /\ backlog' = backlog + 1
     /\ UNCHANGED <<sent, mapped, emitted, collected, toEmit, results, received,
                   workers>>
  \/ /\ backlog > 0
     /\ backlog' = backlog - 1 /\ mapped' = mapped + 1
     /\ UNCHANGED <<data, sent, emitted, collected, toEmit, results, received,
                   workers>>
  \/ /\ backlog > 0 /\ data[PairPipe] < PipeCap
     /\ data' = [data EXCEPT ![PairPipe] = @ + 1]
     /\ backlog' = backlog - 1 /\ mapped' = mapped + 1 /\ emitted' = emitted + 1
     /\ UNCHANGED <<sent, collected, toEmit, results, received, workers>>

\* The control steps of the reducer.
ReducerControl ==
  \/ pc["reducer"] = 1 /\ ChildPasses("reducer")
  \/ pc["reducer"] = 2 /\ ChildCloses("reducer", R(InPipe))
  \/ pc["reducer"] = 3 /\ ChildCloses("reducer", W(InPipe))
  \/ pc["reducer"] = 4 /\ ChildCloses("reducer", W(PairPipe))
  \/ pc["reducer"] = 5 /\ ChildCloses("reducer", R(OutPipe))
  \/ pc["reducer"] = 6 /\ ChildDups("reducer", R(PairPipe))
  \/ pc["reducer"] = 7 /\ ChildCloses("reducer", R(PairPipe))
  \/ pc["reducer"] = 8 /\ ChildDups("reducer", W(OutPipe))
  \/ pc["reducer"] = 9 /\ ChildCloses("reducer", W(OutPipe))
  \/ ChildErrs("reducer")
  \/ pc["reducer"] = 1 /\ ChildEscapes("reducer")
  \/ /\ pc["reducer"] = 10 /\ (workers["reducer"] = "work" => toEmit = 0)
     /\ ChildEnds("reducer", "success")
  \/ pc["reducer"] = 10 /\ ~HasReader(OutPipe) /\ ChildEnds("reducer", "signal")

\* The transfers of the reducer.
ReducerMoves ==
  \/ /\ toEmit = -1 /\ data[PairPipe] > 0
     /\ data' = [data EXCEPT ![PairPipe] = @ - 1] /\ collected' = collected + 1
     /\ UNCHANGED <<sent, backlog, mapped, emitted, toEmit, results, received,
                   workers>>
  \/ /\ toEmit = -1 /\ Eof(PairPipe)
     /\ toEmit' \in IF collected = 0 THEN {0} ELSE 1 .. collected
     /\ UNCHANGED <<data, sent, backlog, mapped, emitted, collected, results, received,
                    workers>>
  \/ /\ toEmit > 0 /\ data[OutPipe] < PipeCap
     /\ data' = [data EXCEPT ![OutPipe] = @ + 1]
     /\ toEmit' = toEmit - 1 /\ results' = results + 1
     /\ UNCHANGED <<sent, backlog, mapped, emitted, collected, received, workers>>

\* A worker of child p leaves, or its threads come to a stop: a line or a result may be
\* lost, the processes and the pipes are as they were.
ChildLoses(p) ==
  /\ Fail("worker")
  /\ UNCHANGED <<pc, st, code, fds, std, ret, data,
                 sent, mapped, emitted, collected, results, received>>
  /\ workers' \in [Children -> {"work", "left", "stuck"}]
  /\ \/ UNCHANGED <<backlog, toEmit>>
     \/ backlog > 0 /\ backlog' = backlog - 1 /\ UNCHANGED toEmit
     \/ toEmit > 0 /\ toEmit' = toEmit - 1 /\ UNCHANGED backlog

\* The two actions that lose something are that.
LEMMA Losses ==
  ASSUME TypeOK, NEW p \in Children, WorkerLeaves(p) \/ BodyHangs(p)
  PROVE  ChildLoses(p) /\ Doing(p, "body")
<1>1. workers \in [Children -> {"work", "left", "stuck"}]
  BY DEF TypeOK
<1>2. CASE WorkerLeaves(p)
  <2>1. workers' \in [Children -> {"work", "left", "stuck"}]
    BY <1>1, <1>2 DEF WorkerLeaves
  <2> QED
    BY <1>2, <2>1 DEF WorkerLeaves, ChildLoses
<1>3. CASE BodyHangs(p)
  <2>1. workers' \in [Children -> {"work", "left", "stuck"}]
    BY <1>1, <1>3 DEF BodyHangs
  <2> QED
    BY <1>3, <2>1 DEF BodyHangs, ChildLoses
<1> QED
  BY <1>2, <1>3

\* A failing first log line in a child is an escape.
LEMMA Escapes ==
  ASSUME TypeOK, NEW p \in Children, ChildLog(p)
  PROVE  ChildPasses(p) \/ ChildEscapes(p)
<1> DEFINE killed == {q \in {"mapper"} \ {p} : st[q] \in {"running", "escaped"}}
<1>1. CASE Advance(p) /\ UNCHANGED <<st, code, fds, std, budget>>
  BY <1>1 DEF ChildLog, ChildPasses
<1>2. CASE /\ Fail("log")
           /\ st' = [q \in Procs |-> IF q = p THEN "escaped"
                                     ELSE IF q \in killed THEN "zombie" ELSE st[q]]
           /\ code' = [q \in Children |-> IF q \in killed THEN "signal" ELSE code[q]]
           /\ fds' = [q \in Procs |-> IF q \in killed \cup {p} THEN {} ELSE fds[q]]
           /\ std' = [q \in Procs |-> IF q \in killed THEN {} ELSE std[q]]
           /\ UNCHANGED pc
  <2>1. p \notin killed /\ p \in Procs
    BY Names
  <2>2. \A q \in killed : q = "mapper" /\ st[q] \in {"running", "escaped"}
    OBVIOUS
  <2> HIDE DEF killed
  <2>3. st'[p] = "escaped" /\ fds'[p] = {} /\ std'[p] = std[p]
    BY <1>2, <2>1
  <2>4. st' \in [Procs -> States] /\ code' \in [Children -> Codes]
    BY <1>2, ControlType DEF States, Codes
  <2>6. fds' \in [Procs -> SUBSET Ends] /\ std' \in [Procs -> SUBSET Ends]
    BY <1>2, ControlType
  <2>5. \A q \in Procs \ {p} :
          \/ st'[q] = st[q] /\ fds'[q] = fds[q] /\ std'[q] = std[q]
          \/ /\ q = "mapper" /\ st[q] \in {"running", "escaped"}
             /\ st'[q] = "zombie" /\ fds'[q] = {} /\ std'[q] = {}
    BY <1>2, <2>2
  <2>7. UNCHANGED ret
    BY DEF ChildLog
  <2> QED
    BY <1>2, <2>3, <2>4, <2>5, <2>6, <2>7 DEF ChildEscapes
<1> QED
  BY <1>1, <1>2 DEF ChildLog

\* Every step of the mapper is one of these.
LEMMA MapperSteps ==
  ASSUME TypeOK, Mapper
  PROVE  /\ st["mapper"] = "running"
         /\ \/ Still /\ MapperControl
            \/ Quiet /\ pc["mapper"] = 10 /\ MapperMoves
            \/ ChildLoses("mapper")
<1> USE ControlType, MapperDoing
<1>1. CASE ChildLog("mapper")
  <2>1. st["mapper"] = "running" /\ pc["mapper"] = 1 /\ Still
    BY <1>1 DEF ChildLog, Still, progress
  <2> QED
    BY <1>1, <2>1, Escapes, Names DEF MapperControl
<1>2. CASE ChildClose("mapper")
  <2>1. st["mapper"] = "running" /\ pc["mapper"] \in {2, 3, 4, 5, 7, 9} /\ Still
    BY <1>2 DEF ChildClose, Still, progress
  <2>2. ChildCloses("mapper", Arg("mapper")) \/ ChildErrs("mapper")
    BY <1>2 DEF ChildClose, ChildCloses, ChildErrs
  <2> QED
    BY <2>1, <2>2 DEF MapperControl
<1>3. CASE ChildDup2("mapper")
  <2>1. st["mapper"] = "running" /\ pc["mapper"] \in {6, 8} /\ Still
    BY <1>3 DEF ChildDup2, Still, progress
  <2>2. ChildDups("mapper", Arg("mapper")) \/ ChildErrs("mapper")
    BY <1>3 DEF ChildDup2, ChildDups, ChildErrs
  <2> QED
    BY <2>1, <2>2 DEF MapperControl
<1>4. CASE MapperRead
  <2>1. st["mapper"] = "running" /\ pc["mapper"] = 10
    BY <1>4 DEF MapperRead
  <2>2. Quiet /\ MapperMoves
    BY <1>4 DEF MapperRead, MapperMoves, Quiet, budget, InPipe
  <2> QED
    BY <2>1, <2>2
<1>5. CASE MapperMap
  <2>1. st["mapper"] = "running" /\ pc["mapper"] = 10
    BY <1>5 DEF MapperMap
  <2>2. CASE ~HasReader("mapper_to_reducer") /\ EndChild("mapper", "signal")
                /\ UNCHANGED <<data, backlog, mapped, emitted>>
    <3>1. Still /\ ~HasReader(PairPipe) /\ ChildEnds("mapper", "signal")
      BY <1>5, <2>2 DEF MapperMap, ChildEnds, Still, progress, budget, PairPipe
    <3> QED
      BY <2>1, <3>1 DEF MapperControl
  <2>3. CASE ~(~HasReader("mapper_to_reducer") /\ EndChild("mapper", "signal")
                /\ UNCHANGED <<data, backlog, mapped, emitted>>)
    <3>1. Quiet /\ MapperMoves
      BY <1>5, <2>3 DEF MapperMap, MapperMoves, Quiet, budget, PairPipe
    <3> QED
      BY <2>1, <3>1
  <2> QED
    BY <2>2, <2>3
<1>6. CASE MapperEnd
  <2>1. st["mapper"] = "running" /\ pc["mapper"] = 10 /\ Still
    BY <1>6 DEF MapperEnd, Still
  <2>2. /\ Eof(InPipe) /\ (workers["mapper"] = "work" => backlog = 0)
        /\ ChildEnds("mapper", "success")
    BY <1>6 DEF MapperEnd, ChildEnds, InPipe
  <2> QED
    BY <2>1, <2>2 DEF MapperControl
<1>7. CASE ChildFails("mapper")
  <2>1. st["mapper"] = "running" /\ Still /\ ChildErrs("mapper")
    BY <1>7 DEF ChildFails, Still, ChildErrs
  <2> QED
    BY <2>1 DEF MapperControl
<1>8. CASE WorkerLeaves("mapper") \/ BodyHangs("mapper")
  <2>1. ChildLoses("mapper") /\ Doing("mapper", "body")
    BY <1>8, Losses, Names
  <2> QED
    BY <2>1
<1> QED
  BY <1>1, <1>2, <1>3, <1>4, <1>5, <1>6, <1>7, <1>8 DEF Mapper

\* Every step of the reducer is one of these.
LEMMA ReducerSteps ==
  ASSUME TypeOK, Reducer
  PROVE  /\ st["reducer"] = "running"
         /\ \/ Still /\ ReducerControl
            \/ Quiet /\ pc["reducer"] = 10 /\ ReducerMoves
            \/ ChildLoses("reducer")
<1> USE ControlType, ReducerDoing
<1>1. CASE ChildLog("reducer")
  <2>1. st["reducer"] = "running" /\ pc["reducer"] = 1 /\ Still
    BY <1>1 DEF ChildLog, Still, progress
  <2> QED
    BY <1>1, <2>1, Escapes, Names DEF ReducerControl
<1>2. CASE ChildClose("reducer")
  <2>1. st["reducer"] = "running" /\ pc["reducer"] \in {2, 3, 4, 5, 7, 9} /\ Still
    BY <1>2 DEF ChildClose, Still, progress
  <2>2. ChildCloses("reducer", Arg("reducer")) \/ ChildErrs("reducer")
    BY <1>2 DEF ChildClose, ChildCloses, ChildErrs
  <2> QED
    BY <2>1, <2>2 DEF ReducerControl
<1>3. CASE ChildDup2("reducer")
  <2>1. st["reducer"] = "running" /\ pc["reducer"] \in {6, 8} /\ Still
    BY <1>3 DEF ChildDup2, Still, progress
  <2>2. ChildDups("reducer", Arg("reducer")) \/ ChildErrs("reducer")
    BY <1>3 DEF ChildDup2, ChildDups, ChildErrs
  <2> QED
    BY <2>1, <2>2 DEF ReducerControl
<1>4. CASE ReducerCollect
  <2>1. st["reducer"] = "running" /\ pc["reducer"] = 10
    BY <1>4 DEF ReducerCollect
  <2>2. Quiet /\ ReducerMoves
    BY <1>4 DEF ReducerCollect, CollectPair, ReducerMoves, Quiet, budget, PairPipe
  <2> QED
    BY <2>1, <2>2
<1>5. CASE ReducerEmit
  <2>1. st["reducer"] = "running" /\ pc["reducer"] = 10
    BY <1>5 DEF ReducerEmit
  <2>2. CASE ~HasReader("reducer_to_main") /\ EndChild("reducer", "signal")
                /\ UNCHANGED <<data, toEmit, results>>
    <3>1. Still /\ ~HasReader(OutPipe) /\ ChildEnds("reducer", "signal")
      BY <1>5, <2>2 DEF ReducerEmit, ChildEnds, Still, progress, budget, OutPipe
    <3> QED
      BY <2>1, <3>1 DEF ReducerControl
  <2>3. CASE ~(~HasReader("reducer_to_main") /\ EndChild("reducer", "signal")
                /\ UNCHANGED <<data, toEmit, results>>)
    <3>1. Quiet /\ ReducerMoves
      BY <1>5, <2>3 DEF ReducerEmit, ReducerMoves, Quiet, budget, OutPipe
    <3> QED
      BY <2>1, <3>1
  <2> QED
    BY <2>2, <2>3
<1>6. CASE ReducerEnd
  <2>1. st["reducer"] = "running" /\ pc["reducer"] = 10 /\ Still
    BY <1>6 DEF ReducerEnd, Still
  <2>2. (workers["reducer"] = "work" => toEmit = 0) /\ ChildEnds("reducer", "success")
    BY <1>6 DEF ReducerEnd, ChildEnds
  <2> QED
    BY <2>1, <2>2 DEF ReducerControl
<1>7. CASE ChildFails("reducer")
  <2>1. st["reducer"] = "running" /\ Still /\ ChildErrs("reducer")
    BY <1>7 DEF ChildFails, Still, ChildErrs
  <2> QED
    BY <2>1 DEF ReducerControl
<1>8. CASE WorkerLeaves("reducer") \/ BodyHangs("reducer")
  <2>1. ChildLoses("reducer") /\ Doing("reducer", "body")
    BY <1>8, Losses, Names
  <2> QED
    BY <2>1
<1> QED
  BY <1>1, <1>2, <1>3, <1>4, <1>5, <1>6, <1>7, <1>8 DEF Reducer

--------------------------------------------------------------------------------
(***************************************************************************)
(* TypeOK.                                                                 *)
(***************************************************************************)

\* The control half of TypeOK.
ControlOK ==
  /\ pc \in [Procs -> 1 .. 18] /\ pc["mapper"] <= 10 /\ pc["reducer"] <= 10
  /\ st \in [Procs -> States] /\ code \in [Children -> Codes]
  /\ fds \in [Procs -> SUBSET Ends] /\ std \in [Procs -> SUBSET Ends]
  /\ ret \in {"none", "ok", "error"}
  /\ failed \subseteq FaultKinds /\ faultsLeft \in 0 .. MaxFaults

\* The data half of TypeOK.
DataOK ==
  /\ data \in [Pipes -> 0 .. PipeCap]
  /\ sent \in 0 .. NMessages /\ backlog \in 0 .. Backlog
  /\ mapped \in 0 .. NMessages /\ emitted \in 0 .. NMessages
  /\ collected \in 0 .. NMessages /\ toEmit \in -1 .. NMessages
  /\ results \in 0 .. NMessages /\ received \in 0 .. NMessages
  /\ workers \in [Children -> {"work", "left", "stuck"}]

\* The two halves make the whole.
LEMMA TypeSplit == TypeOK <=> ControlOK /\ DataOK
<1>1. /\ Len(Program["main"]) = 18
      /\ Len(Program["mapper"]) = 10 /\ Len(Program["reducer"]) = 10
  BY MainIs, MapperIs, ReducerIs
<1>2. ASSUME pc \in [Procs -> 1 .. 18]
      PROVE  (\A p \in Procs : pc[p] <= Len(Program[p])) <=>
                pc["mapper"] <= 10 /\ pc["reducer"] <= 10
  <2>1. (\A p \in Procs : pc[p] <= Len(Program[p])) <=>
           /\ pc["main"] <= Len(Program["main"])
           /\ pc["mapper"] <= Len(Program["mapper"])
           /\ pc["reducer"] <= Len(Program["reducer"])
    BY Names, Zenon
  <2>2. pc["main"] \in 1 .. 18
    BY <1>2, Names
  <2> QED
    BY <1>1, <2>1, <2>2
<1>3. Len(MainProgram) = 18
  BY MainIs
<1> QED
  BY <1>2, <1>3 DEF TypeOK, ControlOK, DataOK, States, Codes

\* A failing call stays within the budget and is remembered.
LEMMA FailType ==
  ASSUME ControlOK, NEW k, Fail(k)
  PROVE  /\ failed' \subseteq FaultKinds /\ faultsLeft' \in 0 .. MaxFaults
         /\ failed' = failed \cup {k} /\ failed' # {}
  BY BoundsAssumption DEF ControlOK, Fail, BoundsAssumption

\* The effect of an error path of main, pointwise.
LEMMA GiveUpType ==
  ASSUME ControlOK, NEW kill, NEW close, NEW waited, GiveUp(kill, close, waited)
  PROVE  /\ st' \in [Procs -> States] /\ code' \in [Children -> Codes]
         /\ fds' \in [Procs -> SUBSET Ends] /\ std' \in [Procs -> SUBSET Ends]
         /\ ret' = "error" /\ pc' = pc /\ st'["main"] = "returned"
         /\ fds'["main"] = fds["main"] \ close
         /\ \A p \in Children :
              /\ st'[p] = IF p \in kill \cup waited THEN "reaped" ELSE st[p]
              /\ fds'[p] = IF p \in kill THEN {} ELSE fds[p]
              /\ std'[p] = IF p \in kill THEN {} ELSE std[p]
<1> USE Names
<1>1. st' \in [Procs -> States]
  BY DEF ControlOK, GiveUp, States
<1>2. code' \in [Children -> Codes]
  BY DEF ControlOK, GiveUp, Codes
<1>3. fds' \in [Procs -> SUBSET Ends]
  BY DEF ControlOK, GiveUp
<1>4. std' \in [Procs -> SUBSET Ends]
  BY DEF ControlOK, GiveUp
<1>5. /\ ret' = "error" /\ pc' = pc /\ st'["main"] = "returned"
      /\ fds'["main"] = fds["main"] \ close
  BY DEF GiveUp
<1>6. \A p \in Children :
        /\ st'[p] = IF p \in kill \cup waited THEN "reaped" ELSE st[p]
        /\ fds'[p] = IF p \in kill THEN {} ELSE fds[p]
        /\ std'[p] = IF p \in kill THEN {} ELSE std[p]
  BY DEF GiveUp
<1> QED
  BY <1>1, <1>2, <1>3, <1>4, <1>5, <1>6

\* An error path of main, whatever fails and whatever it closes.
LEMMA ErrType ==
  ASSUME ControlOK, MainErrs
  PROVE  ControlOK'
<1>1. PICK k, closed, waited : Fail(k) /\ MainGivesUp(closed, waited)
  BY DEF MainErrs
<1>2. GiveUp(Cleanup[pc["main"]].kill, Cleanup[pc["main"]].close \cup closed, waited)
  BY <1>1 DEF MainGivesUp
<1> QED
  BY <1>1, <1>2, GiveUpType, FailType DEF ControlOK

\* The control steps of main keep the types.
LEMMA MainType ==
  ASSUME ControlOK, MainControl
  PROVE  ControlOK'
<1> USE Names, AllEnds DEF ControlOK
<1>1. CASE MainPasses
  BY <1>1 DEF MainPasses, Advance, budget
<1>2. ASSUME NEW k \in Pipes, MainMakes(k), pc["main"] \in 2 .. 4
      PROVE  ControlOK'
  <2>1. Both(k) \subseteq Ends
    BY DEF Ends
  <2> QED
    BY <1>2, <2>1 DEF MainMakes, Advance, budget
<1>3. ASSUME NEW p \in Children, MainForks(p), pc["main"] \in 5 .. 6
      PROVE  ControlOK'
  BY <1>3 DEF MainForks, Advance, budget, States
<1>4. ASSUME NEW e, MainCloses(e), pc["main"] \in 7 .. 15
      PROVE  ControlOK'
  BY <1>4 DEF MainCloses, Advance, budget
<1>5. ASSUME NEW p \in Children, MainWaits(p), pc["main"] \in 16 .. 17
      PROVE  ControlOK'
  BY <1>5 DEF MainWaits, Advance, budget, States
<1>6. CASE MainDies
  BY <1>6 DEF MainDies, budget, States
<1>7. CASE MainReturns
  <2>1. st' \in [Procs -> States]
    BY <1>7 DEF MainReturns, States
  <2>2. ret' \in {"none", "ok", "error"}
    BY <1>7 DEF MainReturns
  <2>3. failed' \subseteq FaultKinds /\ faultsLeft' \in 0 .. MaxFaults
    BY <1>7, FailType DEF MainReturns, budget
  <2> QED
    BY <1>7, <2>1, <2>2, <2>3 DEF MainReturns
<1>8. CASE MainErrs
  BY <1>8, ErrType
<1> HIDE DEF ControlOK
<1> QED
  BY <1>1, <1>2, <1>3, <1>4, <1>5, <1>6, <1>7, <1>8 DEF MainControl

\* The steps of a child keep the types.
LEMMA ChildType ==
  ASSUME ControlOK, NEW p \in Children
  PROVE  /\ pc[p] \in 1 .. 9 /\ ChildPasses(p) => ControlOK'
         /\ \A e : pc[p] \in 1 .. 9 /\ ChildCloses(p, e) => ControlOK'
         /\ \A e \in Ends : pc[p] \in 1 .. 9 /\ ChildDups(p, e) => ControlOK'
         /\ ChildErrs(p) => ControlOK'
         /\ ChildEscapes(p) => ControlOK'
         /\ \A s \in Codes : ChildEnds(p, s) => ControlOK'
<1> USE Names, AllEnds DEF ControlOK
<1>1. ASSUME pc[p] \in 1 .. 9, ChildPasses(p) PROVE ControlOK'
  BY <1>1 DEF ChildPasses, Advance, budget
<1>2. ASSUME NEW e, pc[p] \in 1 .. 9, ChildCloses(p, e) PROVE ControlOK'
  BY <1>2 DEF ChildCloses, Advance, budget
<1>3. ASSUME NEW e \in Ends, pc[p] \in 1 .. 9, ChildDups(p, e) PROVE ControlOK'
  BY <1>3 DEF ChildDups, Advance, budget
<1>4. ASSUME NEW s \in Codes, EndChild(p, s)
      PROVE  /\ st' \in [Procs -> States] /\ code' \in [Children -> Codes]
             /\ fds' \in [Procs -> SUBSET Ends] /\ std' \in [Procs -> SUBSET Ends]
  BY <1>4 DEF EndChild, States
<1>5. ASSUME ChildErrs(p) PROVE ControlOK'
  <2>1. "failure" \in Codes
    BY DEF Codes
  <2>2. failed' \subseteq FaultKinds /\ faultsLeft' \in 0 .. MaxFaults
    BY <1>5, FailType DEF ChildErrs
  <2> QED
    BY <1>4, <1>5, <2>1, <2>2 DEF ChildErrs
<1>6. ASSUME NEW s \in Codes, ChildEnds(p, s) PROVE ControlOK'
  BY <1>4, <1>6 DEF ChildEnds, budget
<1>7. ASSUME ChildEscapes(p) PROVE ControlOK'
  <2>1. failed' \subseteq FaultKinds /\ faultsLeft' \in 0 .. MaxFaults
    BY <1>7, FailType DEF ChildEscapes
  <2> QED
    BY <1>7, <2>1 DEF ChildEscapes
<1> HIDE DEF ControlOK
<1> QED
  BY <1>1, <1>2, <1>3, <1>5, <1>6, <1>7

--------------------------------------------------------------------------------
(***************************************************************************)
(* Which ends each process holds.                                          *)
(***************************************************************************)

\* Process p is not touched, unless it is stopped.
Frame(p) ==
  /\ pc'[p] = pc[p]
  /\ st'[p] = "running" => st[p] = "running" /\ fds'[p] = fds[p] /\ std'[p] = std[p]

\* What an error path of main does to the processes.
LEMMA ErrEffect ==
  ASSUME ControlOK, MainErrs
  PROVE  /\ st'["main"] = "returned" /\ ret' = "error" /\ pc' = pc
         /\ failed' # {} /\ failed \subseteq failed' /\ std'["main"] = std["main"]
         /\ \A p \in Children :
              \/ st'[p] = st[p] /\ fds'[p] = fds[p] /\ std'[p] = std[p]
              \/ st'[p] = "reaped" /\ fds'[p] = {} /\ std'[p] = {}
              \/ st'[p] = "reaped" /\ st[p] = "zombie" /\ fds'[p] = fds[p] /\ std'[p] = std[p]
<1>1. PICK k, closed, waited :
        /\ Fail(k) /\ MainGivesUp(closed, waited)
        /\ \A p \in waited : st[p] = "zombie"
  BY DEF MainErrs
<1>2. GiveUp(Cleanup[pc["main"]].kill, Cleanup[pc["main"]].close \cup closed, waited)
  BY <1>1 DEF MainGivesUp
<1>3. pc["main"] \in 1 .. 17
  BY DEF MainErrs
<1>4. "main" \notin Cleanup[pc["main"]].kill
  BY <1>3, Kills, Names
<1>5. std'["main"] = std["main"]
  BY <1>2, <1>4, Names DEF GiveUp
<1>6. st'["main"] = "returned" /\ ret' = "error" /\ pc' = pc
  BY <1>2, GiveUpType
<1>7. failed' # {} /\ failed \subseteq failed'
  BY <1>1, FailType
<1>8. \A p \in Children :
        \/ st'[p] = st[p] /\ fds'[p] = fds[p] /\ std'[p] = std[p]
        \/ st'[p] = "reaped" /\ fds'[p] = {} /\ std'[p] = {}
        \/ st'[p] = "reaped" /\ st[p] = "zombie" /\ fds'[p] = fds[p] /\ std'[p] = std[p]
  BY <1>1, <1>2, GiveUpType
<1> QED
  BY <1>5, <1>6, <1>7, <1>8

\* A step of main does not touch a child, but for its fork.
LEMMA MainFrame ==
  ASSUME ControlOK, MainControl
  PROVE  /\ Frame("mapper") \/ (pc["main"] = 5 /\ MainForks("mapper"))
         /\ Frame("reducer") \/ (pc["main"] = 6 /\ MainForks("reducer"))
<1> USE Names DEF ControlOK
<1>1. CASE MainPasses
  BY <1>1 DEF MainPasses, Advance, Frame
<1>2. ASSUME NEW k, MainMakes(k) PROVE Frame("mapper") /\ Frame("reducer")
  BY <1>2 DEF MainMakes, Advance, Frame
<1>3. CASE pc["main"] = 5 /\ MainForks("mapper")
  BY <1>3 DEF MainForks, Advance, Frame
<1>4. CASE pc["main"] = 6 /\ MainForks("reducer")
  BY <1>4 DEF MainForks, Advance, Frame
<1>5. ASSUME NEW e, MainCloses(e) PROVE Frame("mapper") /\ Frame("reducer")
  BY <1>5 DEF MainCloses, Advance, Frame
<1>6. ASSUME NEW p \in Children, MainWaits(p) PROVE Frame("mapper") /\ Frame("reducer")
  BY <1>6 DEF MainWaits, Advance, Frame
<1>7. CASE MainDies
  BY <1>7 DEF MainDies, Frame
<1>8. CASE MainReturns
  BY <1>8 DEF MainReturns, Frame
<1> HIDE DEF ControlOK
<1>9. CASE MainErrs
  BY <1>9, ErrEffect DEF Frame
<1>10. \/ MainPasses \/ (\E k : MainMakes(k))
       \/ (pc["main"] = 5 /\ MainForks("mapper")) \/ (pc["main"] = 6 /\ MainForks("reducer"))
       \/ (\E e : MainCloses(e)) \/ (\E p \in Children : MainWaits(p))
       \/ MainDies \/ MainReturns \/ MainErrs
  BY DEF MainControl
<1> QED
  BY <1>1, <1>2, <1>3, <1>4, <1>5, <1>6, <1>7, <1>8, <1>9, <1>10

\* A step of a child touches neither main nor its sibling.
LEMMA ChildFrame ==
  ASSUME ControlOK, NEW p \in Children,
         \/ ChildPasses(p) \/ (\E e : ChildCloses(p, e)) \/ (\E e : ChildDups(p, e))
         \/ ChildErrs(p) \/ ChildEscapes(p) \/ (\E s : ChildEnds(p, s))
  PROVE  /\ \A q \in Procs \ {p} : Frame(q)
         /\ st'["main"] = st["main"] /\ fds'["main"] = fds["main"]
         /\ std'["main"] = std["main"] /\ ret' = ret /\ failed \subseteq failed'
<1> USE Names DEF ControlOK
<1>1. CASE ChildPasses(p)
  BY <1>1 DEF ChildPasses, Advance, Frame, budget
<1>2. CASE \E e : ChildCloses(p, e)
  BY <1>2 DEF ChildCloses, Advance, Frame, budget
<1>3. CASE \E e : ChildDups(p, e)
  BY <1>3 DEF ChildDups, Advance, Frame, budget
<1>4. CASE ChildErrs(p)
  <2>1. failed \subseteq failed'
    BY <1>4, FailType DEF ChildErrs
  <2> QED
    BY <1>4, <2>1 DEF ChildErrs, EndChild, Frame
<1>5. CASE ChildEscapes(p)
  <2>1. failed \subseteq failed'
    BY <1>5, FailType DEF ChildEscapes
  <2>2. \A q \in Procs \ {p} : Frame(q)
    BY <1>5 DEF ChildEscapes, Frame
  <2> QED
    BY <1>5, <2>1, <2>2 DEF ChildEscapes
<1>6. CASE \E s : ChildEnds(p, s)
  BY <1>6 DEF ChildEnds, EndChild, Frame, budget
<1> QED
  BY <1>1, <1>2, <1>3, <1>4, <1>5, <1>6

\* The control steps of the mapper are steps of a child.
LEMMA MapperIsChild ==
  ASSUME MapperControl
  PROVE  \/ ChildPasses("mapper") \/ (\E e : ChildCloses("mapper", e))
         \/ (\E e : ChildDups("mapper", e)) \/ ChildErrs("mapper")
         \/ ChildEscapes("mapper") \/ (\E s : ChildEnds("mapper", s))
  BY DEF MapperControl

\* So are those of the reducer.
LEMMA ReducerIsChild ==
  ASSUME ReducerControl
  PROVE  \/ ChildPasses("reducer") \/ (\E e : ChildCloses("reducer", e))
         \/ (\E e : ChildDups("reducer", e)) \/ ChildErrs("reducer")
         \/ ChildEscapes("reducer") \/ (\E s : ChildEnds("reducer", s))
  BY DEF ReducerControl

\* Main makes and closes its ends in the order of its program.
LEMMA MainEndsKept ==
  ASSUME ControlOK, MainEnds, st["main"] = "running", MainControl
  PROVE  MainEnds'
<1>0. pc["main"] \in 1 .. 18 /\ DOMAIN pc = Procs
  BY Names DEF ControlOK
<1>1. SUFFICES ASSUME st'["main"] = "running" PROVE MainEnds'
  BY DEF MainEnds
<1>2. ~MainDies /\ ~MainReturns /\ ~MainErrs
  BY <1>1, ErrEffect, Names DEF MainDies, MainReturns, ControlOK
<1>3. ASSUME NEW i \in 1 .. 18, pc["main"] = i, Advance("main")
      PROVE  pc'["main"] = i + 1
  BY <1>3, <1>0, Names DEF Advance
<1>4. CASE MainPasses
  <2>1. fds'["main"] = fds["main"] /\ pc["main"] \in {1, 11, 12, 14}
        /\ pc'["main"] = pc["main"] + 1
    BY <1>0, <1>3, <1>4 DEF MainPasses
  <2> QED
    BY <2>1 DEF MainEnds
<1>5. ASSUME NEW k, MainMakes(k)
      PROVE  /\ fds'["main"] = fds["main"] \cup {R(k), W(k)}
             /\ pc'["main"] = pc["main"] + 1
  <2>1. Both(k) = {R(k), W(k)}
    BY AllEnds
  <2> QED
    BY <1>0, <1>3, <1>5, <2>1, Names DEF MainMakes, ControlOK
<1>6. ASSUME NEW e, MainCloses(e)
      PROVE  fds'["main"] = fds["main"] \ {e} /\ pc'["main"] = pc["main"] + 1
  BY <1>0, <1>3, <1>6, Names DEF MainCloses, ControlOK
<1>7. ASSUME NEW p \in Children, MainForks(p) \/ MainWaits(p)
      PROVE  fds'["main"] = fds["main"] /\ pc'["main"] = pc["main"] + 1
  BY <1>0, <1>3, <1>7, Names DEF MainForks, MainWaits, ControlOK
<1>8. CASE pc["main"] = 2 /\ MainMakes(InPipe)
  <2>1. fds'["main"] = fds["main"] \cup {R(InPipe), W(InPipe)} /\ pc'["main"] = 3
    BY <1>5, <1>8
  <2> QED
    BY <1>8, <2>1, SixEnds DEF MainEnds
<1>9. CASE pc["main"] = 3 /\ MainMakes(PairPipe)
  <2>1. fds'["main"] = fds["main"] \cup {R(PairPipe), W(PairPipe)} /\ pc'["main"] = 4
    BY <1>5, <1>9
  <2> QED
    BY <1>9, <2>1, SixEnds DEF MainEnds
<1>10. CASE pc["main"] = 4 /\ MainMakes(OutPipe)
  <2>1. fds'["main"] = fds["main"] \cup {R(OutPipe), W(OutPipe)} /\ pc'["main"] = 5
    BY <1>5, <1>10
  <2> QED
    BY <1>10, <2>1, SixEnds DEF MainEnds
<1>11. CASE \/ pc["main"] = 5 /\ MainForks("mapper")
            \/ pc["main"] = 6 /\ MainForks("reducer")
            \/ pc["main"] = 16 /\ MainWaits("mapper")
            \/ pc["main"] = 17 /\ MainWaits("reducer")
  <2>1. fds'["main"] = fds["main"] /\ pc["main"] \in {5, 6, 16, 17}
        /\ pc'["main"] = pc["main"] + 1
    BY <1>7, <1>11, Names
  <2> QED
    BY <2>1 DEF MainEnds
<1>12. CASE pc["main"] = 7 /\ MainCloses(R(InPipe))
  <2>1. fds'["main"] = fds["main"] \ {R(InPipe)} /\ pc'["main"] = 8
    BY <1>6, <1>12
  <2> QED
    BY <1>12, <2>1, SixEnds DEF MainEnds
<1>13. CASE pc["main"] = 8 /\ MainCloses(R(PairPipe))
  <2>1. fds'["main"] = fds["main"] \ {R(PairPipe)} /\ pc'["main"] = 9
    BY <1>6, <1>13
  <2> QED
    BY <1>13, <2>1, SixEnds DEF MainEnds
<1>14. CASE pc["main"] = 9 /\ MainCloses(W(PairPipe))
  <2>1. fds'["main"] = fds["main"] \ {W(PairPipe)} /\ pc'["main"] = 10
    BY <1>6, <1>14
  <2> QED
    BY <1>14, <2>1, SixEnds DEF MainEnds
<1>15. CASE pc["main"] = 10 /\ MainCloses(W(OutPipe))
  <2>1. fds'["main"] = fds["main"] \ {W(OutPipe)} /\ pc'["main"] = 11
    BY <1>6, <1>15
  <2> QED
    BY <1>15, <2>1, SixEnds DEF MainEnds
<1>16. CASE pc["main"] = 13 /\ MainCloses(W(InPipe))
  <2>1. fds'["main"] = fds["main"] \ {W(InPipe)} /\ pc'["main"] = 14
    BY <1>6, <1>16
  <2> QED
    BY <1>16, <2>1, SixEnds DEF MainEnds
<1>17. CASE pc["main"] = 15 /\ MainCloses(R(OutPipe))
  <2>1. fds'["main"] = fds["main"] \ {R(OutPipe)} /\ pc'["main"] = 16
    BY <1>6, <1>17
  <2> QED
    BY <1>17, <2>1, SixEnds DEF MainEnds
<1> QED
  BY <1>2, <1>4, <1>8, <1>9, <1>10, <1>11, <1>12, <1>13, <1>14, <1>15, <1>16, <1>17
     DEF MainControl

\* A child that is not touched keeps its ends.
LEMMA MapperFramed == ASSUME MapperEnds, Frame("mapper") PROVE MapperEnds'
  BY DEF MapperEnds, Frame

\* The same for the reducer.
LEMMA ReducerFramed == ASSUME ReducerEnds, Frame("reducer") PROVE ReducerEnds'
  BY DEF ReducerEnds, Frame

\* The mapper is born with the ends main holds at the fork, which are all six.
LEMMA MapperBorn ==
  ASSUME ControlOK, MainEnds, Dropped, Stages, st["main"] = "running",
         pc["main"] = 5, MainForks("mapper")
  PROVE  MapperEnds'
<1>1. /\ fds'["mapper"] = fds["main"] /\ std'["mapper"] = std["mapper"]
      /\ pc'["mapper"] = pc["mapper"]
  BY Names DEF MainForks, Advance, ControlOK
<1>2. st["mapper"] = "none"
  BY DEF Stages
<1>3. std["mapper"] = {} /\ pc["mapper"] = 1
  BY <1>2, Names DEF Dropped, Stages
<1>4. /\ R(InPipe) \in fds["main"] /\ W(InPipe) \in fds["main"]
      /\ R(PairPipe) \in fds["main"] /\ W(PairPipe) \in fds["main"]
      /\ R(OutPipe) \in fds["main"] /\ W(OutPipe) \in fds["main"]
  BY DEF MainEnds
<1> QED
  BY <1>1, <1>3, <1>4 DEF MapperEnds

\* So is the reducer.
LEMMA ReducerBorn ==
  ASSUME ControlOK, MainEnds, Dropped, Stages, st["main"] = "running",
         pc["main"] = 6, MainForks("reducer")
  PROVE  ReducerEnds'
<1>1. /\ fds'["reducer"] = fds["main"] /\ std'["reducer"] = std["reducer"]
      /\ pc'["reducer"] = pc["reducer"]
  BY Names DEF MainForks, Advance, ControlOK
<1>2. st["reducer"] = "none"
  BY DEF Stages
<1>3. std["reducer"] = {} /\ pc["reducer"] = 1
  BY <1>2, Names DEF Dropped, Stages
<1>4. /\ R(InPipe) \in fds["main"] /\ W(InPipe) \in fds["main"]
      /\ R(PairPipe) \in fds["main"] /\ W(PairPipe) \in fds["main"]
      /\ R(OutPipe) \in fds["main"] /\ W(OutPipe) \in fds["main"]
  BY DEF MainEnds
<1> QED
  BY <1>1, <1>3, <1>4 DEF ReducerEnds

\* The set-up steps of a child, pointwise.
LEMMA SetUp ==
  ASSUME ControlOK, NEW p \in Children
  PROVE  /\ ChildPasses(p) => /\ pc'[p] = pc[p] + 1 /\ fds'[p] = fds[p] /\ std'[p] = std[p]
         /\ \A e : ChildCloses(p, e) => /\ pc'[p] = pc[p] + 1 /\ fds'[p] = fds[p] \ {e}
                                        /\ std'[p] = std[p]
         /\ \A e : ChildDups(p, e) => /\ pc'[p] = pc[p] + 1 /\ fds'[p] = fds[p]
                                      /\ std'[p] = std[p] \cup {e}
         /\ ChildErrs(p) \/ ChildEscapes(p) \/ (\E s : ChildEnds(p, s)) =>
              st'[p] # "running"
<1> USE Names DEF ControlOK
<1>1. ChildPasses(p) => /\ pc'[p] = pc[p] + 1 /\ fds'[p] = fds[p] /\ std'[p] = std[p]
  BY DEF ChildPasses, Advance
<1>2. \A e : ChildCloses(p, e) => /\ pc'[p] = pc[p] + 1 /\ fds'[p] = fds[p] \ {e}
                                  /\ std'[p] = std[p]
  BY DEF ChildCloses, Advance
<1>3. \A e : ChildDups(p, e) => /\ pc'[p] = pc[p] + 1 /\ fds'[p] = fds[p]
                                /\ std'[p] = std[p] \cup {e}
  BY DEF ChildDups, Advance
<1>4. ChildErrs(p) \/ ChildEscapes(p) \/ (\E s : ChildEnds(p, s)) => st'[p] # "running"
  BY DEF ChildErrs, ChildEscapes, ChildEnds, EndChild
<1> QED
  BY <1>1, <1>2, <1>3, <1>4

\* The mapper closes and moves its ends in the order of its program.
LEMMA MapperEndsKept ==
  ASSUME ControlOK, MapperEnds, st["mapper"] = "running", MapperControl
  PROVE  MapperEnds'
<1>0. pc["mapper"] \in 1 .. 10
  BY Names DEF ControlOK
<1>1. CASE pc["mapper"] = 1 /\ ChildPasses("mapper")
  <2>1. pc'["mapper"] = 2 /\ fds'["mapper"] = fds["mapper"] /\ std'["mapper"] = std["mapper"]
    BY <1>1, SetUp, Names
  <2> QED
    BY <1>1, <2>1 DEF MapperEnds
<1>2. ASSUME NEW i \in 1 .. 9, NEW e, pc["mapper"] = i, ChildCloses("mapper", e)
      PROVE  /\ pc'["mapper"] = i + 1 /\ fds'["mapper"] = fds["mapper"] \ {e}
             /\ std'["mapper"] = std["mapper"]
  BY <1>2, SetUp, Names
<1>3. ASSUME NEW i \in 1 .. 9, NEW e, pc["mapper"] = i, ChildDups("mapper", e)
      PROVE  /\ pc'["mapper"] = i + 1 /\ fds'["mapper"] = fds["mapper"]
             /\ std'["mapper"] = std["mapper"] \cup {e}
  BY <1>3, SetUp, Names
<1>4. CASE pc["mapper"] = 2 /\ ChildCloses("mapper", W(InPipe))
  <2>1. /\ pc'["mapper"] = 3 /\ fds'["mapper"] = fds["mapper"] \ {W(InPipe)}
        /\ std'["mapper"] = std["mapper"]
    BY <1>2, <1>4
  <2> QED
    BY <1>4, <2>1, SixEnds DEF MapperEnds
<1>5. CASE pc["mapper"] = 3 /\ ChildCloses("mapper", R(PairPipe))
  <2>1. /\ pc'["mapper"] = 4 /\ fds'["mapper"] = fds["mapper"] \ {R(PairPipe)}
        /\ std'["mapper"] = std["mapper"]
    BY <1>2, <1>5
  <2> QED
    BY <1>5, <2>1, SixEnds DEF MapperEnds
<1>6. CASE pc["mapper"] = 4 /\ ChildCloses("mapper", R(OutPipe))
  <2>1. /\ pc'["mapper"] = 5 /\ fds'["mapper"] = fds["mapper"] \ {R(OutPipe)}
        /\ std'["mapper"] = std["mapper"]
    BY <1>2, <1>6
  <2> QED
    BY <1>6, <2>1, SixEnds DEF MapperEnds
<1>7. CASE pc["mapper"] = 5 /\ ChildCloses("mapper", W(OutPipe))
  <2>1. /\ pc'["mapper"] = 6 /\ fds'["mapper"] = fds["mapper"] \ {W(OutPipe)}
        /\ std'["mapper"] = std["mapper"]
    BY <1>2, <1>7
  <2> QED
    BY <1>7, <2>1, SixEnds DEF MapperEnds
<1>8. CASE pc["mapper"] = 6 /\ ChildDups("mapper", R(InPipe))
  <2>1. /\ pc'["mapper"] = 7 /\ fds'["mapper"] = fds["mapper"]
        /\ std'["mapper"] = std["mapper"] \cup {R(InPipe)}
    BY <1>3, <1>8
  <2> QED
    BY <1>8, <2>1, SixEnds DEF MapperEnds
<1>9. CASE pc["mapper"] = 7 /\ ChildCloses("mapper", R(InPipe))
  <2>1. /\ pc'["mapper"] = 8 /\ fds'["mapper"] = fds["mapper"] \ {R(InPipe)}
        /\ std'["mapper"] = std["mapper"]
    BY <1>2, <1>9
  <2> QED
    BY <1>9, <2>1, SixEnds DEF MapperEnds
<1>10. CASE pc["mapper"] = 8 /\ ChildDups("mapper", W(PairPipe))
  <2>1. /\ pc'["mapper"] = 9 /\ fds'["mapper"] = fds["mapper"]
        /\ std'["mapper"] = std["mapper"] \cup {W(PairPipe)}
    BY <1>3, <1>10
  <2> QED
    BY <1>10, <2>1, SixEnds DEF MapperEnds
<1>11. CASE pc["mapper"] = 9 /\ ChildCloses("mapper", W(PairPipe))
  <2>1. /\ pc'["mapper"] = 10 /\ fds'["mapper"] = fds["mapper"] \ {W(PairPipe)}
        /\ std'["mapper"] = std["mapper"]
    BY <1>2, <1>11
  <2> QED
    BY <1>11, <2>1, SixEnds DEF MapperEnds
<1>12. CASE ChildErrs("mapper") \/ ChildEscapes("mapper") \/ (\E s : ChildEnds("mapper", s))
  <2>1. st'["mapper"] # "running"
    BY <1>12, SetUp, Names
  <2> QED
    BY <2>1 DEF MapperEnds
<1> QED
  BY <1>1, <1>4, <1>5, <1>6, <1>7, <1>8, <1>9, <1>10, <1>11, <1>12 DEF MapperControl

\* The reducer closes and moves its ends in the order of its program.
LEMMA ReducerEndsKept ==
  ASSUME ControlOK, ReducerEnds, st["reducer"] = "running", ReducerControl
  PROVE  ReducerEnds'
<1>0. pc["reducer"] \in 1 .. 10
  BY Names DEF ControlOK
<1>1. CASE pc["reducer"] = 1 /\ ChildPasses("reducer")
  <2>1. pc'["reducer"] = 2 /\ fds'["reducer"] = fds["reducer"] /\ std'["reducer"] = std["reducer"]
    BY <1>1, SetUp, Names
  <2> QED
    BY <1>1, <2>1 DEF ReducerEnds
<1>2. ASSUME NEW i \in 1 .. 9, NEW e, pc["reducer"] = i, ChildCloses("reducer", e)
      PROVE  /\ pc'["reducer"] = i + 1 /\ fds'["reducer"] = fds["reducer"] \ {e}
             /\ std'["reducer"] = std["reducer"]
  BY <1>2, SetUp, Names
<1>3. ASSUME NEW i \in 1 .. 9, NEW e, pc["reducer"] = i, ChildDups("reducer", e)
      PROVE  /\ pc'["reducer"] = i + 1 /\ fds'["reducer"] = fds["reducer"]
             /\ std'["reducer"] = std["reducer"] \cup {e}
  BY <1>3, SetUp, Names
<1>4. CASE pc["reducer"] = 2 /\ ChildCloses("reducer", R(InPipe))
  <2>1. /\ pc'["reducer"] = 3 /\ fds'["reducer"] = fds["reducer"] \ {R(InPipe)}
        /\ std'["reducer"] = std["reducer"]
    BY <1>2, <1>4
  <2> QED
    BY <1>4, <2>1, SixEnds DEF ReducerEnds
<1>5. CASE pc["reducer"] = 3 /\ ChildCloses("reducer", W(InPipe))
  <2>1. /\ pc'["reducer"] = 4 /\ fds'["reducer"] = fds["reducer"] \ {W(InPipe)}
        /\ std'["reducer"] = std["reducer"]
    BY <1>2, <1>5
  <2> QED
    BY <1>5, <2>1, SixEnds DEF ReducerEnds
<1>6. CASE pc["reducer"] = 4 /\ ChildCloses("reducer", W(PairPipe))
  <2>1. /\ pc'["reducer"] = 5 /\ fds'["reducer"] = fds["reducer"] \ {W(PairPipe)}
        /\ std'["reducer"] = std["reducer"]
    BY <1>2, <1>6
  <2> QED
    BY <1>6, <2>1, SixEnds DEF ReducerEnds
<1>7. CASE pc["reducer"] = 5 /\ ChildCloses("reducer", R(OutPipe))
  <2>1. /\ pc'["reducer"] = 6 /\ fds'["reducer"] = fds["reducer"] \ {R(OutPipe)}
        /\ std'["reducer"] = std["reducer"]
    BY <1>2, <1>7
  <2> QED
    BY <1>7, <2>1, SixEnds DEF ReducerEnds
<1>8. CASE pc["reducer"] = 6 /\ ChildDups("reducer", R(PairPipe))
  <2>1. /\ pc'["reducer"] = 7 /\ fds'["reducer"] = fds["reducer"]
        /\ std'["reducer"] = std["reducer"] \cup {R(PairPipe)}
    BY <1>3, <1>8
  <2> QED
    BY <1>8, <2>1, SixEnds DEF ReducerEnds
<1>9. CASE pc["reducer"] = 7 /\ ChildCloses("reducer", R(PairPipe))
  <2>1. /\ pc'["reducer"] = 8 /\ fds'["reducer"] = fds["reducer"] \ {R(PairPipe)}
        /\ std'["reducer"] = std["reducer"]
    BY <1>2, <1>9
  <2> QED
    BY <1>9, <2>1, SixEnds DEF ReducerEnds
<1>10. CASE pc["reducer"] = 8 /\ ChildDups("reducer", W(OutPipe))
  <2>1. /\ pc'["reducer"] = 9 /\ fds'["reducer"] = fds["reducer"]
        /\ std'["reducer"] = std["reducer"] \cup {W(OutPipe)}
    BY <1>3, <1>10
  <2> QED
    BY <1>10, <2>1, SixEnds DEF ReducerEnds
<1>11. CASE pc["reducer"] = 9 /\ ChildCloses("reducer", W(OutPipe))
  <2>1. /\ pc'["reducer"] = 10 /\ fds'["reducer"] = fds["reducer"] \ {W(OutPipe)}
        /\ std'["reducer"] = std["reducer"]
    BY <1>2, <1>11
  <2> QED
    BY <1>11, <2>1, SixEnds DEF ReducerEnds
<1>12. CASE ChildErrs("reducer") \/ ChildEscapes("reducer") \/ (\E s : ChildEnds("reducer", s))
  <2>1. st'["reducer"] # "running"
    BY <1>12, SetUp, Names
  <2> QED
    BY <2>1 DEF ReducerEnds
<1> QED
  BY <1>1, <1>4, <1>5, <1>6, <1>7, <1>8, <1>9, <1>10, <1>11, <1>12 DEF ReducerControl

--------------------------------------------------------------------------------
(***************************************************************************)
(* The stages of the job, and what an end leaves behind.                   *)
(***************************************************************************)

\* The control steps of a child keep the stages: it neither appears nor is reaped.
LEMMA ChildStages ==
  ASSUME ControlOK, Stages, Dropped, ErrorIsClean, NEW p \in Children, st[p] = "running",
         \/ ChildPasses(p) \/ (\E e : ChildCloses(p, e)) \/ (\E e : ChildDups(p, e))
         \/ ChildErrs(p) \/ (std[p] = {} /\ ChildEscapes(p)) \/ (\E s : ChildEnds(p, s))
  PROVE  Stages' /\ Dropped' /\ ErrorIsClean'
<1> USE Names
<1>1. /\ pc'["main"] = pc["main"] /\ st'["main"] = st["main"] /\ fds'["main"] = fds["main"]
      /\ std'["main"] = std["main"] /\ ret' = ret /\ failed \subseteq failed'
  BY ChildFrame DEF Frame
<1>2. \A q \in Children :
        /\ st'[q] = "none" <=> st[q] = "none"
        /\ st'[q] = "reaped" <=> st[q] = "reaped"
        /\ st'[q] \in {"none", "running", "zombie", "reaped", "escaped"}
        /\ pc'[q] = pc[q] \/ st[q] = "running"
        /\ st'[q] # "running" => fds'[q] = {} /\ std'[q] = {}
  <2>1. CASE ChildPasses(p)
    BY <2>1 DEF ChildPasses, Advance, ControlOK, Stages, Dropped
  <2>2. CASE \E e : ChildCloses(p, e)
    BY <2>2 DEF ChildCloses, Advance, ControlOK, Stages, Dropped
  <2>3. CASE \E e : ChildDups(p, e)
    BY <2>3 DEF ChildDups, Advance, ControlOK, Stages, Dropped
  <2>4. CASE ChildErrs(p)
    BY <2>4 DEF ChildErrs, EndChild, ControlOK, Stages, Dropped
  <2>5. CASE std[p] = {} /\ ChildEscapes(p)
    BY <2>5 DEF ChildEscapes, Stages, Dropped
  <2>6. CASE \E s : ChildEnds(p, s)
    BY <2>6 DEF ChildEnds, EndChild, ControlOK, Stages, Dropped
  <2> QED
    BY <2>1, <2>2, <2>3, <2>4, <2>5, <2>6
<1>3. Stages'
  BY <1>1, <1>2 DEF Stages
<1>4. Dropped'
  BY <1>1, <1>2 DEF Dropped
<1>5. ErrorIsClean'
  <2>1. ret = "error" => failed \cap {"close", "wait"} # {}
    BY DEF ErrorIsClean
  <2> QED
    BY <1>1, <2>1 DEF ErrorIsClean
<1> QED
  BY <1>3, <1>4, <1>5

\* An error path closes what main holds at that step, but for the one it forgets.
LEMMA ErrCloses ==
  ASSUME ControlOK, MainEnds, st["main"] = "running", MainErrs, fds'["main"] # {}
  PROVE  "fork" \in failed' /\ fds'["main"] = {R(InPipe)}
<1>1. PICK k, closed, waited :
        /\ Fail(k) /\ MainGivesUp(closed, waited)
        /\ pc["main"] \in 1 .. 17
        /\ pc["main"] \in {5, 6} => k = "fork"
        /\ pc["main"] \in {7, 8, 9, 10, 13, 15} => closed = {Arg("main")}
  BY DEF MainErrs
<1>2. GiveUp(Cleanup[pc["main"]].kill, Cleanup[pc["main"]].close \cup closed, waited)
  BY <1>1 DEF MainGivesUp
<1>3. fds'["main"] = fds["main"] \ (Cleanup[pc["main"]].close \cup closed)
  BY <1>2, GiveUpType
<1>4. /\ fds["main"] \subseteq Ends
      /\ Ends = {R(InPipe), W(InPipe), R(PairPipe), W(PairPipe), R(OutPipe), W(OutPipe)}
  BY AllEnds, Names DEF ControlOK
<1>5. /\ \A k0 : Both(k0) = {R(k0), W(k0)}
  BY AllEnds
<1>6. /\ pc["main"] \notin 1 .. 5
  <2>1. pc["main"] \notin {1, 2}
    BY <1>3, <1>4 DEF MainEnds
  <2>2. pc["main"] # 3
    BY <1>3, <1>4, <1>5, Closes DEF MainEnds
  <2>3. pc["main"] # 4
    BY <1>3, <1>4, <1>5, Closes DEF MainEnds
  <2>4. pc["main"] # 5
    BY <1>3, <1>4, Closes DEF MainEnds
  <2> QED
    BY <2>1, <2>2, <2>3, <2>4
<1>7. pc["main"] \notin 7 .. 10
  <2>1. pc["main"] # 7
    <3>1. SUFFICES ASSUME pc["main"] = 7 PROVE FALSE
      OBVIOUS
    <3>2. closed = {R(InPipe)} /\ Cleanup[7].close = Ends \ {R(InPipe)}
      BY <1>1, <3>1, MainArgs, Closes
    <3> QED
      BY <1>3, <1>4, <3>1, <3>2
  <2>2. pc["main"] # 8
    <3>1. SUFFICES ASSUME pc["main"] = 8 PROVE FALSE
      OBVIOUS
    <3>2. closed = {R(PairPipe)} /\ Cleanup[8].close = Ends \ {R(InPipe), R(PairPipe)}
      BY <1>1, <3>1, MainArgs, Closes
    <3> QED
      BY <1>3, <1>4, <3>1, <3>2 DEF MainEnds
  <2>3. pc["main"] # 9
    <3>1. SUFFICES ASSUME pc["main"] = 9 PROVE FALSE
      OBVIOUS
    <3>2. closed = {W(PairPipe)} /\ Cleanup[9].close = {W(InPipe)} \cup Both(OutPipe)
      BY <1>1, <3>1, MainArgs, Closes
    <3>3. Both(OutPipe) = {R(OutPipe), W(OutPipe)}
      BY <1>5
    <3> QED
      BY <1>3, <1>4, <3>1, <3>2, <3>3 DEF MainEnds
  <2>4. pc["main"] # 10
    <3>1. SUFFICES ASSUME pc["main"] = 10 PROVE FALSE
      OBVIOUS
    <3>2. Cleanup[10].close = Ends \ {R(InPipe)}
      BY Closes
    <3> QED
      BY <1>3, <1>4, <3>1, <3>2 DEF MainEnds
  <2> QED
    BY <2>1, <2>2, <2>3, <2>4
<1>8. pc["main"] \notin 11 .. 17
  <2>1. pc["main"] \notin {11, 12}
    BY <1>3, <1>4, Closes DEF MainEnds
  <2>2. pc["main"] # 13
    <3>1. SUFFICES ASSUME pc["main"] = 13 PROVE FALSE
      OBVIOUS
    <3>2. closed = {W(InPipe)} /\ Cleanup[13].close = {R(OutPipe)}
      BY <1>1, <3>1, MainArgs, Closes
    <3> QED
      BY <1>3, <1>4, <3>1, <3>2 DEF MainEnds
  <2>3. pc["main"] # 14
    BY <1>3, <1>4, Closes DEF MainEnds
  <2>4. pc["main"] # 15
    <3>1. SUFFICES ASSUME pc["main"] = 15 PROVE FALSE
      OBVIOUS
    <3>2. closed = {R(OutPipe)}
      BY <1>1, <3>1, MainArgs
    <3> QED
      BY <1>3, <1>4, <3>1, <3>2 DEF MainEnds
  <2>5. pc["main"] \notin {16, 17}
    BY <1>3, <1>4 DEF MainEnds
  <2> QED
    BY <2>1, <2>2, <2>3, <2>4, <2>5
<1>9. pc["main"] = 6
  BY <1>1, <1>6, <1>7, <1>8
<1>10. Cleanup[6].close = Ends \ {R(InPipe)}
  BY Closes
<1>11. fds'["main"] \subseteq {R(InPipe)}
  BY <1>3, <1>4, <1>9, <1>10
<1>12. "fork" \in failed'
  BY <1>1, <1>9, FailType
<1> QED
  BY <1>11, <1>12

\* An error path waits for all children there are, unless close or waitpid failed.
LEMMA ErrReaps ==
  ASSUME ControlOK, Stages, st["main"] = "running", MainErrs,
         failed' \cap {"close", "wait"} = {}, NEW p \in Children
  PROVE  st'[p] \in {"none", "reaped"}
<1>1. PICK k, closed, waited :
        /\ Fail(k) /\ MainGivesUp(closed, waited)
        /\ \/ pc["main"] \in {1, 2, 3, 4, 5, 6, 11, 12, 14} /\ waited = {}
           \/ pc["main"] = 16 /\ waited = {"mapper"}
           \/ pc["main"] = 17 /\ waited = {"reducer"}
           \/ k \in {"close", "wait"}
  BY DEF MainErrs
<1>2. k \notin {"close", "wait"}
  BY <1>1, FailType
<1>3. st'[p] = IF p \in Cleanup[pc["main"]].kill \cup waited THEN "reaped" ELSE st[p]
  BY <1>1, GiveUpType DEF MainGivesUp
<1>4. CASE pc["main"] \in {1, 2, 3, 4, 5}
  <2>1. st[p] = "none"
    BY <1>4, Names DEF Stages
  <2> QED
    BY <1>3, <2>1
<1>5. CASE pc["main"] = 6
  <2>1. Cleanup[pc["main"]].kill = {"mapper"} /\ st["reducer"] = "none"
    BY <1>5, Kills DEF Stages
  <2> QED
    BY <1>3, <2>1, Names
<1>6. CASE pc["main"] \in {11, 12, 14}
  BY <1>3, <1>6, Kills
<1>7. CASE pc["main"] = 16 /\ waited = {"mapper"}
  <2>1. Cleanup[pc["main"]].kill = {"reducer"}
    BY <1>7, Kills
  <2> QED
    BY <1>3, <1>7, <2>1, Names
<1>8. CASE pc["main"] = 17 /\ waited = {"reducer"}
  <2>1. st["mapper"] = "reaped"
    BY <1>8 DEF Stages
  <2> QED
    BY <1>3, <1>8, <2>1, Names
<1> QED
  BY <1>1, <1>2, <1>4, <1>5, <1>6, <1>7, <1>8

\* The control steps of main keep the stages, and leave behind what they may.
LEMMA MainStages ==
  ASSUME ControlOK, Stages, Dropped, MainEnds, st["main"] = "running", MainControl
  PROVE  Stages' /\ Dropped' /\ ErrorIsClean'
<1> USE Names
<1>1. /\ pc["main"] \in 1 .. 18 /\ pc \in [Procs -> 1 .. 18] /\ st \in [Procs -> States]
      /\ fds \in [Procs -> SUBSET Ends] /\ std \in [Procs -> SUBSET Ends]
  BY DEF ControlOK
<1>2. ret = "none"
  BY DEF Stages
<1>3. ASSUME Advance("main")
      PROVE  /\ pc'["main"] = pc["main"] + 1
             /\ \A p \in Children : pc'[p] = pc[p]
  BY <1>1, <1>3 DEF Advance
<1>4. ASSUME Advance("main"), pc["main"] \in {1, 2, 3, 4, 7, 8, 9, 10, 11, 12, 13, 14, 15},
             \A p \in Procs : st'[p] = st[p], std' = std, ret' = ret,
             \A p \in Children : fds'[p] = fds[p]
      PROVE  Stages' /\ Dropped' /\ ErrorIsClean'
  <2>1. Stages'
    BY <1>1, <1>3, <1>4 DEF Stages
  <2>2. Dropped'
    BY <1>2, <1>4 DEF Dropped
  <2>3. ErrorIsClean'
    BY <1>2, <1>4 DEF ErrorIsClean
  <2> QED
    BY <2>1, <2>2, <2>3
<1>5. CASE MainPasses
  BY <1>4, <1>5 DEF MainPasses
<1>6. ASSUME NEW k, MainMakes(k), pc["main"] \in {2, 3, 4}
      PROVE  Stages' /\ Dropped' /\ ErrorIsClean'
  <2>1. \A p \in Children : fds'[p] = fds[p]
    BY <1>1, <1>6 DEF MainMakes
  <2> QED
    BY <1>4, <1>6, <2>1 DEF MainMakes
<1>7. ASSUME NEW e, MainCloses(e), pc["main"] \in {7, 8, 9, 10, 13, 15}
      PROVE  Stages' /\ Dropped' /\ ErrorIsClean'
  <2>1. \A p \in Children : fds'[p] = fds[p]
    BY <1>1, <1>7 DEF MainCloses
  <2> QED
    BY <1>4, <1>7, <2>1 DEF MainCloses
<1>8. ASSUME NEW p \in Children, MainForks(p),
             (pc["main"] = 5 /\ p = "mapper") \/ (pc["main"] = 6 /\ p = "reducer")
      PROVE  Stages' /\ Dropped' /\ ErrorIsClean'
  <2>1. /\ st'[p] = "running" /\ \A q \in Procs \ {p} : st'[q] = st[q] /\ fds'[q] = fds[q]
        /\ std' = std /\ ret' = ret /\ Advance("main")
    BY <1>1, <1>8 DEF MainForks
  <2>2. Stages'
    BY <1>1, <1>3, <1>8, <2>1 DEF Stages
  <2>3. Dropped'
    BY <1>2, <2>1 DEF Dropped, Stages
  <2>4. ErrorIsClean'
    BY <1>2, <2>1 DEF ErrorIsClean
  <2> QED
    BY <2>2, <2>3, <2>4
<1>9. ASSUME NEW p \in Children, MainWaits(p),
             (pc["main"] = 16 /\ p = "mapper") \/ (pc["main"] = 17 /\ p = "reducer")
      PROVE  Stages' /\ Dropped' /\ ErrorIsClean'
  <2>1. /\ st[p] = "zombie" /\ st'[p] = "reaped" /\ \A q \in Procs \ {p} : st'[q] = st[q]
        /\ fds' = fds /\ std' = std /\ ret' = ret /\ Advance("main")
    BY <1>1, <1>9 DEF MainWaits
  <2>2. Stages'
    BY <1>1, <1>3, <1>9, <2>1 DEF Stages
  <2>3. Dropped'
    BY <1>2, <2>1 DEF Dropped, Stages
  <2>4. ErrorIsClean'
    BY <1>2, <2>1 DEF ErrorIsClean
  <2> QED
    BY <2>2, <2>3, <2>4
<1>10. CASE MainDies
  <2>1. /\ st'["main"] = "killed" /\ fds'["main"] = {}
        /\ \A q \in Children : st'[q] = st[q] /\ fds'[q] = fds[q]
        /\ std' = std /\ ret' = ret /\ pc' = pc
    BY <1>1, <1>10 DEF MainDies
  <2>2. Stages'
    BY <1>2, <2>1 DEF Stages
  <2>3. Dropped'
    BY <2>1 DEF Dropped
  <2>4. ErrorIsClean'
    BY <1>2, <2>1 DEF ErrorIsClean
  <2> QED
    BY <2>2, <2>3, <2>4
<1>11. CASE MainReturns
  <2>1. /\ st'["main"] = "returned" /\ \A q \in Children : st'[q] = st[q]
        /\ fds' = fds /\ std' = std /\ ret' \in {"ok", "error"} /\ pc' = pc
        /\ pc["main"] = 18
    BY <1>1, <1>11 DEF MainReturns
  <2>2. \A q \in Children : st[q] = "reaped"
    BY <2>1 DEF Stages
  <2>3. fds["main"] = {}
    <3>1. fds["main"] \subseteq Ends
      BY <1>1
    <3> QED
      BY <2>1, <3>1, AllEnds DEF MainEnds
  <2>4. Stages'
    BY <2>1, <2>2 DEF Stages
  <2>5. Dropped'
    BY <2>1, <2>3 DEF Dropped
  <2>6. ErrorIsClean'
    BY <2>1, <2>2, <2>3 DEF ErrorIsClean
  <2> QED
    BY <2>4, <2>5, <2>6
<1>12. CASE MainErrs
  <2>1. /\ st'["main"] = "returned" /\ ret' = "error" /\ pc' = pc
        /\ std'["main"] = std["main"]
        /\ \A p \in Children :
             \/ st'[p] = st[p] /\ fds'[p] = fds[p] /\ std'[p] = std[p]
             \/ st'[p] = "reaped" /\ fds'[p] = {} /\ std'[p] = {}
             \/ st'[p] = "reaped" /\ st[p] = "zombie" /\ fds'[p] = fds[p] /\ std'[p] = std[p]
    BY <1>12, ErrEffect
  <2>2. st'["mapper"] = "none" => st'["reducer"] = "none"
    <3>1. SUFFICES ASSUME st'["mapper"] = "none" PROVE st'["reducer"] = "none"
      OBVIOUS
    <3>2. st["mapper"] = "none" /\ st["reducer"] = "none"
      BY <2>1, <3>1 DEF Stages
    <3>3. pc["main"] \in 1 .. 5
      BY <1>1, <3>2 DEF Stages
    <3>4. PICK k, closed, waited :
            /\ Fail(k) /\ MainGivesUp(closed, waited)
            /\ pc["main"] \in 1 .. 5 => waited = {}
      BY <1>12 DEF MainErrs
    <3>5. Cleanup[pc["main"]].kill = {}
      BY <3>3, Kills
    <3>6. st'["reducer"] = IF "reducer" \in Cleanup[pc["main"]].kill \cup waited
                             THEN "reaped" ELSE st["reducer"]
      BY <3>4, GiveUpType DEF MainGivesUp
    <3> QED
      BY <3>2, <3>3, <3>4, <3>5, <3>6
  <2>3. Stages'
    BY <2>1, <2>2 DEF Stages
  <2>4. Dropped'
    BY <2>1 DEF Dropped
  <2>5. ErrorIsClean'
    <3>1. fds'["main"] # {} => "fork" \in failed' /\ fds'["main"] = {R(InPipe)}
      BY <1>12, ErrCloses
    <3>2. failed' \cap {"close", "wait"} = {} => \A p \in Children : st'[p] \in {"none", "reaped"}
      BY <1>12, ErrReaps
    <3> QED
      BY <3>1, <3>2 DEF ErrorIsClean, InPipe
  <2> QED
    BY <2>3, <2>4, <2>5
<1> QED
  <2>1. \/ MainPasses \/ MainDies \/ MainReturns \/ MainErrs
        \/ \E k : MainMakes(k) /\ pc["main"] \in {2, 3, 4}
        \/ \E e : MainCloses(e) /\ pc["main"] \in {7, 8, 9, 10, 13, 15}
        \/ pc["main"] = 5 /\ MainForks("mapper")
        \/ pc["main"] = 6 /\ MainForks("reducer")
        \/ pc["main"] = 16 /\ MainWaits("mapper")
        \/ pc["main"] = 17 /\ MainWaits("reducer")
    BY DEF MainControl
  <2>2. CASE pc["main"] = 5 /\ MainForks("mapper")
    BY <1>8, <2>2
  <2>3. CASE pc["main"] = 6 /\ MainForks("reducer")
    BY <1>8, <2>3
  <2>4. CASE pc["main"] = 16 /\ MainWaits("mapper")
    BY <1>9, <2>4
  <2>5. CASE pc["main"] = 17 /\ MainWaits("reducer")
    BY <1>9, <2>5
  <2> QED
    BY <1>5, <1>6, <1>7, <1>10, <1>11, <1>12, <2>1, <2>2, <2>3, <2>4, <2>5

--------------------------------------------------------------------------------
(***************************************************************************)
(* The messages.                                                           *)
(***************************************************************************)

\* The transfers, by the process that makes them, keep the types and the counts.
LEMMA MainData ==
  ASSUME DataOK, Counts, MainMoves, failed' = failed
  PROVE  DataOK' /\ Counts'
<1> USE Names, BoundsAssumption DEF DataOK, BoundsAssumption
<1>1. data[InPipe] \in 0 .. PipeCap /\ data[OutPipe] \in 0 .. PipeCap
  OBVIOUS
<1>2. CASE /\ sent < NMessages /\ data[InPipe] < PipeCap
           /\ data' = [data EXCEPT ![InPipe] = @ + 1] /\ sent' = sent + 1
           /\ UNCHANGED <<backlog, mapped, emitted, collected, toEmit, results, received,
                         workers>>
  <2>1. data' \in [Pipes -> 0 .. PipeCap] /\ sent' \in 0 .. NMessages
    BY <1>1, <1>2
  <2>2. /\ data'[InPipe] = data[InPipe] + 1 /\ data'[PairPipe] = data[PairPipe]
        /\ data'[OutPipe] = data[OutPipe]
    BY <1>2
  <2>3. DataOK'
    BY <1>2, <2>1
  <2>4. Counts'
    BY <1>1, <1>2, <2>2 DEF Counts
  <2> QED
    BY <2>3, <2>4
<1>3. CASE /\ data[OutPipe] > 0
           /\ data' = [data EXCEPT ![OutPipe] = @ - 1] /\ received' = received + 1
           /\ UNCHANGED <<sent, backlog, mapped, emitted, collected, toEmit, results,
                         workers>>
  <2>1. data' \in [Pipes -> 0 .. PipeCap]
    BY <1>1, <1>3
  <2>2. /\ data'[OutPipe] = data[OutPipe] - 1 /\ data'[PairPipe] = data[PairPipe]
        /\ data'[InPipe] = data[InPipe]
    BY <1>3
  <2>3. received' \in 0 .. NMessages
    BY <1>1, <1>3 DEF Counts
  <2>4. DataOK'
    BY <1>3, <2>1, <2>3
  <2>5. Counts'
    BY <1>1, <1>3, <2>2 DEF Counts
  <2> QED
    BY <2>4, <2>5
<1> QED
  BY <1>2, <1>3 DEF MainMoves

\* The same for the mapper, which holds at most its backlog.
LEMMA MapperData ==
  ASSUME DataOK, Counts, MapperMoves, failed' = failed
  PROVE  DataOK' /\ Counts'
<1> USE Names, BoundsAssumption DEF DataOK, BoundsAssumption
<1>1. data[InPipe] \in 0 .. PipeCap /\ data[PairPipe] \in 0 .. PipeCap
  OBVIOUS
<1>2. CASE /\ data[InPipe] > 0 /\ backlog < Backlog
           /\ data' = [data EXCEPT ![InPipe] = @ - 1] /\ backlog' = backlog + 1
           /\ UNCHANGED <<sent, mapped, emitted, collected, toEmit, results, received,
                         workers>>
  <2>1. data' \in [Pipes -> 0 .. PipeCap] /\ backlog' \in 0 .. Backlog
    BY <1>1, <1>2
  <2>2. /\ data'[InPipe] = data[InPipe] - 1 /\ data'[PairPipe] = data[PairPipe]
        /\ data'[OutPipe] = data[OutPipe]
    BY <1>2
  <2>3. DataOK'
    BY <1>2, <2>1
  <2>4. Counts'
    BY <1>1, <1>2, <2>2 DEF Counts
  <2> QED
    BY <2>3, <2>4
<1>3. CASE /\ backlog > 0
           /\ backlog' = backlog - 1 /\ mapped' = mapped + 1
           /\ UNCHANGED <<data, sent, emitted, collected, toEmit, results, received,
                         workers>>
  <2>1. backlog' \in 0 .. Backlog /\ mapped' \in 0 .. NMessages
    BY <1>1, <1>3 DEF Counts
  <2>2. DataOK'
    BY <1>3, <2>1
  <2>3. Counts'
    BY <1>1, <1>3 DEF Counts
  <2> QED
    BY <2>2, <2>3
<1>4. CASE /\ backlog > 0 /\ data[PairPipe] < PipeCap
           /\ data' = [data EXCEPT ![PairPipe] = @ + 1]
           /\ backlog' = backlog - 1 /\ mapped' = mapped + 1 /\ emitted' = emitted + 1
           /\ UNCHANGED <<sent, collected, toEmit, results, received, workers>>
  <2>1. data' \in [Pipes -> 0 .. PipeCap]
    BY <1>1, <1>4
  <2>2. /\ data'[PairPipe] = data[PairPipe] + 1 /\ data'[InPipe] = data[InPipe]
        /\ data'[OutPipe] = data[OutPipe]
    BY <1>4
  <2>3. /\ backlog' \in 0 .. Backlog /\ mapped' \in 0 .. NMessages
        /\ emitted' \in 0 .. NMessages
    BY <1>1, <1>4 DEF Counts
  <2>4. DataOK'
    BY <1>4, <2>1, <2>3
  <2>5. Counts'
    BY <1>1, <1>4, <2>2 DEF Counts
  <2> QED
    BY <2>4, <2>5
<1> QED
  BY <1>2, <1>3, <1>4 DEF MapperMoves

\* The same for the reducer, which makes no more results than it has collected pairs.
LEMMA ReducerData ==
  ASSUME DataOK, Counts, ReducerMoves, failed' = failed
  PROVE  DataOK' /\ Counts'
<1> USE Names, BoundsAssumption DEF DataOK, BoundsAssumption
<1>1. data[OutPipe] \in 0 .. PipeCap /\ data[PairPipe] \in 0 .. PipeCap
  OBVIOUS
<1>2. CASE /\ toEmit = -1 /\ data[PairPipe] > 0
           /\ data' = [data EXCEPT ![PairPipe] = @ - 1] /\ collected' = collected + 1
           /\ UNCHANGED <<sent, backlog, mapped, emitted, toEmit, results, received,
                         workers>>
  <2>1. data' \in [Pipes -> 0 .. PipeCap]
    BY <1>1, <1>2
  <2>2. /\ data'[PairPipe] = data[PairPipe] - 1 /\ data'[InPipe] = data[InPipe]
        /\ data'[OutPipe] = data[OutPipe]
    BY <1>2
  <2>3. collected' \in 0 .. NMessages
    BY <1>1, <1>2 DEF Counts
  <2>4. DataOK'
    BY <1>2, <2>1, <2>3
  <2>5. Counts'
    BY <1>1, <1>2, <2>2 DEF Counts
  <2> QED
    BY <2>4, <2>5
<1>3. CASE /\ toEmit = -1
           /\ toEmit' \in IF collected = 0 THEN {0} ELSE 1 .. collected
           /\ UNCHANGED <<data, sent, backlog, mapped, emitted, collected, results,
                          received, workers>>
  <2>1. toEmit' \in 0 .. collected /\ (collected > 0 => toEmit' > 0)
    BY <1>3
  <2>2. DataOK'
    BY <1>3, <2>1
  <2>3. Counts'
    BY <1>1, <1>3, <2>1 DEF Counts
  <2> QED
    BY <2>2, <2>3
<1>4. CASE /\ toEmit > 0 /\ data[OutPipe] < PipeCap
           /\ data' = [data EXCEPT ![OutPipe] = @ + 1]
           /\ toEmit' = toEmit - 1 /\ results' = results + 1
           /\ UNCHANGED <<sent, backlog, mapped, emitted, collected, received, workers>>
  <2>1. data' \in [Pipes -> 0 .. PipeCap]
    BY <1>1, <1>4
  <2>2. /\ data'[OutPipe] = data[OutPipe] + 1 /\ data'[InPipe] = data[InPipe]
        /\ data'[PairPipe] = data[PairPipe]
    BY <1>4
  <2>3. toEmit' \in -1 .. NMessages /\ results' \in 0 .. NMessages
    BY <1>1, <1>4 DEF Counts
  <2>4. DataOK'
    BY <1>4, <2>1, <2>3
  <2>5. Counts'
    BY <1>1, <1>4, <2>2 DEF Counts
  <2> QED
    BY <2>4, <2>5
<1> QED
  BY <1>2, <1>3, <1>4 DEF ReducerMoves

--------------------------------------------------------------------------------
(***************************************************************************)
(* What the end of a pipe proves.                                          *)
(***************************************************************************)

\* Who holds which end while it runs.
LEMMA Held ==
  ASSUME ControlOK, MainEnds, MapperEnds, ReducerEnds
  PROVE  /\ st["mapper"] = "running" => HasReader(InPipe) /\ Holders(W(PairPipe)) # {}
         /\ st["reducer"] = "running" => HasReader(PairPipe) /\ Holders(W(OutPipe)) # {}
         /\ st["main"] = "running" =>
              /\ pc["main"] \in 3 .. 13 => Holders(W(InPipe)) # {}
              /\ pc["main"] \in 4 .. 8 => HasReader(PairPipe)
              /\ pc["main"] \in 5 .. 15 => HasReader(OutPipe)
<1>1. ASSUME NEW p \in Procs, NEW e, e \in fds[p] \/ e \in std[p]
      PROVE  Holders(e) # {}
  BY <1>1 DEF Holders
<1>2. ASSUME NEW p \in Procs, NEW k, R(k) \in fds[p] \/ R(k) \in std[p]
      PROVE  HasReader(k)
  BY <1>1, <1>2 DEF HasReader
<1>3. pc["mapper"] \in 1 .. 10 /\ pc["reducer"] \in 1 .. 10
  BY Names DEF ControlOK
<1>4. st["mapper"] = "running" => HasReader(InPipe) /\ Holders(W(PairPipe)) # {}
  <2>1. SUFFICES ASSUME st["mapper"] = "running"
                 PROVE  HasReader(InPipe) /\ Holders(W(PairPipe)) # {}
    OBVIOUS
  <2>2. R(InPipe) \in fds["mapper"] \/ R(InPipe) \in std["mapper"]
    BY <1>3, <2>1 DEF MapperEnds
  <2>3. W(PairPipe) \in fds["mapper"] \/ W(PairPipe) \in std["mapper"]
    BY <1>3, <2>1 DEF MapperEnds
  <2> QED
    BY <1>1, <1>2, <2>2, <2>3, Names
<1>5. st["reducer"] = "running" => HasReader(PairPipe) /\ Holders(W(OutPipe)) # {}
  <2>1. SUFFICES ASSUME st["reducer"] = "running"
                 PROVE  HasReader(PairPipe) /\ Holders(W(OutPipe)) # {}
    OBVIOUS
  <2>2. R(PairPipe) \in fds["reducer"] \/ R(PairPipe) \in std["reducer"]
    BY <1>3, <2>1 DEF ReducerEnds
  <2>3. W(OutPipe) \in fds["reducer"] \/ W(OutPipe) \in std["reducer"]
    BY <1>3, <2>1 DEF ReducerEnds
  <2> QED
    BY <1>1, <1>2, <2>2, <2>3, Names
<1>6. st["main"] = "running" =>
        /\ pc["main"] \in 3 .. 13 => Holders(W(InPipe)) # {}
        /\ pc["main"] \in 4 .. 8 => HasReader(PairPipe)
        /\ pc["main"] \in 5 .. 15 => HasReader(OutPipe)
  BY <1>1, <1>2, Names DEF MainEnds
<1> QED
  BY <1>4, <1>5, <1>6

\* While nothing has failed, main runs as long as a child does.
LEMMA MainRunning ==
  ASSUME ControlOK, Stages, Unbroken, failed = {}, NEW p \in Children, st[p] = "running"
  PROVE  st["main"] = "running"
<1>1. st["main"] # "killed" /\ ret # "error"
  BY DEF Unbroken
<1>2. ret # "ok"
  BY DEF Stages
<1>3. ret = "none"
  BY <1>1, <1>2 DEF ControlOK
<1> QED
  BY <1>1, <1>3 DEF Stages

\* Main goes on from the sending with all messages sent, from the receiving when there is
\* no reducer any more.
LEMMA MainPassed ==
  ASSUME ControlOK, DataOK, Stages, MainEnds, MapperEnds, ReducerEnds, Passed,
         st["main"] = "running", MainControl, Still
  PROVE  Passed'
<1> USE Names
<1>1. SUFFICES ASSUME st'["main"] = "running" PROVE Passed'
  BY DEF Passed
<1>2. /\ pc["main"] \in 1 .. 18 /\ pc \in [Procs -> 1 .. 18] /\ st \in [Procs -> States]
  BY DEF ControlOK
<1>3. /\ \A k \in Pipes : data'[k] = data[k]
      /\ sent' = sent
  BY DEF Still, progress
<1>4. ~MainDies /\ ~MainReturns /\ ~MainErrs
  BY <1>1, <1>2, ErrEffect DEF MainDies, MainReturns
<1>5. Advance("main") => pc'["main"] = pc["main"] + 1
  BY <1>2 DEF Advance
<1>6. CASE MainPasses
  <2>1. st' = st /\ pc'["main"] = pc["main"] + 1
    BY <1>5, <1>6 DEF MainPasses
  <2>2. pc["main"] = 14 => st["reducer"] # "running" /\ data[OutPipe] = 0
    BY <1>6, Held DEF MainPasses, Eof
  <2>3. pc["main"] = 12 => sent = NMessages
    BY <1>6 DEF MainPasses
  <2>4. pc["main"] \in {1, 11, 12, 14}
    BY <1>6 DEF MainPasses
  <2> QED
    BY <1>2, <1>3, <2>1, <2>2, <2>3, <2>4 DEF Passed
<1>7. CASE (\E k : MainMakes(k)) /\ pc["main"] \in {2, 3, 4}
  BY <1>5, <1>7 DEF MainMakes, Passed
<1>8. CASE (\E e : MainCloses(e)) /\ pc["main"] \in {7, 8, 9, 10, 13, 15}
  BY <1>3, <1>5, <1>8 DEF MainCloses, Passed
<1>9. CASE (\E p : MainForks(p)) /\ pc["main"] \in {5, 6}
  BY <1>5, <1>9 DEF MainForks, Passed
<1>10. CASE (\E p \in Children : MainWaits(p)) /\ pc["main"] \in {16, 17}
  <2>1. st'["reducer"] \in {st["reducer"], "reaped"} /\ pc'["main"] = pc["main"] + 1
    BY <1>2, <1>5, <1>10 DEF MainWaits
  <2> QED
    BY <1>3, <1>10, <2>1 DEF Passed
<1> QED
  BY <1>4, <1>6, <1>7, <1>8, <1>9, <1>10 DEF MainControl

\* A control step of a child does not bring the reducer back.
LEMMA ChildPassed ==
  ASSUME ControlOK, Passed, NEW p \in Children, Still,
         \/ ChildPasses(p) \/ (\E e : ChildCloses(p, e)) \/ (\E e : ChildDups(p, e))
         \/ ChildErrs(p) \/ ChildEscapes(p) \/ (\E s : ChildEnds(p, s))
  PROVE  Passed'
<1> USE Names
<1>1. /\ \A k \in Pipes : data'[k] = data[k]
      /\ sent' = sent
  BY DEF Still, progress
<1>2. st'["main"] = st["main"] /\ pc'["main"] = pc["main"] /\ \A q \in Procs \ {p} : Frame(q)
  BY ChildFrame DEF Frame
<1>3. st[p] # "running" => st'[p] # "running"
  BY DEF ChildPasses, ChildCloses, ChildDups, ChildErrs, ChildEscapes, ChildEnds, EndChild,
         ControlOK
<1>4. st["reducer"] # "running" => st'["reducer"] # "running"
  BY <1>2, <1>3 DEF Frame
<1> QED
  BY <1>1, <1>2, <1>4 DEF Passed

\* The control steps of main while nothing has failed: main never meets SIGPIPE.
LEMMA MainUnbroken ==
  ASSUME ControlOK, Stages, MainEnds, MapperEnds, ReducerEnds, Unbroken,
         st["main"] = "running", MainControl, Still
  PROVE  Unbroken'
<1> USE Names
<1>1. /\ pc["main"] \in 1 .. 18 /\ pc \in [Procs -> 1 .. 18] /\ st \in [Procs -> States]
      /\ ret = "none"
  BY DEF ControlOK, Stages
<1>2. /\ mapped' = mapped /\ toEmit' = toEmit /\ collected' = collected
      /\ emitted' = emitted
  BY DEF Still, progress
<1>3. CASE MainErrs
  BY <1>3, ErrEffect DEF Unbroken
<1>4. CASE MainDies
  <2>1. SUFFICES ASSUME failed = {} PROVE FALSE
    BY <1>4 DEF MainDies, budget, Unbroken
  <2>2. pc["main"] = 12 /\ ~HasReader(InPipe)
    BY <1>4 DEF MainDies
  <2>3. st["mapper"] \in {"none", "running", "zombie", "reaped", "escaped"}
    BY DEF Stages
  <2>4. st["mapper"] # "none" /\ st["mapper"] # "reaped"
    BY <2>2 DEF Stages
  <2>5. st["mapper"] # "zombie" /\ st["mapper"] # "escaped"
    BY <2>1, <2>2 DEF Unbroken
  <2> QED
    BY <2>2, <2>3, <2>4, <2>5, Held
<1>5. CASE MainReturns
  <2>1. SUFFICES ASSUME failed' = {} PROVE Unbroken'
    BY DEF Unbroken
  <2>2. ret' = "ok" /\ failed = {}
    BY <1>5, <2>1, FailType DEF MainReturns, budget
  <2>3. st'["main"] = "returned" /\ \A p \in Children : st'[p] = st[p]
    BY <1>1, <1>5 DEF MainReturns
  <2> QED
    BY <1>2, <2>2, <2>3 DEF Unbroken
<1>6. ASSUME Advance("main"), failed' = failed, ret' = ret, st'["main"] = "running",
             \A p \in Children :
               \/ st'[p] = st[p]
               \/ st[p] = "none" /\ st'[p] = "running"
               \/ st[p] = "zombie" /\ st'[p] = "reaped"
      PROVE  Unbroken'
  <2>1. pc'["main"] = pc["main"] + 1
    BY <1>1, <1>6 DEF Advance
  <2> QED
    BY <1>1, <1>2, <1>6, <2>1 DEF Unbroken
<1>7. CASE MainPasses \/ (\E k : MainMakes(k)) \/ (\E e : MainCloses(e))
  BY <1>6, <1>7 DEF MainPasses, MainMakes, MainCloses, budget
<1>8. ASSUME NEW p \in Children, MainForks(p), st[p] = "none"
      PROVE  Unbroken'
  <2>1. \A q \in Procs : st'[q] = IF q = p THEN "running" ELSE st[q]
    BY <1>1, <1>8 DEF MainForks
  <2> QED
    BY <1>6, <1>8, <2>1 DEF MainForks, budget
<1>9. ASSUME NEW p \in Children, MainWaits(p)
      PROVE  Unbroken'
  <2>1. \A q \in Procs : st'[q] = IF q = p THEN "reaped" ELSE st[q]
    BY <1>1, <1>9 DEF MainWaits
  <2> QED
    BY <1>6, <1>9, <2>1 DEF MainWaits, budget
<1>10. /\ pc["main"] = 5 => st["mapper"] = "none"
       /\ pc["main"] = 6 => st["reducer"] = "none"
  BY DEF Stages
<1> QED
  BY <1>3, <1>4, <1>5, <1>7, <1>8, <1>9, <1>10 DEF MainControl

\* A child that goes on, or that fails, does not change what holds while nothing fails.
LEMMA ChildGoesOn ==
  ASSUME ControlOK, Unbroken, NEW p \in Children, Still,
         \/ ChildPasses(p) \/ (\E e : ChildCloses(p, e)) \/ (\E e : ChildDups(p, e))
         \/ ChildErrs(p) \/ ChildEscapes(p)
  PROVE  Unbroken'
<1> USE Names
<1>1. /\ mapped' = mapped /\ toEmit' = toEmit /\ collected' = collected
      /\ emitted' = emitted
  BY DEF Still, progress
<1>2. CASE ChildErrs(p) \/ ChildEscapes(p)
  <2>1. failed' # {}
    BY <1>2, FailType DEF ChildErrs, ChildEscapes
  <2> QED
    BY <2>1 DEF Unbroken
<1>3. CASE ChildPasses(p) \/ (\E e : ChildCloses(p, e)) \/ (\E e : ChildDups(p, e))
  <2>1. st' = st /\ ret' = ret /\ failed' = failed /\ pc'["main"] = pc["main"]
    BY <1>3 DEF ChildPasses, ChildCloses, ChildDups, Advance, ControlOK, budget
  <2> QED
    BY <1>1, <2>1 DEF Unbroken
<1> QED
  BY <1>2, <1>3

\* The mapper exits with everything mapped, and never meets SIGPIPE while nothing failed.
LEMMA MapperUnbroken ==
  ASSUME ControlOK, DataOK, Stages, MainEnds, MapperEnds, ReducerEnds, Counts, Passed,
         Unbroken, st["mapper"] = "running", MapperControl, Still
  PROVE  Unbroken'
<1> USE Names
<1>1. CASE \/ ChildPasses("mapper") \/ (\E e : ChildCloses("mapper", e))
           \/ (\E e : ChildDups("mapper", e)) \/ ChildErrs("mapper") \/ ChildEscapes("mapper")
  BY <1>1, ChildGoesOn
<1>2. /\ mapped' = mapped /\ toEmit' = toEmit /\ collected' = collected
      /\ emitted' = emitted
  BY DEF Still, progress
<1>3. ASSUME NEW s, ChildEnds("mapper", s)
      PROVE  /\ st'["mapper"] = "zombie" /\ st'["main"] = st["main"] /\ pc' = pc
             /\ st'["reducer"] = st["reducer"] /\ ret' = ret /\ failed' = failed
  BY <1>3 DEF ChildEnds, EndChild, ControlOK, budget
<1>4. CASE /\ Eof(InPipe) /\ (workers["mapper"] = "work" => backlog = 0)
           /\ ChildEnds("mapper", "success")
  <2>1. SUFFICES ASSUME failed = {} PROVE Unbroken'
    BY <1>3, <1>4 DEF Unbroken
  <2>7. backlog = 0
    BY <1>4, <2>1 DEF Counts
  <2>2. st["main"] = "running"
    BY <2>1, MainRunning
  <2>3. pc["main"] \in 1 .. 18 /\ pc["main"] > 5
    BY <2>2 DEF ControlOK, Stages
  <2>4. pc["main"] >= 14
    BY <1>4, <2>2, <2>3, Held DEF Eof
  <2>5. sent = NMessages /\ data[InPipe] = 0
    BY <1>4, <2>2, <2>3, <2>4 DEF Passed, Eof
  <2>6. mapped = NMessages
    BY <2>1, <2>5, <2>7 DEF Counts, DataOK
  <2> QED
    BY <1>2, <1>3, <1>4, <2>1, <2>2, <2>4, <2>6 DEF Unbroken
<1>5. CASE ~HasReader(PairPipe) /\ ChildEnds("mapper", "signal")
  <2>1. SUFFICES ASSUME failed = {} PROVE FALSE
    BY <1>3, <1>5 DEF Unbroken
  <2>2. st["main"] = "running"
    BY <2>1, MainRunning
  <2>3. pc["main"] \in 1 .. 18 /\ pc["main"] > 5
    BY <2>2 DEF ControlOK, Stages
  <2>4. st["reducer"] # "running" /\ pc["main"] > 8
    BY <1>5, <2>2, <2>3, Held
  <2>5. st["reducer"] \in {"zombie", "reaped"}
    BY <2>1, <2>2, <2>3, <2>4 DEF Stages, Unbroken
  <2> QED
    BY <2>1, <2>5 DEF Unbroken
<1> QED
  BY <1>1, <1>4, <1>5 DEF MapperControl

\* The reducer exits with all results made, and never meets SIGPIPE while nothing failed.
LEMMA ReducerUnbroken ==
  ASSUME ControlOK, Stages, MainEnds, MapperEnds, ReducerEnds, Counts, Passed,
         Unbroken, st["reducer"] = "running", ReducerControl, Still
  PROVE  Unbroken'
<1> USE Names
<1>1. CASE \/ ChildPasses("reducer") \/ (\E e : ChildCloses("reducer", e))
           \/ (\E e : ChildDups("reducer", e)) \/ ChildErrs("reducer") \/ ChildEscapes("reducer")
  BY <1>1, ChildGoesOn
<1>2. /\ mapped' = mapped /\ toEmit' = toEmit /\ collected' = collected
      /\ emitted' = emitted
  BY DEF Still, progress
<1>3. ASSUME NEW s, ChildEnds("reducer", s)
      PROVE  /\ st'["reducer"] = "zombie" /\ st'["main"] = st["main"] /\ pc' = pc
             /\ st'["mapper"] = st["mapper"] /\ ret' = ret /\ failed' = failed
  BY <1>3 DEF ChildEnds, EndChild, ControlOK, budget
<1>4. CASE (workers["reducer"] = "work" => toEmit = 0) /\ ChildEnds("reducer", "success")
  <2>1. failed = {} => toEmit = 0
    BY <1>4 DEF Counts
  <2> QED
    BY <1>2, <1>3, <1>4, <2>1 DEF Unbroken
<1>5. CASE ~HasReader(OutPipe) /\ ChildEnds("reducer", "signal")
  <2>1. SUFFICES ASSUME failed = {} PROVE FALSE
    BY <1>3, <1>5 DEF Unbroken
  <2>2. st["main"] = "running"
    BY <2>1, MainRunning
  <2>3. pc["main"] \in 1 .. 18 /\ pc["main"] > 6
    BY <2>2 DEF ControlOK, Stages
  <2>4. pc["main"] > 15
    BY <1>5, <2>2, <2>3, Held
  <2> QED
    BY <2>2, <2>3, <2>4 DEF Passed
<1> QED
  BY <1>1, <1>4, <1>5 DEF ReducerControl

\* A transfer leaves the control parts of the invariant alone.
LEMMA QuietKeeps ==
  ASSUME Quiet, ControlOK, Stages, MainEnds, MapperEnds, ReducerEnds, Dropped, ErrorIsClean
  PROVE  /\ ControlOK' /\ Stages' /\ MainEnds' /\ MapperEnds' /\ ReducerEnds' /\ Dropped'
         /\ ErrorIsClean'
<1> USE DEF Quiet, budget
<1>1. ControlOK'
  BY DEF ControlOK
<1>2. Stages'
  BY DEF Stages
<1>3. MainEnds' /\ MapperEnds' /\ ReducerEnds'
  BY DEF MainEnds, MapperEnds, ReducerEnds
<1>4. Dropped' /\ ErrorIsClean'
  BY DEF Dropped, ErrorIsClean
<1> QED
  BY <1>1, <1>2, <1>3, <1>4

\* A control step leaves the data alone.
LEMMA StillKeeps ==
  ASSUME Still, DataOK, Counts, failed \subseteq failed'
  PROVE  DataOK' /\ Counts'
<1> USE DEF Still, progress
<1>1. DataOK'
  BY DEF DataOK
<1>2. failed' = {} => failed = {}
  OBVIOUS
<1>3. Counts'
  BY <1>2 DEF Counts
<1> QED
  BY <1>1, <1>3

\* What failed is remembered.
LEMMA MainRemembers == ASSUME ControlOK, MainControl PROVE failed \subseteq failed'
<1>1. CASE MainErrs
  BY <1>1, ErrEffect
<1>2. CASE MainReturns
  BY <1>2, FailType DEF MainReturns, budget
<1>3. CASE MainControl /\ ~MainErrs /\ ~MainReturns
  BY <1>3 DEF MainControl, MainPasses, MainMakes, MainForks, MainCloses, MainWaits, MainDies,
              budget
<1> QED
  BY <1>1, <1>2, <1>3

\* A loss leaves the control alone and keeps the invariant: it is a failure, after which
\* lines and results may be missing.
LEMMA LossKeeps ==
  ASSUME IInv, NEW p \in Children, ChildLoses(p)
  PROVE  /\ ControlOK' /\ DataOK' /\ Stages' /\ MainEnds' /\ MapperEnds' /\ ReducerEnds'
         /\ Dropped' /\ ErrorIsClean' /\ Counts' /\ Passed' /\ Unbroken'
<1> USE TypeSplit DEF IInv
<1>1. UNCHANGED <<pc, st, code, fds, std, ret>>
  BY DEF ChildLoses
<1>2. /\ failed' \subseteq FaultKinds /\ faultsLeft' \in 0 .. MaxFaults
      /\ failed \subseteq failed' /\ failed' # {}
  BY FailType DEF ChildLoses
<1>3. ControlOK'
  BY <1>1, <1>2 DEF ControlOK
<1>4. Stages' /\ Dropped'
  BY <1>1 DEF Stages, Dropped
<1>5. MainEnds' /\ MapperEnds' /\ ReducerEnds'
  BY <1>1 DEF MainEnds, MapperEnds, ReducerEnds
<1>6. ErrorIsClean'
  BY <1>1, <1>2 DEF ErrorIsClean
<1>7. /\ backlog \in 0 .. Backlog /\ toEmit \in -1 .. NMessages /\ results \in Nat
      /\ collected \in Nat /\ mapped \in Nat /\ sent \in Nat /\ data[InPipe] \in Int
      /\ NMessages \in Nat /\ Backlog \in Nat
  BY DataType
<1>8. /\ backlog' \in 0 .. Backlog /\ backlog' <= backlog
      /\ toEmit' = toEmit \/ (toEmit > 0 /\ toEmit' = toEmit - 1)
  BY <1>7 DEF ChildLoses
<1>9. /\ UNCHANGED <<data, sent, mapped, emitted, collected, results, received>>
      /\ workers' \in [Children -> {"work", "left", "stuck"}]
  BY DEF ChildLoses
<1>10. DataOK'
  BY <1>7, <1>8, <1>9 DEF DataOK
<1>11. Counts'
  BY <1>2, <1>7, <1>8, <1>9 DEF Counts
<1>12. Passed'
  BY <1>1, <1>9 DEF Passed
<1>13. Unbroken'
  BY <1>2 DEF Unbroken
<1> QED
  BY <1>3, <1>4, <1>5, <1>6, <1>10, <1>11, <1>12, <1>13

\* The transfers of main.
LEMMA MainMoved ==
  ASSUME DataOK, Passed, Unbroken, Quiet, st["main"] = "running", MainMoves
  PROVE  Passed' /\ Unbroken'
<1> USE Names
<1>1. /\ pc' = pc /\ st' = st /\ ret' = ret /\ failed' = failed
  BY DEF Quiet, budget
<1>2. /\ mapped' = mapped /\ toEmit' = toEmit /\ collected' = collected
      /\ emitted' = emitted
  BY DEF MainMoves
<1>3. pc["main"] \in {12, 14} /\ (pc["main"] = 14 => sent' = sent)
  BY DEF MainMoves
<1>4. Passed'
  BY <1>1, <1>3 DEF Passed
<1>5. Unbroken'
  BY <1>1, <1>2 DEF Unbroken
<1> QED
  BY <1>4, <1>5

\* The transfers of the mapper.
LEMMA MapperMoved ==
  ASSUME DataOK, Passed, Unbroken, Quiet, st["mapper"] = "running", MapperMoves
  PROVE  Passed' /\ Unbroken'
<1> USE Names
<1>1. /\ pc' = pc /\ st' = st /\ ret' = ret /\ failed' = failed
  BY DEF Quiet, budget
<1>2. /\ toEmit' = toEmit /\ collected' = collected /\ sent' = sent
      /\ data'[OutPipe] = data[OutPipe]
  BY DEF MapperMoves, DataOK
<1>3. Passed'
  BY <1>1, <1>2 DEF Passed
<1>4. Unbroken'
  BY <1>1, <1>2 DEF Unbroken
<1> QED
  BY <1>3, <1>4

\* The transfers of the reducer: the end of the pairs proves that the mapper is through.
LEMMA ReducerMoved ==
  ASSUME ControlOK, DataOK, Stages, MainEnds, MapperEnds, ReducerEnds, Counts, Passed,
         Unbroken, Quiet, st["reducer"] = "running", ReducerMoves
  PROVE  Passed' /\ Unbroken'
<1> USE Names
<1>1. /\ pc' = pc /\ st' = st /\ ret' = ret /\ failed' = failed
  BY DEF Quiet, budget
<1>2. mapped' = mapped /\ sent' = sent /\ emitted' = emitted
  BY DEF ReducerMoves
<1>3. Passed'
  BY <1>1, <1>2 DEF Passed
<1>4. ASSUME toEmit' = -1 PROVE Unbroken'
  BY <1>1, <1>2, <1>4 DEF Unbroken
<1>5. ASSUME toEmit = -1, Eof(PairPipe), UNCHANGED collected PROVE Unbroken'
  <2>1. SUFFICES ASSUME failed = {} PROVE Unbroken'
    BY <1>1 DEF Unbroken
  <2>2. st["mapper"] # "running"
    BY <1>5, Held DEF Eof
  <2>3. st["mapper"] \in {"zombie", "reaped"}
    BY <2>1, <2>2 DEF Stages, Unbroken
  <2>4. collected = emitted
    BY <1>5 DEF Eof, Counts, DataOK
  <2> QED
    BY <1>1, <1>2, <1>5, <2>1, <2>3, <2>4 DEF Unbroken
<1>6. ASSUME toEmit > 0, UNCHANGED collected PROVE Unbroken'
  BY <1>1, <1>2, <1>6 DEF Unbroken, DataOK
<1>7. \/ toEmit' = -1
      \/ toEmit = -1 /\ Eof(PairPipe) /\ UNCHANGED collected
      \/ toEmit > 0 /\ UNCHANGED collected
  BY DEF ReducerMoves
<1> QED
  BY <1>3, <1>4, <1>5, <1>6, <1>7

--------------------------------------------------------------------------------
(***************************************************************************)
(* The invariant is inductive.                                             *)
(***************************************************************************)

\* The invariant, with its type halves.
LEMMA Parts ==
  IInv <=> /\ ControlOK /\ DataOK /\ Stages /\ MainEnds /\ MapperEnds /\ ReducerEnds
           /\ Dropped /\ ErrorIsClean /\ Counts /\ Passed /\ Unbroken
  BY TypeSplit DEF IInv

\* The same of the next state.
LEMMA PartsNext ==
  ASSUME ControlOK', DataOK', Stages', MainEnds', MapperEnds', ReducerEnds', Dropped',
         ErrorIsClean', Counts', Passed', Unbroken'
  PROVE  IInv'
<1>1. TypeOK'
  BY TypeSplit, PTL
<1> QED
  BY <1>1 DEF IInv

\* It holds at the start.
LEMMA InitInv == Init => IInv
<1> SUFFICES ASSUME Init PROVE IInv
  OBVIOUS
<1> USE Names
<1>1. /\ pc["main"] = 1 /\ pc["mapper"] = 1 /\ pc["reducer"] = 1
      /\ st["main"] = "running" /\ st["mapper"] = "none" /\ st["reducer"] = "none"
      /\ \A p \in Procs : fds[p] = {} /\ std[p] = {}
      /\ \A k \in Pipes : data[k] = 0
      /\ sent = 0 /\ backlog = 0 /\ mapped = 0 /\ emitted = 0
      /\ collected = 0 /\ toEmit = -1 /\ results = 0 /\ received = 0
      /\ workers = [p \in Children |-> "work"]
      /\ ret = "none" /\ failed = {}
  BY DEF Init
<1>2. ControlOK
  <2>1. pc \in [Procs -> 1 .. 18] /\ pc["mapper"] <= 10 /\ pc["reducer"] <= 10
    BY DEF Init
  <2>2. st \in [Procs -> States] /\ code \in [Children -> Codes]
    BY DEF Init, States, Codes
  <2>3. fds \in [Procs -> SUBSET Ends] /\ std \in [Procs -> SUBSET Ends]
    BY DEF Init
  <2>4. failed \subseteq FaultKinds /\ faultsLeft \in 0 .. MaxFaults
    BY BoundsAssumption DEF Init, BoundsAssumption
  <2> QED
    BY <1>1, <2>1, <2>2, <2>3, <2>4 DEF ControlOK
<1>3. DataOK
  <2>1. data \in [Pipes -> 0 .. PipeCap]
    BY BoundsAssumption DEF Init, BoundsAssumption
  <2> QED
    BY <1>1, <2>1, BoundsAssumption DEF DataOK, BoundsAssumption
<1>4. Stages /\ Dropped /\ ErrorIsClean
  BY <1>1 DEF Stages, Dropped, ErrorIsClean
<1>5. MainEnds /\ MapperEnds /\ ReducerEnds
  BY <1>1 DEF MainEnds, MapperEnds, ReducerEnds
<1>6. Counts /\ Passed /\ Unbroken
  BY <1>1 DEF Counts, Passed, Unbroken
<1> QED
  BY <1>2, <1>3, <1>4, <1>5, <1>6, Parts

\* Main keeps it.
LEMMA MainInv == ASSUME IInv, Main PROVE IInv'
<1> USE Parts
<1>1. TypeOK
  BY DEF IInv
<1>2. st["main"] = "running" /\ ((Still /\ MainControl) \/ (Quiet /\ MainMoves))
  BY <1>1, MainSteps
<1>3. CASE Still /\ MainControl
  <2>1. ControlOK'
    BY <1>3, MainType
  <2>2. Stages' /\ Dropped' /\ ErrorIsClean'
    BY <1>2, <1>3, MainStages
  <2>3. MainEnds'
    BY <1>2, <1>3, MainEndsKept
  <2>4. MapperEnds'
    BY <1>2, <1>3, MainFrame, MapperFramed, MapperBorn
  <2>5. ReducerEnds'
    BY <1>2, <1>3, MainFrame, ReducerFramed, ReducerBorn
  <2>6. DataOK' /\ Counts'
    BY <1>3, StillKeeps, MainRemembers
  <2>7. Passed' /\ Unbroken'
    BY <1>2, <1>3, MainPassed, MainUnbroken
  <2> QED
    BY <2>1, <2>2, <2>3, <2>4, <2>5, <2>6, <2>7, PartsNext
<1>4. CASE Quiet /\ MainMoves
  <2>1. /\ ControlOK' /\ Stages' /\ MainEnds' /\ MapperEnds' /\ ReducerEnds' /\ Dropped'
        /\ ErrorIsClean'
    BY <1>4, QuietKeeps
  <2>2. DataOK' /\ Counts'
    BY <1>4, MainData DEF Quiet, budget
  <2>3. Passed' /\ Unbroken'
    BY <1>2, <1>4, MainMoved
  <2> QED
    BY <2>1, <2>2, <2>3, PartsNext
<1> QED
  BY <1>2, <1>3, <1>4

\* The mapper keeps it.
LEMMA MapperInv == ASSUME IInv, Mapper PROVE IInv'
<1> USE Parts
<1>1. TypeOK
  BY DEF IInv
<1>2. /\ st["mapper"] = "running"
      /\ \/ Still /\ MapperControl
         \/ Quiet /\ MapperMoves
         \/ ChildLoses("mapper")
  BY <1>1, MapperSteps
<1>3. CASE Still /\ MapperControl
  <2>1. \/ ChildPasses("mapper") \/ (\E e : ChildCloses("mapper", e))
        \/ (\E e : ChildDups("mapper", e)) \/ ChildErrs("mapper")
        \/ (std["mapper"] = {} /\ ChildEscapes("mapper"))
        \/ (\E s : ChildEnds("mapper", s))
    <3>1. pc["mapper"] = 1 => std["mapper"] = {}
      BY <1>2 DEF MapperEnds
    <3> QED
      BY <1>3, <3>1 DEF MapperControl
  <2>2. ControlOK'
    <3>1. "success" \in Codes /\ "signal" \in Codes /\ R(InPipe) \in Ends /\ W(PairPipe) \in Ends
      BY AllEnds DEF Codes
    <3> QED
      BY <1>3, <3>1, ChildType, Names DEF MapperControl
  <2>3. Stages' /\ Dropped' /\ ErrorIsClean'
    BY <1>2, <2>1, ChildStages, Names
  <2>4. Frame("main") /\ Frame("reducer")
    BY <2>1, ChildFrame, Names
  <2>5. MainEnds'
    BY <2>4 DEF MainEnds, Frame
  <2>6. MapperEnds'
    BY <1>2, <1>3, MapperEndsKept
  <2>7. ReducerEnds'
    BY <2>4, ReducerFramed
  <2>8. DataOK' /\ Counts'
    BY <1>3, <2>1, ChildFrame, StillKeeps, Names
  <2>9. Passed'
    BY <1>3, <2>1, ChildPassed, Names
  <2>10. Unbroken'
    BY <1>2, <1>3, MapperUnbroken
  <2> QED
    BY <2>2, <2>3, <2>5, <2>6, <2>7, <2>8, <2>9, <2>10, PartsNext
<1>4. CASE Quiet /\ MapperMoves
  <2>1. /\ ControlOK' /\ Stages' /\ MainEnds' /\ MapperEnds' /\ ReducerEnds' /\ Dropped'
        /\ ErrorIsClean'
    BY <1>4, QuietKeeps
  <2>2. DataOK' /\ Counts'
    BY <1>4, MapperData DEF Quiet, budget
  <2>3. Passed' /\ Unbroken'
    BY <1>2, <1>4, MapperMoved
  <2> QED
    BY <2>1, <2>2, <2>3, PartsNext
<1>5. CASE ChildLoses("mapper")
  BY <1>5, LossKeeps, PartsNext, Names
<1> QED
  BY <1>2, <1>3, <1>4, <1>5

\* The reducer keeps it.
LEMMA ReducerInv == ASSUME IInv, Reducer PROVE IInv'
<1> USE Parts
<1>1. TypeOK
  BY DEF IInv
<1>2. /\ st["reducer"] = "running"
      /\ \/ Still /\ ReducerControl
         \/ Quiet /\ ReducerMoves
         \/ ChildLoses("reducer")
  BY <1>1, ReducerSteps
<1>3. CASE Still /\ ReducerControl
  <2>1. \/ ChildPasses("reducer") \/ (\E e : ChildCloses("reducer", e))
        \/ (\E e : ChildDups("reducer", e)) \/ ChildErrs("reducer")
        \/ (std["reducer"] = {} /\ ChildEscapes("reducer"))
        \/ (\E s : ChildEnds("reducer", s))
    <3>1. pc["reducer"] = 1 => std["reducer"] = {}
      BY <1>2 DEF ReducerEnds
    <3> QED
      BY <1>3, <3>1 DEF ReducerControl
  <2>2. ControlOK'
    <3>1. "success" \in Codes /\ "signal" \in Codes /\ R(PairPipe) \in Ends /\ W(OutPipe) \in Ends
      BY AllEnds DEF Codes
    <3> QED
      BY <1>3, <3>1, ChildType, Names DEF ReducerControl
  <2>3. Stages' /\ Dropped' /\ ErrorIsClean'
    BY <1>2, <2>1, ChildStages, Names
  <2>4. Frame("main") /\ Frame("mapper")
    BY <2>1, ChildFrame, Names
  <2>5. MainEnds'
    BY <2>4 DEF MainEnds, Frame
  <2>6. ReducerEnds'
    BY <1>2, <1>3, ReducerEndsKept
  <2>7. MapperEnds'
    BY <2>4, MapperFramed
  <2>8. DataOK' /\ Counts'
    BY <1>3, <2>1, ChildFrame, StillKeeps, Names
  <2>9. Passed'
    BY <1>3, <2>1, ChildPassed, Names
  <2>10. Unbroken'
    BY <1>2, <1>3, ReducerUnbroken
  <2> QED
    BY <2>2, <2>3, <2>5, <2>6, <2>7, <2>8, <2>9, <2>10, PartsNext
<1>4. CASE Quiet /\ ReducerMoves
  <2>1. /\ ControlOK' /\ Stages' /\ MainEnds' /\ MapperEnds' /\ ReducerEnds' /\ Dropped'
        /\ ErrorIsClean'
    BY <1>4, QuietKeeps
  <2>2. DataOK' /\ Counts'
    BY <1>4, ReducerData DEF Quiet, budget
  <2>3. Passed' /\ Unbroken'
    BY <1>2, <1>4, ReducerMoved
  <2> QED
    BY <2>1, <2>2, <2>3, PartsNext
<1>5. CASE ChildLoses("reducer")
  BY <1>5, LossKeeps, PartsNext, Names
<1> QED
  BY <1>2, <1>3, <1>4, <1>5

\* Nothing else happens.
LEMMA StutterInv == ASSUME IInv, UNCHANGED vars PROVE IInv'
<1> USE DEF vars, progress, budget
<1>1. TypeOK'
  BY DEF IInv, TypeOK
<1>2. Stages' /\ Dropped' /\ ErrorIsClean'
  BY DEF IInv, Stages, Dropped, ErrorIsClean
<1>3. MainEnds' /\ MapperEnds' /\ ReducerEnds'
  BY DEF IInv, MainEnds, MapperEnds, ReducerEnds
<1>4. Counts' /\ Passed' /\ Unbroken'
  BY DEF IInv, Counts, Passed, Unbroken
<1> QED
  BY <1>1, <1>2, <1>3, <1>4 DEF IInv

\* The invariant holds in every reachable state.
THEOREM Inductive == Spec => []IInv
<1>1. Init => IInv
  BY InitInv
<1>2. IInv /\ [Next]_vars => IInv'
  BY MainInv, MapperInv, ReducerInv, StutterInv DEF Next, Over
<1> QED
  BY <1>1, <1>2, PTL DEF Spec

--------------------------------------------------------------------------------
(***************************************************************************)
(* What the invariant says.                                                *)
(***************************************************************************)

\* Each process holds the ends it uses and no other once it is set up, whatever fails
\* elsewhere; no pipe overflows and every variable keeps its type.
THEOREM EndsInOrder == Spec => []EndsConsistent
<1>1. IInv => EndsConsistent
  <2> SUFFICES ASSUME IInv PROVE OnlyUsedEnds
    BY DEF EndsConsistent, IInv
  <2> USE Parts
  <2>1. /\ pc["main"] \in 1 .. 18 /\ pc["mapper"] \in 1 .. 10 /\ pc["reducer"] \in 1 .. 10
        /\ fds["main"] \subseteq Ends /\ fds["mapper"] \subseteq Ends
        /\ fds["reducer"] \subseteq Ends
    BY Names DEF ControlOK
  <2>2. Ends = {R(InPipe), W(InPipe), R(PairPipe), W(PairPipe), R(OutPipe), W(OutPipe)}
    BY AllEnds
  <2>3. ASSUME Doing("mapper", "body")
        PROVE  fds["mapper"] = {} /\ std["mapper"] = {R(InPipe), W(PairPipe)}
    <3>1. st["mapper"] = "running" /\ pc["mapper"] = 10
      BY <2>1, <2>3, MapperDoing
    <3> QED
      BY <2>1, <2>2, <3>1 DEF MapperEnds
  <2>4. ASSUME Doing("reducer", "body")
        PROVE  fds["reducer"] = {} /\ std["reducer"] = {R(PairPipe), W(OutPipe)}
    <3>1. st["reducer"] = "running" /\ pc["reducer"] = 10
      BY <2>1, <2>4, ReducerDoing
    <3> QED
      BY <2>1, <2>2, <3>1 DEF ReducerEnds
  <2>5. ASSUME Doing("main", "send")
        PROVE  fds["main"] = {W(InPipe), R(OutPipe)}
    <3>1. st["main"] = "running" /\ pc["main"] = 12
      BY <2>1, <2>5, MainDoing
    <3> QED
      BY <2>1, <2>2, <3>1 DEF MainEnds
  <2>6. ASSUME Doing("main", "receive")
        PROVE  fds["main"] = {R(OutPipe)}
    <3>1. st["main"] = "running" /\ pc["main"] = 14
      BY <2>1, <2>6, MainDoing
    <3> QED
      BY <2>1, <2>2, <3>1 DEF MainEnds
  <2> QED
    BY <2>3, <2>4, <2>5, <2>6 DEF OnlyUsedEnds, InPipe, PairPipe, OutPipe
<1> QED
  BY <1>1, Inductive, PTL

\* spawn_processes returns 0 with both children waited for and no pipe end held by anyone.
THEOREM OkLeavesNothing == Spec => []OkIsClean
<1>1. IInv => OkIsClean
  BY Names DEF IInv, Stages, Dropped, OkIsClean
<1> QED
  BY <1>1, Inductive, PTL

\* spawn_processes returns -1 with no child left, unless close or waitpid failed, and with
\* no end open but the one the error path of the second fork forgets.
THEOREM ErrorLeavesLittle == Spec => []ErrorIsClean
  BY Inductive, PTL DEF IInv

--------------------------------------------------------------------------------
(***************************************************************************)
(* The pipeline implements AbstractJob.                                    *)
(***************************************************************************)

\* The start of the pipeline is the start of the job.
LEMMA JobInit == Init => Job!Init
<1> SUFFICES ASSUME Init PROVE Job!Init
  OBVIOUS
<1>1. st["main"] = "running" /\ ret = "none" /\ failed = {}
  BY Names DEF Init
<1> QED
  BY <1>1 DEF Init, Job!Init

\* A step that leaves the counts, the state of main, its result and the failures alone.
LEMMA JobStutter ==
  ASSUME UNCHANGED <<sent, mapped, emitted, collected, results, received, ret>>,
         failed' = {} <=> failed = {},
         st'["main"] = "killed" <=> st["main"] = "killed"
  PROVE  UNCHANGED Job!vars
  BY DEF Job!vars, Job!counts

\* A step in which something fails, or main dies of what failed before.
LEMMA JobBreak ==
  ASSUME UNCHANGED <<sent, mapped, emitted, collected, results, received>>,
         failed' # {},
         \/ st["main"] = "running" /\ ret = "none" /\ st'["main"] = "returned" /\ ret' = "error"
         \/ /\ st["main"] = "running" /\ ret = "none" /\ st'["main"] = "killed"
            /\ ret' = "none"
         \/ failed = {} /\ st'["main"] = st["main"] /\ ret' = ret
  PROVE  Job!Break
  BY DEF Job!Break, Job!counts

\* The transfers of main are Send and Receive.
LEMMA MainMovesJob ==
  ASSUME IInv, Quiet, st["main"] = "running", MainMoves
  PROVE  Job!Send \/ Job!Receive
<1> USE Parts
<1>1. /\ st' = st /\ ret' = ret /\ failed' = failed /\ ret = "none"
  BY DEF Quiet, budget, Stages
<1>2. data[OutPipe] \in Int /\ results \in Int /\ received \in Int
  BY Names DEF DataOK
<1>3. CASE /\ sent < NMessages /\ sent' = sent + 1
           /\ UNCHANGED <<mapped, emitted, collected, results, received>>
  BY <1>1, <1>3 DEF Job!Send
<1>4. CASE /\ data[OutPipe] > 0 /\ received' = received + 1
           /\ UNCHANGED <<sent, mapped, emitted, collected, results>>
  <2>1. received < results
    BY <1>2, <1>4 DEF Counts
  <2> QED
    BY <1>1, <1>4, <2>1 DEF Job!Receive
<1> QED
  BY <1>3, <1>4 DEF MainMoves

\* Those of the mapper are Map, or not seen.
LEMMA MapperMovesJob ==
  ASSUME IInv, Quiet, MapperMoves
  PROVE  Job!Map \/ UNCHANGED Job!vars
<1> USE Parts
<1>1. /\ st' = st /\ ret' = ret /\ failed' = failed
  BY DEF Quiet, budget
<1>2. data[InPipe] \in Nat /\ sent \in Nat /\ mapped \in Nat /\ backlog \in Nat
  BY Names DEF DataOK
<1>3. CASE UNCHANGED <<sent, mapped, emitted, collected, results, received>>
  BY <1>1, <1>3, JobStutter
<1>4. CASE /\ backlog > 0 /\ mapped' = mapped + 1 /\ emitted' \in {emitted, emitted + 1}
           /\ UNCHANGED <<sent, collected, results, received>>
  <2>1. mapped < sent
    BY <1>2, <1>4 DEF Counts
  <2> QED
    BY <1>1, <1>4, <2>1 DEF Job!Map
<1> QED
  BY <1>3, <1>4 DEF MapperMoves

\* Those of the reducer are Collect, Reduce, or the end of the pairs, which is not seen.
LEMMA ReducerMovesJob ==
  ASSUME IInv, Quiet, ReducerMoves
  PROVE  Job!Collect \/ Job!Reduce \/ UNCHANGED Job!vars
<1> USE Parts
<1>1. /\ st' = st /\ ret' = ret /\ failed' = failed
  BY DEF Quiet, budget
<1>2. /\ data[PairPipe] \in Nat /\ collected \in Nat /\ emitted \in Nat /\ results \in Nat
      /\ toEmit \in Int
  BY Names DEF DataOK
<1>3. CASE UNCHANGED <<sent, mapped, emitted, collected, results, received>>
  BY <1>1, <1>3, JobStutter
<1>4. CASE /\ toEmit = -1 /\ data[PairPipe] > 0 /\ collected' = collected + 1
           /\ UNCHANGED <<sent, mapped, emitted, results, received>>
  <2>1. collected < emitted /\ results = 0
    BY <1>2, <1>4 DEF Counts
  <2> QED
    BY <1>1, <1>4, <2>1 DEF Job!Collect
<1>5. CASE /\ toEmit > 0 /\ results' = results + 1
           /\ UNCHANGED <<sent, mapped, emitted, collected, received>>
  <2>1. results < collected
    BY <1>2, <1>5 DEF Counts
  <2>2. failed = {} => mapped = NMessages /\ collected = emitted
    BY <1>2, <1>5 DEF Unbroken
  <2> QED
    BY <1>1, <1>5, <2>1, <2>2 DEF Job!Reduce
<1> QED
  BY <1>3, <1>4, <1>5 DEF ReducerMoves

\* The control steps of main are ReturnOk, Break, or not seen.
LEMMA MainControlJob ==
  ASSUME IInv, IInv', Still, st["main"] = "running", MainControl
  PROVE  Job!ReturnOk \/ Job!Break \/ UNCHANGED Job!vars
<1> USE Parts
<1>1. UNCHANGED <<sent, mapped, emitted, collected, results, received>>
  BY DEF Still, progress
<1>2. ret = "none" /\ st \in [Procs -> States]
  BY DEF Stages, ControlOK
<1>3. CASE MainErrs
  BY <1>1, <1>2, <1>3, ErrEffect, JobBreak
<1>4. CASE MainDies
  <2>1. st'["main"] = "killed" /\ ret' = ret
    BY <1>2, <1>4, Names DEF MainDies
  <2>2. failed' # {}
    BY <2>1 DEF IInv, Unbroken
  <2> QED
    BY <1>1, <1>2, <2>1, <2>2, JobBreak
<1>5. CASE MainReturns
  <2>1. pc["main"] = 18 /\ st'["main"] = "returned"
    BY <1>2, <1>5, Names DEF MainReturns
  <2>2. CASE ret' = "error" /\ Fail("log")
    <3>1. failed' # {}
      BY <2>2, FailType
    <3> QED
      BY <1>1, <1>2, <2>1, <2>2, <3>1, JobBreak
  <2>3. CASE ret' = "ok" /\ UNCHANGED budget
    <3>1. /\ data[OutPipe] \in Nat /\ collected \in Nat /\ emitted \in Nat
          /\ results \in Nat /\ received \in Nat /\ toEmit \in Int
      BY Names DEF DataOK
    <3>2. received = results
      BY <2>1, <3>1 DEF Passed, Counts
    <3>3. st["mapper"] = "reaped" /\ st["reducer"] = "reaped"
      BY <2>1 DEF Stages
    <3>4. failed = {} => /\ mapped = NMessages /\ collected = emitted
                         /\ emitted > 0 => results > 0
      BY <3>1, <3>3 DEF Unbroken, Counts
    <3>5. failed' = failed
      BY <2>3 DEF budget
    <3> QED
      BY <1>1, <1>2, <2>1, <2>3, <3>2, <3>4, <3>5 DEF Job!ReturnOk, Job!counts
  <2> QED
    BY <1>5, <2>2, <2>3 DEF MainReturns
<1>6. CASE ret' = ret /\ failed' = failed /\ st'["main"] = st["main"]
  BY <1>1, <1>6, JobStutter
<1>7. CASE \/ MainPasses \/ (\E k : MainMakes(k)) \/ (\E e : MainCloses(e))
           \/ (\E p \in Children : MainForks(p) \/ MainWaits(p))
  <2>1. ret' = ret /\ failed' = failed /\ st'["main"] = st["main"]
    BY <1>2, <1>7, Names DEF MainPasses, MainMakes, MainCloses, MainForks, MainWaits, budget
  <2> QED
    BY <1>6, <2>1
<1> QED
  BY <1>3, <1>4, <1>5, <1>7, Names DEF MainControl

\* The control steps of a child are Break, or not seen.
LEMMA ChildControlJob ==
  ASSUME IInv, Still, NEW p \in Children,
         \/ ChildPasses(p) \/ (\E e : ChildCloses(p, e)) \/ (\E e : ChildDups(p, e))
         \/ ChildErrs(p) \/ ChildEscapes(p) \/ (\E s : ChildEnds(p, s))
  PROVE  Job!Break \/ UNCHANGED Job!vars
<1> USE Parts
<1>1. UNCHANGED <<sent, mapped, emitted, collected, results, received>>
  BY DEF Still, progress
<1>2. st'["main"] = st["main"] /\ ret' = ret /\ failed \subseteq failed'
  BY ChildFrame
<1>3. CASE failed = {} /\ failed' # {}
  BY <1>1, <1>2, <1>3, JobBreak
<1>4. CASE ~ (failed = {} /\ failed' # {})
  <2>1. failed' = {} <=> failed = {}
    BY <1>2, <1>4
  <2> QED
    BY <1>1, <1>2, <2>1, JobStutter
<1> QED
  BY <1>3, <1>4

\* A loss is Break when nothing failed before, and is not seen after that.
LEMMA LossJob ==
  ASSUME IInv, NEW p \in Children, ChildLoses(p)
  PROVE  Job!Break \/ UNCHANGED Job!vars
<1> USE Parts
<1>1. /\ UNCHANGED <<sent, mapped, emitted, collected, results, received>>
      /\ st' = st /\ ret' = ret
  BY DEF ChildLoses
<1>2. failed' # {}
  BY FailType DEF ChildLoses
<1>3. CASE failed = {}
  BY <1>1, <1>2, <1>3, JobBreak
<1>4. CASE failed # {}
  BY <1>1, <1>2, <1>4, JobStutter
<1> QED
  BY <1>3, <1>4

\* Every step of the pipeline is a step of the job or is not seen.
LEMMA JobStep == IInv /\ IInv' /\ [Next]_vars => [Job!Next]_(Job!vars)
<1> SUFFICES ASSUME IInv, IInv', [Next]_vars PROVE [Job!Next]_(Job!vars)
  OBVIOUS
<1>0. TypeOK
  BY DEF IInv
<1>1. CASE Main
  <2>1. st["main"] = "running" /\ ((Still /\ MainControl) \/ (Quiet /\ MainMoves))
    BY <1>0, <1>1, MainSteps
  <2> QED
    BY <2>1, MainControlJob, MainMovesJob DEF Job!Next
<1>2. CASE Mapper
  <2>1. \/ Still /\ MapperControl
        \/ Quiet /\ MapperMoves
        \/ ChildLoses("mapper")
    BY <1>0, <1>2, MapperSteps
  <2>2. CASE Still /\ MapperControl
    BY <2>2, MapperIsChild, ChildControlJob, Names DEF Job!Next
  <2>3. CASE ChildLoses("mapper")
    BY <2>3, LossJob, Names DEF Job!Next
  <2> QED
    BY <2>1, <2>2, <2>3, MapperMovesJob DEF Job!Next
<1>3. CASE Reducer
  <2>1. \/ Still /\ ReducerControl
        \/ Quiet /\ ReducerMoves
        \/ ChildLoses("reducer")
    BY <1>0, <1>3, ReducerSteps
  <2>2. CASE Still /\ ReducerControl
    BY <2>2, ReducerIsChild, ChildControlJob, Names DEF Job!Next
  <2>3. CASE ChildLoses("reducer")
    BY <2>3, LossJob, Names DEF Job!Next
  <2> QED
    BY <2>1, <2>2, <2>3, ReducerMovesJob DEF Job!Next
<1>4. CASE UNCHANGED vars
  BY <1>4, JobStutter DEF vars, progress, budget
<1> QED
  BY <1>1, <1>2, <1>3, <1>4 DEF Next, Over

\* The pipeline implements the job: all input mapped and all pairs collected before any
\* result is made, and 0 only with every result received.
THEOREM Refinement == Spec => ImplementsJob
<1>1. Init => Job!Init
  BY JobInit
<1>2. IInv /\ IInv' /\ [Next]_vars => [Job!Next]_(Job!vars)
  BY JobStep
<1> QED
  BY <1>1, <1>2, Inductive, PTL DEF Spec, ImplementsJob, Job!Spec
================================================================================
