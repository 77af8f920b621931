------------------------------- MODULE MrProtocol -------------------------------
(***************************************************************************)
(* One pipe of the job, as src/src/protocol.c uses it, byte by byte: a     *)
(* sender that writes frames and a receiver that takes them apart.  The    *)
(* channel is chosen in Init:                                              *)
(*   "lines"    send_input_to_mapper and receive_line_from_main,           *)
(*   "pairs"    send_pair_to_reducer and receive_pair_from_mapper,         *)
(*   "results"  send_result_to_main and receive_output_from_reducer;       *)
(* so is whether the build has NDEBUG, which takes the assertions out.     *)
(*                                                                         *)
(* A frame is a header of two cells and the parts whose lengths it gives;  *)
(* read(2) and write(2) move any number of cells, a process may die in the *)
(* middle of a frame.  A cell stands for a few bytes and is known by its   *)
(* place <<entry, frame, part, offset>> in the input.                      *)
(***************************************************************************)
EXTENDS Integers, Sequences, FiniteSetsExt, SequencesExt

CONSTANTS
  LineInputs,   \* inputs of main: sequences of directory entries
  PairInputs,   \* inputs of the other channels: sequences of calls of emit
  MaxLen,       \* bound: cells of a part
  PipeCap,      \* cells the pipe holds
  MaxNumber,    \* bound: line numbers given after the end of the stream
  MaxFaults     \* bound: failing calls and deaths of the sender

H == 2
Lens == 0 .. MaxLen
ASSUME BoundsAssumption ==
  /\ MaxLen \in Nat \ {0} /\ PipeCap \in Nat \ {0}
  /\ MaxNumber \in Nat /\ MaxFaults \in Nat
ASSUME InputsAssumption ==
  /\ LineInputs \subseteq Seq([kind : {"file", "skip"}, lens : Seq(Lens)])
  /\ PairInputs \subseteq Seq([kind : {"emit"}, lens : Lens \X Lens])

VARIABLES
  channel, ndebug, input,
  sender,     \* "sending", "closed", "error" (returned -1), "dead"
  pos, off,   \* <<entry, frame, part>> being written, cells of it already written
  pipe,       \* cells in the pipe
  part, got,  \* the part the receiver reads (0: the header), its cells so far
  hdr,        \* the header it goes by: id is <<0, 0>> when the message is damaged
  finished, file, number,   \* mr_main_receiver_t
  delivered,  \* what the receiver has handed on
  result,     \* "none" while it runs, "end", "error", "abort", "killed"
  failed, faultsLeft

chosen   == <<channel, ndebug, input>>
writer   == <<sender, pos, off>>
receiver == <<finished, file, number>>
reading  == <<part, got, hdr>>
budget   == <<failed, faultsLeft>>
vars == <<chosen, writer, pipe, receiver, reading, delivered, result, budget>>

Cell(p, o) == <<p[1], p[2], p[3], o>>
Frame(t, ls) == [type |-> t, lens |-> ls]
Damaged == <<0, 0>>

\* The frames of an entry: a file is its name, its lines and an end of file; "." and ".."
\* and directories are skipped; a call of emit is one frame.  A file's lines are those that
\* getline returns: when it runs out of memory, which ferror does not tell, the file ends
\* there as if it were complete.
FramesOf(e) ==
  CASE e.kind = "file" -> <<Frame("name", <<1>>)>>
                          \o [k \in DOMAIN e.lens |-> Frame("line", <<e.lens[k]>>)]
                          \o <<Frame("eof", <<>>)>>
    [] e.kind = "skip" -> <<>>
    [] e.kind = "emit" -> <<Frame("pair", e.lens)>>
FrameAt(e, f) == FramesOf(input[e])[f]

\* The next part with a length after part p; an empty part is neither sent nor read.
NextParts(lens, p) == {q \in DOMAIN lens : q > p /\ lens[q] > 0}

Init ==
  /\ channel \in {"lines", "pairs", "results"}
  /\ ndebug \in BOOLEAN
  /\ input \in IF channel = "lines" THEN LineInputs ELSE PairInputs
  /\ sender = "sending" /\ pos = <<1, 0, 0>> /\ off = 0
  /\ pipe = <<>>
  /\ part = 0 /\ got = <<>> /\ hdr = [id |-> Damaged, type |-> "eof", lens |-> <<>>]
  /\ finished = TRUE /\ file = 0 /\ number = 0
  /\ delivered = <<>> /\ result = "none"
  /\ failed = {} /\ faultsLeft = MaxFaults

Fail(k) ==
  /\ faultsLeft > 0
  /\ faultsLeft' = faultsLeft - 1
  /\ failed' = failed \cup {k}

--------------------------------------------------------------------------------
(***************************************************************************)
(* The sender                                                              *)
(***************************************************************************)
Sending == sender = "sending" /\ result = "none"

\* The step from one entry to the next: send_files_in_directory_to_mapper, or the user's
\* next call of emit.
NextEntry ==
  /\ Sending /\ pos[2] = 0 /\ pos[1] <= Len(input)
  /\ pos' = IF input[pos[1]].kind = "skip" THEN <<pos[1] + 1, 0, 0>> ELSE <<pos[1], 1, 0>>
  /\ UNCHANGED <<chosen, sender, off, pipe, receiver, reading, delivered, result, budget>>

\* Where the sender goes when the part at pos is written.
NextPos ==
  LET frame == FrameAt(pos[1], pos[2])
      more == NextParts(frame.lens, pos[3]) IN
  IF more # {} THEN <<pos[1], pos[2], Min(more)>>
  ELSE IF pos[2] < Len(FramesOf(input[pos[1]])) THEN <<pos[1], pos[2] + 1, 0>>
  ELSE <<pos[1] + 1, 0, 0>>

Size == IF pos[3] = 0 THEN H ELSE FrameAt(pos[1], pos[2]).lens[pos[3]]

\* One call of write in write_n.
WriteCall ==
  /\ Sending /\ pos[2] > 0
  /\ \E n \in 1 .. Min({Size - off, PipeCap - Len(pipe)}) :
       /\ pipe' = pipe \o [k \in 1 .. n |-> Cell(pos, off + k)]
       /\ IF off + n = Size THEN pos' = NextPos /\ off' = 0
          ELSE off' = off + n /\ UNCHANGED pos
  /\ UNCHANGED <<chosen, sender, receiver, reading, delivered, result, budget>>

\* A write fails.  Main returns -1; mapper and reducer abandon the frame where it is, and
\* the user's function may emit the next one.
WriteFails ==
  /\ Sending /\ pos[2] > 0
  /\ Fail("write")
  /\ IF channel = "lines" THEN sender' = "error" /\ UNCHANGED <<pos, off>>
     ELSE pos' = <<pos[1] + 1, 0, 0>> /\ off' = 0 /\ UNCHANGED sender
  /\ UNCHANGED <<chosen, pipe, receiver, reading, delivered, result>>

\* stat, scandir, fopen, reading the file, fclose or the log fails between two frames.
FileFails ==
  /\ Sending /\ channel = "lines" /\ pos[3] = 0 /\ off = 0
  /\ Fail("file")
  /\ sender' = "error"
  /\ UNCHANGED <<chosen, pos, off, pipe, receiver, reading, delivered, result>>

\* All is sent; the write end is closed, by main or by the end of the process.
SendFinish ==
  /\ Sending /\ pos[1] > Len(input)
  /\ sender' = "closed"
  /\ UNCHANGED <<chosen, pos, off, pipe, receiver, reading, delivered, result, budget>>

\* The sending process is killed, wherever it is.
SenderDies ==
  /\ Sending
  /\ Fail("death")
  /\ sender' = "dead"
  /\ UNCHANGED <<chosen, pos, off, pipe, receiver, reading, delivered, result>>

\* The receiver is gone: SIGPIPE, or the signal of a main that gave up, ends the sender.
SenderStopped ==
  /\ sender = "sending" /\ result # "none"
  /\ sender' = "dead"
  /\ UNCHANGED <<chosen, pos, off, pipe, receiver, reading, delivered, result, budget>>

Sender ==
  \/ NextEntry \/ WriteCall \/ WriteFails \/ FileFails
  \/ SendFinish \/ SenderDies \/ SenderStopped

--------------------------------------------------------------------------------
(***************************************************************************)
(* The receiver                                                            *)
(***************************************************************************)
Expect ==
  IF channel # "lines" THEN {"pair"} ELSE IF finished THEN {"name"} ELSE {"line", "eof"}
Want == IF part = 0 THEN H ELSE hdr.lens[part]
Reading == result = "none"

\* Mutant: an empty pipe is taken for the end of the stream.
AtEofEmpty == pipe = <<>>

AtEof == pipe = <<>> /\ sender \in {"closed", "dead"}

\* Mutant: read_n is a single read.
ReadReturnsShort == Reading /\ (got # <<>> \/ AtEof)

\* read_n returns: all was read, or the end of the stream is reached.
ReadReturns == Reading /\ (Len(got) = Want \/ AtEof)

\* One call of read in read_n.
ReadCall ==
  /\ Reading
  /\ \E n \in 1 .. Min({Want - Len(got), Len(pipe)}) :
       /\ got' = got \o SubSeq(pipe, 1, n)
       /\ pipe' = SubSeq(pipe, n + 1, Len(pipe))
  /\ UNCHANGED <<chosen, writer, receiver, part, hdr, delivered, result, budget>>

Stop(r) ==
  /\ result' = r
  /\ UNCHANGED <<receiver, reading, delivered>>

StartFile(id) ==
  /\ finished' = FALSE /\ file' = id[1] /\ number' = 1
  /\ UNCHANGED delivered

\* The message with header h is complete: a file begins or ends, a line gets its number and
\* a copy of the file name, a pair or result is handed on.
Complete(h) ==
  /\ CASE h.type = "name" -> StartFile(h.id)
       [] h.type = "eof"  -> finished' = TRUE /\ UNCHANGED <<file, number, delivered>>
       [] h.type = "line" -> /\ delivered' = Append(delivered,
                                  [msg |-> h.id, file |-> file, number |-> number])
                             /\ number' = number + 1
                             /\ UNCHANGED <<finished, file>>
       [] h.type = "pair" -> /\ delivered' = Append(delivered,
                                  [msg |-> h.id, file |-> 0, number |-> 0])
                             /\ UNCHANGED receiver
  /\ part' = 0

\* The receiver has read part p of the message with header h and goes on.
GoOn(h, p) ==
  /\ hdr' = h /\ got' = <<>>
  /\ IF NextParts(h.lens, p) = {} THEN Complete(h)
     ELSE part' = Min(NextParts(h.lens, p)) /\ UNCHANGED <<receiver, delivered>>
  /\ UNCHANGED result

\* A header that is not one, being cut short or out of step: what was not read is whatever
\* the variable held (the eof flag is the first byte of its header, so it is right when the
\* header is only cut).  The length may also be too much for malloc.
UseGarbage ==
  \/ Stop("error")
  \/ \E t \in Expect, n \in Lens, m \in Lens :
       /\ t = "line" /\ got = <<>> => number <= MaxNumber
       /\ t \in {"line", "eof"} /\ got # <<>> => t = FrameAt(got[1][1], got[1][2]).type
       /\ GoOn([id |-> Damaged, type |-> t, lens |->
                 IF t = "eof" THEN <<>> ELSE IF t = "pair" THEN <<n, m>> ELSE <<n>>], 0)

\* got is all of part p of frame f of entry e.
IsPart(e, f, p, n) == got = [k \in 1 .. n |-> Cell(<<e, f, p>>, k)]

\* Mutant: end of file in the middle of a file is an end like any other.
HeaderAtEofLenient == IF finished \/ ~ndebug THEN Stop("end") ELSE UseGarbage

\* Mutant: when no byte came the receiver reads again.
HeaderAtEofRetries ==
  IF finished THEN UNCHANGED <<receiver, reading, delivered, result>>
  ELSE IF ~ndebug THEN Stop("abort") ELSE UseGarbage

\* No byte of a header came: the regular end, but not between the lines of a file
\* (assert(bytes_read != 0)).
HeaderAtEof ==
  IF finished THEN Stop("end") ELSE IF ~ndebug THEN Stop("abort") ELSE UseGarbage

\* read_n of a header returns.  Only receive_output_from_reducer asserts that it is whole.
HeaderRead ==
  /\ ReadReturns /\ part = 0
  /\ \/ got = <<>> /\ HeaderAtEof
     \/ /\ got # <<>> /\ IsPart(got[1][1], got[1][2], 0, H)
        /\ LET frame == FrameAt(got[1][1], got[1][2]) IN
             IF frame.type \in Expect
             THEN GoOn([id |-> <<got[1][1], got[1][2]>>, type |-> frame.type,
                        lens |-> frame.lens], 0)
             ELSE UseGarbage
     \/ /\ got # <<>> /\ ~IsPart(got[1][1], got[1][2], 0, H)
        /\ IF channel = "results" /\ ~ndebug /\ Len(got) < H THEN Stop("abort")
           ELSE UseGarbage
  /\ UNCHANGED <<chosen, writer, pipe, budget>>

\* read_n of a part returns; again only receive_output_from_reducer looks at the count.
PartRead ==
  /\ ReadReturns /\ part > 0
  /\ IF channel = "results" /\ ~ndebug /\ Len(got) < Want THEN Stop("abort")
     ELSE GoOn(IF IsPart(hdr.id[1], hdr.id[2], part, Want) THEN hdr
               ELSE [hdr EXCEPT !.id = Damaged], part)
  /\ UNCHANGED <<chosen, writer, pipe, budget>>

\* read, malloc, fopen, fwrite or fclose fails: the receiver returns -1.
ReceiveFails ==
  /\ Reading
  /\ Fail("receive")
  /\ Stop("error")
  /\ UNCHANGED <<chosen, writer, pipe>>

\* Main, whose sending failed, kills the mapper before it closes the pipe.
ReceiverKilled ==
  /\ Reading /\ sender = "error"
  /\ Stop("killed")
  /\ UNCHANGED <<chosen, writer, pipe, budget>>

Receiver == ReadCall \/ HeaderRead \/ PartRead \/ ReceiveFails \/ ReceiverKilled

\* Both are done.
Over == result # "none" /\ sender # "sending" /\ UNCHANGED vars

Next == Sender \/ Receiver \/ Over

Spec == Init /\ [][Next]_vars

\* Both processes are scheduled; no call has to fail.
FairSpec ==
  /\ Spec
  /\ WF_vars(Sender /\ UNCHANGED budget)
  /\ WF_vars(Receiver /\ UNCHANGED budget)

--------------------------------------------------------------------------------
(***************************************************************************)
(* Properties                                                              *)
(***************************************************************************)

\* Every variable keeps its type and no cell lies outside its part.
TypeOK ==
  /\ sender \in {"sending", "closed", "error", "dead"}
  /\ off \in 0 .. Max({H, MaxLen}) /\ Len(pipe) <= PipeCap
  /\ \A k \in DOMAIN pipe : LET c == pipe[k] IN
       c[4] <= IF c[3] = 0 THEN H ELSE FrameAt(c[1], c[2]).lens[c[3]]
  /\ Len(got) <= Max({H, MaxLen}) /\ part \in 0 .. 2
  /\ finished \in BOOLEAN /\ file \in 0 .. Len(input) /\ number \in Nat
  /\ result \in {"none", "end", "error", "abort", "killed"}
  /\ failed \subseteq {"write", "file", "death", "receive"} /\ faultsLeft \in 0 .. MaxFaults

\* What the receiver should hand on: every line with the file it is in and its number
\* there, counted from 1; every pair or result.
Items(e) ==
  CASE input[e].kind = "file" -> [k \in DOMAIN input[e].lens |->
                                    [msg |-> <<e, k + 1>>, file |-> e, number |-> k]]
    [] input[e].kind = "skip" -> <<>>
    [] input[e].kind = "emit" -> <<[msg |-> <<e, 1>>, file |-> 0, number |-> 0]>>
Upto(e) == FlattenSeq([k \in 1 .. e |-> Items(k)])
Expected == Upto(Len(input))

AssertsGone == ndebug /\ channel = "lines"

\* However read and write divide the stream, messages arrive whole, in order and in the
\* right file and line.  When the sender dies only the last one delivered is damaged;
\* without assertions, the lines after the point where the stream was cut.
InOrder ==
  "write" \notin failed =>
    \E n \in 0 .. Len(delivered) :
      /\ IsPrefix(SubSeq(delivered, 1, n), Expected)
      /\ \A k \in n + 1 .. Len(delivered) : delivered[k].msg = Damaged
      /\ "death" \notin failed => n = Len(delivered)
      /\ AssertsGone \/ Len(delivered) <= n + 1

\* The stream is delivered as it was sent and every variable keeps its type.
StreamConsistent == TypeOK /\ InOrder

\* A receiver that reports the end of the stream has handed on everything, if nothing
\* failed.  If the sender died, the mapper and main (with their assertions) report the
\* end only when the stream was cut between two files or two results: what was delivered
\* is whole.  (receive_pair_from_mapper has no such check.)
EndIsHonest ==
  result = "end" =>
    /\ failed = {} => delivered = Expected
    /\ "write" \notin failed /\ channel # "pairs" /\ ~ndebug =>
         \E e \in 0 .. Len(input) : delivered = Upto(e)

\* The assertions of the receivers hold unless the sender died or abandoned a frame.
AssertsHold == result = "abort" => failed \cap {"death", "write"} # {}

\* The receiver comes to an end, whatever fails, unless the assertion is compiled out that
\* would stop the mapper in the middle of a file: then the code may hand on lines for ever
\* (MaxNumber cuts that short here).
ReceiverEnds == []("death" \notin failed \/ ~AssertsGone) => <>(result # "none")
================================================================================
