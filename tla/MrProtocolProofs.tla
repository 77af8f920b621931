---------------------------- MODULE MrProtocolProofs ----------------------------
(***************************************************************************)
(* Proofs about MrProtocol, for any inputs, any lengths of the parts, any  *)
(* capacity of the pipe and any number of failing calls: as long as no     *)
(* write has failed, the cells between the two processes are a run of the  *)
(* input without a gap (Chain), what was delivered is all of the input     *)
(* before it (Progress), and only the death of the sender ends that (Cut). *)
(***************************************************************************)
EXTENDS MrProtocol, SequenceTheorems, WellFoundedInduction, TLAPS

\* A part of the input, named by entry, frame and part; its length and its cells.
Lengths(p) == FrameAt(p[1], p[2]).lens
Place(p) ==
  /\ p[1] \in 1 .. Len(input) /\ p[2] \in 1 .. Len(FramesOf(input[p[1]]))
  /\ p[3] = 0 \/ (p[3] \in DOMAIN Lengths(p) /\ Lengths(p)[p[3]] > 0)
PartLen(p) == IF p[3] = 0 THEN H ELSE Lengths(p)[p[3]]
CellOK(c) == Place(c) /\ c[4] \in 1 .. PartLen(c)

\* What a receiver hands on.
Item == [msg : Nat \X Nat, file : Nat, number : Nat]

\* The variables, and how the sender and the header relate to the input.
Types  == {"name", "line", "eof", "pair"}
Places == Nat \X Nat \X Nat
Cells  == Nat \X Nat \X Nat \X Nat
InputOK ==
  /\ channel \in {"lines", "pairs", "results"}
  /\ input \in IF channel = "lines" THEN LineInputs ELSE PairInputs
SenderOK ==
  /\ sender \in {"sending", "closed", "error", "dead"}
  /\ pos \in Places /\ off \in Nat
  /\ pos[1] \in 1 .. Len(input) + 1
  /\ pos[2] = 0 => pos[3] = 0 /\ off = 0
  /\ pos[2] > 0 => Place(pos) /\ off < PartLen(pos)
  /\ sender = "closed" => pos[1] > Len(input)
CellsOK ==
  /\ pipe \in Seq(Cells) /\ Len(pipe) <= PipeCap
  /\ \A k \in 1 .. Len(pipe) : CellOK(pipe[k])
  /\ got \in Seq(Cells) /\ Len(got) <= Want
  /\ \A k \in 1 .. Len(got) : CellOK(got[k])
Headers == [id : Nat \X Nat, type : Types, lens : Seq(Lens)]
HeaderOK(h) ==
  /\ h \in Headers /\ Len(h.lens) <= 2
  /\ h.id # Damaged =>
       /\ Place(<<h.id[1], h.id[2], 0>>)
       /\ h.type = FrameAt(h.id[1], h.id[2]).type
       /\ h.lens = FrameAt(h.id[1], h.id[2]).lens
ReadingOK == HeaderOK(hdr) /\ part \in 0 .. Len(hdr.lens) /\ (part > 0 => hdr.lens[part] > 0)
OutOK ==
  /\ file \in 0 .. Len(input) /\ number \in Nat /\ delivered \in Seq(Item)
  /\ result \in {"none", "end", "error", "abort", "killed"}
FaultsOK ==
  /\ failed \subseteq {"write", "file", "death", "receive"} /\ faultsLeft \in 0 .. MaxFaults
  /\ sender = "dead" /\ result = "none" => "death" \in failed
DataOK  == InputOK /\ SenderOK /\ CellsOK /\ ReadingOK /\ OutOK /\ FaultsOK
FlagsOK == finished \in BOOLEAN /\ ndebug \in BOOLEAN

\* Two positions between the same cells: nothing but skipped entries lies between them.
Same(p, q) ==
  \/ p = q
  \/ /\ p[2] = 0 /\ q[2] \in {0, 1} /\ q[3] = 0 /\ p[1] <= q[1]
     /\ \A e \in p[1] .. q[1] - 1 : input[e].kind = "skip"

\* The position behind a part: in its frame, at the next frame, or at the next entry.
After(p) ==
  IF NextParts(Lengths(p), p[3]) # {} THEN <<p[1], p[2], Min(NextParts(Lengths(p), p[3]))>>
  ELSE IF p[2] < Len(FramesOf(input[p[1]])) THEN <<p[1], p[2] + 1, 0>>
  ELSE <<p[1] + 1, 0, 0>>

\* The position the receiver reads from.
Here ==
  IF part > 0 THEN <<hdr.id[1], hdr.id[2], part>>
  ELSE IF hdr.id = Damaged THEN <<1, 0, 0>>
  ELSE IF hdr.id[2] < Len(FramesOf(input[hdr.id[1]])) THEN <<hdr.id[1], hdr.id[2] + 1, 0>>
  ELSE <<hdr.id[1] + 1, 0, 0>>

\* c is the first cell from position p on; the last one before n cells behind position q.
Starts(p, c) == Same(p, <<c[1], c[2], c[3]>>) /\ c[4] = 1
Ends(c, q, n) ==
  \/ n > 0 /\ c = Cell(q, n)
  \/ n = 0 /\ c[4] = PartLen(c) /\ Same(After(c), q)

\* The cells from position p to n cells behind position q: none is missing.
Run(flow) ==
  \A k \in 1 .. Len(flow) : \A j \in k .. Len(flow) :
    j - k <= PartLen(flow[k]) - flow[k][4] => flow[j] = Cell(flow[k], flow[k][4] + (j - k))
Linked(flow, p, q, n) ==
  /\ flow = <<>> => n = 0 /\ Same(p, q)
  /\ flow # <<>> => Starts(p, flow[1]) /\ Ends(flow[Len(flow)], q, n)
  /\ \A k \in 1 .. Len(flow) - 1 :
       flow[k][4] = PartLen(flow[k]) => Starts(After(flow[k]), flow[k + 1])
  /\ Run(flow)

\* The cells from the receiver's position to the sender's.
Flow == got \o pipe
Chain == Linked(Flow, Here, pos, off)

\* What is delivered is the input before frame f of entry e.
Before(e, f) ==
  /\ channel = "lines" =>
       /\ finished <=> f <= 1
       /\ f <= 1 => delivered = Upto(e - 1)
       /\ f > 1 =>
            /\ file = e /\ number = f - 1
            /\ delivered = Upto(e - 1) \o SubSeq(Items(e), 1, f - 2)
  /\ channel # "lines" => finished /\ delivered = Upto(e - 1)
Progress == Before(Here[1], Here[2])
Sound == Chain /\ Progress /\ (part > 0 => hdr.id # Damaged)

\* The first n messages delivered are whole and in order, the others are damaged.
Whole(n) ==
  /\ IsPrefix(SubSeq(delivered, 1, n), Expected)
  /\ \A k \in n + 1 .. Len(delivered) : delivered[k].msg = Damaged

\* The sender died inside a message or a file, and the receiver has noticed.
Cut ==
  /\ sender = "dead" /\ "death" \in failed /\ pipe = <<>> /\ got = <<>> /\ hdr.id = Damaged
  /\ channel = "results" => ndebug
  /\ \E n \in 0 .. Len(delivered) :
       Whole(n) /\ (AssertsGone \/ Len(delivered) <= n + IF part = 0 THEN 1 ELSE 0)
  /\ channel = "lines" /\ part > 0 => hdr.type = "name" \/ (hdr.type = "line" /\ ~finished)
  /\ channel = "lines" /\ ~ndebug /\ part = 0 /\ finished =>
       \E e \in 0 .. Len(input) : delivered = Upto(e)
  /\ channel # "lines" => finished /\ hdr.type = "pair"

Stream == "write" \notin failed => Sound \/ Cut

IInv == DataOK /\ FlagsOK /\ Stream /\ EndIsHonest /\ AssertsHold
--------------------------------------------------------------------------------
(***************************************************************************)
(* Numbers and sequences                                                   *)
(***************************************************************************)

\* Induction over the natural numbers, for sets.
LEMMA Induction ==
  ASSUME NEW S, 0 \in S, \A n \in Nat : n \in S => n + 1 \in S
  PROVE  \A n \in Nat : n \in S
<1> DEFINE T == Nat \ S
<1> SUFFICES ASSUME T # {} PROVE FALSE
  OBVIOUS
<1>1. PICK x \in T : \A y \in T : <<y, x>> \notin OpToRel(<, Nat)
  BY NatLessThanWellFounded, WFMin
<1>2. x \in Nat /\ x # 0 /\ x - 1 \in Nat
  OBVIOUS
<1>3. <<x - 1, x>> \in OpToRel(<, Nat)
  BY <1>2 DEF OpToRel
<1>4. x - 1 \in S
  BY <1>1, <1>2, <1>3
<1>5. (x - 1) + 1 = x
  BY <1>2
<1> QED
  BY <1>2, <1>4, <1>5

\* The least of two numbers.
LEMMA MinTwo ==
  ASSUME NEW a \in Int, NEW b \in Int
  PROVE  Min({a, b}) \in {a, b} /\ Min({a, b}) <= a /\ Min({a, b}) <= b
<1>1. \E x \in {a, b} : \A y \in {a, b} : x <= y
  OBVIOUS
<1> QED
  BY <1>1 DEF Min

\* The greatest of two numbers.
LEMMA MaxTwo ==
  ASSUME NEW a \in Int, NEW b \in Int
  PROVE  Max({a, b}) \in {a, b} /\ Max({a, b}) >= a /\ Max({a, b}) >= b
<1>1. \E x \in {a, b} : \A y \in {a, b} : x >= y
  OBVIOUS
<1> QED
  BY <1>1 DEF Max

\* The next part of a message.
LEMMA NextPart ==
  ASSUME NEW lens \in Seq(Lens), Len(lens) <= 2, NEW p \in Nat, NextParts(lens, p) # {}
  PROVE  LET q == Min(NextParts(lens, p)) IN
           q \in 1 .. Len(lens) /\ q > p /\ lens[q] > 0
<1>1. NextParts(lens, p) \subseteq {1, 2}
  BY DEF NextParts
<1>2. \E x \in NextParts(lens, p) : \A y \in NextParts(lens, p) : x <= y
  BY <1>1
<1>3. Min(NextParts(lens, p)) \in NextParts(lens, p)
  BY <1>2 DEF Min
<1> QED
  BY <1>3 DEF NextParts

\* FlattenSeq of the library, by its recursive function.
Sums(s, n, f) == f = [i \in 1 .. n |-> IF i = 1 THEN s[i] ELSE f[i - 1] \o s[i]]

\* Its values.
LEMMA SumsAt ==
  ASSUME NEW s, NEW n \in Nat, NEW f, Sums(s, n, f), NEW i \in 1 .. n
  PROVE  f[i] = IF i = 1 THEN s[i] ELSE f[i - 1] \o s[i]
  BY DEF Sums

\* The function exists,
LEMMA SumsExist == ASSUME NEW s PROVE \A n \in Nat : \E f : Sums(s, n, f)
<1> DEFINE S == {n \in Nat : \E f : Sums(s, n, f)}
<1>1. 0 \in S
  <2>1. Sums(s, 0, [i \in 1 .. 0 |-> s[i]])
    BY DEF Sums
  <2> QED
    BY <2>1
<1>2. ASSUME NEW n \in Nat, n \in S PROVE n + 1 \in S
  <2>1. PICK f : Sums(s, n, f)
    BY <1>2
  <2> DEFINE g == [i \in 1 .. n + 1 |->
                     IF i = n + 1 THEN (IF i = 1 THEN s[i] ELSE f[i - 1] \o s[i]) ELSE f[i]]
  <2>2. \A i \in 1 .. n : g[i] = f[i]
    OBVIOUS
  <2>3. \A i \in 1 .. n : f[i] = IF i = 1 THEN s[i] ELSE f[i - 1] \o s[i]
    BY <2>1 DEF Sums
  <2>4. \A i \in 1 .. n + 1 : g[i] = IF i = 1 THEN s[i] ELSE g[i - 1] \o s[i]
    <3> TAKE i \in 1 .. n + 1
    <3>1. CASE i = n + 1
      <4>1. i # 1 => i - 1 \in 1 .. n
        BY <3>1
      <4> QED
        BY <3>1, <4>1, <2>2
    <3>2. CASE i \in 1 .. n
      <4>1. i # 1 => i - 1 \in 1 .. n
        BY <3>2
      <4> QED
        BY <3>2, <4>1, <2>2, <2>3
    <3> QED
      BY <3>1, <3>2
  <2>5. g = [i \in 1 .. n + 1 |-> g[i]]
    OBVIOUS
  <2>6. Sums(s, n + 1, g)
    <3> HIDE DEF g
    <3> QED
      BY <2>4, <2>5 DEF Sums
  <2> QED
    BY <2>6
<1> QED
  <2> HIDE DEF S
  <2>1. \A n \in Nat : n \in S
    BY <1>1, <1>2, Induction
  <2> QED
    BY <2>1 DEF S

\* and its values depend on the elements before them only.
LEMMA SumsAgree ==
  ASSUME NEW s, NEW t, NEW m \in Nat, NEW n \in Nat, m <= n,
         \A i \in 1 .. m : s[i] = t[i],
         NEW f, NEW g, Sums(s, m, f), Sums(t, n, g)
  PROVE  \A i \in 1 .. m : f[i] = g[i]
<1> DEFINE S == {i \in Nat : i \in 1 .. m => f[i] = g[i]}
<1>1. 0 \in S
  OBVIOUS
<1>2. ASSUME NEW i \in Nat, i \in S PROVE i + 1 \in S
  <2> SUFFICES ASSUME i + 1 \in 1 .. m PROVE f[i + 1] = g[i + 1]
    OBVIOUS
  <2>1. /\ f[i + 1] = IF i + 1 = 1 THEN s[i + 1] ELSE f[(i + 1) - 1] \o s[i + 1]
        /\ g[i + 1] = IF i + 1 = 1 THEN t[i + 1] ELSE g[(i + 1) - 1] \o t[i + 1]
    BY i + 1 \in 1 .. m, i + 1 \in 1 .. n, SumsAt
  <2>2. i + 1 # 1 => i \in 1 .. m /\ (i + 1) - 1 = i
    OBVIOUS
  <2> QED
    BY <1>2, <2>1, <2>2
<1> QED
  <2> HIDE DEF S
  <2>1. \A i \in Nat : i \in S
    BY <1>1, <1>2, Induction
  <2> QED
    BY <2>1 DEF S

\* FlattenSeq is the last value of such a function.
LEMMA FlattenSums ==
  ASSUME NEW s, NEW n \in Nat, Len(s) = n, n # 0
  PROVE  \E f : Sums(s, n, f) /\ FlattenSeq(s) = f[n]
<1> DEFINE F == CHOOSE f : f = [i \in 1 .. Len(s) |-> IF i = 1 THEN s[i] ELSE f[i - 1] \o s[i]]
<1>1. \E f : f = [i \in 1 .. Len(s) |-> IF i = 1 THEN s[i] ELSE f[i - 1] \o s[i]]
  BY SumsExist DEF Sums
<1>2. F = [i \in 1 .. Len(s) |-> IF i = 1 THEN s[i] ELSE F[i - 1] \o s[i]]
  BY <1>1
<1>3. FlattenSeq(s) = F[Len(s)]
  BY DEF FlattenSeq
<1> HIDE DEF F
<1> QED
  BY <1>2, <1>3 DEF Sums

\* What the first entries make, one entry at a time.
LEMMA UptoStep ==
  /\ Upto(0) = <<>>
  /\ \A e \in Nat : Items(e + 1) \in Seq(Item) /\ Upto(e) \in Seq(Item) =>
                      Upto(e + 1) = Upto(e) \o Items(e + 1)
<1>1. Upto(0) = <<>>
  BY DEF Upto, FlattenSeq
<1>2. ASSUME NEW e \in Nat, Items(e + 1) \in Seq(Item), Upto(e) \in Seq(Item)
      PROVE  Upto(e + 1) = Upto(e) \o Items(e + 1)
  <2> DEFINE s == [k \in 1 .. e |-> Items(k)]
             t == [k \in 1 .. e + 1 |-> Items(k)]
  <2>1. Len(s) = e /\ Len(t) = e + 1 /\ t[e + 1] = Items(e + 1)
    OBVIOUS
  <2>2. \A k \in 1 .. e : s[k] = t[k]
    OBVIOUS
  <2>3. Upto(e) = FlattenSeq(s) /\ Upto(e + 1) = FlattenSeq(t)
    BY DEF Upto
  <2> HIDE DEF s, t
  <2>4. PICK g : Sums(t, e + 1, g) /\ FlattenSeq(t) = g[e + 1]
    BY <2>1, FlattenSums
  <2>5. g[e + 1] = IF e + 1 = 1 THEN t[e + 1] ELSE g[(e + 1) - 1] \o t[e + 1]
    BY <2>4, e + 1 \in 1 .. e + 1, e + 1 \in Nat, SumsAt
  <2>6. CASE e = 0
    <3>1. Upto(e + 1) = Items(e + 1)
      BY <2>1, <2>3, <2>4, <2>5, <2>6
    <3>2. <<>> \o Items(e + 1) = Items(e + 1)
      BY <1>2
    <3> QED
      BY <3>1, <3>2, <2>6, <1>1
  <2>7. CASE e # 0
    <3>1. PICK f : Sums(s, e, f) /\ FlattenSeq(s) = f[e]
      BY <2>1, <2>7, FlattenSums
    <3>2. f[e] = g[e]
      BY <3>1, <2>2, <2>4, <2>7, SumsAgree
    <3>3. (e + 1) - 1 = e /\ e + 1 # 1
      BY <2>7
    <3> QED
      BY <3>1, <3>2, <3>3, <2>1, <2>3, <2>4, <2>5
  <2> QED
    BY <2>6, <2>7
<1> QED
  BY <1>1, <1>2

--------------------------------------------------------------------------------
(***************************************************************************)
(* The input                                                               *)
(***************************************************************************)

\* The bounds, as numbers.
LEMMA Bounds ==
  /\ MaxLen \in Nat /\ MaxLen >= 1 /\ PipeCap \in Nat /\ MaxFaults \in Nat
  /\ Lens = 0 .. MaxLen /\ H = 2
  BY BoundsAssumption DEF BoundsAssumption, Lens, H

\* An element of a sequence.
LEMMA Element ==
  ASSUME NEW X, NEW s \in Seq(X), NEW i \in 1 .. Len(s)
  PROVE  s[i] \in X
  OBVIOUS

\* An entry of each kind.
LEMMA Entries ==
  ASSUME DataOK, NEW e \in 1 .. Len(input)
  PROVE  /\ input \in Seq(Range(input)) /\ Len(input) \in Nat
         /\ channel = "lines" => /\ input[e].kind \in {"file", "skip"}
                                 /\ input[e].lens \in Seq(Lens)
         /\ channel # "lines" => input[e].kind = "emit" /\ input[e].lens \in Lens \X Lens
<1>1. CASE channel = "lines"
  <2>1. input \in Seq([kind : {"file", "skip"}, lens : Seq(Lens)])
    BY <1>1, InputsAssumption DEF DataOK, InputOK, InputsAssumption
  <2>2. input[e] \in [kind : {"file", "skip"}, lens : Seq(Lens)]
    BY <2>1, Element
  <2> QED
    BY <1>1, <2>1, <2>2 DEF Range
<1>2. CASE channel # "lines"
  <2>1. input \in Seq([kind : {"emit"}, lens : Lens \X Lens])
    BY <1>2, InputsAssumption DEF DataOK, InputOK, InputsAssumption
  <2>2. input[e] \in [kind : {"emit"}, lens : Lens \X Lens]
    BY <2>1, Element
  <2> QED
    BY <1>2, <2>1, <2>2 DEF Range
<1> QED
  BY <1>1, <1>2

\* The number of entries is a number even if there are none.
LEMMA InputLen == ASSUME DataOK PROVE Len(input) \in Nat
<1>1. CASE channel = "lines"
  BY <1>1, InputsAssumption DEF DataOK, InputOK, InputsAssumption
<1>2. CASE channel # "lines"
  BY <1>2, InputsAssumption DEF DataOK, InputOK, InputsAssumption
<1> QED
  BY <1>1, <1>2

\* The frames of a file.
LEMMA FileFrames ==
  ASSUME NEW entry, entry.kind = "file", entry.lens \in Seq(Lens)
  PROVE  LET fs == FramesOf(entry)
             n == Len(entry.lens) IN
           /\ n \in Nat /\ Len(fs) = n + 2
           /\ fs[1] = [type |-> "name", lens |-> <<1>>]
           /\ \A k \in 1 .. n : fs[k + 1] = [type |-> "line", lens |-> <<entry.lens[k]>>]
           /\ fs[n + 2] = [type |-> "eof", lens |-> <<>>]
<1> DEFINE n == Len(entry.lens)
           name == [type |-> "name", lens |-> <<1>>]
           lines == [k \in 1 .. n |-> [type |-> "line", lens |-> <<entry.lens[k]>>]]
           eof == [type |-> "eof", lens |-> <<>>]
           F == {name, eof} \cup {lines[k] : k \in 1 .. n}
<1>1. n \in Nat /\ DOMAIN entry.lens = 1 .. n
  OBVIOUS
<1>2. FramesOf(entry) = <<name>> \o lines \o <<eof>>
  BY <1>1 DEF FramesOf, Frame
<1>3. <<name>> \in Seq(F) /\ lines \in Seq(F) /\ <<eof>> \in Seq(F) /\ Len(lines) = n
  BY <1>1
<1>4. \A k \in 1 .. n : lines[k] = [type |-> "line", lens |-> <<entry.lens[k]>>]
  OBVIOUS
<1> HIDE DEF name, lines, eof, F, n
<1>5. /\ <<name>> \o lines \in Seq(F) /\ Len(<<name>> \o lines) = n + 1
      /\ (<<name>> \o lines)[1] = name
      /\ \A k \in 1 .. n : (<<name>> \o lines)[k + 1] = lines[k]
  BY <1>1, <1>3
<1>6. /\ Len((<<name>> \o lines) \o <<eof>>) = n + 2
      /\ \A k \in 1 .. n + 1 : ((<<name>> \o lines) \o <<eof>>)[k] = (<<name>> \o lines)[k]
      /\ ((<<name>> \o lines) \o <<eof>>)[n + 2] = eof
  BY <1>1, <1>3, <1>5, SMTT(30)
<1>7. /\ ((<<name>> \o lines) \o <<eof>>)[1] = name
      /\ \A k \in 1 .. n : ((<<name>> \o lines) \o <<eof>>)[k + 1] = lines[k]
  BY <1>1, <1>5, <1>6
<1> QED
  BY <1>1, <1>2, <1>4, <1>6, <1>7 DEF n, name, eof

\* The two lengths of a pair are a sequence.
LEMMA PairLens ==
  ASSUME NEW lens \in Lens \X Lens
  PROVE  lens \in Seq(Lens) /\ Len(lens) = 2
<1>1. lens = <<lens[1], lens[2]>> /\ lens[1] \in Lens /\ lens[2] \in Lens
  OBVIOUS
<1>2. ASSUME NEW a \in Lens, NEW b \in Lens PROVE <<a, b>> \in Seq(Lens) /\ Len(<<a, b>>) = 2
  OBVIOUS
<1> QED
  BY <1>1, <1>2

\* What the frames of an entry are, by their place in it.
LEMMA Frames ==
  ASSUME DataOK, NEW e \in 1 .. Len(input)
  PROVE  /\ Len(FramesOf(input[e])) \in Nat
         /\ input[e].kind = "skip" <=> Len(FramesOf(input[e])) = 0
         /\ channel = "lines" /\ input[e].kind # "skip" =>
              /\ Len(input[e].lens) \in Nat
              /\ Len(FramesOf(input[e])) = Len(input[e].lens) + 2
         /\ channel # "lines" => Len(FramesOf(input[e])) = 1
<1>1. CASE input[e].kind = "file"
  BY <1>1, Entries, FileFrames
<1>2. CASE input[e].kind = "skip"
  <2>1. FramesOf(input[e]) = <<>>
    BY <1>2 DEF FramesOf
  <2> QED
    BY <1>2, <2>1, Entries
<1>3. CASE input[e].kind = "emit"
  <2>1. FramesOf(input[e]) = <<Frame("pair", input[e].lens)>>
    BY <1>3 DEF FramesOf
  <2> QED
    BY <1>3, <2>1, Entries
<1> QED
  BY <1>1, <1>2, <1>3, Entries

\* What a frame is.
LEMMA FrameKind ==
  ASSUME DataOK, NEW e \in 1 .. Len(input), NEW f \in 1 .. Len(FramesOf(input[e]))
  PROVE  /\ FrameAt(e, f).type \in Types
         /\ FrameAt(e, f).lens \in Seq(Lens) /\ Len(FrameAt(e, f).lens) <= 2
         /\ channel = "lines" =>
              /\ FrameAt(e, f).type = "name" <=> f = 1
              /\ FrameAt(e, f).type = "eof" <=> f = Len(FramesOf(input[e]))
              /\ FrameAt(e, f).type = "line" <=> f \in 2 .. Len(FramesOf(input[e])) - 1
              /\ FrameAt(e, f).type = "eof" => FrameAt(e, f).lens = <<>>
              /\ FrameAt(e, f).type # "eof" => Len(FrameAt(e, f).lens) = 1
         /\ channel # "lines" =>
              f = 1 /\ FrameAt(e, f).type = "pair" /\ Len(FrameAt(e, f).lens) = 2
<1>1. CASE channel = "lines"
  <2> DEFINE n == Len(input[e].lens)
  <2>1. input[e].kind = "file" /\ input[e].lens \in Seq(Lens)
    BY <1>1, Entries, Frames
  <2>2. /\ n \in Nat /\ Len(FramesOf(input[e])) = n + 2
        /\ FrameAt(e, 1) = [type |-> "name", lens |-> <<1>>]
        /\ \A k \in 1 .. n : FrameAt(e, k + 1) = [type |-> "line", lens |-> <<input[e].lens[k]>>]
        /\ FrameAt(e, n + 2) = [type |-> "eof", lens |-> <<>>]
    BY <2>1, FileFrames DEF FrameAt
  <2>3. \A k \in 1 .. n : input[e].lens[k] \in Lens
    BY <2>1
  <2>4. <<1>> \in Seq(Lens) /\ Len(<<1>>) = 1 /\ <<>> \in Seq(Lens) /\ Len(<<>>) = 0
    BY Bounds
  <2>5. ASSUME NEW x \in Lens PROVE <<x>> \in Seq(Lens) /\ Len(<<x>>) = 1
    OBVIOUS
  <2> HIDE DEF n
  <2>6. n \in Nat /\ Len(FramesOf(input[e])) = n + 2
    BY <2>2
  <2>7. CASE f = 1
    <3>1. FrameAt(e, f).type = "name" /\ FrameAt(e, f).lens = <<1>>
      BY <2>2, <2>7
    <3>2. f # n + 2 /\ f \notin 2 .. (n + 2) - 1
      BY <2>2, <2>7
    <3>3. FrameAt(e, f).lens \in Seq(Lens) /\ Len(FrameAt(e, f).lens) = 1
      BY <2>4, <3>1
    <3>4. FrameAt(e, f).type \in Types
      BY <3>1 DEF Types
    <3>5. /\ FrameAt(e, f).type # "eof" /\ FrameAt(e, f).type # "line"
          /\ f # Len(FramesOf(input[e])) /\ f \notin 2 .. Len(FramesOf(input[e])) - 1
      BY <2>6, <3>1, <3>2
    <3>6. Len(FrameAt(e, f).lens) <= 2
      BY <3>3
    <3> QED
      BY <1>1, <2>7, <3>1, <3>3, <3>4, <3>5, <3>6, Zenon
  <2>8. CASE f \in 2 .. n + 1
    <3>1. f - 1 \in 1 .. n /\ (f - 1) + 1 = f
      BY <2>2, <2>8
    <3>2. FrameAt(e, f) = [type |-> "line", lens |-> <<input[e].lens[f - 1]>>]
      BY <2>2, <3>1
    <3>3. input[e].lens[f - 1] \in Lens
      BY <2>3, <3>1
    <3>4. FrameAt(e, f).type = "line" /\ FrameAt(e, f).lens = <<input[e].lens[f - 1]>>
      BY <3>2
    <3>5. f # 1 /\ f # n + 2 /\ f \in 2 .. (n + 2) - 1
      BY <2>2, <2>8
    <3> QED
      BY <1>1, <2>2, <2>5, <3>3, <3>4, <3>5 DEF Types
  <2>9. CASE f = n + 2
    <3>1. FrameAt(e, f).type = "eof" /\ FrameAt(e, f).lens = <<>>
      BY <2>2, <2>9
    <3>2. f # 1 /\ f \notin 2 .. (n + 2) - 1
      BY <2>2, <2>9
    <3>3. FrameAt(e, f).lens \in Seq(Lens) /\ Len(FrameAt(e, f).lens) = 0
      BY <2>4, <3>1
    <3>4. FrameAt(e, f).type \in Types
      BY <3>1 DEF Types
    <3> QED
      BY <1>1, <2>9, <2>6, <3>1, <3>2, <3>3, <3>4
  <2> QED
    BY <2>2, <2>7, <2>8, <2>9
<1>2. CASE channel # "lines"
  <2>1. FramesOf(input[e]) = <<Frame("pair", input[e].lens)>> /\ input[e].lens \in Lens \X Lens
    BY <1>2, Entries DEF FramesOf
  <2>2. f = 1 /\ FrameAt(e, 1) = Frame("pair", input[e].lens)
    BY <2>1 DEF FrameAt
  <2>3. FrameAt(e, f).type = "pair" /\ FrameAt(e, f).lens = input[e].lens
    BY <2>2 DEF Frame
  <2>4. FrameAt(e, f).lens \in Seq(Lens) /\ Len(FrameAt(e, f).lens) = 2
    BY <2>1, <2>3, PairLens
  <2>5. FrameAt(e, f).type \in Types
    BY <2>3 DEF Types
  <2>6. Len(FrameAt(e, f).lens) <= 2
    BY <2>4
  <2> QED
    BY <1>2, <2>2, <2>3, <2>4, <2>5, <2>6, Zenon
<1> QED
  BY <1>1, <1>2

--------------------------------------------------------------------------------
(***************************************************************************)
(* Positions and cells                                                     *)
(***************************************************************************)

\* The input does not change, and so nothing that is said of it.
LEMMA Fixed ==
  ASSUME input' = input
  PROVE  /\ \A p : Lengths(p)' = Lengths(p) /\ PartLen(p)' = PartLen(p)
         /\ \A p : Place(p)' <=> Place(p)
         /\ \A c : CellOK(c)' <=> CellOK(c)
         /\ \A p : After(p)' = After(p)
         /\ \A p, q : Same(p, q)' <=> Same(p, q)
         /\ \A e : Items(e)' = Items(e) /\ Upto(e)' = Upto(e)
         /\ Expected' = Expected
<1>1. \A p : Lengths(p)' = Lengths(p)
  BY DEF Lengths, FrameAt
<1>2. \A p : PartLen(p)' = PartLen(p)
  BY <1>1 DEF PartLen
<1>3. \A p : Place(p)' <=> Place(p)
  BY <1>1 DEF Place
<1>4. \A c : CellOK(c)' <=> CellOK(c)
  BY <1>2, <1>3 DEF CellOK
<1>5. \A p : After(p)' = After(p)
  BY <1>1 DEF After
<1>6. \A p, q : Same(p, q)' <=> Same(p, q)
  BY DEF Same
<1>7. \A e : Items(e)' = Items(e)
  BY DEF Items
<1>8. \A e : Upto(e)' = Upto(e)
  BY <1>7 DEF Upto
<1>9. Expected' = Expected
  BY <1>8 DEF Expected
<1> QED
  BY <1>1, <1>2, <1>3, <1>4, <1>5, <1>6, <1>7, <1>8, <1>9

\* The same for the cells between two positions.
LEMMA FixedLinks ==
  ASSUME input' = input
  PROVE  \A flow, p, q, n : Linked(flow, p, q, n)' <=> Linked(flow, p, q, n)
<1>1. \A flow : Run(flow)' <=> Run(flow)
  BY Fixed DEF Run
<1>2. \A p, c : Starts(p, c)' <=> Starts(p, c)
  BY Fixed DEF Starts
<1>3. \A c, q, n : Ends(c, q, n)' <=> Ends(c, q, n)
  BY Fixed DEF Ends
<1> QED
  BY <1>1, <1>2, <1>3, Fixed DEF Linked

\* Every part has a cell.
LEMMA PartLenPos ==
  ASSUME DataOK, NEW p \in Places, Place(p)
  PROVE  /\ PartLen(p) \in Nat /\ PartLen(p) >= 1
         /\ p[3] = 0 => PartLen(p) = H
         /\ p[3] > 0 => PartLen(p) = Lengths(p)[p[3]] /\ PartLen(p) <= MaxLen
<1>1. Lengths(p) \in Seq(Lens)
  BY FrameKind DEF Place, Lengths
<1>2. CASE p[3] = 0
  BY <1>2, Bounds DEF PartLen
<1>3. CASE p[3] # 0
  <2>1. p[3] \in 1 .. Len(Lengths(p)) /\ Lengths(p)[p[3]] > 0
    BY <1>1, <1>3 DEF Place
  <2>2. Lengths(p)[p[3]] \in Lens
    BY <1>1, <2>1, Element
  <2>3. PartLen(p) = Lengths(p)[p[3]]
    BY <1>3 DEF PartLen
  <2> QED
    BY <1>3, <2>1, <2>2, <2>3, Bounds
<1> QED
  BY <1>2, <1>3

\* Where a part leads: to a part, or to the next entry.
LEMMA AfterPlace ==
  ASSUME DataOK, NEW p \in Places, Place(p)
  PROVE  /\ After(p) \in Places
         /\ After(p)[1] \in 1 .. Len(input) + 1
         /\ After(p)[2] = 0 => After(p)[3] = 0
         /\ After(p)[2] > 0 => Place(After(p))
<1>0. /\ p[1] \in 1 .. Len(input) /\ p[2] \in 1 .. Len(FramesOf(input[p[1]]))
      /\ Len(input) \in Nat /\ Len(FramesOf(input[p[1]])) \in Nat
  BY InputLen, Frames DEF Place
<1>1. Lengths(p) \in Seq(Lens) /\ Len(Lengths(p)) <= 2
  BY <1>0, FrameKind DEF Lengths
<1>2. CASE NextParts(Lengths(p), p[3]) # {}
  <2> DEFINE q == Min(NextParts(Lengths(p), p[3]))
  <2>1. q \in 1 .. Len(Lengths(p)) /\ Lengths(p)[q] > 0
    BY <1>1, <1>2, NextPart DEF Places
  <2>2. After(p) = <<p[1], p[2], q>>
    BY <1>2 DEF After
  <2>3. Lengths(<<p[1], p[2], q>>) = Lengths(p)
    BY DEF Lengths
  <2> HIDE DEF q
  <2>4. Place(<<p[1], p[2], q>>)
    BY <1>0, <1>1, <2>1, <2>3 DEF Place
  <2>5. q \in Nat
    BY <1>1, <2>1
  <2> QED
    BY <1>0, <2>2, <2>4, <2>5 DEF Places
<1>3. CASE NextParts(Lengths(p), p[3]) = {} /\ p[2] < Len(FramesOf(input[p[1]]))
  <2>1. After(p) = <<p[1], p[2] + 1, 0>>
    BY <1>3 DEF After
  <2>2. Place(<<p[1], p[2] + 1, 0>>)
    BY <1>0, <1>3 DEF Place
  <2> QED
    BY <1>0, <2>1, <2>2 DEF Places
<1>4. CASE NextParts(Lengths(p), p[3]) = {} /\ ~(p[2] < Len(FramesOf(input[p[1]])))
  <2>1. After(p) = <<p[1] + 1, 0, 0>>
    BY <1>4 DEF After
  <2> QED
    BY <1>0, <2>1 DEF Places
<1> QED
  BY <1>2, <1>3, <1>4

\* What is handed on of an entry.
LEMMA ItemsAre ==
  ASSUME DataOK, NEW e \in 1 .. Len(input)
  PROVE  /\ Items(e) \in Seq(Item)
         /\ input[e].kind = "skip" => Items(e) = <<>>
         /\ channel = "lines" /\ input[e].kind # "skip" =>
              /\ Len(Items(e)) = Len(FramesOf(input[e])) - 2
              /\ \A k \in 1 .. Len(Items(e)) :
                   Items(e)[k] = [msg |-> <<e, k + 1>>, file |-> e, number |-> k]
         /\ channel # "lines" => Items(e) = <<[msg |-> <<e, 1>>, file |-> 0, number |-> 0]>>
<1>0. e \in Nat /\ e + 1 \in Nat
  BY InputLen
<1>1. CASE input[e].kind = "file"
  <2> DEFINE n == Len(input[e].lens)
  <2>1. channel = "lines" /\ input[e].lens \in Seq(Lens)
    BY <1>1, Entries
  <2>2. n \in Nat /\ DOMAIN input[e].lens = 1 .. n /\ Len(FramesOf(input[e])) = n + 2
    BY <1>1, <2>1, Frames
  <2>3. Items(e) = [k \in 1 .. n |-> [msg |-> <<e, k + 1>>, file |-> e, number |-> k]]
    BY <1>1, <2>2 DEF Items
  <2> HIDE DEF n
  <2>4. ASSUME NEW k \in 1 .. n PROVE [msg |-> <<e, k + 1>>, file |-> e, number |-> k] \in Item
    BY <1>0, <2>2 DEF Item
  <2>5. Items(e) \in Seq(Item) /\ Len(Items(e)) = n
    BY <2>2, <2>3, <2>4
  <2>6. \A k \in 1 .. n : Items(e)[k] = [msg |-> <<e, k + 1>>, file |-> e, number |-> k]
    BY <2>3
  <2> QED
    BY <1>1, <2>1, <2>2, <2>5, <2>6
<1>2. CASE input[e].kind = "skip"
  <2>1. Items(e) = <<>>
    BY <1>2 DEF Items
  <2>2. Items(e) \in Seq(Item)
    BY <2>1
  <2>3. channel = "lines"
    BY <1>2, Entries
  <2> QED
    BY <1>2, <2>1, <2>2, <2>3, Zenon
<1>3. CASE input[e].kind = "emit"
  <2>1. Items(e) = <<[msg |-> <<e, 1>>, file |-> 0, number |-> 0]>>
    BY <1>3 DEF Items
  <2>2. [msg |-> <<e, 1>>, file |-> 0, number |-> 0] \in Item
    BY <1>0 DEF Item
  <2>3. Items(e) \in Seq(Item)
    BY <2>1, <2>2
  <2>4. channel # "lines" /\ input[e].kind # "skip"
    BY <1>3, Entries
  <2> QED
    BY <2>1, <2>3, <2>4, Zenon
<1> QED
  BY <1>1, <1>2, <1>3, Entries

\* What is handed on of the first entries, one entry at a time.
LEMMA UptoAre ==
  ASSUME DataOK
  PROVE  /\ Upto(0) = <<>>
         /\ \A e \in 0 .. Len(input) : Upto(e) \in Seq(Item)
         /\ \A e \in 1 .. Len(input) : Upto(e) = Upto(e - 1) \o Items(e)
<1> DEFINE S == {e \in Nat : e <= Len(input) => Upto(e) \in Seq(Item)}
<1>0. Len(input) \in Nat
  BY InputLen
<1>1. 0 \in S
  <2>1. <<>> \in Seq(Item)
    OBVIOUS
  <2> QED
    BY <2>1, UptoStep
<1>2. ASSUME NEW e \in Nat, e \in S PROVE e + 1 \in S
  <2> SUFFICES ASSUME e + 1 <= Len(input) PROVE Upto(e + 1) \in Seq(Item)
    OBVIOUS
  <2>1. Upto(e) \in Seq(Item)
    BY <1>0, <1>2
  <2>2. Items(e + 1) \in Seq(Item)
    BY <1>0, ItemsAre
  <2> QED
    <3>1. Upto(e) \o Items(e + 1) \in Seq(Item)
      BY <2>1, <2>2
    <3>2. Upto(e + 1) = Upto(e) \o Items(e + 1)
      BY <2>1, <2>2, UptoStep
    <3> QED
      BY <3>1, <3>2
<1> HIDE DEF S
<1>3. \A e \in Nat : e \in S
  BY <1>1, <1>2, Induction
<1>4. \A e \in 0 .. Len(input) : Upto(e) \in Seq(Item)
  BY <1>0, <1>3 DEF S
<1>5. ASSUME NEW e \in 1 .. Len(input) PROVE Upto(e) = Upto(e - 1) \o Items(e)
  <2>1. e - 1 \in Nat /\ (e - 1) + 1 = e /\ e - 1 \in 0 .. Len(input)
    BY <1>0
  <2>2. Items((e - 1) + 1) \in Seq(Item) /\ Upto(e - 1) \in Seq(Item)
    BY <1>4, <2>1, ItemsAre
  <2> QED
    BY <2>1, <2>2, UptoStep
<1> QED
  BY <1>4, <1>5, UptoStep

\* Nothing is handed on of what is skipped.
LEMMA Skipped ==
  ASSUME DataOK, NEW p \in Places, NEW q \in Places, Same(p, q),
         p[1] >= 1, q[1] <= Len(input) + 1
  PROVE  p[1] <= q[1] /\ Upto(q[1] - 1) = Upto(p[1] - 1)
<1>0. p[1] \in Nat /\ q[1] \in Nat /\ Len(input) \in Nat /\ p[1] <= q[1]
  BY InputLen DEF Places, Same
<1> DEFINE S == {n \in Nat : n >= p[1] - 1 /\ n <= q[1] - 1 => Upto(n) = Upto(p[1] - 1)}
<1>1. 0 \in S
  BY <1>0
<1>2. ASSUME NEW n \in Nat, n \in S PROVE n + 1 \in S
  <2> SUFFICES ASSUME n + 1 >= p[1] - 1, n + 1 <= q[1] - 1
               PROVE  Upto(n + 1) = Upto(p[1] - 1)
    OBVIOUS
  <2>1. CASE n + 1 = p[1] - 1
    BY <2>1
  <2>2. CASE n + 1 # p[1] - 1
    <3>1. n + 1 \in p[1] .. q[1] - 1 /\ n + 1 \in 1 .. Len(input) /\ n \in 0 .. Len(input)
      BY <1>0, <2>2
    <3>2. input[n + 1].kind = "skip"
      BY <1>0, <3>1 DEF Same
    <3>3. Items(n + 1) = <<>>
      BY <3>1, <3>2, ItemsAre
    <3>4. Upto(n + 1) = Upto((n + 1) - 1) \o Items(n + 1) /\ (n + 1) - 1 = n
      BY <3>1, UptoAre
    <3>5. Upto(n) \in Seq(Item)
      BY <3>1, UptoAre
    <3>6. Upto(n + 1) = Upto(n)
      BY <3>3, <3>4, <3>5
    <3> QED
      BY <1>0, <1>2, <3>1, <3>6
  <2> QED
    BY <2>1, <2>2
<1> HIDE DEF S
<1>3. \A n \in Nat : n \in S
  BY <1>1, <1>2, Induction
<1>4. q[1] - 1 \in S
  BY <1>0, <1>3
<1> QED
  BY <1>0, <1>4 DEF S

\* What the first entries make is a prefix of what more entries make.
LEMMA UptoPrefix ==
  ASSUME DataOK, NEW i \in 0 .. Len(input), NEW j \in i .. Len(input)
  PROVE  IsPrefix(Upto(i), Upto(j))
<1>0. i \in Nat /\ j \in Nat /\ i <= j /\ Len(input) \in Nat
  BY InputLen
<1> DEFINE S == {n \in Nat : n >= i /\ n <= Len(input) => IsPrefix(Upto(i), Upto(n))}
<1>1. IsPrefix(Upto(i), Upto(i))
  <2>1. Upto(i) \in Seq(Item)
    BY UptoAre
  <2> QED
    BY <2>1 DEF IsPrefix
<1>2. 0 \in S
  BY <1>0, <1>1
<1>3. ASSUME NEW n \in Nat, n \in S PROVE n + 1 \in S
  <2> SUFFICES ASSUME n + 1 >= i, n + 1 <= Len(input), n + 1 # i
               PROVE  IsPrefix(Upto(i), Upto(n + 1))
    BY <1>1
  <2>1. n >= i /\ n \in 0 .. Len(input) /\ n + 1 \in 1 .. Len(input) /\ (n + 1) - 1 = n
    BY <1>0
  <2>2. IsPrefix(Upto(i), Upto(n))
    BY <1>3, <2>1
  <2>3. Upto(n + 1) = Upto(n) \o Items(n + 1)
    BY <2>1, UptoAre
  <2>4. Upto(i) \in Seq(Item) /\ Upto(n) \in Seq(Item) /\ Items(n + 1) \in Seq(Item)
    BY <2>1, UptoAre, ItemsAre
  <2> QED
    BY <2>2, <2>3, <2>4 DEF IsPrefix
<1> HIDE DEF S
<1>4. \A n \in Nat : n \in S
  BY <1>2, <1>3, Induction
<1> QED
  BY <1>0, <1>4 DEF S

\* The cells of a part belong to it.
LEMMA CellParts ==
  ASSUME NEW p \in Places, NEW i \in Nat
  PROVE  /\ Cell(p, i) \in Cells /\ Cell(p, i)[4] = i
         /\ Cell(p, i)[1] = p[1] /\ Cell(p, i)[2] = p[2] /\ Cell(p, i)[3] = p[3]
         /\ <<Cell(p, i)[1], Cell(p, i)[2], Cell(p, i)[3]>> = p
         /\ PartLen(Cell(p, i)) = PartLen(p) /\ After(Cell(p, i)) = After(p)
         /\ Place(Cell(p, i)) <=> Place(p)
         /\ \A j : Cell(Cell(p, i), j) = Cell(p, j)
<1>1. /\ Cell(p, i) \in Cells /\ Cell(p, i)[4] = i
      /\ Cell(p, i)[1] = p[1] /\ Cell(p, i)[2] = p[2] /\ Cell(p, i)[3] = p[3]
      /\ <<Cell(p, i)[1], Cell(p, i)[2], Cell(p, i)[3]>> = p
  BY DEF Cell, Cells, Places
<1>2. \A j : Cell(Cell(p, i), j) = Cell(p, j)
  BY DEF Cell, Places
<1>3. Lengths(Cell(p, i)) = Lengths(p)
  BY <1>1 DEF Lengths
<1>4. PartLen(Cell(p, i)) = PartLen(p)
  BY <1>1, <1>3 DEF PartLen
<1>5. After(Cell(p, i)) = After(p)
  BY <1>1, <1>3 DEF After
<1>6. Place(Cell(p, i)) <=> Place(p)
  BY <1>1, <1>3 DEF Place
<1> QED
  BY <1>1, <1>2, <1>4, <1>5, <1>6

\* A cell is a cell of its part.
LEMMA CellOf ==
  ASSUME DataOK, NEW c \in Cells, CellOK(c)
  PROVE  \E p \in Places : \E i \in 1 .. PartLen(p) :
           Place(p) /\ PartLen(p) \in Nat /\ c = Cell(p, i) /\ p = <<c[1], c[2], c[3]>>
<1> DEFINE p == <<c[1], c[2], c[3]>>
<1>1. p \in Places /\ c[4] \in Nat /\ c = Cell(p, c[4])
  BY DEF Cells, Places, Cell
<1> HIDE DEF p
<1>2. Place(p) /\ PartLen(c) = PartLen(p)
  BY <1>1, CellParts DEF CellOK
<1>3. PartLen(p) \in Nat /\ c[4] \in 1 .. PartLen(p)
  BY <1>1, <1>2, PartLenPos DEF CellOK
<1> QED
  BY <1>1, <1>2, <1>3 DEF p

--------------------------------------------------------------------------------
(***************************************************************************)
(* The cells between the two processes                                     *)
(***************************************************************************)

\* The last cell of a run before n cells behind q, when more of q is to come.
LEMMA LastCell ==
  ASSUME DataOK, NEW q \in Places, Place(q), NEW n \in Nat, n < PartLen(q),
         NEW c \in Cells, CellOK(c), Ends(c, q, n)
  PROVE  /\ c[4] < PartLen(c) => n > 0 /\ c = Cell(q, n) /\ PartLen(c) = PartLen(q)
         /\ c[4] = PartLen(c) => n = 0 /\ Same(After(c), q)
<1>1. CASE n > 0
  <2>1. c = Cell(q, n)
    BY <1>1 DEF Ends
  <2>2. c[4] = n /\ PartLen(c) = PartLen(q)
    BY <2>1, CellParts
  <2>3. PartLen(q) \in Nat /\ n # PartLen(q)
    BY PartLenPos
  <2> QED
    BY <1>1, <2>1, <2>2, <2>3
<1>2. CASE n = 0
  <2>1. c[4] = PartLen(c) /\ Same(After(c), q)
    BY <1>2 DEF Ends
  <2>2. c[4] \in Nat
    BY DEF Cells
  <2> QED
    BY <1>2, <2>1, <2>2
<1> QED
  BY <1>1, <1>2

\* write appends the next cells of the part at q.
LEMMA LinkAppend ==
  ASSUME DataOK, NEW flow \in Seq(Cells), \A k \in 1 .. Len(flow) : CellOK(flow[k]),
         NEW p, NEW q \in Places, Place(q), NEW n \in Nat, n < PartLen(q),
         NEW m \in Nat, m >= 1, n + m <= PartLen(q), Linked(flow, p, q, n)
  PROVE  LET all == flow \o [k \in 1 .. m |-> Cell(q, n + k)] IN
           IF n + m = PartLen(q) THEN Linked(all, p, After(q), 0) ELSE Linked(all, p, q, n + m)
<1> DEFINE w == [k \in 1 .. m |-> Cell(q, n + k)]
           all == flow \o w
           L == Len(flow)
<1>0. PartLen(q) \in Nat /\ L \in Nat
  BY PartLenPos
<1>1. \A k \in 1 .. m : Cell(q, n + k) \in Cells
  BY CellParts
<1>2. w \in Seq(Cells) /\ Len(w) = m
  BY <1>1
<1>3. \A k \in 1 .. m : w[k] = Cell(q, n + k)
  OBVIOUS
<1> HIDE DEF w
<1>4. all \in Seq(Cells) /\ Len(all) = L + m /\ all # <<>>
  BY <1>2, <1>0
<1>5. \A k \in 1 .. L : all[k] = flow[k]
  BY <1>2
<1>6. \A k \in L + 1 .. L + m : all[k] = Cell(q, n + (k - L))
  <2> TAKE k \in L + 1 .. L + m
  <2>1. k - L \in 1 .. m /\ all[k] = w[k - L]
    BY <1>0, <1>2
  <2> QED
    BY <2>1, <1>3
<1>6a. all[L + 1] = Cell(q, n + 1) /\ all[L + m] = Cell(q, n + m)
  <2>1. L + 1 \in L + 1 .. L + m /\ L + m \in L + 1 .. L + m
        /\ (L + 1) - L = 1 /\ (L + m) - L = m
    BY <1>0
  <2> QED
    BY <2>1, <1>6
<1> HIDE DEF all
<1>7. \A k \in L + 1 .. L + m :
        all[k][4] = n + (k - L) /\ PartLen(all[k]) = PartLen(q) /\ After(all[k]) = After(q)
  BY <1>0, <1>6, CellParts
<1>8. Starts(p, all[1])
  <2>1. CASE flow = <<>>
    <3>1. n = 0 /\ Same(p, q) /\ L = 0
      BY <2>1 DEF Linked
    <3>2. all[1] = Cell(q, 1)
      BY <3>1, <1>6a
    <3> QED
      BY <3>1, <3>2, CellParts DEF Starts
  <2>2. CASE flow # <<>>
    <3>1. 1 \in 1 .. L
      BY <2>2, <1>0
    <3> QED
      BY <3>1, <2>2, <1>5 DEF Linked
  <2> QED
    BY <2>1, <2>2
<1>9. flow # <<>> => /\ L \in 1 .. L /\ flow[L] \in Cells /\ CellOK(flow[L])
                     /\ Ends(flow[L], q, n)
  BY <1>0 DEF Linked
<1>10. ASSUME NEW k \in 1 .. Len(all) - 1, all[k][4] = PartLen(all[k])
       PROVE  Starts(After(all[k]), all[k + 1])
  <2>1. CASE k < L
    <3>1. k \in 1 .. Len(flow) - 1 /\ k \in 1 .. L /\ k + 1 \in 1 .. L
      BY <1>0, <2>1
    <3> QED
      BY <3>1, <1>5, <1>10 DEF Linked
  <2>2. CASE k = L
    <3>1. flow # <<>> /\ k \in 1 .. L
      BY <2>2, <1>0
    <3>2. all[k] = flow[L]
      BY <2>2, <3>1, <1>5
    <3>3. n = 0 /\ Same(After(all[k]), q)
      BY <3>1, <3>2, <1>9, <1>10, LastCell
    <3>4. all[k + 1] = Cell(q, 1)
      BY <2>2, <3>3, <1>6a
    <3> QED
      BY <3>3, <3>4, CellParts DEF Starts
  <2>3. CASE k > L
    <3>1. k \in L + 1 .. L + m /\ k - L < m
      BY <1>0, <1>4, <2>3
    <3> QED
      BY <1>0, <1>7, <1>10, <3>1
  <2> QED
    BY <1>0, <2>1, <2>2, <2>3
<1>11. ASSUME NEW k \in 1 .. Len(all), NEW j \in k .. Len(all),
              j - k <= PartLen(all[k]) - all[k][4]
       PROVE  all[j] = Cell(all[k], all[k][4] + (j - k))
  <2>1. CASE j <= L
    <3>1. k \in 1 .. L /\ j \in k .. Len(flow) /\ j \in 1 .. L
      BY <1>0, <2>1
    <3> QED
      BY <3>1, <1>5, <1>11 DEF Linked, Run
  <2>2. CASE j > L /\ k <= L
    <3>1. k \in 1 .. L /\ L \in k .. Len(flow) /\ flow # <<>>
      BY <1>0, <2>2
    <3>2. PICK r \in Places : \E i \in 1 .. PartLen(r) : PartLen(r) \in Nat /\ flow[k] = Cell(r, i)
      <4>1. flow[k] \in Cells /\ CellOK(flow[k])
        BY <3>1
      <4> QED
        BY <4>1, CellOf
    <3>3. PICK i \in 1 .. PartLen(r) : PartLen(r) \in Nat /\ flow[k] = Cell(r, i)
      BY <3>2
    <3>4. i \in Nat /\ all[k] = Cell(r, i) /\ all[k][4] = i /\ PartLen(all[k]) = PartLen(r)
          /\ flow[k][4] = i /\ PartLen(flow[k]) = PartLen(r)
      BY <3>1, <3>3, <1>5, CellParts
    <3>5. j - k <= PartLen(r) - i /\ j > L /\ k <= L /\ j \in Nat /\ k \in Nat
      BY <1>0, <1>4, <1>11, <2>2, <3>4
    <3>6. L - k <= PartLen(r) - i /\ i + (L - k) < PartLen(r) /\ i + (L - k) \in Nat
      BY <1>0, <3>3, <3>4, <3>5, SMTT(30)
    <3>7. flow[L] = Cell(Cell(r, i), i + (L - k))
      BY <3>1, <3>3, <3>4, <3>6 DEF Linked, Run
    <3>8. flow[L] = Cell(r, i + (L - k))
      BY <3>4, <3>7, CellParts
    <3>9. flow[L][4] = i + (L - k) /\ PartLen(flow[L]) = PartLen(r)
          /\ r = <<flow[L][1], flow[L][2], flow[L][3]>>
      BY <3>6, <3>8, CellParts
    <3>10. n > 0 /\ flow[L] = Cell(q, n)
      BY <3>1, <3>6, <3>9, <1>9, LastCell
    <3>10a. n = i + (L - k) /\ r = q
      BY <3>9, <3>10, CellParts
    <3>10b. j \in L + 1 .. L + m
      BY <1>0, <1>4, <3>5
    <3>10c. n + (j - L) = i + (j - k)
      <4>1. \A x, y, z \in Int : (i + (x - y)) + (z - x) = i + (z - y)
        BY <3>4
      <4> QED
        BY <1>0, <3>5, <3>10a, <4>1
    <3>11. all[j] = Cell(q, i + (j - k))
      BY <3>10b, <3>10c, <1>6
    <3>12. Cell(all[k], i + (j - k)) = Cell(q, i + (j - k))
      BY <3>4, <3>10a, CellParts
    <3> QED
      BY <3>4, <3>11, <3>12
  <2>3. CASE k > L
    <3>1. k \in L + 1 .. L + m /\ j \in L + 1 .. L + m
      BY <1>0, <1>4, <2>3
    <3>2. all[k] = Cell(q, n + (k - L)) /\ all[k][4] = n + (k - L) /\ n + (k - L) \in Nat
      BY <1>0, <1>6, <1>7, <3>1
    <3>3. all[j] = Cell(q, n + (j - L))
      BY <1>6, <3>1
    <3>4. n + (j - L) = (n + (k - L)) + (j - k)
      BY <1>0, <3>1
    <3>5. Cell(all[k], n + (j - L)) = Cell(q, n + (j - L))
      BY <3>2, CellParts
    <3> QED
      BY <3>2, <3>3, <3>4, <3>5
  <2> QED
    BY <1>0, <2>1, <2>2, <2>3
<1>12. Run(all)
  BY <1>11 DEF Run
<1>13. Linked(all, p, After(q), 0) \/ n + m # PartLen(q)
  <2> SUFFICES ASSUME n + m = PartLen(q) PROVE Linked(all, p, After(q), 0)
    OBVIOUS
  <2>1. all[Len(all)] = Cell(q, n + m)
    BY <1>4, <1>6a
  <2>2. Same(After(q), After(q))
    BY DEF Same
  <2>3. Ends(all[Len(all)], After(q), 0)
    BY <2>1, <2>2, CellParts DEF Ends
  <2> QED
    BY <2>3, <1>4, <1>8, <1>10, <1>12 DEF Linked
<1>14. Linked(all, p, q, n + m) \/ n + m = PartLen(q)
  <2>1. all[Len(all)] = Cell(q, n + m)
    BY <1>4, <1>6a
  <2>2. Ends(all[Len(all)], q, n + m)
    BY <2>1 DEF Ends
  <2> QED
    BY <2>2, <1>4, <1>8, <1>10, <1>12 DEF Linked
<1> QED
  BY <1>13, <1>14 DEF all, w

\* What the receiver has read of a part are its first cells.
LEMMA LinkHead ==
  ASSUME DataOK, NEW g \in Seq(Cells), NEW rest \in Seq(Cells), g # <<>>,
         \A k \in 1 .. Len(g) : CellOK(g[k]), Len(g) <= PartLen(g[1]),
         NEW p, NEW q, NEW n, Linked(g \o rest, p, q, n)
  PROVE  \E r \in Places : /\ Place(r) /\ PartLen(r) \in Nat /\ Len(g) <= PartLen(r)
                           /\ r = <<g[1][1], g[1][2], g[1][3]>>
                           /\ Same(p, r) /\ g = [k \in 1 .. Len(g) |-> Cell(r, k)]
<1> DEFINE all == g \o rest
<1>1. /\ Len(g) \in Nat /\ Len(g) >= 1 /\ all # <<>> /\ Len(all) = Len(g) + Len(rest)
      /\ Len(rest) \in Nat /\ \A k \in 1 .. Len(g) : all[k] = g[k]
  OBVIOUS
<1> HIDE DEF all
<1>2. 1 \in 1 .. Len(g) /\ 1 \in 1 .. Len(all) /\ all[1] = g[1]
  BY <1>1
<1>3. g[1] \in Cells /\ CellOK(g[1])
  BY <1>2
<1>4. PICK r \in Places : \E i \in 1 .. PartLen(r) :
           Place(r) /\ PartLen(r) \in Nat /\ g[1] = Cell(r, i) /\ r = <<g[1][1], g[1][2], g[1][3]>>
  BY <1>3, CellOf
<1>5. PICK i \in 1 .. PartLen(r) : Place(r) /\ PartLen(r) \in Nat /\ g[1] = Cell(r, i)
                                   /\ r = <<g[1][1], g[1][2], g[1][3]>>
  BY <1>4
<1>6. Starts(p, g[1])
  BY <1>1, <1>2 DEF Linked, all
<1>7. i \in Nat /\ g[1][4] = i /\ PartLen(g[1]) = PartLen(r)
  BY <1>5, CellParts
<1>8. i = 1 /\ Same(p, r)
  BY <1>5, <1>6, <1>7 DEF Starts
<1>9. ASSUME NEW j \in 1 .. Len(g) PROVE g[j] = Cell(r, j)
  <2>1. j \in 1 .. Len(all) /\ j - 1 <= PartLen(all[1]) - all[1][4] /\ all[j] = g[j]
    BY <1>1, <1>2, <1>5, <1>7, <1>8
  <2>2. all[j] = Cell(all[1], all[1][4] + (j - 1))
    BY <1>2, <2>1 DEF Linked, Run, all
  <2>3. all[1][4] + (j - 1) = j
    BY <1>2, <1>7, <1>8
  <2>4. Cell(all[1], j) = Cell(r, j)
    BY <1>2, <1>5, <1>7, CellParts
  <2> QED
    BY <2>1, <2>2, <2>3, <2>4
<1>10. g = [k \in 1 .. Len(g) |-> Cell(r, k)]
  BY <1>1, <1>9
<1> QED
  BY <1>5, <1>7, <1>8, <1>10

\* The receiver has taken a part and reads on behind it.
LEMMA LinkTake ==
  ASSUME DataOK, NEW r \in Places, Place(r),
         NEW g \in Seq(Cells), Len(g) = PartLen(r), \A k \in 1 .. Len(g) : g[k] = Cell(r, k),
         NEW rest \in Seq(Cells), NEW p, NEW q \in Places, NEW n \in Nat,
         n > 0 => Place(q) /\ n < PartLen(q), Linked(g \o rest, p, q, n)
  PROVE  Linked(rest, After(r), q, n)
<1> DEFINE all == g \o rest
           L == Len(g)
<1>1. L \in Nat /\ L >= 1 /\ Len(rest) \in Nat /\ all # <<>> /\ Len(all) = L + Len(rest)
  BY PartLenPos
<1>2. \A k \in 1 .. L : all[k] = g[k]
  OBVIOUS
<1>3. \A k \in 1 .. Len(rest) : all[L + k] = rest[k]
  BY <1>1
<1> HIDE DEF all
<1>4. Linked(all, p, q, n)
  BY DEF all
<1>5. L \in 1 .. L /\ all[L] = Cell(r, L) /\ all[L][4] = PartLen(all[L]) /\ After(all[L]) = After(r)
  BY <1>1, <1>2, CellParts
<1>6. rest = <<>> => n = 0 /\ Same(After(r), q)
  <2> SUFFICES ASSUME rest = <<>> PROVE n = 0 /\ Same(After(r), q)
    OBVIOUS
  <2>1. Len(all) = L
    BY <1>1
  <2>2. Ends(all[L], q, n)
    BY <1>1, <1>4, <2>1 DEF Linked
  <2>3. n = 0
    <3> SUFFICES ASSUME n > 0 PROVE FALSE
      OBVIOUS
    <3>1. all[L] = Cell(q, n)
      BY <2>2 DEF Ends
    <3>2. all[L][4] = n /\ PartLen(all[L]) = PartLen(q)
      BY <3>1, CellParts
    <3>3. n = PartLen(q)
      BY <1>5, <3>2
    <3>4. n < PartLen(q)
      OBVIOUS
    <3> QED
      BY <3>3, <3>4
  <2>4. Same(After(all[L]), q)
    BY <2>2, <2>3 DEF Ends
  <2> QED
    BY <2>3, <2>4, <1>5
<1>7. rest # <<>> => Starts(After(r), rest[1]) /\ Ends(rest[Len(rest)], q, n)
  <2> SUFFICES ASSUME rest # <<>> PROVE Starts(After(r), rest[1]) /\ Ends(rest[Len(rest)], q, n)
    OBVIOUS
  <2>1. Len(rest) >= 1 /\ 1 \in 1 .. Len(rest) /\ Len(rest) \in 1 .. Len(rest)
    BY <1>1
  <2>2. L \in 1 .. Len(all) - 1
    BY <1>1, <2>1
  <2>3. Starts(After(all[L]), all[L + 1])
    BY <1>4, <1>5, <2>2 DEF Linked
  <2>4. all[L + 1] = rest[1] /\ all[Len(all)] = rest[Len(rest)]
    BY <1>1, <1>3, <2>1
  <2> QED
    BY <1>1, <1>4, <1>5, <2>3, <2>4 DEF Linked
<1>8. ASSUME NEW k \in 1 .. Len(rest) - 1, rest[k][4] = PartLen(rest[k])
      PROVE  Starts(After(rest[k]), rest[k + 1])
  <2>1. L + k \in 1 .. Len(all) - 1 /\ (L + k) + 1 = L + (k + 1)
    BY <1>1, SMTT(30)
  <2>2. all[L + k] = rest[k] /\ all[L + (k + 1)] = rest[k + 1]
    BY <1>1, <1>3
  <2> QED
    BY <1>4, <1>8, <2>1, <2>2 DEF Linked
<1>9. ASSUME NEW k \in 1 .. Len(rest), NEW j \in k .. Len(rest),
             j - k <= PartLen(rest[k]) - rest[k][4]
      PROVE  rest[j] = Cell(rest[k], rest[k][4] + (j - k))
  <2>1. L + k \in 1 .. Len(all) /\ L + j \in L + k .. Len(all) /\ (L + j) - (L + k) = j - k
        /\ j \in 1 .. Len(rest)
    BY <1>1
  <2>2. all[L + k] = rest[k] /\ all[L + j] = rest[j]
    BY <1>3, <2>1
  <2> QED
    BY <1>4, <1>9, <2>1, <2>2 DEF Linked, Run
<1> QED
  BY <1>6, <1>7, <1>8, <1>9 DEF Linked, Run

\* A position further on between the same cells.
LEMMA LinkSame ==
  ASSUME DataOK, NEW flow \in Seq(Cells), \A k \in 1 .. Len(flow) : CellOK(flow[k]),
         NEW p \in Places, NEW q, NEW r, Linked(flow, p, q, 0),
         \A s \in Places : Same(s, q) => Same(s, r)
  PROVE  Linked(flow, p, r, 0)
<1>1. flow = <<>> => Same(p, r)
  BY DEF Linked
<1>2. flow # <<>> => Ends(flow[Len(flow)], r, 0)
  <2> SUFFICES ASSUME flow # <<>> PROVE Ends(flow[Len(flow)], r, 0)
    OBVIOUS
  <2>1. Len(flow) \in 1 .. Len(flow)
    OBVIOUS
  <2>2. PICK c : c = flow[Len(flow)]
    OBVIOUS
  <2>3. c \in Cells /\ CellOK(c) /\ Ends(c, q, 0)
    BY <2>1, <2>2 DEF Linked
  <2>4. After(c) \in Places
    <3>1. \E x \in Places : \E i \in 1 .. PartLen(x) : Place(x) /\ PartLen(x) \in Nat /\ c = Cell(x, i)
      BY <2>3, CellOf
    <3> QED
      BY <3>1, CellParts, AfterPlace
  <2> QED
    BY <2>2, <2>3, <2>4 DEF Ends
<1> QED
  BY <1>1, <1>2 DEF Linked

--------------------------------------------------------------------------------
(***************************************************************************)
(* The variables keep their types                                          *)
(***************************************************************************)

\* What an action leaves alone stays as it is.
LEMMA Keep ==
  ASSUME DataOK, UNCHANGED chosen
  PROVE  /\ InputOK'
         /\ UNCHANGED writer => SenderOK'
         /\ UNCHANGED <<pipe, reading>> => CellsOK'
         /\ UNCHANGED reading => ReadingOK'
         /\ UNCHANGED <<file, number, delivered>>
            /\ result' \in {"none", "end", "error", "abort", "killed"} => OutOK'
         /\ UNCHANGED budget /\ (sender' = "dead" => sender = "dead" \/ result # "none")
            /\ (result' = "none" => result = "none") => FaultsOK'
<1>1. input' = input /\ channel' = channel
  BY DEF chosen
<1>2. InputOK'
  BY <1>1 DEF DataOK, InputOK
<1>3. UNCHANGED writer => SenderOK'
  BY <1>1, Fixed DEF DataOK, SenderOK, writer
<1>4. UNCHANGED <<pipe, reading>> => CellsOK'
  BY <1>1, Fixed DEF DataOK, CellsOK, reading, Want
<1>5. UNCHANGED reading => ReadingOK'
  BY <1>1, Fixed DEF DataOK, ReadingOK, HeaderOK, FrameAt, reading
<1>6. UNCHANGED <<file, number, delivered>>
      /\ result' \in {"none", "end", "error", "abort", "killed"} => OutOK'
  BY <1>1 DEF DataOK, OutOK
<1>7. UNCHANGED budget /\ (sender' = "dead" => sender = "dead" \/ result # "none")
      /\ (result' = "none" => result = "none") => FaultsOK'
  BY DEF DataOK, FaultsOK, budget
<1> QED
  BY <1>2, <1>3, <1>4, <1>5, <1>6, <1>7

\* Initially the variables have their types.
LEMMA InitData == ASSUME Init PROVE DataOK /\ FlagsOK
<1>1. InputOK
  BY DEF Init, InputOK
<1>2. Len(input) \in Nat
  BY <1>1, InputsAssumption DEF InputOK, InputsAssumption
<1>3. SenderOK
  BY <1>2 DEF Init, SenderOK, Places
<1>4. <<>> \in Seq(Cells) /\ Len(<<>>) = 0 /\ <<>> \in Seq(Lens) /\ <<>> \in Seq(Item)
  OBVIOUS
<1>5. CellsOK
  BY <1>4, Bounds DEF Init, CellsOK, Want
<1>6. ReadingOK
  <2>1. hdr = [id |-> Damaged, type |-> "eof", lens |-> <<>>] /\ part = 0
    BY DEF Init
  <2>2. hdr \in Headers
    BY <1>4, <2>1 DEF Headers, Damaged, Types
  <2> QED
    BY <1>4, <2>1, <2>2 DEF ReadingOK, HeaderOK
<1>7. OutOK
  BY <1>2, <1>4 DEF Init, OutOK
<1>8. FaultsOK
  BY Bounds DEF Init, FaultsOK
<1> QED
  BY <1>1, <1>3, <1>5, <1>6, <1>7, <1>8 DEF DataOK, FlagsOK, Init

\* The next step to another entry.
LEMMA NextEntryData == ASSUME DataOK, NextEntry PROVE SenderOK'
<1>1. input' = input /\ sender' = sender /\ off' = off /\ sender = "sending" /\ Len(input) \in Nat
  BY InputLen DEF NextEntry, chosen, Sending
<1>2. pos \in Places /\ pos[1] \in 1 .. Len(input) /\ pos[2] = 0 /\ off = 0
  BY <1>1 DEF NextEntry, DataOK, SenderOK, Places
<1>3. CASE input[pos[1]].kind = "skip"
  <2>1. pos' = <<pos[1] + 1, 0, 0>>
    BY <1>3 DEF NextEntry
  <2> QED
    BY <1>1, <1>2, <2>1 DEF SenderOK, Places
<1>4. CASE input[pos[1]].kind # "skip"
  <2>1. pos' = <<pos[1], 1, 0>>
    BY <1>4 DEF NextEntry
  <2>2. Len(FramesOf(input[pos[1]])) \in Nat /\ Len(FramesOf(input[pos[1]])) # 0
    BY <1>2, <1>4, Frames
  <2>0. PICK p : p = <<pos[1], 1, 0>>
    OBVIOUS
  <2>3. Place(p) /\ p \in Places /\ p[1] = pos[1] /\ p[2] = 1
    BY <1>2, <2>0, <2>2 DEF Place, Places
  <2>4. PartLen(p) >= 1 /\ PartLen(p) \in Nat
    BY <2>3, PartLenPos
  <2>5. Place(p)' /\ PartLen(p)' = PartLen(p)
    BY <1>1, <2>3, Fixed
  <2>6. pos' = p
    BY <2>0, <2>1
  <2> QED
    BY <1>1, <1>2, <2>3, <2>4, <2>5, <2>6 DEF SenderOK
<1> QED
  BY <1>3, <1>4

\* The sender's position is a part with more to write.
LEMMA AtPart ==
  ASSUME DataOK, pos[2] > 0
  PROVE  /\ pos \in Places /\ Place(pos) /\ off \in Nat /\ off < PartLen(pos)
         /\ PartLen(pos) \in Nat /\ Size = PartLen(pos) /\ NextPos = After(pos)
<1>1. pos \in Places /\ Place(pos) /\ off \in Nat /\ off < PartLen(pos)
  BY DEF DataOK, SenderOK
<1>2. Size = PartLen(pos)
  BY DEF Size, PartLen, Lengths
<1>3. NextPos = After(pos)
  BY DEF NextPos, After, Lengths
<1> QED
  BY <1>1, <1>2, <1>3, PartLenPos

\* One call of write.
LEMMA WriteParts ==
  ASSUME DataOK, WriteCall
  PROVE  \E n \in Nat :
           /\ n >= 1 /\ off + n <= PartLen(pos) /\ n <= PipeCap - Len(pipe)
           /\ pipe' = pipe \o [k \in 1 .. n |-> Cell(pos, off + k)]
           /\ IF off + n = PartLen(pos) THEN pos' = After(pos) /\ off' = 0
              ELSE pos' = pos /\ off' = off + n
<1>1. pos[2] > 0
  BY DEF WriteCall
<1>2. Size = PartLen(pos) /\ NextPos = After(pos) /\ PartLen(pos) \in Nat /\ off \in Nat
      /\ Len(pipe) \in Nat /\ PipeCap \in Nat
  BY <1>1, AtPart, Bounds DEF DataOK, CellsOK
<1>3. PICK n \in 1 .. Min({Size - off, PipeCap - Len(pipe)}) :
        /\ pipe' = pipe \o [k \in 1 .. n |-> Cell(pos, off + k)]
        /\ IF off + n = Size THEN pos' = NextPos /\ off' = 0
           ELSE off' = off + n /\ UNCHANGED pos
  BY DEF WriteCall
<1>4. /\ Min({Size - off, PipeCap - Len(pipe)}) \in {Size - off, PipeCap - Len(pipe)}
      /\ Min({Size - off, PipeCap - Len(pipe)}) <= Size - off
      /\ Min({Size - off, PipeCap - Len(pipe)}) <= PipeCap - Len(pipe)
  <2>1. Size - off \in Int /\ PipeCap - Len(pipe) \in Int
    BY <1>2
  <2> QED
    BY <2>1, MinTwo
<1>5. n \in Nat /\ n >= 1 /\ off + n <= PartLen(pos) /\ n <= PipeCap - Len(pipe)
  BY <1>2, <1>4
<1> QED
  BY <1>2, <1>3, <1>5

\* It leaves the sender inside a part, and more cells in the pipe.
LEMMA WriteCallData == ASSUME DataOK, WriteCall PROVE SenderOK' /\ CellsOK'
<1>1. /\ input' = input /\ sender' = sender /\ sender = "sending"
      /\ got' = got /\ part' = part /\ hdr' = hdr
  BY DEF WriteCall, chosen, reading, Sending
<1>2. pos[2] > 0
  BY DEF WriteCall
<1>3. pos \in Places /\ Place(pos) /\ off \in Nat /\ off < PartLen(pos) /\ PartLen(pos) \in Nat
  BY <1>2, AtPart
<1>4. PICK n \in Nat :
           /\ n >= 1 /\ off + n <= PartLen(pos) /\ n <= PipeCap - Len(pipe)
           /\ pipe' = pipe \o [k \in 1 .. n |-> Cell(pos, off + k)]
           /\ IF off + n = PartLen(pos) THEN pos' = After(pos) /\ off' = 0
              ELSE pos' = pos /\ off' = off + n
  BY WriteParts
<1>5. SenderOK'
  <2>1. CASE off + n = PartLen(pos)
    <3>1. pos' = After(pos) /\ off' = 0
      BY <1>4, <2>1
    <3>0. PICK p : p = After(pos)
      OBVIOUS
    <3>2. /\ p \in Places /\ p[1] \in 1 .. Len(input) + 1 /\ (p[2] = 0 => p[3] = 0)
          /\ (p[2] > 0 => Place(p))
      BY <1>3, <3>0, AfterPlace
    <3>3. p[2] > 0 => Place(p)' /\ 0 < PartLen(p)'
      <4> SUFFICES ASSUME p[2] > 0 PROVE Place(p)' /\ 0 < PartLen(p)'
        OBVIOUS
      <4>1. PartLen(p) \in Nat /\ PartLen(p) >= 1
        BY <3>2, PartLenPos
      <4>2. Place(p)' /\ PartLen(p)' = PartLen(p)
        BY <1>1, <3>2, Fixed
      <4> QED
        BY <4>1, <4>2
    <3>4. pos' = p
      BY <3>0, <3>1
    <3> QED
      BY <1>1, <3>1, <3>2, <3>3, <3>4 DEF SenderOK
  <2>2. CASE off + n # PartLen(pos)
    <3>1. pos' = pos /\ off' = off + n
      BY <1>4, <2>2
    <3>2. Place(pos)' /\ PartLen(pos)' = PartLen(pos)
      BY <1>1, <1>3, <3>1, Fixed
    <3>3. off' \in Nat /\ off' < PartLen(pos)'
      BY <1>3, <1>4, <2>2, <3>1, <3>2
    <3> QED
      BY <1>1, <1>2, <1>3, <3>1, <3>2, <3>3 DEF DataOK, SenderOK
  <2> QED
    BY <2>1, <2>2
<1>6. CellsOK'
  <2> DEFINE w == [k \in 1 .. n |-> Cell(pos, off + k)]
  <2>1. \A k \in 1 .. n : off + k \in Nat /\ off + k \in 1 .. PartLen(pos)
    BY <1>3, <1>4
  <2>2. \A k \in 1 .. n : w[k] \in Cells /\ CellOK(w[k])
    BY <1>3, <2>1, CellParts DEF CellOK
  <2>3. w \in Seq(Cells) /\ Len(w) = n /\ pipe' = pipe \o w
    BY <1>4, <2>2
  <2> HIDE DEF w
  <2>3a. PICK v : v = w
    OBVIOUS
  <2>3b. PICK all : all = pipe \o v
    OBVIOUS
  <2>3c. v \in Seq(Cells) /\ Len(v) = n /\ pipe' = all
    BY <2>3, <2>3a, <2>3b
  <2>4. pipe \in Seq(Cells) /\ Len(pipe) \in Nat /\ \A k \in 1 .. Len(pipe) : CellOK(pipe[k])
    BY DEF DataOK, CellsOK
  <2>5. all \in Seq(Cells) /\ Len(all) = Len(pipe) + n
    BY <2>3b, <2>3c, <2>4
  <2>6. \A k \in 1 .. Len(all) : CellOK(all[k])
    <3> TAKE k \in 1 .. Len(all)
    <3>1. CASE k <= Len(pipe)
      <4>1. k \in 1 .. Len(pipe) /\ all[k] = pipe[k]
        BY <2>3b, <2>3c, <2>4, <3>1
      <4> QED
        BY <2>4, <4>1
    <3>2. CASE k > Len(pipe)
      <4>1. k - Len(pipe) \in 1 .. n /\ all[k] = v[k - Len(pipe)]
        BY <2>3b, <2>3c, <2>4, <2>5, <3>2
      <4>2. CellOK(w[k - Len(pipe)])
        BY <2>2, <4>1
      <4> QED
        BY <2>3a, <4>1, <4>2
    <3> QED
      BY <2>4, <2>5, <3>1, <3>2
  <2>7. \A k \in 1 .. Len(all) : CellOK(all[k])'
    BY <1>1, <2>6, Fixed
  <2>8. Want' = Want
    BY <1>1 DEF Want
  <2>9. Len(pipe') <= PipeCap
    BY <1>4, <2>3c, <2>4, <2>5, Bounds
  <2>10. \A k \in 1 .. Len(got) : CellOK(got[k])'
    BY <1>1, Fixed DEF DataOK, CellsOK
  <2> QED
    BY <1>1, <2>3c, <2>5, <2>7, <2>8, <2>9, <2>10 DEF DataOK, CellsOK
<1> QED
  BY <1>5, <1>6

\* What the receiver still wants is a number.
LEMMA WantLen ==
  ASSUME DataOK
  PROVE  /\ Want \in Nat /\ Want >= 1
         /\ Want <= MaxLen \/ Want <= H
         /\ Len(got) \in Nat /\ Len(got) <= Want /\ Len(pipe) \in Nat
<1>1. hdr.lens \in Seq(Lens) /\ part \in 0 .. Len(hdr.lens) /\ (part > 0 => hdr.lens[part] > 0)
  BY DEF DataOK, ReadingOK, HeaderOK, Headers
<1>2. part > 0 => hdr.lens[part] \in Lens
  BY <1>1, Element
<1>3. Want \in Nat /\ Want >= 1 /\ (Want <= MaxLen \/ Want <= H)
  BY <1>1, <1>2, Bounds DEF Want
<1> QED
  BY <1>3 DEF DataOK, CellsOK

\* One call of read.
LEMMA ReadParts ==
  ASSUME DataOK, ReadCall
  PROVE  \E n \in Nat :
           /\ n >= 1 /\ n <= Len(pipe) /\ Len(got) + n <= Want
           /\ got' = got \o SubSeq(pipe, 1, n) /\ pipe' = SubSeq(pipe, n + 1, Len(pipe))
<1>1. Want \in Nat /\ Len(got) \in Nat /\ Len(pipe) \in Nat
  BY WantLen
<1>2. PICK n \in 1 .. Min({Want - Len(got), Len(pipe)}) :
        got' = got \o SubSeq(pipe, 1, n) /\ pipe' = SubSeq(pipe, n + 1, Len(pipe))
  BY DEF ReadCall
<1>3. /\ Min({Want - Len(got), Len(pipe)}) \in {Want - Len(got), Len(pipe)}
      /\ Min({Want - Len(got), Len(pipe)}) <= Want - Len(got)
      /\ Min({Want - Len(got), Len(pipe)}) <= Len(pipe)
  <2>1. Want - Len(got) \in Int /\ Len(pipe) \in Int
    BY <1>1
  <2> QED
    BY <2>1, MinTwo
<1>4. n \in Nat /\ n >= 1 /\ n <= Len(pipe) /\ Len(got) + n <= Want
  BY <1>1, <1>3
<1> QED
  BY <1>2, <1>4

\* A sequence divided in two.
LEMMA Split ==
  ASSUME NEW X, NEW s \in Seq(X), NEW n \in 1 .. Len(s)
  PROVE  /\ SubSeq(s, 1, n) \in Seq(X) /\ SubSeq(s, n + 1, Len(s)) \in Seq(X)
         /\ Len(SubSeq(s, 1, n)) = n /\ Len(SubSeq(s, n + 1, Len(s))) = Len(s) - n
         /\ \A k \in 1 .. n : SubSeq(s, 1, n)[k] = s[k]
         /\ \A k \in 1 .. Len(s) - n : SubSeq(s, n + 1, Len(s))[k] = s[n + k]
         /\ SubSeq(s, 1, n) \o SubSeq(s, n + 1, Len(s)) = s
<1>1. Len(s) \in Nat
  OBVIOUS
<1>2. SubSeq(s, 1, n) \in Seq(X) /\ Len(SubSeq(s, 1, n)) = n
      /\ \A k \in 1 .. n : SubSeq(s, 1, n)[k] = s[k]
  OBVIOUS
<1>3. /\ SubSeq(s, n + 1, Len(s)) \in Seq(X) /\ Len(SubSeq(s, n + 1, Len(s))) = Len(s) - n
      /\ \A k \in 1 .. Len(s) - n : SubSeq(s, n + 1, Len(s))[k] = s[n + k]
  OBVIOUS
<1>4. SubSeq(s, 1, n) \o SubSeq(s, n + 1, Len(s)) = s
  <2>1. 1 \in 1 .. Len(s) + 1 /\ n \in 1 - 1 .. Len(s) /\ Len(s) \in n .. Len(s)
    BY <1>1
  <2>2. SubSeq(s, 1, n) \o SubSeq(s, n + 1, Len(s)) = SubSeq(s, 1, Len(s))
    BY <2>1, ConcatAdjacentSubSeq
  <2> QED
    BY <2>2, SubSeqFull
<1> QED
  BY <1>2, <1>3, <1>4

\* Its head may join the sequence before it.
LEMMA Regroup ==
  ASSUME NEW X, NEW g \in Seq(X), NEW u \in Seq(X), NEW t \in Seq(X)
  PROVE  (g \o u) \o t = g \o (u \o t)
  BY SMTT(30)

\* It moves cells from the pipe to what was read.
LEMMA ReadCallData == ASSUME DataOK, ReadCall PROVE CellsOK' /\ got' \o pipe' = got \o pipe
<1>1. input' = input /\ part' = part /\ hdr' = hdr
  BY DEF ReadCall, chosen
<1>2. /\ pipe \in Seq(Cells) /\ Len(pipe) <= PipeCap /\ \A k \in 1 .. Len(pipe) : CellOK(pipe[k])
      /\ got \in Seq(Cells) /\ \A k \in 1 .. Len(got) : CellOK(got[k])
  BY DEF DataOK, CellsOK
<1>3. PICK n \in Nat :
        /\ n >= 1 /\ n <= Len(pipe) /\ Len(got) + n <= Want
        /\ got' = got \o SubSeq(pipe, 1, n) /\ pipe' = SubSeq(pipe, n + 1, Len(pipe))
  BY ReadParts
<1>4. n \in 1 .. Len(pipe) /\ Len(pipe) \in Nat /\ Len(got) \in Nat
  BY <1>2, <1>3
<1>4a. PICK u : u = SubSeq(pipe, 1, n)
  OBVIOUS
<1>4b. PICK t : t = SubSeq(pipe, n + 1, Len(pipe))
  OBVIOUS
<1>5. /\ u \in Seq(Cells) /\ t \in Seq(Cells) /\ Len(u) = n /\ Len(t) = Len(pipe) - n
      /\ \A k \in 1 .. n : u[k] = pipe[k]
      /\ \A k \in 1 .. Len(pipe) - n : t[k] = pipe[n + k]
      /\ u \o t = pipe
  <2>1. PICK s : s = pipe
    OBVIOUS
  <2>2. s \in Seq(Cells) /\ n \in 1 .. Len(s)
    BY <1>2, <1>4, <2>1
  <2> QED
    BY <1>4a, <1>4b, <2>1, <2>2, Split
<1>6. PICK h : h = got \o u
  OBVIOUS
<1>7. got' = h /\ pipe' = t
  BY <1>3, <1>4a, <1>4b, <1>6
<1>7a. got \in Seq(Cells) /\ u \in Seq(Cells) /\ t \in Seq(Cells) /\ Len(u) = n
       /\ Len(t) = Len(pipe) - n /\ Len(t) \in Nat
  BY <1>2, <1>4, <1>5
<1>7b. /\ h \in Seq(Cells) /\ Len(h) = Len(got) + n
       /\ \A k \in 1 .. Len(got) + n : h[k] = IF k <= Len(got) THEN got[k] ELSE u[k - Len(got)]
  BY <1>6, <1>7a, ConcatProperties
<1>8. \A k \in 1 .. Len(h) : CellOK(h[k])
  <2> TAKE k \in 1 .. Len(h)
  <2>1. CASE k <= Len(got)
    <3>1. k \in 1 .. Len(got) /\ h[k] = got[k]
      BY <1>4, <1>7b, <2>1
    <3> QED
      BY <1>2, <3>1
  <2>2. CASE ~(k <= Len(got))
    <3>1. k - Len(got) \in 1 .. n /\ h[k] = u[k - Len(got)]
      BY <1>4, <1>7b, <2>2
    <3>2. u[k - Len(got)] = pipe[k - Len(got)] /\ k - Len(got) \in 1 .. Len(pipe)
      BY <1>4, <1>5, <3>1
    <3> QED
      BY <1>2, <3>1, <3>2
  <2> QED
    BY <2>1, <2>2
<1>9. \A k \in 1 .. Len(t) : CellOK(t[k])
  <2> TAKE k \in 1 .. Len(t)
  <2>1. n + k \in 1 .. Len(pipe)
    BY <1>4, <1>7a
  <2> QED
    BY <1>2, <1>5, <1>7a, <2>1
<1>10. /\ \A k \in 1 .. Len(h) : CellOK(h[k])'
       /\ \A k \in 1 .. Len(t) : CellOK(t[k])'
  BY <1>1, <1>8, <1>9, Fixed
<1>11. Want' = Want
  BY <1>1 DEF Want
<1>12. Len(t) <= PipeCap /\ Len(h) <= Want
  BY <1>2, <1>3, <1>4, <1>7a, <1>7b, Bounds
<1>13. CellsOK'
  <2>1. h \in Seq(Cells)
    BY <1>7b
  <2> QED
    BY <2>1, <1>7, <1>10, <1>11, <1>12, <1>7a DEF CellsOK
<1>14. h \o t = got \o pipe
  <2>1. (got \o u) \o t = got \o (u \o t)
    BY <1>7a, Regroup, SMTT(30)
  <2> QED
    BY <2>1, <1>5, <1>6
<1> QED
  BY <1>7, <1>13, <1>14

\* The receiver goes on to the next part, or completes the message.
LEMMA GoOnData ==
  ASSUME DataOK, FlagsOK, NEW h, HeaderOK(h), NEW p \in Nat, GoOn(h, p), UNCHANGED <<chosen, pipe>>
  PROVE  /\ CellsOK' /\ ReadingOK' /\ OutOK' /\ finished' \in BOOLEAN
         /\ part' \in Nat /\ hdr' = h /\ got' = <<>> /\ result' = result
<1>1. input' = input /\ pipe' = pipe
  BY DEF chosen
<1>2. h.lens \in Seq(Lens) /\ Len(h.lens) <= 2 /\ h.id \in Nat \X Nat /\ h.type \in Types
      /\ Len(h.lens) \in Nat
  BY DEF HeaderOK, Headers
<1>3. hdr' = h /\ got' = <<>> /\ result' = result
  BY DEF GoOn
<1>4. part' \in 0 .. Len(h.lens) /\ (part' > 0 => h.lens[part'] > 0)
  <2>1. CASE NextParts(h.lens, p) = {}
    <3>1. part' = 0
      BY <2>1 DEF GoOn, Complete
    <3> QED
      BY <1>2, <3>1
  <2>2. CASE NextParts(h.lens, p) # {}
    <3>1. part' = Min(NextParts(h.lens, p))
      BY <2>2 DEF GoOn
    <3> QED
      BY <1>2, <2>2, <3>1, NextPart
  <2> QED
    BY <2>1, <2>2
<1>5. HeaderOK(h)'
  BY <1>1, Fixed DEF HeaderOK, FrameAt
<1>6. ReadingOK'
  BY <1>3, <1>4, <1>5 DEF ReadingOK
<1>7. part' > 0 => h.lens[part'] \in Lens
  BY <1>2, <1>4, Element
<1>8. Want' \in Nat
  BY <1>3, <1>4, <1>7, <1>2, Bounds DEF Want
<1>9. CellsOK'
  <2>1. \A k \in 1 .. Len(pipe) : CellOK(pipe[k])'
    BY <1>1, Fixed DEF DataOK, CellsOK
  <2>2. <<>> \in Seq(Cells) /\ Len(<<>>) = 0
    OBVIOUS
  <2> QED
    BY <1>1, <1>3, <1>8, <2>1, <2>2 DEF DataOK, CellsOK
<1>10. /\ Len(input) \in Nat /\ file \in 0 .. Len(input) /\ number \in Nat /\ delivered \in Seq(Item)
       /\ result \in {"none", "end", "error", "abort", "killed"} /\ finished \in BOOLEAN
  BY InputLen DEF DataOK, OutOK, FlagsOK
<1>11. h.id[1] \in 0 .. Len(input)
  <2>1. CASE h.id = Damaged
    BY <1>10, <2>1 DEF Damaged
  <2>2. CASE h.id # Damaged
    <3>1. Place(<<h.id[1], h.id[2], 0>>)
      BY <2>2 DEF HeaderOK
    <3> QED
      BY <1>10, <3>1 DEF Place
  <2> QED
    BY <2>1, <2>2
<1>12. file' \in 0 .. Len(input) /\ number' \in Nat /\ delivered' \in Seq(Item) /\ finished' \in BOOLEAN
  <2>1. CASE NextParts(h.lens, p) # {}
    BY <1>10, <2>1 DEF GoOn, receiver
  <2>2. CASE NextParts(h.lens, p) = {}
    <3>0. Complete(h)
      BY <2>2 DEF GoOn
    <3>1. CASE h.type = "name"
      <4>1. finished' = FALSE /\ file' = h.id[1] /\ number' = 1 /\ delivered' = delivered
        BY <3>0, <3>1 DEF Complete, StartFile
      <4> QED
        BY <1>10, <1>11, <4>1
    <3>2. CASE h.type = "eof"
      <4>1. finished' = TRUE /\ file' = file /\ number' = number /\ delivered' = delivered
        BY <3>0, <3>2 DEF Complete
      <4> QED
        BY <1>10, <4>1
    <3>3. CASE h.type = "line"
      <4>1. /\ delivered' = Append(delivered, [msg |-> h.id, file |-> file, number |-> number])
            /\ number' = number + 1 /\ file' = file /\ finished' = finished
        BY <3>0, <3>3 DEF Complete
      <4>2. [msg |-> h.id, file |-> file, number |-> number] \in Item
        BY <1>2, <1>10 DEF Item
      <4> QED
        BY <1>10, <4>1, <4>2
    <3>4. CASE h.type = "pair"
      <4>1. /\ delivered' = Append(delivered, [msg |-> h.id, file |-> 0, number |-> 0])
            /\ number' = number /\ file' = file /\ finished' = finished
        BY <3>0, <3>4 DEF Complete, receiver
      <4>2. [msg |-> h.id, file |-> 0, number |-> 0] \in Item
        BY <1>2 DEF Item
      <4> QED
        BY <1>10, <4>1, <4>2
    <3> QED
      BY <1>2, <3>1, <3>2, <3>3, <3>4 DEF Types
  <2> QED
    BY <2>1, <2>2
<1>13. OutOK'
  BY <1>1, <1>3, <1>10, <1>12 DEF OutOK
<1>14. part' \in Nat
  BY <1>2, <1>4
<1> QED
  BY <1>3, <1>6, <1>9, <1>12, <1>13, <1>14

\* A frame's header.
LEMMA FrameHeader ==
  ASSUME DataOK, got # <<>>
  PROVE  LET frame == FrameAt(got[1][1], got[1][2]) IN
           /\ HeaderOK([id |-> <<got[1][1], got[1][2]>>, type |-> frame.type, lens |-> frame.lens])
           /\ <<got[1][1], got[1][2]>> # Damaged
           /\ got[1][1] \in 1 .. Len(input) /\ got[1][2] \in 1 .. Len(FramesOf(input[got[1][1]]))
<1>1. 1 \in 1 .. Len(got) /\ got[1] \in Cells
  BY DEF DataOK, CellsOK
<1>2. Place(got[1])
  BY <1>1 DEF DataOK, CellsOK, CellOK
<1>3. got[1][1] \in 1 .. Len(input) /\ got[1][2] \in 1 .. Len(FramesOf(input[got[1][1]]))
  BY <1>2 DEF Place
<1>4. Len(input) \in Nat /\ Len(FramesOf(input[got[1][1]])) \in Nat
  BY <1>3, InputLen, Frames
<1>5. PICK e, f : e = got[1][1] /\ f = got[1][2]
  OBVIOUS
<1>6. e \in Nat /\ f \in Nat /\ e \in 1 .. Len(input) /\ f \in 1 .. Len(FramesOf(input[e])) /\ e # 0
  BY <1>3, <1>4, <1>5
<1>7. FrameAt(e, f).type \in Types /\ FrameAt(e, f).lens \in Seq(Lens) /\ Len(FrameAt(e, f).lens) <= 2
  BY <1>6, FrameKind
<1>8. Place(<<e, f, 0>>)
  BY <1>6 DEF Place
<1>9. HeaderOK([id |-> <<e, f>>, type |-> FrameAt(e, f).type, lens |-> FrameAt(e, f).lens])
  BY <1>6, <1>7, <1>8 DEF HeaderOK, Headers
<1>10. <<e, f>> # Damaged
  BY <1>6 DEF Damaged
<1> QED
  BY <1>3, <1>5, <1>9, <1>10

\* What the receiver goes on with when the header is none.
LEMMA GarbageHeader ==
  ASSUME DataOK, UseGarbage
  PROVE  \/ Stop("error")
         \/ \E h : /\ HeaderOK(h) /\ h.id = Damaged /\ GoOn(h, 0)
                   /\ h.type \in Expect /\ (h.type = "eof" => h.lens = <<>>)
                   /\ got # <<>> /\ h.type \in {"line", "eof"} =>
                        h.type = FrameAt(got[1][1], got[1][2]).type
<1> SUFFICES ASSUME ~Stop("error")
             PROVE  \E h : /\ HeaderOK(h) /\ h.id = Damaged /\ GoOn(h, 0)
                           /\ h.type \in Expect /\ (h.type = "eof" => h.lens = <<>>)
                           /\ got # <<>> /\ h.type \in {"line", "eof"} =>
                                h.type = FrameAt(got[1][1], got[1][2]).type
  OBVIOUS
<1>1. PICK t \in Expect, n \in Lens, m \in Lens :
        /\ t \in {"line", "eof"} /\ got # <<>> => t = FrameAt(got[1][1], got[1][2]).type
        /\ GoOn([id |-> Damaged, type |-> t, lens |->
                  IF t = "eof" THEN <<>> ELSE IF t = "pair" THEN <<n, m>> ELSE <<n>>], 0)
  BY DEF UseGarbage
<1>2. PICK ls : ls = IF t = "eof" THEN <<>> ELSE IF t = "pair" THEN <<n, m>> ELSE <<n>>
  OBVIOUS
<1>3. ls \in Seq(Lens) /\ Len(ls) <= 2
  BY <1>2
<1>4. t \in Types
  BY DEF Expect, Types
<1>5. PICK h : h = [id |-> Damaged, type |-> t, lens |-> ls]
  OBVIOUS
<1>6. h.id = Damaged /\ h.type = t /\ h.lens = ls
  BY <1>5
<1>7. h \in Headers
  BY <1>3, <1>4, <1>5 DEF Headers, Damaged
<1>8. HeaderOK(h)
  BY <1>3, <1>6, <1>7 DEF HeaderOK
<1>9. GoOn(h, 0)
  BY <1>1, <1>2, <1>5
<1> QED
  BY <1>1, <1>2, <1>6, <1>8, <1>9

\* The cases of a header.
LEMMA HeaderCases ==
  ASSUME HeaderRead
  PROVE  \/ got = <<>> /\ finished /\ Stop("end")
         \/ got = <<>> /\ ~finished /\ ~ndebug /\ Stop("abort")
         \/ got = <<>> /\ ~finished /\ ndebug /\ UseGarbage
         \/ /\ got # <<>> /\ IsPart(got[1][1], got[1][2], 0, H)
            /\ FrameAt(got[1][1], got[1][2]).type \in Expect
            /\ GoOn([id |-> <<got[1][1], got[1][2]>>,
                     type |-> FrameAt(got[1][1], got[1][2]).type,
                     lens |-> FrameAt(got[1][1], got[1][2]).lens], 0)
         \/ /\ got # <<>> /\ IsPart(got[1][1], got[1][2], 0, H)
            /\ FrameAt(got[1][1], got[1][2]).type \notin Expect /\ UseGarbage
         \/ /\ got # <<>> /\ ~IsPart(got[1][1], got[1][2], 0, H)
            /\ channel = "results" /\ ~ndebug /\ Len(got) < H /\ Stop("abort")
         \/ /\ got # <<>> /\ ~IsPart(got[1][1], got[1][2], 0, H)
            /\ ~(channel = "results" /\ ~ndebug /\ Len(got) < H) /\ UseGarbage
  BY DEF HeaderRead, HeaderAtEof

\* A stop changes the result only.
LEMMA StopData ==
  ASSUME DataOK, FlagsOK, UNCHANGED <<chosen, pipe>>, NEW r \in {"end", "error", "abort", "killed"}, Stop(r)
  PROVE  /\ CellsOK' /\ ReadingOK' /\ OutOK' /\ finished' \in BOOLEAN
<1>1. UNCHANGED <<receiver, reading, delivered>> /\ result' = r
  BY DEF Stop
<1>2. UNCHANGED <<file, number, delivered>> /\ finished' = finished
  BY <1>1 DEF receiver
<1> QED
  BY <1>1, <1>2, Keep DEF FlagsOK

\* What follows damaged data changes the receiver only.
LEMMA GarbageData ==
  ASSUME DataOK, FlagsOK, UNCHANGED <<chosen, pipe>>, UseGarbage
  PROVE  CellsOK' /\ ReadingOK' /\ OutOK' /\ finished' \in BOOLEAN
<1>1. CASE Stop("error")
  BY <1>1, StopData
<1>2. CASE \E h : HeaderOK(h) /\ GoOn(h, 0)
  BY <1>2, GoOnData
<1> QED
  BY <1>1, <1>2, GarbageHeader

\* A header is read.
LEMMA HeaderReadData ==
  ASSUME DataOK, FlagsOK, HeaderRead
  PROVE  CellsOK' /\ ReadingOK' /\ OutOK' /\ finished' \in BOOLEAN
<1>1. UNCHANGED <<chosen, pipe>>
  BY DEF HeaderRead
<1>2. CASE Stop("end") \/ Stop("abort")
  BY <1>1, <1>2, StopData
<1>3. CASE UseGarbage
  BY <1>1, <1>3, GarbageData
<1>4. CASE /\ got # <<>>
           /\ GoOn([id |-> <<got[1][1], got[1][2]>>,
                    type |-> FrameAt(got[1][1], got[1][2]).type,
                    lens |-> FrameAt(got[1][1], got[1][2]).lens], 0)
  BY <1>1, <1>4, FrameHeader, GoOnData
<1> QED
  BY <1>2, <1>3, <1>4, HeaderCases

\* The header by which the receiver goes on behind a part.
LEMMA PartHeader ==
  ASSUME DataOK, PartRead
  PROVE  \/ channel = "results" /\ ~ndebug /\ Len(got) < Want /\ Stop("abort")
         \/ /\ ~(channel = "results" /\ ~ndebug /\ Len(got) < Want)
            /\ IsPart(hdr.id[1], hdr.id[2], part, Want) /\ GoOn(hdr, part)
         \/ /\ ~(channel = "results" /\ ~ndebug /\ Len(got) < Want)
            /\ ~IsPart(hdr.id[1], hdr.id[2], part, Want)
            /\ \E h : /\ HeaderOK(h) /\ h.id = Damaged /\ h.type = hdr.type
                      /\ h.lens = hdr.lens /\ GoOn(h, part)
<1> DEFINE h == [hdr EXCEPT !.id = Damaged]
<1>1. hdr \in Headers /\ Len(hdr.lens) <= 2
  BY DEF DataOK, ReadingOK, HeaderOK
<1>2. h \in Headers /\ h.id = Damaged /\ h.type = hdr.type /\ h.lens = hdr.lens
  BY <1>1 DEF Headers, Damaged
<1>3. HeaderOK(h)
  BY <1>1, <1>2 DEF HeaderOK
<1>4. CASE ~(channel = "results" /\ ~ndebug /\ Len(got) < Want)
           /\ ~IsPart(hdr.id[1], hdr.id[2], part, Want)
  <2>1. GoOn(h, part)
    BY <1>4 DEF PartRead
  <2> HIDE DEF h
  <2> QED
    BY <1>2, <1>3, <1>4, <2>1
<1>5. CASE ~(channel = "results" /\ ~ndebug /\ Len(got) < Want)
           /\ IsPart(hdr.id[1], hdr.id[2], part, Want)
  BY <1>5 DEF PartRead
<1>6. CASE channel = "results" /\ ~ndebug /\ Len(got) < Want
  BY <1>6 DEF PartRead
<1> QED
  BY <1>4, <1>5, <1>6

\* A part is read.
LEMMA PartReadData ==
  ASSUME DataOK, FlagsOK, PartRead
  PROVE  CellsOK' /\ ReadingOK' /\ OutOK' /\ finished' \in BOOLEAN
<1>1. UNCHANGED <<chosen, pipe>> /\ HeaderOK(hdr) /\ part \in Nat
  BY DEF PartRead, DataOK, ReadingOK, HeaderOK, Headers
<1>2. CASE Stop("abort")
  BY <1>1, <1>2, StopData
<1>3. CASE \E h : HeaderOK(h) /\ GoOn(h, part)
  BY <1>1, <1>3, GoOnData
<1> QED
  BY <1>1, <1>2, <1>3, PartHeader

\* A failing call is noted.
LEMMA FailData ==
  ASSUME DataOK, NEW k \in {"write", "file", "death", "receive"}, Fail(k),
         sender' = "dead" /\ result' = "none" => (sender = "dead" /\ result = "none") \/ k = "death"
  PROVE  FaultsOK'
  BY Bounds DEF Fail, DataOK, FaultsOK

\* No step takes a variable out of its type.
LEMMA StepData == ASSUME DataOK, FlagsOK, [Next]_vars PROVE DataOK' /\ FlagsOK'
<1>0. /\ sender \in {"sending", "closed", "error", "dead"} /\ finished \in BOOLEAN
      /\ ndebug \in BOOLEAN /\ result \in {"none", "end", "error", "abort", "killed"}
  BY DEF DataOK, SenderOK, OutOK, FlagsOK
<1>1. CASE NextEntry
  <2>1. /\ UNCHANGED <<chosen, pipe, reading, receiver, delivered, result, budget>>
        /\ sender' = sender /\ sender = "sending"
    BY <1>1 DEF NextEntry, Sending
  <2>2. SenderOK'
    BY <1>1, NextEntryData
  <2> QED
    BY <2>1, <2>2, <1>0, Keep DEF DataOK, FlagsOK, chosen, receiver
<1>2. CASE WriteCall
  <2>1. /\ UNCHANGED <<chosen, reading, receiver, delivered, result, budget>>
        /\ sender' = sender /\ sender = "sending"
    BY <1>2 DEF WriteCall, Sending
  <2>2. SenderOK' /\ CellsOK'
    BY <1>2, WriteCallData
  <2> QED
    BY <2>1, <2>2, <1>0, Keep DEF DataOK, FlagsOK, chosen, receiver
<1>3. CASE WriteFails
  <2>1. /\ UNCHANGED <<chosen, pipe, reading, receiver, delivered, result>>
        /\ sender' # "dead" /\ Fail("write") /\ sender = "sending" /\ pos[2] > 0
    BY <1>3 DEF WriteFails, Sending
  <2>2. FaultsOK'
    BY <2>1, FailData
  <2>3. SenderOK'
    <3>1. input' = input /\ channel' = channel /\ Len(input) \in Nat
      BY <2>1, InputLen DEF chosen
    <3>2. CASE channel = "lines"
      <4>1. sender' = "error" /\ pos' = pos /\ off' = off
        BY <1>3, <3>2 DEF WriteFails
      <4> QED
        BY <3>1, <4>1, Fixed DEF DataOK, SenderOK
    <3>3. CASE channel # "lines"
      <4>1. sender' = sender /\ pos' = <<pos[1] + 1, 0, 0>> /\ off' = 0
        BY <1>3, <3>3 DEF WriteFails
      <4>2. pos[1] \in 1 .. Len(input)
        BY <2>1, AtPart DEF Place
      <4> QED
        BY <2>1, <3>1, <4>1, <4>2 DEF SenderOK, Places
    <3> QED
      BY <3>2, <3>3
  <2> QED
    BY <2>1, <2>2, <2>3, <1>0, Keep DEF DataOK, FlagsOK, chosen, receiver
<1>4. CASE FileFails
  <2>1. /\ UNCHANGED <<chosen, pos, off, pipe, reading, receiver, delivered, result>>
        /\ sender' = "error" /\ Fail("file")
    BY <1>4 DEF FileFails
  <2>2. FaultsOK'
    BY <2>1, FailData
  <2>3. SenderOK'
    BY <2>1, Fixed DEF DataOK, SenderOK, chosen
  <2> QED
    BY <2>1, <2>2, <2>3, <1>0, Keep DEF DataOK, FlagsOK, chosen, receiver
<1>5. CASE SendFinish
  <2>1. /\ UNCHANGED <<chosen, pos, off, pipe, reading, receiver, delivered, result, budget>>
        /\ sender' = "closed" /\ pos[1] > Len(input)
    BY <1>5 DEF SendFinish
  <2>2. SenderOK'
    BY <2>1, Fixed DEF DataOK, SenderOK, chosen
  <2> QED
    BY <2>1, <2>2, <1>0, Keep DEF DataOK, FlagsOK, chosen, receiver
<1>6. CASE SenderDies
  <2>1. /\ UNCHANGED <<chosen, pos, off, pipe, reading, receiver, delivered, result>>
        /\ sender' = "dead" /\ Fail("death")
    BY <1>6 DEF SenderDies
  <2>2. FaultsOK'
    BY <2>1, FailData
  <2>3. SenderOK'
    BY <2>1, Fixed DEF DataOK, SenderOK, chosen
  <2> QED
    BY <2>1, <2>2, <2>3, <1>0, Keep DEF DataOK, FlagsOK, chosen, receiver
<1>7. CASE SenderStopped
  <2>1. /\ UNCHANGED <<chosen, pos, off, pipe, reading, receiver, delivered, result, budget>>
        /\ sender' = "dead" /\ result # "none"
    BY <1>7 DEF SenderStopped
  <2>2. SenderOK'
    BY <2>1, Fixed DEF DataOK, SenderOK, chosen
  <2> QED
    BY <2>1, <2>2, <1>0, Keep DEF DataOK, FlagsOK, chosen, receiver
<1>8. CASE ReadCall
  <2>1. UNCHANGED <<chosen, writer, receiver, part, hdr, delivered, result, budget>>
    BY <1>8 DEF ReadCall
  <2>2. CellsOK'
    BY <1>8, ReadCallData
  <2>3. ReadingOK'
    BY <2>1, Fixed DEF DataOK, ReadingOK, HeaderOK, FrameAt, chosen
  <2> QED
    BY <2>1, <2>2, <2>3, <1>0, Keep DEF DataOK, FlagsOK, chosen, receiver, writer
<1>9. CASE HeaderRead
  <2>1. UNCHANGED <<chosen, writer, pipe, budget>> /\ result = "none"
    BY <1>9 DEF HeaderRead, ReadReturns, Reading
  <2>2. CellsOK' /\ ReadingOK' /\ OutOK' /\ finished' \in BOOLEAN
    BY <1>9, HeaderReadData
  <2> QED
    BY <2>1, <2>2, <1>0, Keep DEF DataOK, FlagsOK, chosen, writer
<1>10. CASE PartRead
  <2>1. UNCHANGED <<chosen, writer, pipe, budget>> /\ result = "none"
    BY <1>10 DEF PartRead, ReadReturns, Reading
  <2>2. CellsOK' /\ ReadingOK' /\ OutOK' /\ finished' \in BOOLEAN
    BY <1>10, PartReadData
  <2> QED
    BY <2>1, <2>2, <1>0, Keep DEF DataOK, FlagsOK, chosen, writer
<1>11. CASE ReceiveFails
  <2>1. UNCHANGED <<chosen, writer, pipe>> /\ Stop("error") /\ Fail("receive") /\ result' = "error"
    BY <1>11 DEF ReceiveFails, Stop
  <2>2. CellsOK' /\ ReadingOK' /\ OutOK' /\ finished' \in BOOLEAN
    BY <2>1, StopData
  <2>3. FaultsOK'
    BY <2>1, FailData
  <2> QED
    BY <2>1, <2>2, <2>3, <1>0, Keep DEF DataOK, FlagsOK, chosen, writer
<1>12. CASE ReceiverKilled
  <2>1. UNCHANGED <<chosen, writer, pipe, budget>> /\ Stop("killed") /\ result' = "killed"
    BY <1>12 DEF ReceiverKilled, Stop
  <2>2. CellsOK' /\ ReadingOK' /\ OutOK' /\ finished' \in BOOLEAN
    BY <2>1, StopData
  <2> QED
    BY <2>1, <2>2, <1>0, Keep DEF DataOK, FlagsOK, chosen, writer
<1>13. CASE UNCHANGED vars
  <2>1. UNCHANGED <<chosen, writer, pipe, reading, receiver, delivered, result, budget>>
    BY <1>13 DEF vars
  <2> QED
    BY <2>1, <1>0, Keep DEF DataOK, FlagsOK, chosen, receiver, writer
<1> QED
  BY <1>1, <1>2, <1>3, <1>4, <1>5, <1>6, <1>7, <1>8, <1>9, <1>10, <1>11, <1>12, <1>13
  DEF Next, Sender, Receiver, Over

\* The types of the specification follow.
LEMMA TypeFollows == ASSUME DataOK, FlagsOK PROVE TypeOK
<1>1. MaxLen \in Nat /\ H \in Nat
  BY Bounds
<1>2. PICK m : m = Max({H, MaxLen})
  OBVIOUS
<1>3. m \in Nat /\ m >= H /\ m >= MaxLen
  BY <1>1, <1>2, MaxTwo
<1>4. off \in 0 .. m
  <2>1. CASE pos[2] = 0
    BY <1>3, <2>1 DEF DataOK, SenderOK
  <2>2. CASE pos[2] # 0
    <3>1. pos[2] > 0
      BY <2>2 DEF DataOK, SenderOK, Places
    <3>2. /\ off \in Nat /\ off < PartLen(pos) /\ PartLen(pos) \in Nat /\ pos \in Places /\ Place(pos)
      BY <3>1, AtPart
    <3>3. PartLen(pos) = H \/ PartLen(pos) <= MaxLen
      BY <3>2, PartLenPos DEF Places
    <3> QED
      BY <1>1, <1>3, <3>2, <3>3
  <2> QED
    BY <2>1, <2>2
<1>5. ASSUME NEW k \in DOMAIN pipe
      PROVE  LET c == pipe[k] IN
               c[4] <= IF c[3] = 0 THEN H ELSE FrameAt(c[1], c[2]).lens[c[3]]
  <2>1. k \in 1 .. Len(pipe)
    BY DEF DataOK, CellsOK
  <2>2. PICK c : c = pipe[k]
    OBVIOUS
  <2>3. CellOK(c)
    BY <2>1, <2>2 DEF DataOK, CellsOK
  <2>4. c \in Cells
    BY <2>1, <2>2 DEF DataOK, CellsOK
  <2>5. PartLen(c) \in Nat /\ c[4] \in 1 .. PartLen(c)
    <3>1. \E p \in Places : \E i \in 1 .. PartLen(p) : Place(p) /\ PartLen(p) \in Nat /\ c = Cell(p, i)
      BY <2>3, <2>4, CellOf
    <3> QED
      BY <3>1, <2>3, CellParts DEF CellOK
  <2>6. c[4] <= PartLen(c)
    BY <2>5
  <2> QED
    BY <2>2, <2>6 DEF PartLen, Lengths
<1>6. Len(got) <= m
  BY <1>1, <1>3, WantLen
<1>7. part \in 0 .. 2
  BY DEF DataOK, ReadingOK, HeaderOK, Headers
<1>8. /\ sender \in {"sending", "closed", "error", "dead"} /\ Len(pipe) <= PipeCap
      /\ finished \in BOOLEAN /\ file \in 0 .. Len(input) /\ number \in Nat
      /\ result \in {"none", "end", "error", "abort", "killed"}
      /\ failed \subseteq {"write", "file", "death", "receive"} /\ faultsLeft \in 0 .. MaxFaults
  BY DEF DataOK, FlagsOK, SenderOK, CellsOK, OutOK, FaultsOK
<1> QED
  BY <1>2, <1>4, <1>5, <1>6, <1>7, <1>8 DEF TypeOK

--------------------------------------------------------------------------------
(***************************************************************************)
(* Nothing is lost between the processes                                   *)
(***************************************************************************)

\* The receiver's position, if it has not lost its place.
LEMMA HerePlace ==
  ASSUME DataOK, part > 0 => hdr.id # Damaged
  PROVE  /\ Here \in Places /\ Here[1] \in 1 .. Len(input) + 1 /\ Here[3] = part
         /\ Here[2] > 0 => Here[1] \in 1 .. Len(input)
                           /\ Here[2] \in 1 .. Len(FramesOf(input[Here[1]]))
         /\ part > 0 => Place(Here)
<1>1. /\ hdr \in Headers /\ part \in Nat /\ Len(input) \in Nat
      /\ part > 0 => part \in 1 .. Len(hdr.lens) /\ hdr.lens[part] > 0
  BY InputLen DEF DataOK, ReadingOK, HeaderOK, Headers
<1>2. PICK e, f : e = hdr.id[1] /\ f = hdr.id[2]
  OBVIOUS
<1>3. CASE hdr.id = Damaged
  <2>1. Here = <<1, 0, 0>> /\ part = 0
    BY <1>1, <1>3 DEF Here
  <2> QED
    BY <1>1, <2>1 DEF Places
<1>4. CASE hdr.id # Damaged
  <2>1. /\ e \in 1 .. Len(input) /\ f \in 1 .. Len(FramesOf(input[e]))
        /\ hdr.lens = FrameAt(e, f).lens
    BY <1>2, <1>4 DEF DataOK, ReadingOK, HeaderOK, Place
  <2>2. Len(FramesOf(input[e])) \in Nat /\ e \in Nat /\ f \in Nat
    BY <1>1, <2>1, Frames
  <2>3. CASE part > 0
    <3>1. Here = <<e, f, part>>
      BY <1>2, <2>3 DEF Here
    <3>2. Lengths(<<e, f, part>>) = hdr.lens
      BY <2>1 DEF Lengths
    <3>3. Place(<<e, f, part>>)
      <4>1. part \in DOMAIN hdr.lens
        BY <1>1, <2>3 DEF Headers
      <4> QED
        BY <1>1, <2>1, <2>3, <3>2, <4>1 DEF Place
    <3> QED
      BY <1>1, <2>1, <2>2, <2>3, <3>1, <3>3 DEF Places
  <2>4. CASE part = 0 /\ f < Len(FramesOf(input[e]))
    <3>1. Here = <<e, f + 1, 0>>
      BY <1>2, <1>4, <2>4 DEF Here
    <3> QED
      BY <1>1, <2>1, <2>2, <2>4, <3>1 DEF Places
  <2>5. CASE part = 0 /\ ~(f < Len(FramesOf(input[e])))
    <3>1. Here = <<e + 1, 0, 0>>
      BY <1>2, <1>4, <2>5 DEF Here
    <3> QED
      BY <1>1, <2>1, <2>2, <2>5, <3>1 DEF Places
  <2> QED
    BY <1>1, <2>3, <2>4, <2>5
<1> QED
  BY <1>3, <1>4

\* The receiver's position does not move.
LEMMA HereStays ==
  ASSUME UNCHANGED <<chosen, part, hdr>>
  PROVE  Here' = Here
  BY DEF Here, chosen

\* Progress is about the receiver only.
LEMMA ProgressStays ==
  ASSUME Progress, UNCHANGED <<chosen, part, hdr, receiver, delivered>>
  PROVE  Progress'
<1>1. Here' = Here /\ input' = input /\ channel' = channel /\ UNCHANGED <<finished, file, number, delivered>>
  BY HereStays DEF chosen, receiver
<1>2. \A e, f : Before(e, f) <=> Before(e, f)'
  BY <1>1, Fixed DEF Before
<1> QED
  BY <1>1, <1>2 DEF Progress

\* A step that moves the sender or the cells keeps the stream together if it links them.
LEMMA SoundStays ==
  ASSUME Sound, UNCHANGED <<chosen, part, hdr, receiver, delivered>>,
         Linked(got' \o pipe', Here, pos', off')
  PROVE  Sound'
<1>1. input' = input /\ Here' = Here
  BY HereStays DEF chosen
<1>2. Chain'
  BY <1>1, FixedLinks DEF Chain, Flow
<1>3. Progress'
  BY ProgressStays DEF Sound
<1> QED
  BY <1>2, <1>3 DEF Sound

\* The cells of the stream.
LEMMA FlowOK ==
  ASSUME DataOK
  PROVE  /\ got \in Seq(Cells) /\ pipe \in Seq(Cells) /\ Flow \in Seq(Cells)
         /\ \A k \in 1 .. Len(Flow) : CellOK(Flow[k])
         /\ Len(Flow) = Len(got) + Len(pipe)
<1>1. /\ got \in Seq(Cells) /\ pipe \in Seq(Cells)
      /\ \A k \in 1 .. Len(got) : CellOK(got[k])
      /\ \A k \in 1 .. Len(pipe) : CellOK(pipe[k])
  BY DEF DataOK, CellsOK
<1>2. Len(got) \in Nat /\ Len(pipe) \in Nat
  BY <1>1
<1>3. PICK all : all = got \o pipe
  OBVIOUS
<1>4. /\ all \in Seq(Cells) /\ Len(all) = Len(got) + Len(pipe)
      /\ \A k \in 1 .. Len(got) + Len(pipe) : all[k] = IF k <= Len(got) THEN got[k] ELSE pipe[k - Len(got)]
  BY <1>1, <1>3, ConcatProperties
<1>5. \A k \in 1 .. Len(all) : CellOK(all[k])
  <2> TAKE k \in 1 .. Len(all)
  <2>1. CASE k <= Len(got)
    <3>1. k \in 1 .. Len(got) /\ all[k] = got[k]
      BY <1>2, <1>4, <2>1
    <3> QED
      BY <1>1, <3>1
  <2>2. CASE ~(k <= Len(got))
    <3>1. k - Len(got) \in 1 .. Len(pipe) /\ all[k] = pipe[k - Len(got)]
      BY <1>2, <1>4, <2>2
    <3> QED
      BY <1>1, <3>1
  <2> QED
    BY <2>1, <2>2
<1> QED
  BY <1>1, <1>3, <1>4, <1>5 DEF Flow

\* The step to the next entry.
LEMMA NextEntrySound == ASSUME DataOK, Sound, NextEntry PROVE Sound'
<1>1. /\ UNCHANGED <<chosen, part, hdr, receiver, delivered>> /\ got' = got /\ pipe' = pipe /\ off' = off
  BY DEF NextEntry, reading
<1>2. pos \in Places /\ pos[2] = 0 /\ pos[3] = 0 /\ off = 0 /\ pos = <<pos[1], 0, 0>>
  BY DEF NextEntry, DataOK, SenderOK, Places
<1>3. PICK q : q = pos'
  OBVIOUS
<1>4. /\ q[1] >= pos[1] /\ q[2] \in {0, 1} /\ q[3] = 0 /\ q[1] \in Nat
      /\ \A e \in pos[1] .. q[1] - 1 : input[e].kind = "skip"
  <2>1. CASE input[pos[1]].kind = "skip"
    <3>1. q = <<pos[1] + 1, 0, 0>>
      BY <1>3, <2>1 DEF NextEntry
    <3> QED
      BY <3>1, <2>1, <1>2 DEF Places
  <2>2. CASE input[pos[1]].kind # "skip"
    <3>1. q = <<pos[1], 1, 0>>
      BY <1>3, <2>2 DEF NextEntry
    <3> QED
      BY <3>1, <1>2 DEF Places
  <2> QED
    BY <2>1, <2>2
<1>5. ASSUME NEW s \in Places, Same(s, pos) PROVE Same(s, q)
  <2>1. CASE s = pos
    BY <1>2, <1>4, <2>1 DEF Same, Places
  <2>2. CASE s # pos
    <3>1. /\ s[2] = 0 /\ s[1] <= pos[1] /\ \A e \in s[1] .. pos[1] - 1 : input[e].kind = "skip"
      BY <1>5, <2>2 DEF Same
    <3>2. \A e \in s[1] .. q[1] - 1 : input[e].kind = "skip"
      BY <1>2, <1>4, <1>5, <3>1 DEF Places
    <3> QED
      BY <1>2, <1>4, <1>5, <3>1, <3>2 DEF Same, Places
  <2> QED
    BY <2>1, <2>2
<1>6. Linked(Flow, Here, pos, 0) /\ Here \in Places
  BY <1>2, HerePlace DEF Sound, Chain
<1>7. Linked(Flow, Here, q, 0)
  BY <1>5, <1>6, FlowOK, LinkSame
<1> QED
  BY <1>1, <1>2, <1>3, <1>7, SoundStays DEF Flow

\* A call of write.
LEMMA WriteCallSound == ASSUME DataOK, Sound, WriteCall PROVE Sound'
<1>1. /\ UNCHANGED <<chosen, part, hdr, receiver, delivered>> /\ got' = got /\ pos[2] > 0
  BY DEF WriteCall, reading
<1>2. pos \in Places /\ Place(pos) /\ off \in Nat /\ off < PartLen(pos) /\ PartLen(pos) \in Nat
  BY <1>1, AtPart
<1>3. PICK n \in Nat :
           /\ n >= 1 /\ off + n <= PartLen(pos) /\ n <= PipeCap - Len(pipe)
           /\ pipe' = pipe \o [k \in 1 .. n |-> Cell(pos, off + k)]
           /\ IF off + n = PartLen(pos) THEN pos' = After(pos) /\ off' = 0
              ELSE pos' = pos /\ off' = off + n
  BY WriteParts
<1>4. PICK w : w = [k \in 1 .. n |-> Cell(pos, off + k)]
  OBVIOUS
<1>5. Linked(Flow, Here, pos, off)
  BY DEF Sound, Chain
<1>6. IF off + n = PartLen(pos) THEN Linked(Flow \o w, Here, After(pos), 0)
      ELSE Linked(Flow \o w, Here, pos, off + n)
  BY <1>2, <1>3, <1>4, <1>5, FlowOK, LinkAppend
<1>7. Linked(Flow \o w, Here, pos', off')
  BY <1>3, <1>6
<1>8. Flow \o w = got' \o pipe'
  <2>1. \A k \in 1 .. n : Cell(pos, off + k) \in Cells
    BY <1>2, CellParts
  <2>2. w \in Seq(Cells) /\ got \in Seq(Cells) /\ pipe \in Seq(Cells)
    BY <1>4, <2>1, FlowOK
  <2>3. (got \o pipe) \o w = got \o (pipe \o w)
    BY <2>2, Regroup
  <2> QED
    BY <1>1, <1>3, <1>4, <2>3 DEF Flow
<1> QED
  BY <1>1, <1>7, <1>8, SoundStays

\* A call of read.
LEMMA ReadCallSound == ASSUME DataOK, Sound, ReadCall PROVE Sound'
<1>1. UNCHANGED <<chosen, part, hdr, receiver, delivered>> /\ pos' = pos /\ off' = off
  BY DEF ReadCall, writer
<1>2. got' \o pipe' = Flow
  BY ReadCallData DEF Flow
<1> QED
  BY <1>1, <1>2, SoundStays DEF Sound, Chain

\* What the receiver has of a part are the first cells of the part it should read.
LEMMA GotPart ==
  ASSUME DataOK, Sound, got # <<>>
  PROVE  \E r \in Places :
           /\ r = <<got[1][1], got[1][2], got[1][3]>> /\ Place(r) /\ PartLen(r) = Want
           /\ r[3] = part /\ Same(Here, r) /\ (part > 0 => r = Here)
           /\ got = [k \in 1 .. Len(got) |-> Cell(r, k)]
<1>1. /\ Here \in Places /\ Here[3] = part /\ (part > 0 => Place(Here))
      /\ Linked(got \o pipe, Here, pos, off) /\ part \in Nat
  BY HerePlace DEF Sound, Chain, Flow, DataOK, ReadingOK, HeaderOK, Headers
<1>2. /\ got \in Seq(Cells) /\ pipe \in Seq(Cells) /\ Len(got) <= Want
      /\ \A k \in 1 .. Len(got) : CellOK(got[k])
  BY DEF DataOK, CellsOK
<1>3. 1 \in 1 .. Len(got) /\ got[1] \in Cells /\ CellOK(got[1]) /\ Len(got) >= 1
  BY <1>2
<1>4. PICK c : c = got[1]
  OBVIOUS
<1>5. PICK r : r = <<c[1], c[2], c[3]>>
  OBVIOUS
<1>6. r \in Places /\ Place(r) /\ PartLen(c) = PartLen(r) /\ r[1] = c[1] /\ r[2] = c[2] /\ r[3] = c[3]
  <2>1. \E x \in Places : \E i \in 1 .. PartLen(x) : Place(x) /\ PartLen(x) \in Nat /\ c = Cell(x, i)
                                                     /\ x = <<c[1], c[2], c[3]>>
    BY <1>3, <1>4, CellOf
  <2> QED
    BY <2>1, <1>5, CellParts
<1>7. Same(Here, r)
  <2>1. got \o pipe # <<>> /\ (got \o pipe)[1] = got[1]
    BY <1>2, <1>3
  <2> QED
    BY <1>1, <1>4, <1>5, <2>1 DEF Linked, Starts
<1>8. r[3] = part /\ (part > 0 => r = Here)
  <2>1. CASE r = Here
    BY <1>1, <2>1
  <2>2. CASE r # Here
    <3>1. Here[2] = 0 /\ r[3] = 0
      BY <1>7, <2>2 DEF Same
    <3>2. ~Place(Here)
      BY <3>1 DEF Place
    <3> QED
      BY <1>1, <3>1, <3>2
  <2> QED
    BY <2>1, <2>2
<1>9. PartLen(r) = Want
  <2>1. CASE part = 0
    BY <1>8, <2>1 DEF PartLen, Want
  <2>2. CASE part > 0
    <3>1. Here = <<hdr.id[1], hdr.id[2], part>> /\ hdr.id # Damaged
      BY <2>2 DEF Here, Sound
    <3>2. hdr.lens = FrameAt(hdr.id[1], hdr.id[2]).lens
      BY <3>1 DEF DataOK, ReadingOK, HeaderOK
    <3>3. Lengths(Here) = hdr.lens
      BY <3>1, <3>2 DEF Lengths
    <3> QED
      BY <1>1, <1>8, <2>2, <3>3 DEF PartLen, Want
  <2> QED
    BY <1>1, <2>1, <2>2
<1>10. Len(got) <= PartLen(got[1])
  BY <1>2, <1>4, <1>6, <1>9
<1>11. PICK x \in Places : /\ x = <<got[1][1], got[1][2], got[1][3]>>
                           /\ got = [k \in 1 .. Len(got) |-> Cell(x, k)]
  BY <1>1, <1>2, <1>10, LinkHead
<1>12. x = r
  BY <1>4, <1>5, <1>11
<1> QED
  BY <1>4, <1>5, <1>6, <1>7, <1>8, <1>9, <1>11, <1>12

\* When it has all of the part, the rest of the stream begins behind it.
LEMMA TakePart ==
  ASSUME DataOK, Sound, NEW r \in Places, Place(r), Len(got) = PartLen(r),
         got = [k \in 1 .. Len(got) |-> Cell(r, k)]
  PROVE  Linked(pipe, After(r), pos, off)
<1>1. /\ got \in Seq(Cells) /\ pipe \in Seq(Cells) /\ pos \in Places /\ off \in Nat
      /\ off > 0 => Place(pos) /\ off < PartLen(pos)
  BY DEF DataOK, CellsOK, SenderOK, Places
<1>2. Linked(got \o pipe, Here, pos, off)
  BY DEF Sound, Chain, Flow
<1>3. PICK g : g = got
  OBVIOUS
<1>4. g \in Seq(Cells) /\ Len(g) = PartLen(r) /\ \A k \in 1 .. Len(g) : g[k] = Cell(r, k)
  BY <1>1, <1>3
<1> QED
  BY <1>1, <1>2, <1>3, <1>4, LinkTake

\* Skipped entries change nothing in what should have been delivered.
LEMMA BeforeSame ==
  ASSUME DataOK, NEW p \in Places, NEW r \in Places, Same(p, r), p[1] >= 1, r[1] <= Len(input) + 1,
         Before(p[1], p[2])
  PROVE  Before(r[1], r[2])
<1>1. CASE p = r
  BY <1>1
<1>2. CASE p # r
  <2>1. p[2] = 0 /\ r[2] \in {0, 1}
    BY <1>2 DEF Same
  <2>2. Upto(r[1] - 1) = Upto(p[1] - 1)
    BY Skipped
  <2>3. p[2] <= 1 /\ r[2] <= 1 /\ ~(r[2] > 1)
    BY <2>1
  <2>4. channel = "lines" => finished /\ delivered = Upto(r[1] - 1)
    BY <2>2, <2>3 DEF Before
  <2>5. channel # "lines" => finished /\ delivered = Upto(r[1] - 1)
    BY <2>2 DEF Before
  <2> QED
    BY <2>3, <2>4, <2>5 DEF Before
<1> QED
  BY <1>1, <1>2

\* A message that is complete is the next one of the input.
LEMMA CompleteNext ==
  ASSUME DataOK, NEW e \in 1 .. Len(input), NEW f \in 1 .. Len(FramesOf(input[e])), Before(e, f),
         NEW h, h.id = <<e, f>>, h.type = FrameAt(e, f).type, Complete(h), input' = input,
         channel' = channel
  PROVE  IF f < Len(FramesOf(input[e])) THEN Before(e, f + 1)' ELSE Before(e + 1, 0)'
<1> DEFINE m == Len(FramesOf(input[e]))
<1>0. /\ e \in Nat /\ f \in Nat /\ m \in Nat /\ f <= m /\ f >= 1 /\ Len(input) \in Nat
      /\ (e + 1) - 1 = e /\ e - 1 \in 0 .. Len(input)
  BY InputLen, Frames
<1>1. /\ Upto(e - 1) \in Seq(Item) /\ Items(e) \in Seq(Item) /\ Upto(e) = Upto(e - 1) \o Items(e)
      /\ h.id[1] = e
  BY <1>0, UptoAre, ItemsAre, SMTT(30)
<1> HIDE DEF m
<1>2. ASSUME NEW x PROVE Upto(x)' = Upto(x) /\ Items(x)' = Items(x)
  BY Fixed
<1>3. CASE channel = "lines"
  <2>1. /\ FrameAt(e, f).type = "name" <=> f = 1
        /\ FrameAt(e, f).type = "eof" <=> f = m
        /\ FrameAt(e, f).type = "line" <=> f \in 2 .. m - 1
    BY <1>3, FrameKind DEF m
  <2>2. input[e].kind # "skip" /\ Len(Items(e)) = m - 2 /\ m >= 2
        /\ \A k \in 1 .. m - 2 : Items(e)[k] = [msg |-> <<e, k + 1>>, file |-> e, number |-> k]
    <3>1. input[e].kind # "skip"
      BY <1>0, Frames DEF m
    <3>2. /\ Len(Items(e)) = m - 2
          /\ \A k \in 1 .. Len(Items(e)) : Items(e)[k] = [msg |-> <<e, k + 1>>, file |-> e, number |-> k]
      BY <1>3, <3>1, ItemsAre DEF m
    <3>3. Len(Items(e)) \in Nat
      BY <1>1
    <3> QED
      BY <1>0, <3>1, <3>2, <3>3
  <2>3. CASE f = 1
    <3>1. finished' = FALSE /\ file' = e /\ number' = 1 /\ delivered' = delivered
      BY <1>1, <2>1, <2>3 DEF Complete, StartFile
    <3>2. delivered = Upto(e - 1)
      BY <1>3, <2>3 DEF Before
    <3>3. SubSeq(Items(e), 1, 2 - 2) = <<>>
      BY <1>1
    <3>3a. Upto(e - 1) \o <<>> = Upto(e - 1)
      BY <1>1
    <3>4. f < m
      BY <1>0, <2>2, <2>3
    <3>4a. delivered' = Upto(e - 1) \o SubSeq(Items(e), 1, 2 - 2)
      BY <3>1, <3>2, <3>3, <3>3a, Zenon
    <3>4b. ~finished' /\ file' = e /\ number' = 2 - 1
      BY <3>1
    <3>5. Before(e, 2)'
      BY <1>2, <1>3, <3>4a, <3>4b DEF Before
    <3> QED
      BY <2>3, <3>4, <3>5 DEF m
  <2>4. CASE f \in 2 .. m - 1
    <3>1. /\ delivered' = Append(delivered, [msg |-> <<e, f>>, file |-> file, number |-> number])
          /\ number' = number + 1 /\ file' = file /\ finished' = finished
      BY <2>1, <2>4 DEF Complete
    <3>2. /\ ~finished /\ file = e /\ number = f - 1
          /\ delivered = Upto(e - 1) \o SubSeq(Items(e), 1, f - 2)
      <4>1. f > 1 /\ ~(f <= 1)
        BY <1>0, <2>4
      <4> QED
        BY <1>3, <4>1 DEF Before
    <3>3. f - 1 \in 1 .. m - 2 /\ (f - 1) + 1 = f /\ (f - 1) - 1 = f - 2 /\ (f + 1) - 2 = f - 1
      BY <1>0, <2>4
    <3>4. Items(e)[f - 1] = [msg |-> <<e, f>>, file |-> e, number |-> f - 1]
      BY <2>2, <3>3
    <3>5. SubSeq(Items(e), 1, f - 1) = SubSeq(Items(e), 1, f - 2) \o <<Items(e)[f - 1]>>
      <4>1. PICK s : s = Items(e)
        OBVIOUS
      <4>2. s \in Seq(Item) /\ 1 \in 1 .. Len(s) /\ f - 1 \in 1 .. Len(s)
        BY <1>1, <2>2, <3>3, <4>1
      <4>3. SubSeq(s, 1, f - 1) = SubSeq(s, 1, (f - 1) - 1) \o <<s[f - 1]>>
        BY <4>2, SubSeqRecursiveSecond
      <4> QED
        BY <4>1, <4>3, <3>3
    <3>6. delivered' = Upto(e - 1) \o SubSeq(Items(e), 1, f - 1)
      <4>1. PICK a, b, x : a = Upto(e - 1) /\ b = SubSeq(Items(e), 1, f - 2) /\ x = Items(e)[f - 1]
        OBVIOUS
      <4>2. a \in Seq(Item)
        BY <1>1, <4>1
      <4>3. b \in Seq(Item)
        BY <1>1, <2>2, <3>3, <4>1
      <4>4. x \in Item
        BY <1>1, <2>2, <3>3, <4>1
      <4>5. Append(a \o b, x) = a \o (b \o <<x>>)
        <5>1. a \o b \in Seq(Item) /\ <<x>> \in Seq(Item)
          BY <4>2, <4>3, <4>4
        <5>2. Append(a \o b, x) = (a \o b) \o <<x>>
          BY <4>4, <5>1, AppendIsConcat
        <5>3. (a \o b) \o <<x>> = a \o (b \o <<x>>)
          BY <4>2, <4>3, <5>1, Regroup, SMTT(30)
        <5> QED
          BY <5>2, <5>3
      <4>6. delivered = a \o b
        BY <3>2, <4>1
      <4>7. x = [msg |-> <<e, f>>, file |-> file, number |-> number]
        BY <3>2, <3>4, <4>1
      <4>8. b \o <<x>> = SubSeq(Items(e), 1, f - 1)
        BY <3>5, <4>1
      <4> QED
        BY <3>1, <4>1, <4>5, <4>6, <4>7, <4>8
    <3>7. f < m /\ f + 1 > 1 /\ ~(f + 1 <= 1) /\ number' = (f + 1) - 1 /\ file' = e /\ ~finished'
      BY <1>0, <2>4, <3>1, <3>2
    <3>8. Before(e, f + 1)'
      BY <1>2, <1>3, <3>3, <3>6, <3>7 DEF Before
    <3> QED
      BY <3>7, <3>8 DEF m
  <2>5. CASE f = m
    <3>1. finished' = TRUE /\ delivered' = delivered
      BY <2>1, <2>5 DEF Complete
    <3>2. f > 1
      BY <1>0, <2>2, <2>5
    <3>3. delivered = Upto(e - 1) \o SubSeq(Items(e), 1, f - 2)
      BY <1>3, <3>2 DEF Before
    <3>4. SubSeq(Items(e), 1, f - 2) = Items(e)
      BY <1>1, <2>2, <2>5, SubSeqFull
    <3>5. delivered' = Upto(e)
      BY <1>1, <3>1, <3>3, <3>4
    <3>6. Before(e + 1, 0)'
      BY <1>0, <1>2, <1>3, <3>1, <3>5 DEF Before
    <3>7. ~(f < m)
      BY <1>0, <2>5
    <3> QED
      BY <3>6, <3>7 DEF m
  <2> QED
    BY <1>0, <2>3, <2>4, <2>5
<1>4. CASE channel # "lines"
  <2>1. f = 1 /\ h.type = "pair" /\ m = 1
    BY <1>4, FrameKind, Frames DEF m
  <2>2. /\ delivered' = Append(delivered, [msg |-> <<e, 1>>, file |-> 0, number |-> 0])
        /\ finished' = finished
    BY <2>1 DEF Complete, receiver
  <2>3. delivered = Upto(e - 1) /\ finished /\ Items(e) = <<[msg |-> <<e, 1>>, file |-> 0, number |-> 0]>>
    BY <1>4, ItemsAre DEF Before
  <2>4. delivered' = Upto(e)
    <3>1. PICK a, x : a = Upto(e - 1) /\ x = [msg |-> <<e, 1>>, file |-> 0, number |-> 0]
      OBVIOUS
    <3>2. a \in Seq(Item) /\ x \in Item
      BY <1>0, <1>1, <3>1 DEF Item
    <3>3. Append(a, x) = a \o <<x>>
      BY <3>2
    <3> QED
      BY <1>1, <2>2, <2>3, <3>1, <3>3
  <2>5. Before(e + 1, 0)'
    BY <1>0, <1>2, <1>4, <2>2, <2>3, <2>4 DEF Before
  <2> QED
    BY <2>1, <2>5 DEF m
<1> QED
  BY <1>3, <1>4

\* Behind a part that is whole, the receiver goes on in the stream.
LEMMA GoOnSound ==
  ASSUME DataOK, NEW r \in Places, Place(r), Before(r[1], r[2]), Linked(pipe, After(r), pos, off),
         NEW h, HeaderOK(h), h.id = <<r[1], r[2]>>, NEW p, p = r[3], GoOn(h, p),
         UNCHANGED <<chosen, pipe, writer>>
  PROVE  Sound'
<1>1. /\ input' = input /\ channel' = channel /\ pipe' = pipe /\ pos' = pos /\ off' = off
      /\ hdr' = h /\ got' = <<>>
  BY DEF chosen, writer, GoOn
<1>2. /\ r[1] \in 1 .. Len(input) /\ r[2] \in 1 .. Len(FramesOf(input[r[1]]))
      /\ r[1] \in Nat /\ r[2] \in Nat /\ r[1] # 0
  BY InputLen DEF Place, Places
<1>3. h.id # Damaged /\ h.id[1] = r[1] /\ h.id[2] = r[2]
  BY <1>2 DEF Damaged
<1>4. h.type = FrameAt(r[1], r[2]).type /\ h.lens = Lengths(r) /\ h.lens \in Seq(Lens) /\ Len(h.lens) <= 2
  BY <1>3 DEF HeaderOK, Headers, Lengths
<1>5. Here' = After(r) /\ Progress'
  <2>1. CASE NextParts(h.lens, p) # {}
    <3>1. PICK q : q = Min(NextParts(h.lens, p))
      OBVIOUS
    <3>2. part' = q /\ UNCHANGED <<receiver, delivered>>
      BY <2>1, <3>1 DEF GoOn
    <3>3. q > 0
      <4>1. p \in Nat
        BY DEF Places
      <4> QED
        BY <1>4, <2>1, <3>1, <4>1, NextPart
    <3>4. Here' = <<r[1], r[2], q>>
      BY <1>1, <1>3, <3>2, <3>3 DEF Here
    <3>5. After(r) = <<r[1], r[2], q>>
      BY <1>4, <2>1, <3>1 DEF After
    <3>6. \A e, f : Before(e, f) <=> Before(e, f)'
      BY <1>1, <3>2, Fixed DEF Before, receiver
    <3>7. Here'[1] = r[1] /\ Here'[2] = r[2]
      BY <3>4
    <3>8. Before(Here[1], Here[2])'
      BY <3>6, <3>7
    <3> QED
      BY <3>4, <3>5, <3>8 DEF Progress
  <2>2. CASE NextParts(h.lens, p) = {}
    <3>1. Complete(h) /\ part' = 0
      BY <2>2 DEF GoOn, Complete
    <3>2. IF r[2] < Len(FramesOf(input[r[1]])) THEN Before(r[1], r[2] + 1)' ELSE Before(r[1] + 1, 0)'
      BY <1>1, <1>2, <1>4, <3>1, CompleteNext
    <3>3. Here' = IF r[2] < Len(FramesOf(input[r[1]])) THEN <<r[1], r[2] + 1, 0>> ELSE <<r[1] + 1, 0, 0>>
      <4>0. ~(part' > 0)
        BY <3>1
      <4>1. hdr'.id # Damaged
        BY <1>1, <1>3
      <4>2. Here' = IF hdr'.id[2] < Len(FramesOf(input'[hdr'.id[1]]))
                    THEN <<hdr'.id[1], hdr'.id[2] + 1, 0>> ELSE <<hdr'.id[1] + 1, 0, 0>>
        BY <4>0, <4>1 DEF Here, Damaged
      <4> QED
        BY <1>1, <1>3, <4>2
    <3>4. After(r) = IF r[2] < Len(FramesOf(input[r[1]])) THEN <<r[1], r[2] + 1, 0>> ELSE <<r[1] + 1, 0, 0>>
      BY <1>4, <2>2 DEF After
    <3>5. Before(Here[1], Here[2])'
      <4>1. CASE r[2] < Len(FramesOf(input[r[1]]))
        <5>1. Here'[1] = r[1] /\ Here'[2] = r[2] + 1
          BY <3>3, <4>1
        <5> QED
          BY <3>2, <4>1, <5>1
      <4>2. CASE ~(r[2] < Len(FramesOf(input[r[1]])))
        <5>1. Here'[1] = r[1] + 1 /\ Here'[2] = 0
          BY <3>3, <4>2
        <5> QED
          BY <3>2, <4>2, <5>1
      <4> QED
        BY <4>1, <4>2
    <3> QED
      BY <3>3, <3>4, <3>5 DEF Progress
  <2> QED
    BY <2>1, <2>2
<1>6. Chain'
  <2>1. Linked(pipe, After(r), pos, off)'
    BY <1>1, FixedLinks, Fixed
  <2>2. got' \o pipe' = pipe'
    <3>1. pipe \in Seq(Cells)
      BY DEF DataOK, CellsOK
    <3> QED
      BY <1>1, <3>1
  <2>3. Linked(got' \o pipe', After(r), pos', off')
    BY <1>1, <2>2
  <2> QED
    BY <1>1, <1>5, <2>3, FixedLinks DEF Chain, Flow
<1>7. (part > 0 => hdr.id # Damaged)'
  BY <1>1, <1>3
<1> QED
  BY <1>5, <1>6, <1>7 DEF Sound

\* A header that has come begins the frame after what was delivered.
LEMMA NextFrame ==
  ASSUME DataOK, FlagsOK, Sound, part = 0, got # <<>>
  PROVE  LET e == got[1][1]
             f == got[1][2] IN
         /\ <<e, f, 0>> \in Places /\ Place(<<e, f, 0>>)
         /\ got = [k \in 1 .. Len(got) |-> Cell(<<e, f, 0>>, k)]
         /\ Before(e, f) /\ FrameAt(e, f).type \in Expect
<1>1. PICK e, f : e = got[1][1] /\ f = got[1][2]
  OBVIOUS
<1>2. PICK r \in Places :
           /\ r = <<got[1][1], got[1][2], got[1][3]>> /\ Place(r) /\ r[3] = part /\ Same(Here, r)
           /\ got = [k \in 1 .. Len(got) |-> Cell(r, k)]
  BY GotPart
<1>3. r = <<e, f, 0>> /\ r[1] = e /\ r[2] = f
  BY <1>1, <1>2
<1>4. Here \in Places /\ Here[1] \in 1 .. Len(input) + 1 /\ Before(Here[1], Here[2])
  BY HerePlace DEF Sound, Progress
<1>5. /\ e \in 1 .. Len(input) /\ f \in 1 .. Len(FramesOf(input[e])) /\ Len(input) \in Nat
      /\ Len(FramesOf(input[e])) \in Nat
  BY <1>2, <1>3, InputLen, Frames DEF Place
<1>6. Before(e, f)
  BY <1>2, <1>3, <1>4, <1>5, BeforeSame
<1>7. FrameAt(e, f).type \in Expect
  <2>1. CASE channel = "lines"
    <3>1. finished <=> f <= 1
      BY <1>6, <2>1 DEF Before
    <3>2. /\ FrameAt(e, f).type = "name" <=> f = 1
          /\ FrameAt(e, f).type = "eof" <=> f = Len(FramesOf(input[e]))
          /\ FrameAt(e, f).type = "line" <=> f \in 2 .. Len(FramesOf(input[e])) - 1
      BY <1>5, <2>1, FrameKind
    <3>3. CASE f <= 1
      BY <1>5, <2>1, <3>1, <3>2, <3>3 DEF Expect
    <3>4. CASE ~(f <= 1)
      <4>1. FrameAt(e, f).type \in {"line", "eof"}
        BY <1>5, <3>2, <3>4
      <4> QED
        BY <2>1, <3>1, <3>4, <4>1 DEF Expect
    <3> QED
      BY <3>3, <3>4
  <2>2. CASE channel # "lines"
    BY <1>5, <2>2, FrameKind DEF Expect
  <2> QED
    BY <2>1, <2>2
<1> QED
  BY <1>1, <1>2, <1>3, <1>6, <1>7

\* A stream that ends inside a message or a file was cut by the death of the sender.
LEMMA OnlyDeathCuts ==
  ASSUME DataOK, FlagsOK, Sound, AtEof, result = "none", Len(got) < Want,
         got # <<>> \/ part > 0 \/ ~finished
  PROVE  sender = "dead" /\ "death" \in failed
<1>1. sender \in {"closed", "dead"} /\ pipe = <<>>
  BY DEF AtEof
<1>2. SUFFICES sender # "closed"
  BY <1>1 DEF DataOK, FaultsOK
<1>3. SUFFICES ASSUME sender = "closed" PROVE FALSE
  OBVIOUS
<1>4. /\ pos \in Places /\ pos[1] > Len(input) /\ pos[2] = 0 /\ off = 0 /\ Len(input) \in Nat
  BY <1>3, InputLen DEF DataOK, SenderOK, Place, Places
<1>5. Flow = got /\ got \in Seq(Cells)
  BY <1>1 DEF Flow, DataOK, CellsOK
<1>6. Linked(got, Here, pos, off)
  BY <1>5 DEF Sound, Chain
<1>7. CASE got = <<>>
  <2>1. Same(Here, pos)
    BY <1>6, <1>7 DEF Linked
  <2>2. Here[2] = 0
    BY <1>4, <2>1 DEF Same
  <2>3. part = 0
    <3>1. part > 0 => Place(Here)
      BY HerePlace DEF Sound
    <3>2. ~Place(Here)
      BY <2>2 DEF Place
    <3> QED
      BY <3>1, <3>2 DEF DataOK, ReadingOK, HeaderOK, Headers
  <2>4. finished
    <3>1. Here[2] <= 1
      BY <2>2
    <3> QED
      BY <3>1 DEF Sound, Progress, Before
  <2> QED
    BY <1>7, <2>3, <2>4
<1>8. CASE got # <<>>
  <2>1. PICK r \in Places : /\ Place(r) /\ PartLen(r) = Want
                            /\ got = [k \in 1 .. Len(got) |-> Cell(r, k)]
    BY <1>8, GotPart
  <2>2. Len(got) \in 1 .. Len(got) /\ Len(got) \in Nat
    BY <1>5, <1>8
  <2>3. got[Len(got)] = Cell(r, Len(got))
    BY <2>1, <2>2
  <2>4. Ends(got[Len(got)], pos, off)
    BY <1>6, <1>8 DEF Linked
  <2>5. got[Len(got)][4] = PartLen(got[Len(got)])
    BY <1>4, <2>4 DEF Ends
  <2>6. Len(got) = PartLen(r)
    BY <2>2, <2>3, <2>5, CellParts
  <2> QED
    BY <2>1, <2>2, <2>6, WantLen
<1> QED
  BY <1>7, <1>8

--------------------------------------------------------------------------------
(***************************************************************************)
(* What was delivered                                                      *)
(***************************************************************************)

\* While the stream is sound, all that was delivered is in order.
LEMMA SoundWhole ==
  ASSUME DataOK, Sound
  PROVE  /\ IsPrefix(delivered, Expected) /\ Whole(Len(delivered)) /\ Len(delivered) \in Nat
         /\ finished => \E e \in 0 .. Len(input) : delivered = Upto(e)
<1>1. PICK e, f : e = Here[1] /\ f = Here[2]
  OBVIOUS
<1>2. /\ Len(input) \in Nat /\ e \in 1 .. Len(input) + 1 /\ e - 1 \in 0 .. Len(input) /\ f \in Nat
      /\ f > 0 => e \in 1 .. Len(input) /\ f \in 1 .. Len(FramesOf(input[e]))
  BY <1>1, HerePlace, InputLen DEF Sound, Places
<1>3. Before(e, f)
  BY <1>1 DEF Sound, Progress
<1>4. Expected = Upto(Len(input)) /\ Upto(e - 1) \in Seq(Item) /\ Expected \in Seq(Item)
  BY <1>2, UptoAre DEF Expected
<1>5. delivered \in Seq(Item) /\ Len(delivered) \in Nat
  BY DEF DataOK, OutOK
<1>5a. IsPrefix(delivered, Expected) => Whole(Len(delivered))
  <2>1. SubSeq(delivered, 1, Len(delivered)) = delivered
    BY <1>5, SubSeqFull
  <2>2. \A k \in Len(delivered) + 1 .. Len(delivered) : delivered[k].msg = Damaged
    BY <1>5
  <2> QED
    BY <2>1, <2>2 DEF Whole
<1>6. CASE channel = "lines" /\ f > 1
  <2>1. e \in 1 .. Len(input) /\ f \in 1 .. Len(FramesOf(input[e])) /\ Len(FramesOf(input[e])) \in Nat
    BY <1>2, <1>6, Frames
  <2>2. input[e].kind # "skip"
    BY <2>1, Frames
  <2>3. Len(Items(e)) = Len(FramesOf(input[e])) - 2 /\ Items(e) \in Seq(Item)
    BY <1>6, <2>1, <2>2, ItemsAre
  <2>4. f - 2 \in 0 .. Len(Items(e))
    BY <1>2, <1>6, <2>1, <2>3
  <2>5. delivered = Upto(e - 1) \o SubSeq(Items(e), 1, f - 2) /\ ~finished
    <3>1. ~(f <= 1)
      BY <1>2, <1>6
    <3> QED
      BY <1>3, <1>6, <3>1 DEF Before
  <2>6. Upto(e) = Upto(e - 1) \o Items(e) /\ Upto(e) \in Seq(Item)
    BY <1>2, <2>1, UptoAre
  <2>7. IsPrefix(delivered, Upto(e))
    <3>1. PICK a, b, c : a = Upto(e - 1) /\ b = Items(e) /\ c = SubSeq(Items(e), 1, f - 2)
      OBVIOUS
    <3>2. a \in Seq(Item) /\ b \in Seq(Item)
      BY <1>4, <2>3, <3>1
    <3>3. c \in Seq(Item) /\ Len(c) <= Len(b) /\ \A k \in 1 .. Len(c) : c[k] = b[k]
      BY <2>3, <2>4, <3>1
    <3>4. IsPrefix(a \o c, a \o b)
      BY <3>2, <3>3 DEF IsPrefix
    <3> QED
      BY <2>5, <2>6, <3>1, <3>4
  <2>8. IsPrefix(Upto(e), Expected)
    BY <1>2, <1>4, <2>1, UptoPrefix
  <2>9. IsPrefix(delivered, Expected)
    BY <1>4, <1>5, <2>6, <2>7, <2>8 DEF IsPrefix
  <2> QED
    BY <1>5, <1>5a, <2>5, <2>9
<1>7. CASE ~(channel = "lines" /\ f > 1)
  <2>1. delivered = Upto(e - 1)
    <3>1. f <= 1 \/ channel # "lines"
      BY <1>2, <1>7
    <3> QED
      BY <1>3, <3>1 DEF Before
  <2>2. IsPrefix(delivered, Expected)
    BY <1>2, <1>4, <2>1, UptoPrefix
  <2> QED
    BY <1>2, <1>5, <1>5a, <2>1, <2>2
<1> QED
  BY <1>6, <1>7

\* The first messages stay when one is appended, and a damaged one may be.
LEMMA WholeStays ==
  ASSUME DataOK, input' = input, NEW n \in 0 .. Len(delivered), Whole(n),
         \/ delivered' = delivered
         \/ \E x \in Item : x.msg = Damaged /\ delivered' = Append(delivered, x)
  PROVE  n \in 0 .. Len(delivered') /\ Whole(n)' /\ Len(delivered') <= Len(delivered) + 1
<1>1. delivered \in Seq(Item) /\ Len(delivered) \in Nat /\ Expected' = Expected
  BY Fixed DEF DataOK, OutOK
<1>2. CASE delivered' = delivered
  BY <1>1, <1>2 DEF Whole
<1>3. CASE \E x \in Item : x.msg = Damaged /\ delivered' = Append(delivered, x)
  <2>1. PICK x \in Item : x.msg = Damaged /\ delivered' = Append(delivered, x)
    BY <1>3
  <2>2. PICK d, s : d = delivered /\ s = Append(delivered, x)
    OBVIOUS
  <2>3. d \in Seq(Item) /\ Len(d) \in Nat /\ n \in 0 .. Len(d)
    BY <1>1, <2>2
  <2>4. s \in Seq(Item) /\ Len(s) = Len(d) + 1 /\ \A k \in 1 .. Len(d) : s[k] = d[k]
    BY <2>2, <2>3
  <2>5. s[Len(d) + 1] = x
    BY <2>2, <2>3
  <2>6. SubSeq(s, 1, n) = SubSeq(d, 1, n)
    BY <2>3, <2>4
  <2>7. \A k \in n + 1 .. Len(s) : s[k].msg = Damaged
    <3> TAKE k \in n + 1 .. Len(s)
    <3>1. CASE k = Len(d) + 1
      BY <2>1, <2>5, <3>1
    <3>2. CASE k # Len(d) + 1
      <4>1. k \in n + 1 .. Len(d) /\ k \in 1 .. Len(d)
        BY <2>3, <2>4, <3>2
      <4>2. d[k].msg = Damaged
        BY <2>2, <4>1 DEF Whole
      <4> QED
        BY <2>4, <4>1, <4>2
    <3> QED
      BY <3>1, <3>2
  <2>8. Whole(n)'
    BY <1>1, <2>1, <2>2, <2>6, <2>7 DEF Whole, Damaged
  <2>9. delivered' = s /\ Len(d) = Len(delivered)
    BY <2>1, <2>2
  <2>10. n \in 0 .. Len(s) /\ Len(s) <= Len(d) + 1
    BY <2>3, <2>4
  <2> QED
    BY <2>8, <2>9, <2>10
<1> QED
  BY <1>2, <1>3

--------------------------------------------------------------------------------
(***************************************************************************)
(* The stream is sound until it is cut                                     *)
(***************************************************************************)

\* What a receiver delivers by a damaged header is a damaged message.
LEMMA DamagedOut ==
  ASSUME DataOK, NEW h, HeaderOK(h), h.id = Damaged, NEW p, GoOn(h, p)
  PROVE  /\ NextParts(h.lens, p) # {} => UNCHANGED <<receiver, delivered>>
         /\ NextParts(h.lens, p) = {} => part' = 0
         /\ NextParts(h.lens, p) = {} /\ h.type = "name" => ~finished' /\ delivered' = delivered
         /\ NextParts(h.lens, p) = {} /\ h.type = "eof" => finished' /\ delivered' = delivered
         /\ NextParts(h.lens, p) = {} /\ h.type \in {"line", "pair"} => finished' = finished
         /\ \/ delivered' = delivered
            \/ \E x \in Item : x.msg = Damaged /\ delivered' = Append(delivered, x)
<1>1. h.type \in Types /\ h.id = <<0, 0>> /\ file \in Nat /\ number \in Nat
  BY InputLen DEF HeaderOK, Headers, DataOK, OutOK, Damaged
<1>2. CASE NextParts(h.lens, p) # {}
  BY <1>2 DEF GoOn
<1>3. CASE NextParts(h.lens, p) = {}
  <2>1. Complete(h) /\ part' = 0
    BY <1>3 DEF GoOn, Complete
  <2>2. CASE h.type = "name"
    <3>1. finished' = FALSE /\ delivered' = delivered
      BY <2>1, <2>2 DEF Complete, StartFile
    <3> QED
      BY <1>3, <2>1, <2>2, <3>1
  <2>3. CASE h.type = "eof"
    <3>1. finished' = TRUE /\ delivered' = delivered
      BY <2>1, <2>3 DEF Complete
    <3> QED
      BY <1>3, <2>1, <2>3, <3>1
  <2>4. CASE h.type = "line"
    <3>1. PICK x : x = [msg |-> h.id, file |-> file, number |-> number]
      OBVIOUS
    <3>2. delivered' = Append(delivered, x) /\ finished' = finished
      BY <2>1, <2>4, <3>1 DEF Complete
    <3>3. x \in Item /\ x.msg = Damaged
      BY <1>1, <3>1 DEF Item, Damaged
    <3> QED
      BY <1>3, <2>1, <2>4, <3>2, <3>3
  <2>5. CASE h.type = "pair"
    <3>1. PICK x : x = [msg |-> h.id, file |-> 0, number |-> 0]
      OBVIOUS
    <3>2. delivered' = Append(delivered, x) /\ finished' = finished
      BY <2>1, <2>5, <3>1 DEF Complete, receiver
    <3>3. x \in Item /\ x.msg = Damaged
      BY <1>1, <3>1 DEF Item, Damaged
    <3> QED
      BY <1>3, <2>1, <2>5, <3>2, <3>3
  <2> QED
    BY <1>1, <2>2, <2>3, <2>4, <2>5 DEF Types
<1> QED
  BY <1>2, <1>3

\* With the sender dead and the pipe empty, the receiver goes on by a damaged header.
LEMMA CutStep ==
  ASSUME DataOK, FlagsOK, sender = "dead", "death" \in failed, pipe = <<>>,
         UNCHANGED <<chosen, writer, pipe, budget>>,
         NEW h, HeaderOK(h), h.id = Damaged, NEW p \in Nat, GoOn(h, p),
         channel = "results" => ndebug,
         NEW n \in 0 .. Len(delivered), Whole(n), AssertsGone \/ Len(delivered) <= n,
         channel = "lines" => h.type \in {"name", "line", "eof"},
         channel = "lines" /\ h.type = "line" => ~finished,
         h.type = "eof" => h.lens = <<>>,
         channel = "lines" /\ h.type = "eof" /\ ~ndebug => \E e \in 0 .. Len(input) : delivered = Upto(e),
         channel # "lines" => finished /\ h.type = "pair"
  PROVE  Cut'
<1>1. /\ sender' = "dead" /\ "death" \in failed' /\ pipe' = <<>> /\ input' = input
      /\ channel' = channel /\ ndebug' = ndebug
  BY DEF chosen, writer, budget
<1>2. got' = <<>> /\ hdr' = h /\ hdr'.id = Damaged
  BY DEF GoOn
<1>3. /\ NextParts(h.lens, p) # {} => UNCHANGED <<receiver, delivered>>
      /\ NextParts(h.lens, p) = {} => part' = 0
      /\ NextParts(h.lens, p) = {} /\ h.type = "name" => ~finished' /\ delivered' = delivered
      /\ NextParts(h.lens, p) = {} /\ h.type = "eof" => finished' /\ delivered' = delivered
      /\ NextParts(h.lens, p) = {} /\ h.type \in {"line", "pair"} => finished' = finished
      /\ \/ delivered' = delivered
         \/ \E x \in Item : x.msg = Damaged /\ delivered' = Append(delivered, x)
  BY DamagedOut
<1>4. /\ n \in 0 .. Len(delivered') /\ Whole(n)' /\ Len(delivered') <= Len(delivered) + 1
      /\ Len(delivered) \in Nat /\ Len(delivered') \in Nat /\ n \in Nat
  <2>1. Len(delivered) \in Nat /\ Len(delivered') \in Nat
    BY GoOnData DEF DataOK, OutOK
  <2> QED
    BY <1>1, <1>3, <2>1, WholeStays
<1>5. part' > 0 => NextParts(h.lens, p) # {}
  BY <1>3
<1>6. NextParts(h.lens, p) # {} => part' > 0
  <2> SUFFICES ASSUME NextParts(h.lens, p) # {} PROVE part' > 0
    OBVIOUS
  <2>1. part' = Min(NextParts(h.lens, p))
    BY DEF GoOn
  <2>2. h.lens \in Seq(Lens) /\ Len(h.lens) <= 2
    BY DEF HeaderOK, Headers
  <2> QED
    BY <2>1, <2>2, NextPart
<1>7. h.type = "eof" => NextParts(h.lens, p) = {}
  BY DEF NextParts
<1>8. AssertsGone' \/ Len(delivered') <= n + IF part' = 0 THEN 1 ELSE 0
  <2>1. CASE AssertsGone
    BY <1>1, <2>1 DEF AssertsGone
  <2>2. CASE Len(delivered) <= n
    <3>1. CASE NextParts(h.lens, p) = {}
      BY <1>3, <1>4, <2>2, <3>1
    <3>2. CASE NextParts(h.lens, p) # {}
      <4>1. delivered' = delivered
        BY <1>3, <3>2
      <4>2. n + (IF part' = 0 THEN 1 ELSE 0) >= n
        BY <1>4
      <4> QED
        BY <1>4, <2>2, <4>1, <4>2
    <3> QED
      BY <3>1, <3>2
  <2> QED
    BY <2>1, <2>2
<1>9. channel = "lines" /\ part' > 0 => h.type = "name" \/ (h.type = "line" /\ ~finished')
  <2> SUFFICES ASSUME channel = "lines", part' > 0
               PROVE  h.type = "name" \/ (h.type = "line" /\ ~finished')
    OBVIOUS
  <2>1. finished' = finished
    BY <1>3, <1>5 DEF receiver
  <2>2. h.type # "eof"
    BY <1>5, <1>7
  <2> QED
    BY <2>1, <2>2
<1>10. ASSUME channel = "lines", ~ndebug, part' = 0, finished'
       PROVE  \E e \in 0 .. Len(input') : delivered' = Upto(e)'
  <2>1. NextParts(h.lens, p) = {}
    BY <1>6, <1>10
  <2>2. h.type = "eof"
    <3>1. h.type # "name"
      BY <1>3, <1>10, <2>1
    <3>2. h.type # "line"
      BY <1>3, <1>10, <2>1
    <3> QED
      BY <1>10, <3>1, <3>2
  <2>3. delivered' = delivered
    BY <1>3, <2>1, <2>2
  <2>4. PICK e \in 0 .. Len(input) : delivered = Upto(e)
    BY <1>10, <2>2
  <2> QED
    BY <1>1, <2>3, <2>4, Fixed
<1>11. channel # "lines" => finished' /\ h.type = "pair"
  <2> SUFFICES ASSUME channel # "lines" PROVE finished' /\ h.type = "pair"
    OBVIOUS
  <2>1. h.type = "pair" /\ finished
    OBVIOUS
  <2>2. finished' = finished
    BY <1>3, <2>1 DEF receiver
  <2> QED
    BY <2>1, <2>2
<1>12. \E m \in 0 .. Len(delivered') :
         Whole(m)' /\ (AssertsGone' \/ Len(delivered') <= m + IF part' = 0 THEN 1 ELSE 0)
  BY <1>4, <1>8
<1> QED
  BY <1>1, <1>2, <1>9, <1>10, <1>11, <1>12 DEF Cut

\* A step that leaves stream and receiver alone keeps the stream as it is.
LEMMA StreamStays ==
  ASSUME DataOK, UNCHANGED <<chosen, pos, off, pipe, receiver, reading, delivered>>
  PROVE  /\ Sound => Sound'
         /\ Cut /\ sender' = sender /\ failed \subseteq failed' => Cut'
<1>1. input' = input /\ channel' = channel /\ ndebug' = ndebug /\ finished' = finished
      /\ delivered' = delivered /\ got' = got /\ pipe' = pipe /\ part' = part /\ hdr' = hdr
      /\ pos' = pos /\ off' = off
  BY DEF chosen, receiver, reading
<1>2. Sound => Sound'
  <2> SUFFICES ASSUME Sound PROVE Sound'
    OBVIOUS
  <2>1. Linked(got' \o pipe', Here, pos', off')
    BY <1>1 DEF Sound, Chain, Flow
  <2> QED
    BY <1>1, <2>1, SoundStays
<1>3. Cut /\ sender' = sender /\ failed \subseteq failed' => Cut'
  <2> SUFFICES ASSUME Cut, sender' = sender, failed \subseteq failed' PROVE Cut'
    OBVIOUS
  <2>1. \A n : Whole(n)' <=> Whole(n)
    BY <1>1, Fixed DEF Whole, Damaged
  <2>2. AssertsGone' <=> AssertsGone
    BY <1>1 DEF AssertsGone
  <2>3. \A e : Upto(e)' = Upto(e)
    BY <1>1, Fixed
  <2> QED
    BY <1>1, <2>1, <2>2, <2>3 DEF Cut, Damaged
<1> QED
  BY <1>2, <1>3

\* In a stream that is cut, only stops and damaged messages follow.
LEMMA CutReceives ==
  ASSUME DataOK, FlagsOK, Cut, HeaderRead \/ PartRead
  PROVE  Cut'
<1>1. /\ sender = "dead" /\ "death" \in failed /\ pipe = <<>> /\ got = <<>> /\ hdr.id = Damaged
      /\ channel = "results" => ndebug
      /\ channel = "lines" /\ part > 0 => hdr.type = "name" \/ (hdr.type = "line" /\ ~finished)
      /\ channel # "lines" => finished /\ hdr.type = "pair"
  BY DEF Cut
<1>2. PICK n \in 0 .. Len(delivered) :
        Whole(n) /\ (AssertsGone \/ Len(delivered) <= n + IF part = 0 THEN 1 ELSE 0)
  BY DEF Cut
<1>3. UNCHANGED <<chosen, writer, pipe, budget>>
  BY DEF HeaderRead, PartRead
<1>4. ASSUME NEW r, Stop(r) PROVE Cut'
  <2>1. UNCHANGED <<receiver, reading, delivered>>
    BY <1>4 DEF Stop
  <2>2. UNCHANGED <<chosen, pos, off, pipe, receiver, reading, delivered>> /\ sender' = sender
        /\ failed \subseteq failed'
    BY <1>3, <2>1 DEF writer, budget
  <2> QED
    BY <2>2, StreamStays
<1>5. part \in Nat /\ Len(delivered) \in Nat /\ Len(hdr.lens) \in Nat /\ Want \in Nat /\ Want >= 1
  BY WantLen DEF DataOK, ReadingOK, HeaderOK, Headers, OutOK
<1>6. CASE HeaderRead /\ UseGarbage /\ ~finished /\ ndebug
  <2>1. SUFFICES ASSUME ~Stop("error") PROVE Cut'
    BY <1>4
  <2>2. PICK h : /\ HeaderOK(h) /\ h.id = Damaged /\ GoOn(h, 0)
                 /\ h.type \in Expect /\ (h.type = "eof" => h.lens = <<>>)
    BY <1>6, <2>1, GarbageHeader
  <2>3. channel = "lines" /\ AssertsGone
    BY <1>1, <1>6 DEF AssertsGone
  <2>4. h.type \in {"line", "eof"}
    BY <1>6, <2>2, <2>3 DEF Expect
  <2> QED
    BY <1>1, <1>2, <1>3, <1>6, <2>2, <2>3, <2>4, CutStep
<1>7. CASE PartRead
  <2>1. part > 0
    BY <1>7 DEF PartRead
  <2>2. ~IsPart(hdr.id[1], hdr.id[2], part, Want)
    <3> SUFFICES ASSUME IsPart(hdr.id[1], hdr.id[2], part, Want) PROVE FALSE
      OBVIOUS
    <3>1. Len(got) = Want
      BY <1>5 DEF IsPart
    <3> QED
      BY <1>1, <1>5, <3>1
  <2>3. CASE \E h : /\ HeaderOK(h) /\ h.id = Damaged /\ h.type = hdr.type
                    /\ h.lens = hdr.lens /\ GoOn(h, part)
    <3>1. PICK h : /\ HeaderOK(h) /\ h.id = Damaged /\ h.type = hdr.type
                   /\ h.lens = hdr.lens /\ GoOn(h, part)
      BY <2>3
    <3>2. Len(delivered) <= n \/ AssertsGone
      <4>1. (IF part = 0 THEN 1 ELSE 0) = 0
        BY <1>5, <2>1
      <4> QED
        BY <1>2, <1>5, <4>1
    <3>3. channel = "lines" => h.type \in {"name", "line"} /\ (h.type = "line" => ~finished)
      BY <1>1, <2>1, <3>1
    <3>4. h.type # "eof"
      BY <1>1, <3>1, <3>3
    <3>5. channel # "lines" => finished /\ h.type = "pair"
      BY <1>1, <3>1
    <3> QED
      BY <1>1, <1>2, <1>3, <1>5, <3>1, <3>2, <3>3, <3>4, <3>5, CutStep
  <2>4. CASE Stop("abort")
    BY <1>4, <2>4
  <2> QED
    BY <1>7, <2>2, <2>3, <2>4, PartHeader
<1>8. CASE HeaderRead /\ (Stop("end") \/ Stop("abort"))
  BY <1>4, <1>8
<1> QED
  BY <1>1, <1>6, <1>7, <1>8, HeaderCases

\* A sound stream stays sound when a header is read, or it is cut.
LEMMA SoundHeader ==
  ASSUME DataOK, FlagsOK, Sound, HeaderRead
  PROVE  Sound' \/ Cut'
<1>1. UNCHANGED <<chosen, writer, pipe, budget>> /\ ReadReturns /\ part = 0 /\ result = "none"
  BY DEF HeaderRead, ReadReturns, Reading
<1>2. ASSUME NEW r, Stop(r) PROVE Sound'
  <2>1. UNCHANGED <<receiver, reading, delivered>>
    BY <1>2 DEF Stop
  <2>2. UNCHANGED <<chosen, pos, off, pipe, receiver, reading, delivered>>
    BY <1>1, <2>1 DEF writer
  <2> QED
    BY <2>2, StreamStays
<1>3. /\ Want = H /\ H = 2 /\ Len(got) \in Nat /\ Len(got) <= Want /\ pipe \in Seq(Cells)
      /\ got \in Seq(Cells)
  BY <1>1, WantLen, Bounds DEF Want, DataOK, CellsOK
<1>3a. Want = H /\ H \in Nat /\ Want \in Nat /\ Len(got) \in Nat /\ Len(got) <= Want
  BY <1>3
<1>4. /\ Whole(Len(delivered)) /\ Len(delivered) \in Nat
      /\ channel # "lines" => finished
  BY SoundWhole DEF Sound, Progress, Before
<1>5. ASSUME Len(got) < Want, got # <<>> \/ ~finished
      PROVE  sender = "dead" /\ "death" \in failed /\ pipe = <<>>
  <2>1. AtEof
    <3>1. Len(got) # Want
      BY <1>3a, <1>5
    <3> QED
      BY <1>1, <3>1 DEF ReadReturns
  <2>2. pipe = <<>>
    BY <2>1 DEF AtEof
  <2> QED
    BY <1>1, <1>5, <2>1, <2>2, OnlyDeathCuts
<1>6. CASE got = <<>> /\ ~finished /\ ndebug /\ UseGarbage
  <2>1. SUFFICES ASSUME ~Stop("error") PROVE Cut'
    BY <1>2
  <2>2. PICK h : /\ HeaderOK(h) /\ h.id = Damaged /\ GoOn(h, 0)
                 /\ h.type \in Expect /\ (h.type = "eof" => h.lens = <<>>)
    BY <1>6, <2>1, GarbageHeader
  <2>3. channel = "lines" /\ h.type \in {"line", "eof"}
    BY <1>4, <1>6, <2>2 DEF Expect
  <2>4. sender = "dead" /\ "death" \in failed /\ pipe = <<>>
    <3>1. Len(got) < Want
      BY <1>3, <1>6
    <3> QED
      BY <1>5, <1>6, <3>1
  <2>5. Len(delivered) \in 0 .. Len(delivered) /\ Len(delivered) <= Len(delivered)
    BY <1>4
  <2> QED
    BY <1>1, <1>4, <1>6, <2>2, <2>3, <2>4, <2>5, CutStep
<1>7. ASSUME got # <<>>
      PROVE  \E e, f : /\ e = got[1][1] /\ f = got[1][2] /\ <<e, f, 0>> \in Places /\ Place(<<e, f, 0>>)
                       /\ got = [k \in 1 .. Len(got) |-> Cell(<<e, f, 0>>, k)]
                       /\ Before(e, f) /\ FrameAt(e, f).type \in Expect
  BY <1>1, <1>7, NextFrame
<1>8. CASE /\ got # <<>> /\ IsPart(got[1][1], got[1][2], 0, H)
           /\ GoOn([id |-> <<got[1][1], got[1][2]>>,
                    type |-> FrameAt(got[1][1], got[1][2]).type,
                    lens |-> FrameAt(got[1][1], got[1][2]).lens], 0)
  <2>1. PICK e, f : /\ e = got[1][1] /\ f = got[1][2] /\ <<e, f, 0>> \in Places /\ Place(<<e, f, 0>>)
                    /\ got = [k \in 1 .. Len(got) |-> Cell(<<e, f, 0>>, k)] /\ Before(e, f)
    BY <1>7, <1>8
  <2>2. Len(got) = H
    BY <1>3, <1>8 DEF IsPart
  <2>3. PICK r : r = <<e, f, 0>>
    OBVIOUS
  <2>4. r \in Places /\ Place(r) /\ PartLen(r) = H /\ r[1] = e /\ r[2] = f /\ r[3] = 0
    BY <2>1, <2>3, PartLenPos
  <2>5. Linked(pipe, After(r), pos, off)
    BY <2>1, <2>2, <2>3, <2>4, TakePart
  <2>6. PICK h : h = [id |-> <<e, f>>, type |-> FrameAt(e, f).type, lens |-> FrameAt(e, f).lens]
    OBVIOUS
  <2>7. HeaderOK(h) /\ h.id = <<e, f>> /\ GoOn(h, 0)
    BY <1>8, <2>1, <2>6, FrameHeader
  <2> QED
    BY <1>1, <2>1, <2>4, <2>5, <2>7, GoOnSound
<1>9. CASE got # <<>> /\ FrameAt(got[1][1], got[1][2]).type \notin Expect
  BY <1>7, <1>9
<1>10. CASE /\ got # <<>> /\ ~IsPart(got[1][1], got[1][2], 0, H)
            /\ ~(channel = "results" /\ ~ndebug /\ Len(got) < H) /\ UseGarbage
  <2>0. SUFFICES ASSUME ~Stop("error") PROVE Cut'
    BY <1>2
  <2>1. PICK e, f : /\ e = got[1][1] /\ f = got[1][2] /\ Place(<<e, f, 0>>)
                    /\ got = [k \in 1 .. Len(got) |-> Cell(<<e, f, 0>>, k)] /\ Before(e, f)
    BY <1>7, <1>10
  <2>2. Len(got) < Want
    <3>1. Len(got) # H
      <4> SUFFICES ASSUME Len(got) = H PROVE FALSE
        OBVIOUS
      <4>1. IsPart(e, f, 0, H)
        BY <2>1 DEF IsPart
      <4> QED
        BY <1>10, <2>1, <4>1
    <3> QED
      BY <1>3a, <3>1
  <2>3. sender = "dead" /\ "death" \in failed /\ pipe = <<>>
    BY <1>5, <1>10, <2>2
  <2>4. channel = "results" => ndebug
    BY <1>3, <1>10, <2>2 DEF FlagsOK
  <2>5. PICK h : /\ HeaderOK(h) /\ h.id = Damaged /\ GoOn(h, 0)
                 /\ h.type \in Expect /\ (h.type = "eof" => h.lens = <<>>)
                 /\ h.type \in {"line", "eof"} => h.type = FrameAt(e, f).type
    BY <1>10, <2>0, <2>1, GarbageHeader
  <2>6. channel = "lines" => /\ h.type \in {"name", "line", "eof"}
                             /\ h.type \in {"line", "eof"} => ~finished
    BY <2>5 DEF Expect
  <2>7. channel # "lines" => h.type = "pair"
    BY <2>5 DEF Expect
  <2>8. ASSUME channel = "lines", h.type = "eof" PROVE \E x \in 0 .. Len(input) : delivered = Upto(x)
    <3>1. e \in 1 .. Len(input) /\ f \in 1 .. Len(FramesOf(input[e])) /\ Len(input) \in Nat
      BY <2>1, InputLen DEF Place
    <3>2. f = Len(FramesOf(input[e])) /\ f > 1 /\ f \in Nat
      <4>1. FrameAt(e, f).type = "eof"
        BY <2>5, <2>8, <2>1, <1>10
      <4>2. f = Len(FramesOf(input[e]))
        BY <2>8, <3>1, <4>1, FrameKind
      <4>3. Len(FramesOf(input[e])) # 1
        BY <2>8, <3>1, <4>1, <4>2, FrameKind
      <4>4. f \in Nat /\ f >= 1
        BY <3>1, Frames
      <4>5. f # 1
        BY <4>2, <4>3
      <4>6. f > 1
        BY <4>4, <4>5
      <4> QED
        BY <4>2, <4>4, <4>6
    <3>3. delivered = Upto(e - 1) \o SubSeq(Items(e), 1, f - 2)
      BY <2>1, <2>8, <3>2 DEF Before
    <3>4. Len(Items(e)) = f - 2 /\ Items(e) \in Seq(Item)
      <4>1. input[e].kind # "skip"
        BY <3>1, <3>2, Frames
      <4>2. Len(Items(e)) = Len(FramesOf(input[e])) - 2 /\ Items(e) \in Seq(Item)
        BY <2>8, <3>1, <4>1, ItemsAre
      <4> QED
        BY <3>2, <4>2
    <3>5. SubSeq(Items(e), 1, f - 2) = Items(e)
      BY <3>4, SubSeqFull
    <3>6. delivered = Upto(e)
      BY <3>1, <3>3, <3>5, UptoAre
    <3> QED
      BY <3>1, <3>6
  <2>9. Len(delivered) \in 0 .. Len(delivered) /\ Len(delivered) <= Len(delivered)
    BY <1>4
  <2> QED
    BY <1>1, <1>4, <2>3, <2>4, <2>5, <2>6, <2>7, <2>8, <2>9, CutStep
<1>11. CASE Stop("end") \/ Stop("abort")
  BY <1>2, <1>11
<1> QED
  BY <1>6, <1>8, <1>9, <1>10, <1>11, HeaderCases

\* The same when a part is read.
LEMMA SoundPart ==
  ASSUME DataOK, FlagsOK, Sound, PartRead
  PROVE  Sound' \/ Cut'
<1>1. UNCHANGED <<chosen, writer, pipe, budget>> /\ ReadReturns /\ part > 0 /\ result = "none"
  BY DEF PartRead, ReadReturns, Reading
<1>2. CASE Stop("abort")
  <2>1. UNCHANGED <<receiver, reading, delivered>>
    BY <1>2 DEF Stop
  <2>2. UNCHANGED <<chosen, pos, off, pipe, receiver, reading, delivered>>
    BY <1>1, <2>1 DEF writer
  <2> QED
    BY <2>2, StreamStays
<1>3. Want \in Nat /\ Want >= 1 /\ Len(got) \in Nat /\ Len(got) <= Want /\ got \in Seq(Cells)
      /\ part \in Nat
  BY WantLen DEF DataOK, CellsOK, ReadingOK, HeaderOK, Headers
<1>4. PICK e, f : e = hdr.id[1] /\ f = hdr.id[2]
  OBVIOUS
<1>5. /\ Here = <<e, f, part>> /\ hdr.id # Damaged /\ hdr.id = <<e, f>> /\ HeaderOK(hdr)
  BY <1>1, <1>4 DEF Here, Sound, DataOK, ReadingOK, HeaderOK, Headers
<1>6. Here \in Places /\ Place(Here) /\ Here[1] = e /\ Here[2] = f /\ Here[3] = part
  BY <1>1, <1>5, HerePlace DEF Sound
<1>7. Before(e, f)
  BY <1>6 DEF Sound, Progress
<1>8. /\ e \in 1 .. Len(input) /\ f \in 1 .. Len(FramesOf(input[e])) /\ Len(input) \in Nat
      /\ Len(FramesOf(input[e])) \in Nat
      /\ hdr.type = FrameAt(e, f).type /\ hdr.lens = FrameAt(e, f).lens
  BY <1>4, <1>5, <1>6, InputLen, Frames DEF Place, HeaderOK
<1>9. CASE IsPart(hdr.id[1], hdr.id[2], part, Want) /\ GoOn(hdr, part)
  <2>1. PICK r : r = Here
    OBVIOUS
  <2>2. got = [k \in 1 .. Want |-> Cell(r, k)] /\ Len(got) = Want
    BY <1>3, <1>4, <1>5, <1>9, <2>1 DEF IsPart
  <2>3. PartLen(r) = Want
    <3>1. Lengths(r) = hdr.lens
      BY <1>6, <1>8, <2>1 DEF Lengths
    <3> QED
      BY <1>1, <1>3, <1>6, <2>1, <3>1 DEF PartLen, Want
  <2>4. Linked(pipe, After(r), pos, off)
    BY <1>6, <2>1, <2>2, <2>3, TakePart
  <2>5. PICK h : h = hdr
    OBVIOUS
  <2>6. HeaderOK(h) /\ h.id = <<e, f>> /\ GoOn(h, part)
    BY <1>5, <1>9, <2>5
  <2> QED
    BY <1>1, <1>6, <1>7, <2>1, <2>4, <2>6, GoOnSound
<1>10. CASE /\ ~(channel = "results" /\ ~ndebug /\ Len(got) < Want)
            /\ ~IsPart(hdr.id[1], hdr.id[2], part, Want)
            /\ \E h : /\ HeaderOK(h) /\ h.id = Damaged /\ h.type = hdr.type
                      /\ h.lens = hdr.lens /\ GoOn(h, part)
  <2>1. Len(got) < Want
    <3>1. CASE got = <<>>
      BY <1>3, <3>1
    <3>2. CASE got # <<>>
      <4>1. got = [k \in 1 .. Len(got) |-> Cell(Here, k)]
        BY <1>1, <3>2, GotPart
      <4>2. Len(got) # Want
        <5> SUFFICES ASSUME Len(got) = Want PROVE FALSE
          OBVIOUS
        <5>1. IsPart(e, f, part, Want)
          BY <1>5, <4>1 DEF IsPart
        <5> QED
          BY <1>4, <1>10, <5>1
      <4> QED
        BY <1>3, <4>2
    <3> QED
      BY <3>1, <3>2
  <2>2. AtEof
    <3>1. Len(got) # Want
      BY <1>3, <2>1
    <3> QED
      BY <1>1, <3>1 DEF ReadReturns
  <2>3. sender = "dead" /\ "death" \in failed /\ pipe = <<>>
    <3>1. pipe = <<>>
      BY <2>2 DEF AtEof
    <3> QED
      BY <1>1, <2>1, <2>2, <3>1, OnlyDeathCuts
  <2>4. channel = "results" => ndebug
    BY <1>10, <2>1
  <2>5. PICK h : /\ HeaderOK(h) /\ h.id = Damaged /\ h.type = hdr.type
                 /\ h.lens = hdr.lens /\ GoOn(h, part)
    BY <1>10
  <2>6. /\ Whole(Len(delivered)) /\ Len(delivered) \in 0 .. Len(delivered)
        /\ Len(delivered) <= Len(delivered)
    BY SoundWhole
  <2>7. ASSUME channel = "lines"
        PROVE  h.type \in {"name", "line"} /\ (h.type = "line" => ~finished)
    <3>1. /\ FrameAt(e, f).type = "line" <=> f \in 2 .. Len(FramesOf(input[e])) - 1
          /\ FrameAt(e, f).type = "name" <=> f = 1
          /\ FrameAt(e, f).type = "eof" <=> f = Len(FramesOf(input[e]))
          /\ FrameAt(e, f).type = "eof" => FrameAt(e, f).lens = <<>>
      BY <1>8, <2>7, FrameKind
    <3>2. FrameAt(e, f).type # "eof"
      <4>1. part \in 1 .. Len(hdr.lens)
        BY <1>1, <1>3 DEF DataOK, ReadingOK
      <4> QED
        BY <1>8, <3>1, <4>1
    <3>3. FrameAt(e, f).type \in {"name", "line"}
      BY <1>8, <3>1, <3>2
    <3>4. f \in 2 .. Len(FramesOf(input[e])) - 1 => ~finished
      <4> SUFFICES ASSUME f \in 2 .. Len(FramesOf(input[e])) - 1 PROVE ~finished
        OBVIOUS
      <4>1. ~(f <= 1)
        BY <1>8
      <4> QED
        BY <1>7, <2>7, <4>1 DEF Before
    <3> QED
      BY <1>8, <2>5, <3>1, <3>3, <3>4
  <2>8. ASSUME channel # "lines" PROVE finished /\ h.type = "pair"
    BY <1>7, <1>8, <2>5, <2>8, FrameKind DEF Before
  <2>9. h.type # "eof"
    BY <2>7, <2>8
  <2> QED
    BY <1>1, <1>3, <2>3, <2>4, <2>5, <2>6, <2>7, <2>8, <2>9, CutStep
<1> QED
  BY <1>2, <1>9, <1>10, PartHeader

\* Initially nothing is sent and nothing delivered.
LEMMA InitStream == ASSUME Init PROVE Stream
<1>1. DataOK
  BY InitData
<1>2. Here = <<1, 0, 0>>
  BY DEF Init, Here
<1>3. Flow = <<>> /\ pos = <<1, 0, 0>> /\ off = 0
  BY DEF Init, Flow
<1>4. Chain
  <2>1. Same(Here, pos)
    BY <1>2, <1>3 DEF Same
  <2>2. Len(<<>>) = 0
    OBVIOUS
  <2>3. Run(<<>>)
    BY <2>2 DEF Run
  <2> QED
    BY <1>3, <2>1, <2>2, <2>3 DEF Chain, Linked
<1>5. Progress
  <2>1. Upto(0) = <<>>
    BY UptoStep
  <2>2. delivered = <<>> /\ finished = TRUE
    BY DEF Init
  <2>3. Here[1] = 1 /\ Here[2] = 0 /\ 1 - 1 = 0
    BY <1>2
  <2>4. Before(1, 0)
    BY <2>1, <2>2 DEF Before
  <2> QED
    BY <2>3, <2>4 DEF Progress
<1> QED
  BY <1>4, <1>5 DEF Stream, Sound, Init

\* Until a write fails the stream is sound or cut.
LEMMA StepStream == ASSUME DataOK, FlagsOK, Stream, [Next]_vars PROVE Stream'
<1> SUFFICES ASSUME "write" \notin failed' PROVE Sound' \/ Cut'
  BY DEF Stream
<1>1. failed \subseteq failed'
  BY DEF Next, vars, Sender, Receiver, Over, NextEntry, WriteCall, WriteFails, FileFails, SendFinish,
         SenderDies, SenderStopped, ReadCall, HeaderRead, PartRead, ReceiveFails, ReceiverKilled,
         Fail, budget
<1>2. Sound \/ Cut
  BY <1>1 DEF Stream
<1>3. Cut => sender = "dead" /\ pipe = <<>>
  BY DEF Cut
<1>4. CASE NextEntry
  <2>1. ~Cut
    BY <1>3, <1>4 DEF NextEntry, Sending
  <2> QED
    BY <1>2, <1>4, <2>1, NextEntrySound
<1>5. CASE WriteCall
  <2>1. ~Cut
    BY <1>3, <1>5 DEF WriteCall, Sending
  <2> QED
    BY <1>2, <1>5, <2>1, WriteCallSound
<1>6. CASE WriteFails
  BY <1>6 DEF WriteFails, Fail
<1>7. CASE FileFails \/ SendFinish \/ SenderDies
  <2>1. UNCHANGED <<chosen, pos, off, pipe, receiver, reading, delivered>> /\ sender = "sending"
    BY <1>7 DEF FileFails, SendFinish, SenderDies, Sending
  <2>2. ~Cut
    BY <1>3, <2>1
  <2> QED
    BY <1>2, <2>1, <2>2, StreamStays
<1>8. CASE SenderStopped
  <2>1. UNCHANGED <<chosen, pos, off, pipe, receiver, reading, delivered>> /\ sender = "sending"
    BY <1>8 DEF SenderStopped
  <2>2. ~Cut
    BY <1>3, <2>1
  <2> QED
    BY <1>2, <2>1, <2>2, StreamStays
<1>9. CASE ReadCall
  <2>1. ~Cut
    <3>1. Len(pipe) # 0
      BY <1>9, ReadParts, WantLen
    <3> QED
      BY <1>3, <3>1
  <2> QED
    BY <1>2, <1>9, <2>1, ReadCallSound
<1>10. CASE HeaderRead
  BY <1>2, <1>10, SoundHeader, CutReceives
<1>11. CASE PartRead
  BY <1>2, <1>11, SoundPart, CutReceives
<1>12. CASE ReceiveFails \/ ReceiverKilled \/ UNCHANGED vars
  <2>1. UNCHANGED <<chosen, pos, off, pipe, receiver, reading, delivered>> /\ sender' = sender
    BY <1>12 DEF ReceiveFails, ReceiverKilled, Stop, vars, writer
  <2> QED
    BY <1>1, <1>2, <2>1, StreamStays
<1> QED
  BY <1>4, <1>5, <1>6, <1>7, <1>8, <1>9, <1>10, <1>11, <1>12 DEF Next, Sender, Receiver, Over


\* A stream that is sound or cut delivers in order.
LEMMA InOrderFollows == ASSUME DataOK, FlagsOK, Stream PROVE InOrder
<1> SUFFICES ASSUME "write" \notin failed
             PROVE  \E n \in 0 .. Len(delivered) :
                      /\ Whole(n)
                      /\ "death" \notin failed => n = Len(delivered)
                      /\ AssertsGone \/ Len(delivered) <= n + 1
  BY DEF InOrder, Whole
<1>1. Len(delivered) \in Nat
  BY DEF DataOK, OutOK
<1>2. CASE Sound
  <2>1. Whole(Len(delivered))
    BY <1>2, SoundWhole
  <2>2. Len(delivered) \in 0 .. Len(delivered) /\ Len(delivered) <= Len(delivered) + 1
    BY <1>1
  <2> QED
    BY <2>1, <2>2
<1>3. CASE Cut
  <2>1. PICK n \in 0 .. Len(delivered) :
          Whole(n) /\ (AssertsGone \/ Len(delivered) <= n + IF part = 0 THEN 1 ELSE 0)
    BY <1>3 DEF Cut
  <2>2. (IF part = 0 THEN 1 ELSE 0) \in {0, 1} /\ n \in Nat
    BY <1>1
  <2>3. AssertsGone \/ Len(delivered) <= n + 1
    BY <1>1, <2>1, <2>2
  <2>4. "death" \in failed
    BY <1>3 DEF Cut
  <2> QED
    BY <2>1, <2>3, <2>4
<1> QED
  BY <1>2, <1>3 DEF Stream

\* When the pipe is empty and its end closed, without any failure, all is delivered.
LEMMA AllDelivered ==
  ASSUME DataOK, FlagsOK, Stream, AtEof, got = <<>>, finished, result = "none", failed = {}
  PROVE  delivered = Expected
<1>1. Sound
  BY DEF Stream, Cut
<1>2. sender = "closed" /\ pipe = <<>>
  BY DEF AtEof, DataOK, FaultsOK
<1>3. /\ pos \in Places /\ pos[1] \in 1 .. Len(input) + 1 /\ pos[1] > Len(input)
      /\ pos[2] = 0 /\ Len(input) \in Nat
  BY <1>2, InputLen DEF DataOK, SenderOK, Place, Places
<1>4. Same(Here, pos)
  <2>1. Flow = <<>>
    BY <1>2 DEF Flow
  <2> QED
    BY <1>1, <2>1 DEF Sound, Chain, Linked
<1>5. Here \in Places /\ Here[1] >= 1
  <2>1. Here \in Places /\ Here[1] \in 1 .. Len(input) + 1
    BY <1>1, HerePlace DEF Sound
  <2> QED
    BY <1>3, <2>1
<1>6. pos[1] = Len(input) + 1 /\ pos[1] <= Len(input) + 1 /\ pos[1] - 1 = Len(input)
  BY <1>3
<1>7. Before(pos[1], pos[2])
  BY <1>1, <1>3, <1>4, <1>5, <1>6, BeforeSame DEF Sound, Progress
<1>8. delivered = Upto(pos[1] - 1)
  BY <1>3, <1>7 DEF Before
<1> QED
  BY <1>6, <1>8 DEF Expected

\* A stream that ends where a header is expected and none is due was cut, if at all,
\* between two files or two results.
LEMMA CutBetween ==
  ASSUME DataOK, FlagsOK, Stream, got = <<>>, finished, part = 0,
         "write" \notin failed, channel # "pairs", ~ndebug
  PROVE  \E e \in 0 .. Len(input) : delivered = Upto(e)
<1>1. CASE Sound
  BY <1>1, SoundWhole
<1>2. CASE Cut
  <2>1. channel = "lines"
    BY <1>2 DEF Cut, DataOK, InputOK
  <2> QED
    BY <1>2, <2>1 DEF Cut
<1> QED
  BY <1>1, <1>2 DEF Stream

\* Only the step that finds the pipe at its end reports the end of the stream.
LEMMA OnlyEnd ==
  ASSUME DataOK, [Next]_vars, result # "end", result' = "end"
  PROVE  /\ HeaderRead /\ got = <<>> /\ finished /\ part = 0 /\ result = "none" /\ AtEof
         /\ UNCHANGED <<chosen, failed, delivered>>
<1>1. HeaderRead \/ PartRead
  BY DEF Next, vars, Sender, Receiver, Over, NextEntry, WriteCall, WriteFails, FileFails, SendFinish,
         SenderDies, SenderStopped, ReadCall, ReceiveFails, ReceiverKilled, Stop
<1>2. ASSUME NEW h, NEW p, GoOn(h, p) PROVE FALSE
  BY <1>2 DEF GoOn
<1>3. ~PartRead
  BY <1>2 DEF PartRead, Stop
<1>4. ~UseGarbage
  BY <1>2, GarbageHeader DEF Stop
<1>5. got = <<>> /\ finished /\ Stop("end")
  BY <1>1, <1>2, <1>3, <1>4, HeaderCases DEF Stop
<1>6. part = 0 /\ result = "none" /\ UNCHANGED <<chosen, failed, delivered>> /\ ReadReturns
  BY <1>1, <1>3, <1>5 DEF HeaderRead, ReadReturns, Reading, Stop, budget
<1>7. Len(got) # Want
  <2>1. Len(got) = 0
    BY <1>5
  <2> QED
    BY <2>1, WantLen
<1> QED
  BY <1>1, <1>3, <1>5, <1>6, <1>7 DEF ReadReturns

\* The end is reported honestly by every step.
LEMMA StepEnd ==
  ASSUME DataOK, FlagsOK, Stream, EndIsHonest, [Next]_vars
  PROVE  EndIsHonest'
<1> SUFFICES ASSUME result' = "end" PROVE EndIsHonest'
  BY DEF EndIsHonest
<1>1. ASSUME UNCHANGED <<chosen, failed, delivered>>,
             failed = {} => delivered = Expected,
             "write" \notin failed /\ channel # "pairs" /\ ~ndebug =>
               \E e \in 0 .. Len(input) : delivered = Upto(e)
      PROVE  EndIsHonest'
  <2>1. /\ input' = input /\ channel' = channel /\ ndebug' = ndebug /\ failed' = failed
        /\ delivered' = delivered
    BY <1>1 DEF chosen
  <2>2. Expected' = Expected /\ \A e : Upto(e)' = Upto(e)
    BY <2>1, Fixed
  <2> QED
    BY <1>1, <2>1, <2>2 DEF EndIsHonest
<1>2. CASE result = "end"
  <2>1. UNCHANGED <<chosen, failed, delivered>>
    BY <1>2 DEF Next, vars, Sender, Receiver, Over, NextEntry, WriteCall, WriteFails, FileFails,
         SendFinish, SenderDies, SenderStopped, ReadCall, HeaderRead, PartRead, ReceiveFails,
         ReceiverKilled, Sending, Reading, ReadReturns, budget
  <2> QED
    BY <1>1, <1>2, <2>1 DEF EndIsHonest
<1>3. CASE result # "end"
  <2>1. /\ got = <<>> /\ finished /\ part = 0 /\ result = "none" /\ AtEof
        /\ UNCHANGED <<chosen, failed, delivered>>
    BY <1>3, OnlyEnd
  <2>2. failed = {} => delivered = Expected
    BY <2>1, AllDelivered
  <2>3. "write" \notin failed /\ channel # "pairs" /\ ~ndebug =>
          \E e \in 0 .. Len(input) : delivered = Upto(e)
    BY <2>1, CutBetween
  <2> QED
    BY <1>1, <2>1, <2>2, <2>3
<1> QED
  BY <1>2, <1>3

\* An assertion of a receiver fails only where the stream was cut or a frame abandoned.
LEMMA StepAbort ==
  ASSUME DataOK, FlagsOK, Stream, AssertsHold, [Next]_vars
  PROVE  AssertsHold'
<1>1. failed \subseteq failed'
  BY DEF Next, vars, Sender, Receiver, Over, NextEntry, WriteCall, WriteFails, FileFails, SendFinish,
         SenderDies, SenderStopped, ReadCall, HeaderRead, PartRead, ReceiveFails, ReceiverKilled,
         Fail, budget
<1>2. CASE result = "abort"
  BY <1>1, <1>2 DEF AssertsHold
<1>3. SUFFICES ASSUME result # "abort", result' = "abort", "write" \notin failed
               PROVE  "death" \in failed
  BY <1>1, <1>2 DEF AssertsHold
<1>4. HeaderRead \/ PartRead
  BY <1>3 DEF Next, vars, Sender, Receiver, Over, NextEntry, WriteCall, WriteFails, FileFails,
         SendFinish, SenderDies, SenderStopped, ReadCall, ReceiveFails, ReceiverKilled, Stop
<1>5. ReadReturns /\ result = "none"
  BY <1>4 DEF HeaderRead, PartRead, ReadReturns, Reading
<1>6. ASSUME NEW h, NEW p, GoOn(h, p) PROVE FALSE
  BY <1>3, <1>5, <1>6 DEF GoOn
<1>7. ~UseGarbage
  BY <1>3, <1>6, GarbageHeader DEF Stop
<1>8. Len(got) < Want /\ (got # <<>> \/ part > 0 \/ ~finished)
  <2>1. Want \in Nat /\ Want >= 1 /\ Len(got) \in Nat
    BY WantLen
  <2>2. CASE HeaderRead
    <3>1. part = 0 /\ Want = H
      BY <2>2 DEF HeaderRead, Want
    <3>2. \/ got = <<>> /\ ~finished
          \/ got # <<>> /\ Len(got) < H
      BY <1>3, <1>6, <1>7, <2>2, HeaderCases DEF Stop
    <3>3. got = <<>> => Len(got) = 0
      OBVIOUS
    <3> QED
      BY <2>1, <3>1, <3>2, <3>3
  <2>3. CASE PartRead
    BY <1>3, <1>6, <2>3, PartHeader DEF Stop, PartRead
  <2> QED
    BY <1>4, <2>2, <2>3
<1>9. AtEof
  <2>1. Len(got) # Want
    BY <1>8, WantLen
  <2> QED
    BY <1>5, <2>1 DEF ReadReturns
<1>10. CASE Sound
  BY <1>5, <1>8, <1>9, <1>10, OnlyDeathCuts
<1>11. CASE Cut
  BY <1>11 DEF Cut
<1> QED
  BY <1>3, <1>10, <1>11 DEF Stream

\* The inductive invariant: the cells between the two processes and what was delivered
\* are the input without a gap, until a write fails or the sender dies.
THEOREM Inductive == Spec => []IInv
<1>1. Init => IInv
  <2> SUFFICES ASSUME Init PROVE IInv
    OBVIOUS
  <2>1. EndIsHonest /\ AssertsHold
    BY DEF Init, EndIsHonest, AssertsHold
  <2> QED
    BY <2>1, InitData, InitStream DEF IInv
<1>2. IInv /\ [Next]_vars => IInv'
  BY StepData, StepStream, StepEnd, StepAbort DEF IInv
<1> QED
  BY <1>1, <1>2, PTL DEF Spec

\* What send_input_to_mapper, send_pair_to_reducer and send_result_to_main write is delivered
\* whole, in order and in the right file and line, however read and write divide it, unless
\* a write failed; the death of the sender damages what follows the cut, and nothing before it.
THEOREM StreamIsConsistent == Spec => []StreamConsistent
<1>1. IInv => StreamConsistent
  BY TypeFollows, InOrderFollows DEF IInv, StreamConsistent
<1> QED
  BY <1>1, Inductive, PTL

\* A receiver (receive_line_from_main and the two others) reports the end of the stream only
\* when all was handed on, if nothing failed; with assertions, the mapper and main do so after
\* a death of the sender only when the stream was cut between two files or results.
THEOREM EndsHonestly == Spec => []EndIsHonest
<1>1. IInv => EndIsHonest
  BY DEF IInv
<1> QED
  BY <1>1, Inductive, PTL

\* The asserts on bytes_read fail only if the sender died or gave up inside a frame.
THEOREM AssertsAlwaysHold == Spec => []AssertsHold
<1>1. IInv => AssertsHold
  BY DEF IInv
<1> QED
  BY <1>1, Inductive, PTL
================================================================================
