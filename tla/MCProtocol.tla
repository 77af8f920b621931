------------------------------ MODULE MCProtocol ------------------------------
(* Instances of MrProtocol for TLC.                                           *)
EXTENDS MrProtocol

File(lens) == [kind |-> "file", lens |-> lens]
Skip == [kind |-> "skip", lens |-> <<>>]
Emit(n, m) == [kind |-> "emit", lens |-> <<n, m>>]

\* A single file or a directory of two entries: empty lines, empty files, skipped entries.
Entries == {Skip, File(<<>>), File(<<0, 1>>), File(<<2>>)}
MCLineInputs == [1 .. 1 -> Entries] \cup [1 .. 2 -> Entries]

\* No pair, or two of any lengths.
MCPairInputs == {<<>>} \cup [1 .. 2 -> {Emit(n, m) : n, m \in 0 .. 2}]
================================================================================
