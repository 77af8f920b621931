------------------------------- MODULE MCReducer -------------------------------
(* An instance of MrReducer for TLC: three tokens in two buckets, so that one  *)
(* chain has two nodes, and four pairs, so that one node holds two values.     *)
EXTENDS MrReducer

CONSTANTS a, b, c, a1, a2, b1, c1

MCTokens == {a, b, c}
MCPairs == {a1, a2, b1, c1}
MCTokenOf == [p \in MCPairs |-> CASE p \in {a1, a2} -> a [] p = b1 -> b [] p = c1 -> c]
MCHash == [t \in MCTokens |-> IF t = c THEN 2 ELSE 1]
================================================================================
