---------------------------- MODULE MCFetchUnit -----------------------------
(* FetchUnit for model checking: how the lines' addresses are split.       *)
EXTENDS FetchUnit

\* Two lines that share a way's index.
PairTag   == [l \in 0 .. 1 |-> l]
PairIndex == [l \in 0 .. 1 |-> 0]
=============================================================================
