-------------------------- MODULE MCContextParallel -------------------------
(* A small instance of ContextParallel for TLC.                          *)
EXTENDS ContextParallel

\* Scores without a pattern, different for every token of the batch.
MCRankings == {[x \in (0..(B - 1)) \X (0..(MaxLen - 1)) |-> 10 * x[1] + ((2 * x[2] + 1) % 9) + 1]}
=============================================================================
