---------------------------- MODULE MCScheduler ----------------------------
(* Small instances of Scheduler for TLC.                                 *)
EXTENDS Scheduler, TLC

Symmetry == Permutations(Request) \cup Permutations(GpuFlush) \cup Permutations(HostFlush)
=============================================================================
