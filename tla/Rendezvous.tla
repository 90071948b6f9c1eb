----------------------------- MODULE Rendezvous -----------------------------
(***************************************************************************)
(* What the peer-to-peer barrier promises the ranks of a group: each comes *)
(* round after round, and none leaves a round before all have arrived in   *)
(* it.  P2PBarrier implements it, Collectives uses it.                     *)
(***************************************************************************)
CONSTANT Rank

VARIABLE phase

\* A rank is "outside" the barrier, "waits" for others, or is "released".
Outside == [r \in Rank |-> "outside"]

CanArrive(p, r) == p[r] = "outside"

\* The last rank to arrive releases all.
Arrived(p, r) ==
  IF \A q \in Rank \ {r} : p[q] = "waits"
  THEN [q \in Rank |-> "released"]
  ELSE [p EXCEPT ![r] = "waits"]

CanLeave(p, r) == p[r] = "released"

Left(p, r) == [p EXCEPT ![r] = "outside"]

Init == phase = Outside

Arrive(r) == CanArrive(phase, r) /\ phase' = Arrived(phase, r)

Leave(r) == CanLeave(phase, r) /\ phase' = Left(phase, r)

Next == \E r \in Rank : Arrive(r) \/ Leave(r)

Spec == Init /\ [][Next]_phase
=============================================================================
