----------------------------- MODULE P2PBarrier -----------------------------
(***************************************************************************)
(* The barrier kernel of csrc/glm_p2p.cu as P2PAllReduceGroup.barrier of   *)
(* src/parallel_ops.ts launches it, once per rank and round, on the stream *)
(* of the group: count up, store the low bits of the count into a flag at  *)
(* every rank, spin until no rank's flag is behind.                        *)
(*                                                                         *)
(*   seq       the low bits of each rank's counter                         *)
(*   flag      flag[r][p]: what r can see of p's counter                   *)
(*   spinning  the ranks whose kernel has stored its flags                 *)
(*   posted    posted[r][p]: stores of p to r that r cannot see yet        *)
(*   lead      lead[r][p]: rounds r has entered more than p (history only) *)
(***************************************************************************)
EXTENDS Integers

CONSTANTS Rank,
          Half      \* half the range of a flag; 2^31 in the code

\* At most three rounds separate a flag from the count it is compared with:
\* they may run ahead of each other by less than half the range.
ASSUME HalfAssumption == Half \in Nat /\ Half > 3

VARIABLES seq, flag, spinning, posted, lead

vars == <<seq, flag, spinning, posted, lead>>

Count == 0..(2 * Half - 1)

Succ(n) == IF n = 2 * Half - 1 THEN 0 ELSE n + 1

\* Mutant: the round before will do.
BehindByTwo(v, target) == \/ v + 1 < target /\ target - v <= Half
                          \/ v >= target + Half

\* (int)(v - target) < 0 in unsigned arithmetic.
Behind(v, target) ==
  \/ v < target /\ target - v <= Half
  \/ v >= target + Half

Init ==
  /\ seq = [r \in Rank |-> 0]
  /\ flag = [r \in Rank |-> [p \in Rank |-> 0]]
  /\ spinning = {}
  /\ posted = [r \in Rank |-> [p \in Rank |-> 0]]
  /\ lead = [r \in Rank |-> [p \in Rank |-> 0]]

\* p2p_barrier_publish: the stores are posted, to be seen in any order by
\* different ranks, by each rank in theirs.
Arrive(r) ==
  /\ r \notin spinning
  /\ seq' = [seq EXCEPT ![r] = Succ(@)]
  /\ posted' = [q \in Rank |-> [posted[q] EXCEPT ![r] = @ + 1]]
  /\ spinning' = spinning \cup {r}
  /\ lead' = [a \in Rank |-> [b \in Rank |->
                lead[a][b] + (IF a = b THEN 0 ELSE IF a = r THEN 1 ELSE IF b = r THEN -1 ELSE 0)]]
  /\ UNCHANGED flag

\* A store becomes visible.
Deliver(r, p) ==
  /\ posted[r][p] > 0
  /\ posted' = [posted EXCEPT ![r][p] = @ - 1]
  /\ flag' = [flag EXCEPT ![r][p] = Succ(@)]
  /\ UNCHANGED <<seq, spinning, lead>>

\* p2p_barrier_spin ends.
Leave(r) ==
  /\ r \in spinning
  /\ \A p \in Rank : ~Behind(flag[r][p], seq[r])
  /\ spinning' = spinning \ {r}
  /\ UNCHANGED <<seq, flag, posted, lead>>

Next ==
  \/ \E r \in Rank : Arrive(r) \/ Leave(r)
  \/ \E r, p \in Rank : Deliver(r, p)

Spec == Init /\ [][Next]_vars

-----------------------------------------------------------------------------
(* Properties                                                            *)

\* Where a rank stands, by the rounds it and the others have entered.
Standing ==
  [r \in Rank |-> IF r \notin spinning THEN "outside"
                  ELSE IF \E p \in Rank : lead[r][p] > 0 THEN "waits" ELSE "released"]

R == INSTANCE Rendezvous WITH phase <- Standing

\* However late flags become visible, and across the wrap-around of the
\* counters, the barrier is a rendezvous.
Fences == R!Spec

\* A rank whose round all have entered, and which has seen their stores, can
\* leave it, wherever the counters are: nobody spins for good.
ReleasedLeaves ==
  \A r \in Rank :
    Standing[r] = "released" /\ (\A p \in Rank : posted[r][p] = 0)
      => \A p \in Rank : ~Behind(flag[r][p], seq[r])
=============================================================================
