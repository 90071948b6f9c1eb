---------------------------- MODULE Peers_proofs ----------------------------
(* The barrier implements Rendezvous, for any number of ranks and any      *)
(* width of the flags; and behind a rendezvous, however many ranks pull    *)
(* from, push to and sum each other's memory, on two streams, no rank      *)
(* writes what another may be using, and some rank can always go on.       *)
EXTENDS P2PBarrier, Collectives, SequenceTheorems, WellFoundedInduction, TLAPS

(***************************************************************************)
(* P2PBarrier                                                              *)
(***************************************************************************)

\* x is y advanced by d, modulo the range of a flag.
Ahead(x, y, d) == x = y + d \/ x = y + d - 2 * Half \/ x = y + d + 2 * Half

TypeOK ==
  /\ seq \in [Rank -> Count]
  /\ flag \in [Rank -> [Rank -> Count]]
  /\ spinning \subseteq Rank
  /\ posted \in [Rank -> [Rank -> Nat]]
  /\ lead \in [Rank -> [Rank -> Int]]

\* lead is a difference of counts, at most one, and none for who is outside.
LeadIsOne ==
  /\ \A r \in Rank : lead[r][r] = 0
  /\ \A r, p \in Rank : lead[r][p] <= 1 /\ lead[p][r] = -lead[r][p]
  /\ \A r, p, q \in Rank : lead[r][p] + lead[p][q] = lead[r][q]
  /\ \A r, p \in Rank : r \notin spinning => lead[r][p] <= 0

\* What r has not seen of p is what p has entered and r has not left.
PostedIsLead ==
  \A r, p \in Rank : posted[r][p] <= lead[p][r] + (IF r \in spinning THEN 1 ELSE 0)

\* Counters and flags are the counts they stand for.
FlagsTell ==
  /\ \A r, p \in Rank : Ahead(seq[p], flag[r][p], posted[r][p])
  /\ \A r, p \in Rank : Ahead(seq[p], seq[r], lead[p][r])

IInv == TypeOK /\ LeadIsOne /\ PostedIsLead /\ FlagsTell

-----------------------------------------------------------------------------
\* Counting up either side changes the distance by one.
LEMMA SuccAhead ==
  ASSUME NEW x \in Count, NEW y \in Count, NEW d \in Int, -4 < d, d < 4, Ahead(x, y, d)
  PROVE  /\ Succ(x) \in Count
         /\ Ahead(Succ(x), y, d + 1)
         /\ Ahead(x, Succ(y), d - 1)
         /\ Ahead(Succ(x), Succ(y), d)
BY HalfAssumption, SMTT(30) DEF Count, Succ, Ahead

\* A flag that is not behind belongs to a count that is not behind.
LEMMA NotBehind ==
  ASSUME NEW v \in Count, NEW t \in Count, NEW d \in Int, -4 < d, d < 4,
         Ahead(v, t, d), ~Behind(v, t)
  PROVE  d >= 0
BY HalfAssumption, SMTT(30) DEF Count, Behind, Ahead

\* The distance of a to b and of b to c give that of a to c.
LEMMA AheadAdd ==
  ASSUME NEW a \in Count, NEW b \in Count, NEW c \in Count, NEW d \in Int, NEW e \in Int,
         -4 < d, d < 4, -4 < e, e < 4, -4 < e - d, e - d < 4, Ahead(a, b, d), Ahead(a, c, e)
  PROVE  Ahead(b, c, e - d)
BY HalfAssumption, SMTT(30) DEF Count, Ahead

\* The counters start equal, outside.
LEMMA InitInv == Init => IInv
<1> SUFFICES ASSUME Init PROVE IInv
  OBVIOUS
<1>1. 0 \in Count
  BY HalfAssumption DEF Count
<1>2. TypeOK
  BY <1>1 DEF Init, TypeOK
<1>3. \A a, b \in Rank : seq[a] = 0 /\ flag[a][b] = 0 /\ posted[a][b] = 0 /\ lead[a][b] = 0
  BY DEF Init
<1>4. LeadIsOne
  BY <1>3 DEF LeadIsOne
<1>5. PostedIsLead
  BY <1>3 DEF PostedIsLead
<1>6. FlagsTell
  BY <1>3 DEF FlagsTell, Ahead
<1> QED BY <1>2, <1>4, <1>5, <1>6 DEF IInv

\* The types of what the state holds of each rank.
LEMMA Facts ==
  ASSUME TypeOK, NEW r \in Rank, NEW p \in Rank
  PROVE  /\ lead[r][p] \in Int /\ lead[p][r] \in Int /\ lead[r][r] \in Int
         /\ posted[r][p] \in Nat
         /\ seq[r] \in Count /\ flag[r][p] \in Count
BY DEF TypeOK

\* The bounds the invariant puts on the distances.
LEMMA Bounds ==
  ASSUME IInv, NEW r \in Rank, NEW p \in Rank
  PROVE  /\ lead[r][p] \in -1..1
         /\ lead[p][r] \in -1..1
         /\ posted[r][p] \in 0..2
         /\ seq[p] \in Count /\ seq[r] \in Count /\ flag[r][p] \in Count
<1>1. /\ lead[r][p] \in Int /\ lead[p][r] \in Int /\ posted[r][p] \in Nat
      /\ seq[p] \in Count /\ seq[r] \in Count /\ flag[r][p] \in Count
  BY Facts DEF IInv
<1>2. lead[r][p] <= 1 /\ lead[p][r] <= 1 /\ lead[p][r] = -lead[r][p]
  BY DEF IInv, LeadIsOne
<1>3. posted[r][p] <= lead[p][r] + 1
  BY <1>1 DEF IInv, PostedIsLead
<1> QED BY <1>1, <1>2, <1>3

\* A rank that enters leads those outside by one round.
LEMMA ArriveInv ==
  ASSUME IInv, NEW r \in Rank, Arrive(r)
  PROVE  IInv'
<1> DEFINE step(a, b) == IF a = b THEN 0 ELSE IF a = r THEN 1 ELSE IF b = r THEN -1 ELSE 0
<1>0. \A a, b \in Rank : /\ lead[a][b] \in Int /\ posted[a][b] \in Nat
                            /\ seq[a] \in Count /\ flag[a][b] \in Count
  BY Facts DEF IInv
<1>1. \A a, b \in Rank : lead'[a][b] = lead[a][b] + step(a, b)
  BY DEF Arrive
<1>2. \A a, b \in Rank : posted'[a][b] = posted[a][b] + (IF b = r THEN 1 ELSE 0)
  BY DEF Arrive, IInv, TypeOK
<1>3. \A a \in Rank : seq'[a] = IF a = r THEN Succ(seq[r]) ELSE seq[a]
  BY DEF Arrive, IInv, TypeOK
<1>4. flag' = flag /\ spinning' = spinning \cup {r} /\ r \notin spinning
  BY DEF Arrive
<1>5. Succ(seq[r]) \in Count
  BY HalfAssumption, <1>0 DEF Count, Succ
<1>6. TypeOK'
  <2>1. seq' \in [Rank -> Count]
    BY <1>5 DEF Arrive, IInv, TypeOK
  <2>2. posted' \in [Rank -> [Rank -> Nat]]
    BY DEF Arrive, IInv, TypeOK
  <2>3. lead' \in [Rank -> [Rank -> Int]]
    BY <1>0 DEF Arrive
  <2> QED BY <2>1, <2>2, <2>3, <1>4 DEF TypeOK, IInv
<1>7. LeadIsOne'
  <2>0. /\ \A a \in Rank : lead[a][a] = 0
        /\ \A a, b \in Rank : lead[a][b] <= 1 /\ lead[b][a] = -lead[a][b]
        /\ \A a, b, c \in Rank : lead[a][b] + lead[b][c] = lead[a][c]
        /\ \A a, b \in Rank : a \notin spinning => lead[a][b] <= 0
    BY DEF IInv, LeadIsOne
  <2>1. \A p \in Rank : lead[r][p] <= 0 /\ lead[p][r] >= 0
    BY <1>0, <1>4, <2>0
  <2>2. \A a \in Rank : lead'[a][a] = 0
    BY <1>1, <2>0
  <2>3. \A a, b \in Rank : lead'[a][b] <= 1 /\ lead'[b][a] = -lead'[a][b]
    <3> SUFFICES ASSUME NEW a \in Rank, NEW b \in Rank
                 PROVE  lead'[a][b] <= 1 /\ lead'[b][a] = -lead'[a][b]
      OBVIOUS
    <3>1. /\ lead'[a][b] = lead[a][b] + step(a, b) /\ lead'[b][a] = lead[b][a] + step(b, a)
          /\ lead[a][b] \in Int /\ lead[b][a] \in Int
      BY <1>0, <1>1
    <3>2. /\ lead[a][b] <= 1 /\ lead[b][a] = -lead[a][b]
          /\ (a = r => lead[a][b] <= 0) /\ (a = b => lead[a][b] = 0)
      BY <2>0, <2>1
    <3> QED BY <3>1, <3>2
  <2>4. \A a, b, c \in Rank : lead'[a][b] + lead'[b][c] = lead'[a][c]
    <3> SUFFICES ASSUME NEW a \in Rank, NEW b \in Rank, NEW c \in Rank
                 PROVE  lead'[a][b] + lead'[b][c] = lead'[a][c]
      OBVIOUS
    <3>1. step(a, b) + step(b, c) = step(a, c)
      OBVIOUS
    <3>2. lead[a][b] \in Int /\ lead[b][c] \in Int /\ lead[a][c] \in Int
      BY <1>0
    <3>3. step(a, b) \in Int /\ step(b, c) \in Int
      OBVIOUS
    <3>4. lead[a][b] + lead[b][c] = lead[a][c]
      BY <2>0
    <3>5. /\ lead'[a][b] = lead[a][b] + step(a, b)
          /\ lead'[b][c] = lead[b][c] + step(b, c)
          /\ lead'[a][c] = lead[a][c] + step(a, c)
      BY <1>1
    <3> HIDE DEF step
    <3> QED BY <3>1, <3>2, <3>3, <3>4, <3>5
  <2>5. \A a, b \in Rank : a \notin spinning' => lead'[a][b] <= 0
    <3> SUFFICES ASSUME NEW a \in Rank, NEW b \in Rank, a \notin spinning'
                 PROVE  lead'[a][b] <= 0
      OBVIOUS
    <3>1. a # r /\ lead[a][b] <= 0 /\ lead[a][b] \in Int
      BY <1>0, <1>4, <2>0
    <3>2. lead'[a][b] = lead[a][b] + step(a, b)
      BY <1>1
    <3> QED BY <3>1, <3>2
  <2> QED BY <2>2, <2>3, <2>4, <2>5 DEF LeadIsOne
<1>8. PostedIsLead'
  <2> SUFFICES ASSUME NEW a \in Rank, NEW b \in Rank
               PROVE  posted'[a][b] <= lead'[b][a] + (IF a \in spinning' THEN 1 ELSE 0)
    BY DEF PostedIsLead
  <2>1. posted[a][b] <= lead[b][a] + (IF a \in spinning THEN 1 ELSE 0)
    BY DEF IInv, PostedIsLead
  <2>2. lead[a][a] = 0 /\ lead[b][a] \in Int /\ posted[a][b] \in Nat
    BY <1>0 DEF IInv, LeadIsOne
  <2>3. /\ posted'[a][b] = posted[a][b] + (IF b = r THEN 1 ELSE 0)
        /\ lead'[b][a] = lead[b][a] + step(b, a)
        /\ (a \in spinning' <=> a \in spinning \/ a = r)
    BY <1>1, <1>2, <1>4
  <2>4. CASE a = b /\ a = r
    BY <2>1, <2>2, <2>3, <2>4, <1>4
  <2>5. CASE ~(a = b /\ a = r)
    BY <2>1, <2>2, <2>3, <2>5, <1>4
  <2> QED BY <2>4, <2>5
<1>9. ASSUME NEW a \in Rank, NEW b \in Rank
      PROVE  Ahead(seq'[b], flag'[a][b], posted'[a][b]) /\ Ahead(seq'[b], seq'[a], lead'[b][a])
  <2>1. /\ lead[b][a] \in -1..1 /\ posted[a][b] \in 0..2
        /\ seq[b] \in Count /\ seq[a] \in Count /\ flag[a][b] \in Count
    BY Bounds
  <2>2. Ahead(seq[b], flag[a][b], posted[a][b]) /\ Ahead(seq[b], seq[a], lead[b][a])
    BY DEF IInv, FlagsTell
  <2>3. /\ Ahead(Succ(seq[b]), flag[a][b], posted[a][b] + 1)
        /\ Ahead(Succ(seq[b]), seq[a], lead[b][a] + 1)
        /\ Ahead(seq[b], Succ(seq[a]), lead[b][a] - 1)
        /\ Ahead(Succ(seq[b]), Succ(seq[a]), lead[b][a])
    <3>1. posted[a][b] \in Int /\ -4 < posted[a][b] /\ posted[a][b] < 4
          /\ lead[b][a] \in Int /\ -4 < lead[b][a] /\ lead[b][a] < 4
      BY <2>1
    <3> QED BY <2>1, <2>2, <3>1, SuccAhead
  <2>4. Ahead(seq'[b], flag'[a][b], posted'[a][b])
    <3>1. CASE b = r
      BY <3>1, <2>3, <1>2, <1>3, <1>4
    <3>2. CASE b # r
      BY <3>2, <2>1, <2>2, <1>2, <1>3, <1>4
    <3> QED BY <3>1, <3>2
  <2>5. Ahead(seq'[b], seq'[a], lead'[b][a])
    <3>1. CASE b = r /\ a = r
      BY <3>1, <2>1, <2>3, <1>1, <1>3
    <3>2. CASE b = r /\ a # r
      BY <3>2, <2>1, <2>3, <1>1, <1>3
    <3>3. CASE b # r /\ a = r
      BY <3>3, <2>1, <2>3, <1>1, <1>3
    <3>4. CASE b # r /\ a # r
      BY <3>4, <2>1, <2>2, <1>1, <1>3
    <3> QED BY <3>1, <3>2, <3>3, <3>4
  <2> QED BY <2>4, <2>5
<1> QED BY <1>6, <1>7, <1>8, <1>9 DEF IInv, FlagsTell

\* A store that becomes visible is posted no more.
LEMMA DeliverInv ==
  ASSUME IInv, NEW r \in Rank, NEW p \in Rank, Deliver(r, p)
  PROVE  IInv'
<1>1. \A a, b \in Rank : posted'[a][b] = IF a = r /\ b = p THEN posted[a][b] - 1 ELSE posted[a][b]
  BY DEF Deliver, IInv, TypeOK
<1>2. \A a, b \in Rank : flag'[a][b] = IF a = r /\ b = p THEN Succ(flag[a][b]) ELSE flag[a][b]
  BY DEF Deliver, IInv, TypeOK
<1>3. seq' = seq /\ spinning' = spinning /\ lead' = lead /\ posted[r][p] > 0
  BY DEF Deliver
<1>4. Succ(flag[r][p]) \in Count
  <2>1. flag[r][p] \in Count
    BY Facts DEF IInv
  <2> QED BY <2>1, HalfAssumption DEF Count, Succ
<1>5. TypeOK'
  <2>1. posted' \in [Rank -> [Rank -> Nat]]
    <3>1. posted[r][p] - 1 \in Nat
      BY <1>3, Facts DEF IInv
    <3> QED BY <3>1 DEF Deliver, IInv, TypeOK
  <2>2. flag' \in [Rank -> [Rank -> Count]]
    BY <1>4 DEF Deliver, IInv, TypeOK
  <2> QED BY <2>1, <2>2, <1>3 DEF TypeOK, IInv
<1>6. LeadIsOne'
  BY <1>3 DEF LeadIsOne, IInv
<1>7. PostedIsLead'
  <2>1. \A a, b \in Rank : posted[a][b] \in Nat /\ lead[b][a] \in Int
    BY Facts DEF IInv
  <2>2. \A a, b \in Rank : posted'[a][b] <= posted[a][b]
    BY <1>1, <1>3, <2>1
  <2>3. \A a, b \in Rank : posted'[a][b] \in Int
    BY <1>1, <1>3, <2>1
  <2> QED BY <1>3, <2>1, <2>2, <2>3 DEF PostedIsLead, IInv
<1>8. ASSUME NEW a \in Rank, NEW b \in Rank
      PROVE  Ahead(seq'[b], flag'[a][b], posted'[a][b]) /\ Ahead(seq'[b], seq'[a], lead'[b][a])
  <2>1. /\ posted[a][b] \in 0..2 /\ seq[b] \in Count /\ flag[a][b] \in Count
    BY Bounds
  <2>2. Ahead(seq[b], flag[a][b], posted[a][b]) /\ Ahead(seq[b], seq[a], lead[b][a])
    BY DEF IInv, FlagsTell
  <2>3. Ahead(seq[b], Succ(flag[a][b]), posted[a][b] - 1)
    <3>1. posted[a][b] \in Int /\ -4 < posted[a][b] /\ posted[a][b] < 4
      BY <2>1
    <3> QED BY <2>1, <2>2, <3>1, SuccAhead
  <2> QED BY <2>2, <2>3, <1>1, <1>2, <1>3
<1> QED BY <1>5, <1>6, <1>7, <1>8 DEF IInv, FlagsTell

\* A rank that leaves has seen everybody enter its round.
LEMMA LeaveTogether ==
  ASSUME IInv, NEW r \in Rank, Leave(r), NEW p \in Rank
  PROVE  posted[r][p] <= lead[p][r] /\ lead[r][p] <= 0
<1>1. /\ lead[p][r] \in -1..1 /\ posted[r][p] \in 0..2
      /\ seq[p] \in Count /\ seq[r] \in Count /\ flag[r][p] \in Count
  BY Bounds
<1>2. Ahead(seq[p], flag[r][p], posted[r][p]) /\ Ahead(seq[p], seq[r], lead[p][r])
  BY DEF IInv, FlagsTell
<1> DEFINE d == lead[p][r] - posted[r][p]
<1>3. d \in Int /\ -4 < d /\ d < 4
  BY <1>1
<1>4. Ahead(flag[r][p], seq[r], d)
  BY <1>1, <1>2, <1>3, AheadAdd
<1>5. ~Behind(flag[r][p], seq[r])
  BY DEF Leave
<1>6. d >= 0
  BY <1>1, <1>3, <1>4, <1>5, NotBehind
<1>7. lead[p][r] = -lead[r][p] /\ lead[r][p] \in Int
  BY Facts DEF IInv, LeadIsOne
<1> QED BY <1>1, <1>6, <1>7

\* A rank that leaves has seen all others in its round.
LEMMA LeaveInv ==
  ASSUME IInv, NEW r \in Rank, Leave(r)
  PROVE  IInv'
<1>1. seq' = seq /\ flag' = flag /\ posted' = posted /\ lead' = lead /\ spinning' = spinning \ {r}
  BY DEF Leave
<1>2. \A p \in Rank : posted[r][p] <= lead[p][r] /\ lead[r][p] <= 0
  BY LeaveTogether
<1>3. TypeOK' /\ FlagsTell'
  BY <1>1 DEF IInv, TypeOK, FlagsTell
<1>4. LeadIsOne'
  BY <1>1, <1>2 DEF IInv, LeadIsOne
<1>5. PostedIsLead'
  <2>1. \A a, b \in Rank : posted[a][b] <= lead[b][a] + (IF a \in spinning THEN 1 ELSE 0)
    BY DEF IInv, PostedIsLead
  <2>2. \A a, b \in Rank : lead[b][a] \in Int
    BY Facts DEF IInv
  <2> QED BY <1>1, <1>2, <2>1, <2>2 DEF PostedIsLead
<1> QED BY <1>3, <1>4, <1>5 DEF IInv

\* Every step keeps the invariant.
LEMMA NextInv == IInv /\ [Next]_vars => IInv'
<1> SUFFICES ASSUME IInv, [Next]_vars PROVE IInv'
  OBVIOUS
<1>1. ASSUME NEW r \in Rank, Arrive(r) PROVE IInv'
  BY <1>1, ArriveInv
<1>2. ASSUME NEW r \in Rank, Leave(r) PROVE IInv'
  BY <1>2, LeaveInv
<1>3. ASSUME NEW r \in Rank, NEW p \in Rank, Deliver(r, p) PROVE IInv'
  BY <1>3, DeliverInv
<1>4. CASE UNCHANGED vars
  BY <1>4 DEF vars, IInv, TypeOK, LeadIsOne, PostedIsLead, FlagsTell
<1> QED BY <1>1, <1>2, <1>3, <1>4 DEF Next

\* The inductive invariant of the barrier: counters and flags never drift
\* further apart than the comparison can tell.
THEOREM BarrierInvariant == Spec => []IInv
BY InitInv, NextInv, PTL DEF Spec
-----------------------------------------------------------------------------
(* Refinement                                                            *)

\* At first nobody stands at the rendezvous.
LEMMA InitRefines == Init => R!Init
BY DEF Init, R!Init, R!Outside, Standing

\* Entering the barrier is arriving at the rendezvous.
LEMMA ArriveRefines ==
  ASSUME IInv, NEW r \in Rank, Arrive(r)
  PROVE  R!Arrive(r)
<1>1. /\ r \notin spinning /\ spinning' = spinning \cup {r}
      /\ \A a, b \in Rank : lead[a][b] \in Int
      /\ \A a, b \in Rank : lead'[a][b] =
           lead[a][b] + (IF a = b THEN 0 ELSE IF a = r THEN 1 ELSE IF b = r THEN -1 ELSE 0)
  BY Facts DEF Arrive, IInv
<1>2. /\ \A a, b \in Rank : lead[a][b] <= 1 /\ lead[b][a] = -lead[a][b] /\ lead[a][a] = 0
      /\ \A a, b, c \in Rank : lead[a][b] + lead[b][c] = lead[a][c]
      /\ \A a, b \in Rank : a \notin spinning => lead[a][b] <= 0
  BY DEF IInv, LeadIsOne
<1>3. Standing[r] = "outside"
  BY <1>1 DEF Standing
<1>4. CASE \A q \in Rank \ {r} : Standing[q] = "waits"
  <2>1. \A q \in Rank \ {r} : q \in spinning /\ \E p \in Rank : lead[q][p] > 0
    BY <1>4 DEF Standing
  <2>2. ASSUME NEW q \in Rank \ {r} PROVE lead[q][r] = 1
    <3>1. PICK p \in Rank : lead[q][p] > 0
      BY <2>1
    <3>2. CASE p = r
      BY <3>1, <3>2, <1>1, <1>2
    <3>3. CASE p # r
      <4>1. PICK o \in Rank : lead[p][o] > 0
        BY <3>3, <2>1
      <4>2. lead[q][p] + lead[p][o] = lead[q][o] /\ lead[q][o] <= 1
        BY <1>2
      <4>3. lead[q][p] \in Int /\ lead[p][o] \in Int /\ lead[q][o] \in Int
        BY <1>1
      <4> QED BY <3>1, <4>1, <4>2, <4>3
    <3> QED BY <3>2, <3>3
  <2>3. \A a, b \in Rank : lead'[a][b] <= 0
    <3> SUFFICES ASSUME NEW a \in Rank, NEW b \in Rank PROVE lead'[a][b] <= 0
      OBVIOUS
    <3>1. CASE a = b
      BY <3>1, <1>1, <1>2
    <3>2. CASE a # b /\ a = r
      BY <3>2, <2>2, <1>1, <1>2
    <3>3. CASE a # b /\ b = r
      BY <3>3, <2>2, <1>1
    <3>4. CASE a # b /\ a # r /\ b # r
      <4>1. lead[a][r] = 1 /\ lead[b][r] = 1 /\ lead[r][b] = -lead[b][r]
        BY <3>4, <2>2, <1>2
      <4>2. lead[a][r] + lead[r][b] = lead[a][b]
        BY <1>2
      <4> QED BY <4>1, <4>2, <3>4, <1>1
    <3> QED BY <3>1, <3>2, <3>3, <3>4
  <2>4. spinning' = Rank
    BY <2>1, <1>1 DEF IInv, TypeOK
  <2>5. \A a, b \in Rank : ~(lead'[a][b] > 0)
    BY <2>3, <1>1
  <2>6. Standing' = [q \in Rank |-> "released"]
    BY <2>4, <2>5 DEF Standing
  <2> QED BY <1>3, <1>4, <2>6 DEF R!Arrive, R!CanArrive, R!Arrived
<1>5. CASE \E q \in Rank \ {r} : Standing[q] # "waits"
  <2>1. PICK q \in Rank \ {r} : Standing[q] # "waits"
    BY <1>5
  <2>2. lead[q][r] <= 0
    <3>1. CASE q \notin spinning
      BY <3>1, <1>2
    <3>2. CASE q \in spinning
      <4>1. ~(lead[q][r] > 0)
        BY <2>1, <3>2 DEF Standing
      <4> QED BY <4>1, <1>1
    <3> QED BY <3>1, <3>2
  <2>3. lead[r][q] = 0 /\ lead[q][r] = 0
    BY <2>2, <1>1, <1>2
  <2>4. Standing'[r] = "waits"
    <3>1. lead'[r][q] = 1
      BY <2>3, <1>1
    <3> QED BY <3>1, <1>1 DEF Standing
  <2>5. ASSUME NEW a \in Rank \ {r} PROVE Standing'[a] = Standing[a]
    <3>1. a \in spinning' <=> a \in spinning
      BY <1>1
    <3>2. CASE a \notin spinning
      BY <3>1, <3>2 DEF Standing
    <3>3. CASE a \in spinning /\ \E p \in Rank : lead[a][p] > 0
      <4>1. PICK p \in Rank : lead[a][p] > 0
        BY <3>3
      <4>2. CASE p # r
        <5>1. lead'[a][p] > 0
          BY <4>1, <4>2, <1>1, <1>2
        <5> QED BY <5>1, <3>1, <3>3 DEF Standing
      <4>3. CASE p = r
        <5>1. lead[a][r] + lead[r][q] = lead[a][q]
          BY <1>2
        <5>2. lead[a][q] > 0 /\ q # r /\ q # a
          BY <5>1, <2>3, <4>1, <4>3, <1>1, <1>2
        <5>3. lead'[a][q] > 0
          BY <5>2, <1>1
        <5> QED BY <5>3, <3>1, <3>3 DEF Standing
      <4> QED BY <4>2, <4>3
    <3>4. CASE a \in spinning /\ ~\E p \in Rank : lead[a][p] > 0
      <4>1. \A p \in Rank : ~(lead'[a][p] > 0)
        BY <3>4, <1>1
      <4> QED BY <4>1, <3>1, <3>4 DEF Standing
    <3> QED BY <3>2, <3>3, <3>4
  <2>6. Standing' = [Standing EXCEPT ![r] = "waits"]
    BY <2>4, <2>5 DEF Standing
  <2> QED BY <1>3, <1>5, <2>6 DEF R!Arrive, R!CanArrive, R!Arrived
<1> QED BY <1>4, <1>5

\* Leaving it is leaving the rendezvous: all have arrived.
LEMMA LeaveRefines ==
  ASSUME IInv, NEW r \in Rank, Leave(r)
  PROVE  R!Leave(r)
<1>1. \A p \in Rank : lead[r][p] <= 0
  BY LeaveTogether
<1>2. r \in spinning /\ spinning' = spinning \ {r} /\ lead' = lead
  BY DEF Leave
<1>3. \A p \in Rank : ~(lead[r][p] > 0)
  <2> SUFFICES ASSUME NEW p \in Rank PROVE ~(lead[r][p] > 0)
    OBVIOUS
  <2>1. lead[r][p] \in Int
    BY Facts DEF IInv
  <2>2. lead[r][p] <= 0
    BY <1>1
  <2> QED BY <2>1, <2>2
<1>4. Standing[r] = "released"
  BY <1>2, <1>3 DEF Standing
<1>5. Standing' = [Standing EXCEPT ![r] = "outside"]
  BY <1>2 DEF Standing
<1> QED BY <1>4, <1>5 DEF R!Leave, R!CanLeave, R!Left

\* Every step is a step of the rendezvous, or none.
LEMMA StepRefines == IInv /\ [Next]_vars => [R!Next]_Standing
<1> SUFFICES ASSUME IInv, [Next]_vars PROVE R!Next \/ UNCHANGED Standing
  OBVIOUS
<1>1. ASSUME NEW r \in Rank, Arrive(r) PROVE R!Next
  BY <1>1, ArriveRefines DEF R!Next
<1>2. ASSUME NEW r \in Rank, Leave(r) PROVE R!Next
  BY <1>2, LeaveRefines DEF R!Next
<1>3. ASSUME NEW r \in Rank, NEW p \in Rank, Deliver(r, p) PROVE UNCHANGED Standing
  BY <1>3 DEF Deliver, Standing
<1>4. CASE UNCHANGED vars
  BY <1>4 DEF vars, Standing
<1> QED BY <1>1, <1>2, <1>3, <1>4 DEF Next

\* The barrier kernel is a rendezvous for any number of ranks and any width of
\* its flags: nobody leaves a round that somebody has not entered, across the
\* wrap-around and however late the flags become visible.
THEOREM BarrierFences == Spec => Fences
<1>1. IInv /\ [Next]_vars => [R!Next]_Standing
  BY StepRefines
<1> QED BY InitRefines, <1>1, BarrierInvariant, PTL DEF Spec, Fences, R!Spec

\* Counts a distance of zero apart are equal.
LEMMA SameCount ==
  ASSUME NEW v \in Count, NEW t \in Count, Ahead(v, t, 0)
  PROVE  t = v
BY HalfAssumption, SMTT(30) DEF Count, Ahead

\* A count that is equal, or one ahead, is not behind.
LEMMA AheadNotBehind ==
  ASSUME NEW v \in Count, NEW t \in Count, NEW d \in 0..1, Ahead(v, t, d)
  PROVE  ~Behind(v, t)
BY HalfAssumption, SMTT(30) DEF Count, Behind, Ahead

\* With all stores seen, flags are the counts; and all have entered the round of
\* a rank that the rendezvous has released.
LEMMA ReleasedLeavesInv == IInv => ReleasedLeaves
<1> SUFFICES ASSUME IInv, NEW r \in Rank, Standing[r] = "released", \A p \in Rank : posted[r][p] = 0, NEW p \in Rank
             PROVE  ~Behind(flag[r][p], seq[r])
  BY DEF ReleasedLeaves
<1>1. lead[r][p] <= 0
  <2>1. r \in spinning /\ ~ \E q \in Rank : lead[r][q] > 0
    BY DEF Standing
  <2> QED
    BY <2>1, Bounds
<1>2. lead[p][r] = -lead[r][p] /\ lead[r][p] \in -1..1
  BY Bounds DEF IInv, LeadIsOne
<1>3. lead[p][r] \in 0..1
  BY <1>1, <1>2
<1>4. Ahead(seq[p], flag[r][p], 0) /\ Ahead(seq[p], seq[r], lead[p][r])
  BY DEF IInv, FlagsTell
<1>5. seq[p] \in Count /\ seq[r] \in Count /\ flag[r][p] \in Count
  BY Bounds
<1>6. flag[r][p] = seq[p]
  BY <1>4, <1>5, SameCount
<1> QED
  BY <1>3, <1>4, <1>5, <1>6, AheadNotBehind

\* Nobody spins for good: a rank whose round all have entered, and which has seen
\* their stores, finds no flag behind, across the wrap-around of the counters.
THEOREM BarrierReleases == Spec => []ReleasedLeaves
BY BarrierInvariant, ReleasedLeavesInv, PTL

(***************************************************************************)
(* Collectives                                                             *)
(***************************************************************************)

Item == [op : {"kernel", "push", "pull", "barrier", "wait"}, from : Nat, to : Nat]
Queues == [Peer -> [Stream -> Seq(Item)]]

\* A wait is for the other stream, and for no more than it has.
Waiting(Q) ==
  \A r \in Peer, s \in Stream : \A k \in 1..Len(Q[r][s]) :
    Q[r][s][k].op = "wait" => Q[r][s][k].from = 1 - s /\ Q[r][s][k].to <= Len(Q[r][1 - s])

\* Operations are named by how many are queued after them, which does not change
\* as a stream runs, and is the same on every rank.
Places(Q, r, s) == 0..(Len(Q[r][s]) - 1)
At(Q, r, s, d) == Q[r][s][Len(Q[r][s]) - d]

\* A cut says of each stream how much is left to run.  A closed one has run what
\* it takes to run the rest: all that ranks have before a barrier, and what a
\* wait is for.
Cut == [Peer -> [Stream -> Nat]]

Closed(Q, C) ==
  \A r \in Peer, s \in Stream :
    /\ C[r][s] <= Len(Q[r][s])
    /\ \A d \in C[r][s]..(Len(Q[r][s]) - 1) :
         /\ At(Q, r, s, d).op = "barrier" => \A q \in Peer : C[q][s] <= d + 1
         /\ At(Q, r, s, d).op = "wait" => C[r][1 - s] <= Len(Q[r][1 - s]) - At(Q, r, s, d).to

\* Whenever stream t of q has no more than e left, r has run what is at d on s.
After(Q, r, s, d, q, t, e) ==
  \A C \in Cut : Closed(Q, C) /\ C[q][t] <= e => C[r][s] <= d

\* Streams of its rank, and of all ranks, whose next operation comes after.
Known(Q, r, s, d) == {t \in Stream : After(Q, r, s, d, r, t, 0)}
Fenced(Q, r, s, d) == {t \in Stream : \A q \in Peer : After(Q, r, s, d, q, t, 0)}

\* What comes next on s comes after all of u.
Joined(Q, s, u) == \A q \in Peer : \A C \in Cut : Closed(Q, C) /\ C[q][s] = 0 => C[q][u] = 0

QueuesOK(Q) == Q \in Queues /\ Waiting(Q)

\* The two streams, and the other one.
LEMMA Sides == Stream = {0, 1} /\ \A s \in Stream : 1 - s \in Stream /\ 1 - s # s /\ (1 - (1 - s)) = s
  BY DEF Stream

\* What a queue and its places hold.
LEMMA QueueFacts ==
  ASSUME NEW Q, Q \in Queues, NEW r \in Peer, NEW s \in Stream
  PROVE  /\ Q[r] \in [Stream -> Seq(Item)] /\ Q[r][s] \in Seq(Item) /\ Len(Q[r][s]) \in Nat /\ DOMAIN Q[r][s] = 1..Len(Q[r][s])
         /\ \A k \in 1..Len(Q[r][s]) : Q[r][s][k] \in Item
         /\ \A d \in Places(Q, r, s) : d \in Nat /\ Len(Q[r][s]) - d \in 1..Len(Q[r][s]) /\ At(Q, r, s, d) \in Item
<1>1. Q[r] \in [Stream -> Seq(Item)] /\ Q[r][s] \in Seq(Item)
  BY DEF Queues
<1>2. Len(Q[r][s]) \in Nat /\ DOMAIN Q[r][s] = 1..Len(Q[r][s]) /\ \A k \in 1..Len(Q[r][s]) : Q[r][s][k] \in Item
  BY <1>1
<1>3. \A d \in Places(Q, r, s) : d \in Nat /\ Len(Q[r][s]) - d \in 1..Len(Q[r][s])
  BY <1>2 DEF Places
<1> QED
  BY <1>1, <1>2, <1>3 DEF At

\* A queued wait is for what is left of the other stream.
LEMMA WaitFacts ==
  ASSUME NEW Q, QueuesOK(Q), NEW r \in Peer, NEW s \in Stream, NEW d \in Places(Q, r, s), At(Q, r, s, d).op = "wait"
  PROVE  At(Q, r, s, d).from = 1 - s /\ At(Q, r, s, d).to <= Len(Q[r][1 - s]) /\ At(Q, r, s, d).to \in Nat
<1>1. Len(Q[r][s]) - d \in 1..Len(Q[r][s]) /\ At(Q, r, s, d) \in Item
  BY QueueFacts DEF QueuesOK
<1>2. At(Q, r, s, d).to \in Nat
  BY <1>1 DEF Item
<1> QED
  BY <1>1, <1>2 DEF QueuesOK, Waiting, At

-----------------------------------------------------------------------------
(* One operation more, on a stream of every rank                         *)

Grown(Q, s, f) == [r \in Peer |-> [t \in Stream |-> IF t = s THEN Append(Q[r][t], f[r]) ELSE Q[r][t]]]
Shift(s, t, d) == IF t = s THEN d + 1 ELSE d

\* What the cut was before.
Lowered(C, s) == [r \in Peer |-> [t \in Stream |-> IF t = s /\ C[r][t] > 0 THEN C[r][t] - 1 ELSE C[r][t]]]

\* One operation more leaves the others where they were, under the names they
\* had, now counted from behind it.
LEMMA GrownFacts ==
  ASSUME NEW Q, Q \in Queues, NEW s \in Stream, NEW f \in [Peer -> Item]
  PROVE  /\ Grown(Q, s, f) \in Queues
         /\ \A r \in Peer : /\ Len(Grown(Q, s, f)[r][s]) = Len(Q[r][s]) + 1
                            /\ At(Grown(Q, s, f), r, s, 0) = f[r]
         /\ \A r \in Peer, t \in Stream :
              /\ t # s => Grown(Q, s, f)[r][t] = Q[r][t]
              /\ \A k \in 1..Len(Q[r][t]) : Grown(Q, s, f)[r][t][k] = Q[r][t][k]
              /\ \A d \in Places(Q, r, t) : Shift(s, t, d) \in Places(Grown(Q, s, f), r, t)
                                            /\ At(Grown(Q, s, f), r, t, Shift(s, t, d)) = At(Q, r, t, d)
<1> DEFINE G == Grown(Q, s, f)
<1>1. \A r \in Peer, t \in Stream : G[r][t] = IF t = s THEN Append(Q[r][t], f[r]) ELSE Q[r][t]
  BY DEF Grown
<1>2. \A r \in Peer, t \in Stream : Q[r][t] \in Seq(Item) /\ f[r] \in Item /\ Len(Q[r][t]) \in Nat
  BY QueueFacts
<1>3. \A r \in Peer : /\ Append(Q[r][s], f[r]) \in Seq(Item) /\ Len(Append(Q[r][s], f[r])) = Len(Q[r][s]) + 1
                      /\ Append(Q[r][s], f[r])[Len(Q[r][s]) + 1] = f[r]
                      /\ \A k \in 1..Len(Q[r][s]) : Append(Q[r][s], f[r])[k] = Q[r][s][k]
  <2> TAKE r \in Peer
  <2>1. Q[r][s] \in Seq(Item) /\ f[r] \in Item
    BY <1>2
  <2> QED
    BY <2>1, AppendProperties
<1>4. G \in Queues
  <2>1. ASSUME NEW r \in Peer, NEW t \in Stream
        PROVE  (IF t = s THEN Append(Q[r][t], f[r]) ELSE Q[r][t]) \in Seq(Item)
    <3>1. CASE t = s
      BY <1>3, <3>1
    <3>2. CASE t # s
      BY <1>2, <3>2
    <3> QED
      BY <3>1, <3>2
  <2> QED
    BY <2>1 DEF Queues, Grown
<1>5. \A r \in Peer : Len(G[r][s]) = Len(Q[r][s]) + 1
  BY <1>1, <1>3
<1>6. \A r \in Peer : At(G, r, s, 0) = f[r]
  <2> SUFFICES ASSUME NEW r \in Peer PROVE At(G, r, s, 0) = f[r]
    OBVIOUS
  <2>1. G[r][s] = Append(Q[r][s], f[r])
    BY <1>1
  <2> HIDE DEF G
  <2>2. Len(G[r][s]) - 0 = Len(Q[r][s]) + 1
    BY <1>5, <1>2
  <2>3. At(G, r, s, 0) = Append(Q[r][s], f[r])[Len(Q[r][s]) + 1]
    BY <2>1, <2>2 DEF At
  <2> QED
    BY <2>3, <1>3
<1>7. \A r \in Peer, t \in Stream : \A k \in 1..Len(Q[r][t]) : G[r][t][k] = Q[r][t][k]
  <2> TAKE r \in Peer, t \in Stream
  <2>1. CASE t = s
    <3>1. G[r][t] = Append(Q[r][s], f[r])
      BY <1>1, <2>1
    <3> HIDE DEF G
    <3> QED
      BY <3>1, <1>3, <2>1
  <2>2. CASE t # s
    <3>1. G[r][t] = Q[r][t]
      BY <1>1, <2>2
    <3> QED
      BY <3>1
  <2> QED
    BY <2>1, <2>2
<1>8. ASSUME NEW r \in Peer, NEW t \in Stream, NEW d \in Places(Q, r, t)
      PROVE  Shift(s, t, d) \in Places(G, r, t) /\ At(G, r, t, Shift(s, t, d)) = At(Q, r, t, d)
  <2> HIDE DEF G
  <2>1. Len(Q[r][t]) - d \in 1..Len(Q[r][t]) /\ d \in Nat /\ Len(Q[r][t]) \in Nat
    BY QueueFacts
  <2>2. G[r][t][Len(Q[r][t]) - d] = Q[r][t][Len(Q[r][t]) - d]
    BY <2>1, <1>7
  <2>3. CASE t = s
    <3>1. Len(G[r][t]) - Shift(s, t, d) = Len(Q[r][t]) - d /\ Shift(s, t, d) = d + 1
      BY <2>1, <2>3, <1>5 DEF Shift
    <3>2. At(G, r, t, Shift(s, t, d)) = At(Q, r, t, d)
      BY <3>1, <2>2 DEF At
    <3>3. Shift(s, t, d) \in Places(G, r, t)
      BY <3>1, <2>1, <1>5, <2>3 DEF Places
    <3> QED
      BY <3>2, <3>3
  <2>4. CASE t # s
    BY <2>4, <1>1 DEF Shift, At, Places
  <2> QED
    BY <2>3, <2>4
<1>9. \A r \in Peer, t \in Stream : t # s => G[r][t] = Q[r][t]
  BY <1>1
<1> QED
  BY <1>4, <1>5, <1>6, <1>7, <1>8, <1>9

\* A cut as it was before an operation was queued.
LEMMA LoweredFacts ==
  ASSUME NEW C \in Cut, NEW s \in Stream
  PROVE  /\ Lowered(C, s) \in Cut
         /\ \A r \in Peer, t \in Stream :
              /\ C[r][t] \in Nat
              /\ Lowered(C, s)[r][t] = IF t = s /\ C[r][t] > 0 THEN C[r][t] - 1 ELSE C[r][t]
<1>1. \A r \in Peer, t \in Stream : C[r][t] \in Nat
  BY DEF Cut
<1>2. \A r \in Peer, t \in Stream : Lowered(C, s)[r][t] = IF t = s /\ C[r][t] > 0 THEN C[r][t] - 1 ELSE C[r][t]
  BY DEF Lowered
<1>3. \A r \in Peer, t \in Stream : (IF t = s /\ C[r][t] > 0 THEN C[r][t] - 1 ELSE C[r][t]) \in Nat
  BY <1>1
<1>4. Lowered(C, s) \in Cut
  BY <1>3 DEF Cut, Lowered
<1> QED
  BY <1>1, <1>2, <1>4

\* Arithmetic of the lowered cut.
LEMMA LoweredBound ==
  ASSUME NEW c \in Nat, NEW a \in Nat, NEW n \in Nat, n <= a, c <= (a + 1) - n,
         NEW l, l = IF c > 0 THEN c - 1 ELSE c
  PROVE  l <= a - n
  OBVIOUS

\* A closed cut was closed before.
LEMMA LoweredClosed ==
  ASSUME NEW Q, QueuesOK(Q), NEW s \in Stream, NEW f \in [Peer -> Item],
         NEW C \in Cut, Closed(Grown(Q, s, f), C)
  PROVE  Closed(Q, Lowered(C, s))
<1> DEFINE G == Grown(Q, s, f)
           L == Lowered(C, s)
<1>0. Q \in Queues
  BY DEF QueuesOK
<1>1. /\ \A r \in Peer : Len(G[r][s]) = Len(Q[r][s]) + 1
      /\ \A r \in Peer, t \in Stream : t # s => G[r][t] = Q[r][t]
      /\ \A r \in Peer, t \in Stream : \A d \in Places(Q, r, t) :
           Shift(s, t, d) \in Places(G, r, t) /\ At(G, r, t, Shift(s, t, d)) = At(Q, r, t, d)
  BY <1>0, GrownFacts
<1>2. \A r \in Peer, t \in Stream : C[r][t] \in Nat /\ L[r][t] = IF t = s /\ C[r][t] > 0 THEN C[r][t] - 1 ELSE C[r][t]
  BY LoweredFacts
<1> HIDE DEF G, L
<1> SUFFICES ASSUME NEW r \in Peer, NEW t \in Stream
             PROVE  /\ L[r][t] <= Len(Q[r][t])
                    /\ \A d \in L[r][t]..(Len(Q[r][t]) - 1) :
                         /\ At(Q, r, t, d).op = "barrier" => \A q \in Peer : L[q][t] <= d + 1
                         /\ At(Q, r, t, d).op = "wait" => L[r][1 - t] <= Len(Q[r][1 - t]) - At(Q, r, t, d).to
  BY DEF Closed, L
<1>3. Len(Q[r][t]) \in Nat /\ Len(Q[r][1 - t]) \in Nat /\ 1 - t \in Stream /\ 1 - t # t
  BY <1>0, QueueFacts, Sides
<1>4. C[r][t] <= Len(G[r][t])
  BY DEF Closed, G
<1>5. L[r][t] <= Len(Q[r][t])
  BY <1>1, <1>2, <1>3, <1>4
<1> SUFFICES ASSUME NEW d \in L[r][t]..(Len(Q[r][t]) - 1)
             PROVE  /\ At(Q, r, t, d).op = "barrier" => \A q \in Peer : L[q][t] <= d + 1
                    /\ At(Q, r, t, d).op = "wait" => L[r][1 - t] <= Len(Q[r][1 - t]) - At(Q, r, t, d).to
  BY <1>5
<1> DEFINE e == Shift(s, t, d)
<1>6. d \in Places(Q, r, t) /\ d \in Nat /\ L[r][t] \in Nat /\ d >= L[r][t]
  BY <1>2, <1>3 DEF Places
<1>7. e \in Places(G, r, t) /\ At(G, r, t, e) = At(Q, r, t, d) /\ e \in Nat
  BY <1>1, <1>6 DEF Shift
<1>8. e >= C[r][t]
  BY <1>2, <1>6 DEF Shift
<1>9. e \in C[r][t]..(Len(G[r][t]) - 1)
  BY <1>7, <1>8, <1>2 DEF Places
<1>10. /\ At(G, r, t, e).op = "barrier" => \A q \in Peer : C[q][t] <= e + 1
       /\ At(G, r, t, e).op = "wait" => C[r][1 - t] <= Len(G[r][1 - t]) - At(G, r, t, e).to
  BY <1>9 DEF Closed, G
<1>11. ASSUME At(Q, r, t, d).op = "barrier", NEW q \in Peer PROVE L[q][t] <= d + 1
  <2>1. C[q][t] <= e + 1
    BY <1>10, <1>7, <1>11
  <2> QED
    BY <2>1, <1>2, <1>6 DEF Shift
<1>12. ASSUME At(Q, r, t, d).op = "wait" PROVE L[r][1 - t] <= Len(Q[r][1 - t]) - At(Q, r, t, d).to
  <2>1. C[r][1 - t] <= Len(G[r][1 - t]) - At(Q, r, t, d).to
    BY <1>10, <1>7, <1>12
  <2>2. At(Q, r, t, d).to \in Nat /\ At(Q, r, t, d).to <= Len(Q[r][1 - t])
    BY <1>6, <1>12, WaitFacts
  <2>3. CASE 1 - t = s
    <3>1. Len(G[r][1 - t]) = Len(Q[r][1 - t]) + 1
      BY <1>1, <2>3
    <3>2. C[r][1 - t] \in Nat /\ L[r][1 - t] = IF C[r][1 - t] > 0 THEN C[r][1 - t] - 1 ELSE C[r][1 - t]
      BY <1>2, <1>3, <2>3
    <3>3. C[r][1 - t] <= (Len(Q[r][1 - t]) + 1) - At(Q, r, t, d).to
      BY <2>1, <3>1
    <3> QED
      BY <2>2, <3>2, <3>3, <1>3, LoweredBound
  <2>4. CASE 1 - t # s
    <3>1. Len(G[r][1 - t]) = Len(Q[r][1 - t])
      BY <1>1, <1>3, <2>4
    <3>2. C[r][1 - t] \in Nat /\ L[r][1 - t] = C[r][1 - t]
      BY <1>2, <1>3, <2>4
    <3> QED
      BY <2>1, <2>2, <3>1, <3>2, <1>3
  <2> QED
    BY <2>3, <2>4
<1> QED
  BY <1>11, <1>12

\* What came after still does.
LEMMA GrownAfter ==
  ASSUME NEW Q, QueuesOK(Q), NEW s \in Stream, NEW f \in [Peer -> Item],
         NEW r \in Peer, NEW u \in Stream, NEW d \in Nat, NEW q \in Peer, NEW t \in Stream, NEW e \in Nat,
         After(Q, r, u, d, q, t, e)
  PROVE  /\ After(Grown(Q, s, f), r, u, Shift(s, u, d), q, t, Shift(s, t, e))
         /\ After(Grown(Q, s, f), r, u, Shift(s, u, d), q, t, e)
<1> SUFFICES ASSUME NEW C \in Cut, Closed(Grown(Q, s, f), C), C[q][t] <= Shift(s, t, e) \/ C[q][t] <= e
             PROVE  C[r][u] <= Shift(s, u, d)
  BY DEF After
<1>1. Closed(Q, Lowered(C, s)) /\ Lowered(C, s) \in Cut
  BY LoweredClosed, LoweredFacts
<1>0. /\ C[q][t] \in Nat /\ C[r][u] \in Nat
      /\ Lowered(C, s)[q][t] = IF t = s /\ C[q][t] > 0 THEN C[q][t] - 1 ELSE C[q][t]
      /\ Lowered(C, s)[r][u] = IF u = s /\ C[r][u] > 0 THEN C[r][u] - 1 ELSE C[r][u]
  BY LoweredFacts
<1>2. Lowered(C, s)[q][t] <= e
  BY <1>0 DEF Shift
<1>3. Lowered(C, s)[r][u] <= d
  BY <1>1, <1>2 DEF After
<1> QED
  BY <1>3, <1>0 DEF Shift

\* What comes after what is not changed by queueing more.
LEMMA GrownKnown ==
  ASSUME NEW Q, QueuesOK(Q), NEW s \in Stream, NEW f \in [Peer -> Item],
         NEW r \in Peer, NEW u \in Stream, NEW d \in Nat
  PROVE  /\ Known(Q, r, u, d) \subseteq Known(Grown(Q, s, f), r, u, Shift(s, u, d))
         /\ Fenced(Q, r, u, d) \subseteq Fenced(Grown(Q, s, f), r, u, Shift(s, u, d))
<1>1. 0 \in Nat
  OBVIOUS
<1> QED
  BY <1>1, GrownAfter DEF Known, Fenced

\* All ranks go on after a barrier once each has run what it has before it.
LEMMA BarrierOrders ==
  ASSUME NEW Q, QueuesOK(Q), NEW s \in Stream, NEW r \in Peer, NEW u \in Stream, NEW d \in Nat,
         s \in Known(Q, r, u, d)
  PROVE  s \in Fenced(Grown(Q, s, [p \in Peer |-> Barrier]), r, u, Shift(s, u, d))
<1> DEFINE f == [p \in Peer |-> Barrier]
           G == Grown(Q, s, f)
<1>1. f \in [Peer -> Item]
  BY DEF Barrier, Item
<1> SUFFICES ASSUME NEW q \in Peer, NEW C \in Cut, Closed(G, C), C[q][s] <= 0
             PROVE  C[r][u] <= Shift(s, u, d)
  BY DEF Fenced, After
<1>2. At(G, q, s, 0).op = "barrier" /\ Len(G[q][s]) = Len(Q[q][s]) + 1 /\ Len(Q[q][s]) \in Nat
  <2>1. At(G, q, s, 0) = f[q] /\ Len(G[q][s]) = Len(Q[q][s]) + 1
    BY <1>1, GrownFacts DEF QueuesOK
  <2> QED
    BY <2>1, QueueFacts DEF Barrier, QueuesOK
<1> HIDE DEF G, f
<1>3. C[q][s] = 0 /\ C[r][s] \in Nat
  BY LoweredFacts
<1>4. C[r][s] <= 0 + 1
  <2>1. 0 \in C[q][s]..(Len(G[q][s]) - 1)
    BY <1>2, <1>3
  <2> QED
    BY <2>1, <1>2 DEF Closed
<1>5. Lowered(C, s)[r][s] <= 0
  BY <1>3, <1>4, LoweredFacts
<1>6. Closed(Q, Lowered(C, s)) /\ Lowered(C, s) \in Cut
  BY <1>1, LoweredClosed, LoweredFacts DEF G
<1>7. Lowered(C, s)[r][u] <= d
  BY <1>5, <1>6 DEF Known, After
<1> QED
  BY <1>7, LoweredFacts DEF Shift

\* A wait for all of the other stream.
WaitFor(Q, u) == [r \in Peer |-> WaitEvent(u, Len(Q[r][u]))]

\* Behind a wait for all that the other stream has, the streams are joined.
LEMMA WaitJoins ==
  ASSUME NEW Q, QueuesOK(Q), NEW s \in Stream
  PROVE  /\ WaitFor(Q, 1 - s) \in [Peer -> Item]
         /\ Joined(Grown(Q, s, WaitFor(Q, 1 - s)), s, 1 - s)
<1> DEFINE f == WaitFor(Q, 1 - s)
           G == Grown(Q, s, f)
<1>1. f \in [Peer -> Item]
  <2>1. \A r \in Peer : Len(Q[r][1 - s]) \in Nat /\ 1 - s \in Nat
    BY QueueFacts, Sides DEF QueuesOK
  <2> QED
    BY <2>1 DEF WaitFor, WaitEvent, Item
<1>2. ASSUME NEW q \in Peer, NEW C \in Cut, Closed(G, C), C[q][s] = 0
      PROVE  C[q][1 - s] = 0
  <2>1. At(G, q, s, 0) = f[q] /\ Len(G[q][s]) = Len(Q[q][s]) + 1 /\ G[q][1 - s] = Q[q][1 - s]
    BY <1>1, GrownFacts, Sides DEF QueuesOK
  <2>2. f[q].op = "wait" /\ f[q].to = Len(Q[q][1 - s]) /\ Len(Q[q][s]) \in Nat /\ Len(Q[q][1 - s]) \in Nat
    BY QueueFacts, Sides DEF WaitFor, WaitEvent, QueuesOK
  <2> HIDE DEF G, f
  <2>3. 0 \in C[q][s]..(Len(G[q][s]) - 1)
    BY <2>1, <2>2, <1>2
  <2>4. C[q][1 - s] <= Len(G[q][1 - s]) - Len(Q[q][1 - s])
    BY <2>1, <2>2, <2>3, <1>2 DEF Closed
  <2> QED
    BY <2>1, <2>2, <2>4, LoweredFacts, Sides
<1> QED
  BY <1>1, <1>2 DEF Joined

\* Waits for a stream stay while others are queued behind them.
LEMMA GrownJoined ==
  ASSUME NEW Q, QueuesOK(Q), NEW s \in Stream, NEW f \in [Peer -> Item], Joined(Q, s, 1 - s)
  PROVE  Joined(Grown(Q, s, f), s, 1 - s)
<1> SUFFICES ASSUME NEW q \in Peer, NEW C \in Cut, Closed(Grown(Q, s, f), C), C[q][s] = 0
             PROVE  C[q][1 - s] = 0
  BY DEF Joined
<1>1. Closed(Q, Lowered(C, s)) /\ Lowered(C, s) \in Cut
  BY LoweredClosed, LoweredFacts
<1>2. Lowered(C, s)[q][s] = 0
  BY LoweredFacts
<1>3. Lowered(C, s)[q][1 - s] = 0
  BY <1>1, <1>2 DEF Joined
<1> QED
  BY <1>3, LoweredFacts, Sides

\* Who comes after a stream comes after those joined to it.
LEMMA JoinedKnown ==
  ASSUME NEW Q, NEW s \in Stream, Joined(Q, s, 1 - s), NEW r \in Peer, NEW u \in Stream, NEW d \in Nat
  PROVE  /\ 1 - s \in Known(Q, r, u, d) => s \in Known(Q, r, u, d)
         /\ 1 - s \in Fenced(Q, r, u, d) => s \in Fenced(Q, r, u, d)
<1>1. ASSUME NEW q \in Peer, After(Q, r, u, d, q, 1 - s, 0) PROVE After(Q, r, u, d, q, s, 0)
  <2> SUFFICES ASSUME NEW C \in Cut, Closed(Q, C), C[q][s] <= 0 PROVE C[r][u] <= d
    BY DEF After
  <2>1. C[q][s] = 0
    BY LoweredFacts
  <2>2. C[q][1 - s] = 0
    BY <2>1 DEF Joined
  <2> QED
    BY <2>2, <1>1 DEF After
<1> QED
  BY <1>1 DEF Known, Fenced

\* A stream runs in order.
LEMMA OwnKnown ==
  ASSUME NEW Q, NEW r \in Peer, NEW u \in Stream, NEW d \in Nat
  PROVE  u \in Known(Q, r, u, d)
<1> SUFFICES ASSUME NEW C \in Cut, C[r][u] <= 0 PROVE C[r][u] <= d
  BY DEF Known, After
<1> QED
  BY LoweredFacts

\* What all ranks come after, one's own does.
LEMMA FencedKnown ==
  ASSUME NEW Q, NEW r \in Peer, NEW u \in Stream, NEW d \in Nat
  PROVE  Fenced(Q, r, u, d) \subseteq Known(Q, r, u, d)
  BY DEF Known, Fenced

-----------------------------------------------------------------------------
(* One operation less, on a stream of one rank                           *)

Popped(Q, r, s) == [Q EXCEPT ![r] = Done(@, s)]

\* A wait of the rank's other stream for one operation less.
LowerWait(i, s) == IF i.op = "wait" /\ i.from = s /\ i.to > 0 THEN [i EXCEPT !.to = @ - 1] ELSE i

\* As an operation completes, waits for its stream have one less to wait for.
LEMMA LowerWaitFacts ==
  ASSUME NEW i \in Item, NEW s \in Stream
  PROVE  /\ LowerWait(i, s) \in Item
         /\ LowerWait(i, s).op = i.op /\ LowerWait(i, s).from = i.from
         /\ i.op # "wait" \/ i.from # s => LowerWait(i, s) = i
         /\ i.op = "wait" /\ i.from = s => LowerWait(i, s).to = IF i.to > 0 THEN i.to - 1 ELSE i.to
<1>1. i.op \in {"kernel", "push", "pull", "barrier", "wait"} /\ i.from \in Nat /\ i.to \in Nat
      /\ i = [op |-> i.op, from |-> i.from, to |-> i.to]
  BY DEF Item
<1>2. CASE i.op = "wait" /\ i.from = s /\ i.to > 0
  <2>1. LowerWait(i, s) = [op |-> i.op, from |-> i.from, to |-> i.to - 1]
    BY <1>1, <1>2 DEF LowerWait
  <2>2. i.to - 1 \in Nat
    BY <1>1, <1>2
  <2> QED
    BY <1>1, <1>2, <2>1, <2>2 DEF Item
<1>3. CASE ~(i.op = "wait" /\ i.from = s /\ i.to > 0)
  BY <1>1, <1>3 DEF LowerWait
<1> QED
  BY <1>2, <1>3

\* What a rank's queues hold when the first operation of one has run.
LEMMA DoneFacts ==
  ASSUME NEW x \in [Stream -> Seq(Item)], NEW s \in Stream, x[s] # <<>>
  PROVE  /\ Done(x, s) \in [Stream -> Seq(Item)]
         /\ Len(Done(x, s)[s]) = Len(x[s]) - 1
         /\ \A k \in 1..(Len(x[s]) - 1) : Done(x, s)[s][k] = x[s][k + 1]
         /\ \A t \in Stream : t # s =>
              /\ Len(Done(x, s)[t]) = Len(x[t])
              /\ \A k \in 1..Len(x[t]) : Done(x, s)[t][k] = LowerWait(x[t][k], s)
<1>1. \A t \in Stream : /\ x[t] \in Seq(Item) /\ Len(x[t]) \in Nat /\ DOMAIN x[t] = 1..Len(x[t])
                        /\ \A k \in 1..Len(x[t]) : x[t][k] \in Item
  OBVIOUS
<1>2. \A t \in Stream : Done(x, s)[t] = IF t = s THEN Tail(x[t]) ELSE [k \in DOMAIN x[t] |-> LowerWait(x[t][k], s)]
  BY DEF Done, LowerWait
<1>3. /\ Tail(x[s]) \in Seq(Item) /\ Len(Tail(x[s])) = Len(x[s]) - 1
      /\ \A k \in 1..(Len(x[s]) - 1) : Tail(x[s])[k] = x[s][k + 1]
  BY <1>1, HeadTailProperties
<1>4. ASSUME NEW t \in Stream, t # s
      PROVE  /\ Done(x, s)[t] \in Seq(Item)
             /\ Len(Done(x, s)[t]) = Len(x[t])
             /\ \A k \in 1..Len(x[t]) : Done(x, s)[t][k] = LowerWait(x[t][k], s)
  <2> DEFINE g == [k \in 1..Len(x[t]) |-> LowerWait(x[t][k], s)]
  <2>1. Done(x, s)[t] = g
    BY <1>1, <1>2, <1>4
  <2>2. \A k \in 1..Len(x[t]) : LowerWait(x[t][k], s) \in Item
    BY <1>1, LowerWaitFacts
  <2>3. g \in [1..Len(x[t]) -> Item] /\ DOMAIN g = 1..Len(x[t])
    BY <2>2
  <2>4. g \in Seq(Item)
    BY <2>3, <1>1, SeqDef
  <2>5. Len(g) = Len(x[t])
    <3>1. Len(g) \in Nat /\ DOMAIN g = 1..Len(g)
      BY <2>4, LenProperties
    <3> HIDE DEF g
    <3> QED
      BY <3>1, <2>3, <1>1
  <2> QED
    BY <2>1, <2>4, <2>5
<1>5. Done(x, s)[s] = Tail(x[s])
  BY <1>2
<1>6. Done(x, s) \in [Stream -> Seq(Item)]
  <2>1. \A t \in Stream : Done(x, s)[t] \in Seq(Item)
    BY <1>3, <1>4, <1>5
  <2>2. Done(x, s) = [t \in Stream |-> Done(x, s)[t]]
    BY DEF Done
  <2> QED
    BY <2>1, <2>2
<1> QED
  BY <1>3, <1>4, <1>5, <1>6

\* Only what waits stands differently than before.
LEMMA PoppedFacts ==
  ASSUME NEW Q, QueuesOK(Q), NEW r \in Peer, NEW s \in Stream, Q[r][s] # <<>>,
         Head(Q[r][s]).op = "wait" => Head(Q[r][s]).to = 0
  PROVE  /\ QueuesOK(Popped(Q, r, s))
         /\ Len(Popped(Q, r, s)[r][s]) = Len(Q[r][s]) - 1
         /\ \A q \in Peer, t \in Stream : <<q, t>> # <<r, s>> => Len(Popped(Q, r, s)[q][t]) = Len(Q[q][t])
         /\ \A q \in Peer, t \in Stream : \A d \in Places(Popped(Q, r, s), q, t) :
              /\ d \in Places(Q, q, t)
              /\ At(Popped(Q, r, s), q, t, d).op = At(Q, q, t, d).op
              /\ At(Q, q, t, d).op # "wait" => At(Popped(Q, r, s), q, t, d) = At(Q, q, t, d)
              /\ At(Q, q, t, d).op = "wait" =>
                   At(Popped(Q, r, s), q, t, d).to =
                     IF q = r /\ t # s /\ At(Q, q, t, d).to > 0 THEN At(Q, q, t, d).to - 1 ELSE At(Q, q, t, d).to
<1> DEFINE P == Popped(Q, r, s)
<1>0. Q \in Queues /\ Waiting(Q)
  BY DEF QueuesOK
<1>1. \A q \in Peer, t \in Stream : /\ Q[q] \in [Stream -> Seq(Item)] /\ Q[q][t] \in Seq(Item) /\ Len(Q[q][t]) \in Nat
                                    /\ \A k \in 1..Len(Q[q][t]) : Q[q][t][k] \in Item
  BY <1>0, QueueFacts
<1>2. /\ Done(Q[r], s) \in [Stream -> Seq(Item)]
      /\ Len(Done(Q[r], s)[s]) = Len(Q[r][s]) - 1
      /\ \A k \in 1..(Len(Q[r][s]) - 1) : Done(Q[r], s)[s][k] = Q[r][s][k + 1]
      /\ \A t \in Stream : t # s =>
           /\ Len(Done(Q[r], s)[t]) = Len(Q[r][t])
           /\ \A k \in 1..Len(Q[r][t]) : Done(Q[r], s)[t][k] = LowerWait(Q[r][t][k], s)
  BY <1>1, DoneFacts
<1>3. P[r] = Done(Q[r], s) /\ \A q \in Peer : q # r => P[q] = Q[q]
  BY <1>0 DEF Popped, Queues
<1>4. P \in Queues
  <2>1. \A q \in Peer : P[q] \in [Stream -> Seq(Item)]
    BY <1>1, <1>2, <1>3
  <2>2. P = [q \in Peer |-> P[q]]
    BY <1>0 DEF Popped, Queues
  <2> QED
    BY <2>1, <2>2 DEF Queues
<1> HIDE DEF P
<1>5. Len(P[r][s]) = Len(Q[r][s]) - 1 /\ \A q \in Peer, t \in Stream : <<q, t>> # <<r, s>> => Len(P[q][t]) = Len(Q[q][t])
  BY <1>2, <1>3
<1>6. Len(Q[r][s]) > 0
  BY <1>1, EmptySeq
<1>7. ASSUME NEW q \in Peer, NEW t \in Stream, NEW d \in Places(P, q, t)
      PROVE  /\ d \in Places(Q, q, t)
             /\ At(Q, q, t, d) \in Item
             /\ At(P, q, t, d) = IF q = r /\ t # s THEN LowerWait(At(Q, q, t, d), s) ELSE At(Q, q, t, d)
  <2>1. d \in Nat /\ d < Len(P[q][t]) /\ Len(P[q][t]) \in Nat /\ Len(Q[q][t]) \in Nat
    BY <1>1, <1>4, QueueFacts DEF Places
  <2>2. Len(P[q][t]) <= Len(Q[q][t])
    BY <1>1, <1>5, <1>6
  <2>3. d \in Places(Q, q, t)
    BY <2>1, <2>2 DEF Places
  <2>4. Len(Q[q][t]) - d \in 1..Len(Q[q][t]) /\ At(Q, q, t, d) \in Item
    BY <2>3, <1>0, QueueFacts
  <2>5. CASE q = r /\ t = s
    <3>1. Len(P[q][t]) - d \in 1..(Len(Q[r][s]) - 1) /\ (Len(P[q][t]) - d) + 1 = Len(Q[r][s]) - d
      BY <2>1, <2>5, <1>5
    <3>2. P[q][t][Len(P[q][t]) - d] = Q[r][s][(Len(P[q][t]) - d) + 1]
      BY <3>1, <1>2, <1>3, <2>5
    <3> QED
      BY <3>1, <3>2, <2>3, <2>4, <2>5 DEF At
  <2>6. CASE q = r /\ t # s
    <3>1. Len(P[q][t]) = Len(Q[q][t])
      BY <1>5, <2>6
    <3>2. P[q][t][Len(Q[q][t]) - d] = LowerWait(Q[q][t][Len(Q[q][t]) - d], s)
      BY <1>2, <1>3, <2>4, <2>6
    <3> QED
      BY <3>1, <3>2, <2>3, <2>4, <2>6 DEF At
  <2>7. CASE q # r
    BY <2>3, <2>4, <2>7, <1>3 DEF At
  <2> QED
    BY <2>5, <2>6, <2>7
<1>8. \A q \in Peer, t \in Stream : \A d \in Places(P, q, t) :
        /\ d \in Places(Q, q, t)
        /\ At(P, q, t, d).op = At(Q, q, t, d).op /\ At(P, q, t, d).from = At(Q, q, t, d).from
        /\ At(Q, q, t, d).op # "wait" => At(P, q, t, d) = At(Q, q, t, d)
        /\ At(Q, q, t, d).op = "wait" =>
             At(P, q, t, d).to = IF q = r /\ t # s /\ At(Q, q, t, d).to > 0 THEN At(Q, q, t, d).to - 1 ELSE At(Q, q, t, d).to
  <2> SUFFICES ASSUME NEW q \in Peer, NEW t \in Stream, NEW d \in Places(P, q, t)
               PROVE  /\ At(P, q, t, d).op = At(Q, q, t, d).op /\ At(P, q, t, d).from = At(Q, q, t, d).from
                      /\ At(Q, q, t, d).op # "wait" => At(P, q, t, d) = At(Q, q, t, d)
                      /\ At(Q, q, t, d).op = "wait" =>
                           At(P, q, t, d).to = IF q = r /\ t # s /\ At(Q, q, t, d).to > 0 THEN At(Q, q, t, d).to - 1 ELSE At(Q, q, t, d).to
    BY <1>7
  <2> DEFINE i == At(Q, q, t, d)
  <2>1. d \in Places(Q, q, t) /\ i \in Item /\ At(P, q, t, d) = IF q = r /\ t # s THEN LowerWait(i, s) ELSE i
    BY <1>7
  <2>2. i.op = "wait" => i.from = 1 - t
    BY <2>1, WaitFacts
  <2>3. t # s => 1 - t = s
    BY DEF Stream
  <2> HIDE DEF i
  <2>4. CASE q = r /\ t # s
    BY <2>1, <2>2, <2>3, <2>4, LowerWaitFacts DEF i
  <2>5. CASE ~(q = r /\ t # s)
    BY <2>1, <2>5 DEF i
  <2> QED
    BY <2>4, <2>5
<1>9. Waiting(P)
  <2> SUFFICES ASSUME NEW q \in Peer, NEW t \in Stream, NEW k \in 1..Len(P[q][t]), P[q][t][k].op = "wait"
               PROVE  P[q][t][k].from = 1 - t /\ P[q][t][k].to <= Len(P[q][1 - t])
    BY DEF Waiting
  <2> DEFINE d == Len(P[q][t]) - k
  <2>1. Len(P[q][t]) \in Nat /\ d \in Places(P, q, t) /\ Len(P[q][t]) - d = k
    <3>1. Len(P[q][t]) \in Nat
      BY <1>4, QueueFacts
    <3> QED
      BY <3>1 DEF Places
  <2>2. At(P, q, t, d) = P[q][t][k]
    BY <2>1 DEF At
  <2> HIDE DEF d
  <2>3. At(Q, q, t, d).op = "wait" /\ d \in Places(Q, q, t)
    BY <2>1, <2>2, <1>8
  <2>4. At(Q, q, t, d).from = 1 - t /\ At(Q, q, t, d).to <= Len(Q[q][1 - t]) /\ At(Q, q, t, d).to \in Nat
    BY <2>3, WaitFacts
  <2>5. P[q][t][k].from = 1 - t
    BY <1>8, <2>1, <2>2, <2>4
  <2>6. P[q][t][k].to = IF q = r /\ t # s /\ At(Q, q, t, d).to > 0 THEN At(Q, q, t, d).to - 1 ELSE At(Q, q, t, d).to
    BY <1>8, <2>1, <2>2, <2>3
  <2>7. 1 - t \in Stream /\ (t # s => 1 - t = s) /\ (t = s => 1 - t # s) /\ Len(Q[q][1 - t]) \in Nat
    BY <1>1 DEF Stream
  <2>8. CASE q = r /\ t # s
    BY <2>4, <2>5, <2>6, <2>7, <2>8, <1>5, <1>6
  <2>9. CASE ~(q = r /\ t # s)
    <3>1. <<q, 1 - t>> # <<r, s>>
      BY <2>7, <2>9
    <3>2. Len(P[q][1 - t]) = Len(Q[q][1 - t])
      BY <3>1, <2>7, <1>5
    <3> QED
      BY <3>2, <2>4, <2>5, <2>6, <2>9
  <2> QED
    BY <2>8, <2>9
<1> QED
  BY <1>4, <1>5, <1>8, <1>9 DEF P, QueuesOK

\* A barrier lets a rank go only when no other is behind.
Passable(Q, r, s) ==
  /\ Q[r][s] # <<>>
  /\ Head(Q[r][s]).op = "wait" => Head(Q[r][s]).to = 0
  /\ Head(Q[r][s]).op = "barrier" => \A q \in Peer : Len(Q[q][s]) <= Len(Q[r][s])

\* The next operation of a stream has the highest place.
LEMMA HeadPlace ==
  ASSUME NEW Q, Q \in Queues, NEW r \in Peer, NEW s \in Stream, Q[r][s] # <<>>
  PROVE  /\ Len(Q[r][s]) - 1 \in Places(Q, r, s) /\ Len(Q[r][s]) \in Nat \ {0}
         /\ At(Q, r, s, Len(Q[r][s]) - 1) = Head(Q[r][s])
<1>1. Q[r][s] \in Seq(Item)
  BY QueueFacts
<1>2. Len(Q[r][s]) \in Nat \ {0}
  BY <1>1, EmptySeq
<1>3. Len(Q[r][s]) - (Len(Q[r][s]) - 1) = 1 /\ Head(Q[r][s]) = Q[r][s][1]
  BY <1>1, <1>2
<1> QED
  BY <1>2, <1>3 DEF Places, At

\* A closed cut of what is left was closed.
LEMMA PoppedClosed ==
  ASSUME NEW Q, QueuesOK(Q), NEW r \in Peer, NEW s \in Stream, Passable(Q, r, s),
         NEW C \in Cut, Closed(Popped(Q, r, s), C)
  PROVE  Closed(Q, C)
<1> DEFINE P == Popped(Q, r, s)
<1>0. Q \in Queues /\ Q[r][s] # <<>> /\ Len(Q[r][s]) \in Nat \ {0}
      /\ At(Q, r, s, Len(Q[r][s]) - 1) = Head(Q[r][s])
  BY HeadPlace DEF QueuesOK, Passable
<1>1. /\ Len(P[r][s]) = Len(Q[r][s]) - 1
      /\ \A q \in Peer, t \in Stream : <<q, t>> # <<r, s>> => Len(P[q][t]) = Len(Q[q][t])
      /\ \A q \in Peer, t \in Stream : \A d \in Places(P, q, t) :
           /\ At(P, q, t, d).op = At(Q, q, t, d).op
           /\ At(Q, q, t, d).op = "wait" =>
                At(P, q, t, d).to = IF q = r /\ t # s /\ At(Q, q, t, d).to > 0 THEN At(Q, q, t, d).to - 1 ELSE At(Q, q, t, d).to
  BY PoppedFacts DEF Passable
<1>2. \A q \in Peer, t \in Stream : C[q][t] \in Nat /\ Len(Q[q][t]) \in Nat
  BY <1>0, QueueFacts, LoweredFacts
<1> HIDE DEF P
<1>3. \A q \in Peer, t \in Stream : C[q][t] <= Len(P[q][t])
  BY DEF Closed, P
<1>4. \A q \in Peer, t \in Stream : C[q][t] <= Len(Q[q][t]) /\ Len(P[q][t]) <= Len(Q[q][t])
  <2> SUFFICES ASSUME NEW q \in Peer, NEW t \in Stream PROVE C[q][t] <= Len(Q[q][t]) /\ Len(P[q][t]) <= Len(Q[q][t])
    OBVIOUS
  <2>1. CASE <<q, t>> = <<r, s>>
    BY <1>0, <1>1, <1>2, <1>3, <2>1
  <2>2. CASE <<q, t>> # <<r, s>>
    BY <1>1, <1>2, <1>3, <2>2
  <2> QED
    BY <2>1, <2>2
<1> SUFFICES ASSUME NEW q \in Peer, NEW t \in Stream, NEW d \in C[q][t]..(Len(Q[q][t]) - 1)
             PROVE  /\ At(Q, q, t, d).op = "barrier" => \A p \in Peer : C[p][t] <= d + 1
                    /\ At(Q, q, t, d).op = "wait" => C[q][1 - t] <= Len(Q[q][1 - t]) - At(Q, q, t, d).to
  BY <1>4 DEF Closed
<1>5. d \in Nat /\ C[q][t] <= d /\ d < Len(Q[q][t]) /\ d \in Places(Q, q, t)
  BY <1>2 DEF Places
<1>6. 1 - t \in Stream /\ (t # s => 1 - t = s) /\ (t = s => 1 - t # s)
  BY DEF Stream
<1>7. CASE d < Len(P[q][t])
  <2>1. d \in Places(P, q, t) /\ d \in C[q][t]..(Len(P[q][t]) - 1)
    <3>1. Len(P[q][t]) \in Nat
      BY QueueFacts, PoppedFacts DEF QueuesOK, P, Passable
    <3> QED
      BY <1>5, <1>7, <1>2, <3>1 DEF Places
  <2>2. /\ At(P, q, t, d).op = "barrier" => \A p \in Peer : C[p][t] <= d + 1
        /\ At(P, q, t, d).op = "wait" => C[q][1 - t] <= Len(P[q][1 - t]) - At(P, q, t, d).to
    BY <2>1 DEF Closed, P
  <2>3. ASSUME At(Q, q, t, d).op = "wait"
        PROVE  C[q][1 - t] <= Len(Q[q][1 - t]) - At(Q, q, t, d).to
    <3>1. At(Q, q, t, d).to <= Len(Q[q][1 - t]) /\ At(Q, q, t, d).to \in Nat
      BY <1>5, <2>3, WaitFacts
    <3>2. C[q][1 - t] <= Len(P[q][1 - t]) - At(P, q, t, d).to
      BY <2>1, <2>2, <2>3, <1>1
    <3>3. At(P, q, t, d).to = IF q = r /\ t # s /\ At(Q, q, t, d).to > 0 THEN At(Q, q, t, d).to - 1 ELSE At(Q, q, t, d).to
      BY <2>1, <2>3, <1>1
    <3>4. C[q][1 - t] \in Nat /\ Len(Q[q][1 - t]) \in Nat /\ C[q][1 - t] <= Len(Q[q][1 - t])
      BY <1>2, <1>4, <1>6
    <3>5. CASE q = r /\ t # s
      <4>1. Len(P[q][1 - t]) = Len(Q[q][1 - t]) - 1
        BY <1>1, <1>6, <3>5
      <4>2. CASE At(Q, q, t, d).to > 0
        BY <3>1, <3>2, <3>3, <3>4, <3>5, <4>1, <4>2
      <4>3. CASE ~(At(Q, q, t, d).to > 0)
        BY <3>1, <3>4, <4>3
      <4> QED
        BY <4>2, <4>3
    <3>6. CASE ~(q = r /\ t # s)
      <4>1. Len(P[q][1 - t]) = Len(Q[q][1 - t])
        BY <1>1, <1>6, <3>6
      <4>2. At(P, q, t, d).to = At(Q, q, t, d).to
        BY <3>3, <3>6
      <4> QED
        BY <3>2, <4>1, <4>2
    <3> QED
      BY <3>5, <3>6
  <2> QED
    BY <2>1, <2>2, <2>3, <1>1
<1>8. CASE ~(d < Len(P[q][t]))
  <2>1. q = r /\ t = s /\ d = Len(Q[r][s]) - 1
    BY <1>1, <1>2, <1>5, <1>8
  <2>2. At(Q, q, t, d) = Head(Q[r][s])
    BY <1>0, <2>1
  <2>3. ASSUME At(Q, q, t, d).op = "barrier", NEW p \in Peer PROVE C[p][t] <= d + 1
    <3>1. Len(Q[p][s]) <= Len(Q[r][s])
      BY <2>2, <2>3 DEF Passable
    <3>2. C[p][s] <= Len(Q[p][s]) /\ C[p][s] \in Nat /\ Len(Q[p][s]) \in Nat
      BY <1>2, <1>4
    <3> QED
      BY <3>1, <3>2, <2>1, <1>0
  <2>4. ASSUME At(Q, q, t, d).op = "wait" PROVE C[q][1 - t] <= Len(Q[q][1 - t]) - At(Q, q, t, d).to
    <3>1. At(Q, q, t, d).to = 0
      BY <2>2, <2>4 DEF Passable
    <3> QED
      BY <3>1, <1>2, <1>4, <1>6
  <2> QED
    BY <2>3, <2>4
<1> QED
  BY <1>7, <1>8

\* An operation that may run leaves what comes after what as it was.
LEMMA PoppedAfter ==
  ASSUME NEW Q, QueuesOK(Q), NEW p \in Peer, NEW o \in Stream, Passable(Q, p, o),
         NEW r, NEW s, NEW d, NEW q, NEW t, NEW e, After(Q, r, s, d, q, t, e)
  PROVE  After(Popped(Q, p, o), r, s, d, q, t, e)
  BY PoppedClosed DEF After

\* So does what is known of, and fenced from, the operations that are left.
LEMMA PoppedKnown ==
  ASSUME NEW Q, QueuesOK(Q), NEW p \in Peer, NEW o \in Stream, Passable(Q, p, o),
         NEW r, NEW s, NEW d
  PROVE  /\ Known(Q, r, s, d) \subseteq Known(Popped(Q, p, o), r, s, d)
         /\ Fenced(Q, r, s, d) \subseteq Fenced(Popped(Q, p, o), r, s, d)
  BY PoppedAfter DEF Known, Fenced

\* Joined streams stay joined.
LEMMA PoppedJoined ==
  ASSUME NEW Q, QueuesOK(Q), NEW p \in Peer, NEW o \in Stream, Passable(Q, p, o),
         NEW s, NEW u, Joined(Q, s, u)
  PROVE  Joined(Popped(Q, p, o), s, u)
  BY PoppedClosed DEF Joined

-----------------------------------------------------------------------------
(* Who uses a block                                                      *)

LocalRead(i, b) == i.op \in {"kernel", "push"} /\ i.from = b
LocalWrite(i, b) == i.op \in {"kernel", "pull"} /\ i.to = b
PushTo(i, b) == i.op = "push" /\ i.to = b
PullFrom(i, b) == i.op = "pull" /\ i.from = b

Uses(i, b) == LocalRead(i, b) \/ LocalWrite(i, b) \/ PushTo(i, b) \/ PullFrom(i, b)

\* i writes, on rank r, what j uses on rank q.
Clash(r, i, q, j) ==
  \E b :
    \/ r = q /\ (LocalWrite(i, b) \/ PushTo(i, b)) /\ Uses(j, b)
    \/ r # q /\ PushTo(i, b) /\ (LocalRead(j, b) \/ LocalWrite(j, b))
    \/ r # q /\ PullFrom(i, b) /\ LocalWrite(j, b)

\* Of two operations that clash one comes after the other.
Ordered(Q) ==
  \A r, q \in Peer : \A s, t \in Stream :
    \A d \in Places(Q, r, s), e \in Places(Q, q, t) :
      (<<r, s, d>> # <<q, t, e>> /\ Clash(r, At(Q, r, s, d), q, At(Q, q, t, e))) =>
        After(Q, r, s, d, q, t, e) \/ After(Q, q, t, e, r, s, d)

\* What the next operation of a stream may do with a block: read it, ...
Readable(Q, s, b) ==
  \A r \in Peer, u \in Stream : \A d \in Places(Q, r, u) :
    Uses(At(Q, r, u, d), b) => /\ s \in Known(Q, r, u, d)
                               /\ PushTo(At(Q, r, u, d), b) => s \in Fenced(Q, r, u, d)

\* ... write it on its rank, ...
Changeable(Q, s, b) ==
  /\ Readable(Q, s, b)
  /\ \A r \in Peer, u \in Stream : \A d \in Places(Q, r, u) :
       PullFrom(At(Q, r, u, d), b) => s \in Fenced(Q, r, u, d)

\* ... use it on all.
Quiet(Q, s, b) ==
  \A r \in Peer, u \in Stream : \A d \in Places(Q, r, u) :
    Uses(At(Q, r, u, d), b) => s \in Fenced(Q, r, u, d)

\* The operation, the last of its stream, comes after all it clashes with.
Follows(Q, s, f) ==
  /\ \A r, q \in Peer, u \in Stream : \A d \in Places(Q, q, u) :
       (Clash(r, f[r], q, At(Q, q, u, d)) \/ Clash(q, At(Q, q, u, d), r, f[r])) => After(Q, q, u, d, r, s, 0)
  /\ \A r, q \in Peer : r # q => ~Clash(r, f[r], q, f[q])

\* What nobody uses may be changed, and read, here.
LEMMA QuietChangeable ==
  ASSUME NEW Q, Q \in Queues, NEW s \in Stream, NEW b, Quiet(Q, s, b)
  PROVE  Changeable(Q, s, b) /\ Readable(Q, s, b)
<1>1. \A r \in Peer, u \in Stream : \A d \in Places(Q, r, u) :
        d \in Nat /\ (PushTo(At(Q, r, u, d), b) \/ PullFrom(At(Q, r, u, d), b) => Uses(At(Q, r, u, d), b))
  BY QueueFacts DEF Uses
<1>2. \A r \in Peer, u \in Stream : \A d \in Places(Q, r, u) : Fenced(Q, r, u, d) \subseteq Known(Q, r, u, d)
  BY <1>1, FencedKnown
<1> QED
  BY <1>1, <1>2 DEF Quiet, Changeable, Readable

\* Each place of what has grown is the new one, or was there.
LEMMA GrownPlaces ==
  ASSUME NEW Q, Q \in Queues, NEW s \in Stream, NEW f \in [Peer -> Item],
         NEW r \in Peer, NEW t \in Stream, NEW d \in Places(Grown(Q, s, f), r, t)
  PROVE  \/ t = s /\ d = 0 /\ At(Grown(Q, s, f), r, t, d) = f[r]
         \/ \E e \in Places(Q, r, t) : d = Shift(s, t, e) /\ At(Grown(Q, s, f), r, t, d) = At(Q, r, t, e)
<1> DEFINE G == Grown(Q, s, f)
<1>1. /\ Len(G[r][s]) = Len(Q[r][s]) + 1 /\ At(G, r, s, 0) = f[r]
      /\ t # s => G[r][t] = Q[r][t]
      /\ \A e \in Places(Q, r, t) : At(G, r, t, Shift(s, t, e)) = At(Q, r, t, e)
      /\ Len(Q[r][t]) \in Nat /\ Len(G[r][t]) \in Nat
  BY GrownFacts, QueueFacts
<1> HIDE DEF G
<1>2. d \in Nat /\ d < Len(G[r][t])
  BY <1>1 DEF Places, G
<1>3. CASE t = s /\ d = 0
  BY <1>1, <1>3 DEF G
<1>4. CASE t = s /\ d # 0
  <2>1. d - 1 \in Places(Q, r, t) /\ d = Shift(s, t, d - 1)
    BY <1>1, <1>2, <1>4 DEF Places, Shift
  <2> QED
    BY <2>1, <1>1 DEF G
<1>5. CASE t # s
  <2>1. d \in Places(Q, r, t) /\ d = Shift(s, t, d)
    BY <1>1, <1>2, <1>5 DEF Places, Shift
  <2> QED
    BY <2>1, <1>1 DEF G
<1> QED
  BY <1>3, <1>4, <1>5

\* An operation that follows those it clashes with keeps clashing operations
\* in order.
LEMMA OrderedGrown ==
  ASSUME NEW Q, QueuesOK(Q), NEW s \in Stream, NEW f \in [Peer -> Item], Ordered(Q), Follows(Q, s, f)
  PROVE  Ordered(Grown(Q, s, f))
<1> DEFINE G == Grown(Q, s, f)
<1>0. Q \in Queues
  BY DEF QueuesOK
<1> SUFFICES ASSUME NEW r \in Peer, NEW q \in Peer, NEW u \in Stream, NEW t \in Stream,
                    NEW d \in Places(G, r, u), NEW e \in Places(G, q, t),
                    <<r, u, d>> # <<q, t, e>>, Clash(r, At(G, r, u, d), q, At(G, q, t, e))
             PROVE  After(G, r, u, d, q, t, e) \/ After(G, q, t, e, r, u, d)
  BY DEF Ordered
<1>1. \/ u = s /\ d = 0 /\ At(G, r, u, d) = f[r]
      \/ \E x \in Places(Q, r, u) : d = Shift(s, u, x) /\ At(G, r, u, d) = At(Q, r, u, x)
  BY <1>0, GrownPlaces
<1>2. \/ t = s /\ e = 0 /\ At(G, q, t, e) = f[q]
      \/ \E y \in Places(Q, q, t) : e = Shift(s, t, y) /\ At(G, q, t, e) = At(Q, q, t, y)
  BY <1>0, GrownPlaces
<1> HIDE DEF G
<1>3. CASE (u = s /\ d = 0 /\ At(G, r, u, d) = f[r]) /\ (t = s /\ e = 0 /\ At(G, q, t, e) = f[q])
  <2>1. r # q
    BY <1>3
  <2> QED
    BY <2>1, <1>3 DEF Follows
<1>4. ASSUME u = s, d = 0, At(G, r, u, d) = f[r],
             NEW y \in Places(Q, q, t), e = Shift(s, t, y), At(G, q, t, e) = At(Q, q, t, y)
      PROVE  After(G, q, t, e, r, u, d)
  <2>1. After(Q, q, t, y, r, s, 0)
    BY <1>4 DEF Follows
  <2>2. y \in Nat /\ 0 \in Nat
    BY <1>0, QueueFacts
  <2>3. After(Grown(Q, s, f), q, t, Shift(s, t, y), r, s, 0)
    BY <2>1, <2>2, GrownAfter
  <2> QED
    BY <2>3, <1>4 DEF G
<1>5. ASSUME t = s, e = 0, At(G, q, t, e) = f[q],
             NEW x \in Places(Q, r, u), d = Shift(s, u, x), At(G, r, u, d) = At(Q, r, u, x)
      PROVE  After(G, r, u, d, q, t, e)
  <2>1. After(Q, r, u, x, q, s, 0)
    BY <1>5 DEF Follows
  <2>2. x \in Nat /\ 0 \in Nat
    BY <1>0, QueueFacts
  <2>3. After(Grown(Q, s, f), r, u, Shift(s, u, x), q, s, 0)
    BY <2>1, <2>2, GrownAfter
  <2> QED
    BY <2>3, <1>5 DEF G
<1>6. ASSUME NEW x \in Places(Q, r, u), d = Shift(s, u, x), At(G, r, u, d) = At(Q, r, u, x),
             NEW y \in Places(Q, q, t), e = Shift(s, t, y), At(G, q, t, e) = At(Q, q, t, y)
      PROVE  After(G, r, u, d, q, t, e) \/ After(G, q, t, e, r, u, d)
  <2>1. <<r, u, x>> # <<q, t, y>>
    BY <1>6
  <2>2. Clash(r, At(Q, r, u, x), q, At(Q, q, t, y))
    BY <1>6
  <2>3. After(Q, r, u, x, q, t, y) \/ After(Q, q, t, y, r, u, x)
    BY <2>1, <2>2 DEF Ordered
  <2>4. x \in Nat /\ y \in Nat
    BY <1>0, QueueFacts
  <2>5. After(Q, r, u, x, q, t, y) => After(G, r, u, d, q, t, e)
    BY <2>4, <1>6, GrownAfter DEF G
  <2>6. After(Q, q, t, y, r, u, x) => After(G, q, t, e, r, u, d)
    BY <2>4, <1>6, GrownAfter DEF G
  <2> QED
    BY <2>3, <2>5, <2>6
<1> QED
  BY <1>1, <1>2, <1>3, <1>4, <1>5, <1>6

Alone(i) == [r \in Peer |-> i]

\* What follows, by what it is.
LEMMA NextFollows ==
  ASSUME NEW Q, QueuesOK(Q), NEW s \in Stream, NEW i \in Item,
         \/ i.op = "kernel" /\ Readable(Q, s, i.from) /\ Changeable(Q, s, i.to)
         \/ i.op = "push" /\ i.from # i.to /\ Readable(Q, s, i.from) /\ Quiet(Q, s, i.to)
         \/ i.op = "pull" /\ i.from # i.to /\ Quiet(Q, s, i.from) /\ Changeable(Q, s, i.to)
         \/ i.op = "barrier"
  PROVE  Alone(i) \in [Peer -> Item] /\ Follows(Q, s, Alone(i))
<1>0. Q \in Queues
  BY DEF QueuesOK
<1>1. Alone(i) \in [Peer -> Item] /\ \A r \in Peer : Alone(i)[r] = i
  BY DEF Alone
<1>2. ASSUME NEW r \in Peer, NEW q \in Peer, r # q PROVE ~Clash(r, i, q, i)
  BY <1>2 DEF Clash, LocalRead, LocalWrite, PushTo, PullFrom
<1>3. ASSUME NEW r \in Peer, NEW q \in Peer, NEW u \in Stream, NEW d \in Places(Q, q, u),
             Clash(r, i, q, At(Q, q, u, d)) \/ Clash(q, At(Q, q, u, d), r, i)
      PROVE  After(Q, q, u, d, r, s, 0)
  <2> DEFINE j == At(Q, q, u, d)
  <2>1. j \in Item /\ d \in Nat
    BY <1>0, QueueFacts
  <2>2. Fenced(Q, q, u, d) \subseteq Known(Q, q, u, d)
    BY <2>1, FencedKnown
  <2>3. s \in Fenced(Q, q, u, d) => After(Q, q, u, d, r, s, 0)
    BY DEF Fenced
  <2>4. s \in Known(Q, q, u, d) /\ r = q => After(Q, q, u, d, r, s, 0)
    BY DEF Known
  <2> DEFINE K == s \in Known(Q, q, u, d)
             F == s \in Fenced(Q, q, u, d)
  <2>5. \A b : /\ Readable(Q, s, b) => (Uses(j, b) => K) /\ (PushTo(j, b) => F)
               /\ Changeable(Q, s, b) => (Uses(j, b) => K) /\ (PushTo(j, b) \/ PullFrom(j, b) => F)
               /\ Quiet(Q, s, b) => (Uses(j, b) => F)
    BY DEF Readable, Changeable, Quiet, Uses
  <2> HIDE DEF j, K, F
  <2>6. Clash(r, i, q, j) \/ Clash(q, j, r, i)
    BY <1>3 DEF j
  <2>7. F => K
    BY <2>2 DEF K, F
  <2>8. F \/ (K /\ r = q)
    <3>1. CASE i.op = "kernel" /\ Readable(Q, s, i.from) /\ Changeable(Q, s, i.to)
      BY <2>5, <2>6, <2>7, <3>1 DEF Clash, LocalRead, LocalWrite, PushTo, PullFrom, Uses
    <3>2. CASE i.op = "push" /\ i.from # i.to /\ Readable(Q, s, i.from) /\ Quiet(Q, s, i.to)
      BY <2>5, <2>6, <2>7, <3>2 DEF Clash, LocalRead, LocalWrite, PushTo, PullFrom, Uses
    <3>3. CASE i.op = "pull" /\ i.from # i.to /\ Quiet(Q, s, i.from) /\ Changeable(Q, s, i.to)
      BY <2>5, <2>6, <2>7, <3>3 DEF Clash, LocalRead, LocalWrite, PushTo, PullFrom, Uses
    <3>4. CASE i.op = "barrier"
      BY <2>6, <3>4 DEF Clash, LocalRead, LocalWrite, PushTo, PullFrom, Uses
    <3> QED
      BY <3>1, <3>2, <3>3, <3>4
  <2> QED
    BY <2>3, <2>4, <2>8 DEF K, F
<1> QED
  BY <1>1, <1>2, <1>3 DEF Follows

\* A wait clashes with nothing.
LEMMA WaitFollows ==
  ASSUME NEW Q, NEW s \in Stream, NEW f \in [Peer -> Item], \A r \in Peer : f[r].op = "wait"
  PROVE  Follows(Q, s, f)
<1>1. ASSUME NEW r \in Peer, NEW q, NEW j PROVE ~Clash(r, f[r], q, j) /\ ~Clash(q, j, r, f[r])
  BY DEF Clash, LocalRead, LocalWrite, PushTo, PullFrom, Uses
<1> QED
  BY <1>1 DEF Follows

-----------------------------------------------------------------------------
(* Blocks stay in reach while others are queued                          *)

Front(b, side) == IF b \in side THEN {0, 1} ELSE {0}

\* What follows from the host's books for a pending use of a block: K are the
\* streams whose next operation comes after it, F those of all ranks.  U are the
\* uses of an operation that has yet to come to its barrier.
Use(i, s, b, K, F, m, side, U) ==
  /\ m.heap[b] = Clean => 0 \in F
  /\ \A t \in Stream : m.heap[b] = OfStream(t) => t \in K /\ (PushTo(i, b) \/ PullFrom(i, b) => t \in F)
  /\ \A t \in Stream : m.heap[b] = OfGroup(t) => t \in F
  /\ m.heap[b] = <<"live", 0>> =>
       /\ \A t \in Stream : m.back[b] = OfGroup(t) => t \in K
       /\ m.back[b] = Clean =>
            /\ Front(b, side) \cap K # {}
            /\ PushTo(i, b) => \/ Front(b, side) \cap F # {}
                               \/ \E u \in Front(b, side) \cap K : <<b, u>> \in U
            /\ PullFrom(i, b) => \/ Front(b, side) \cap F # {}
                                 \/ b \in m.sources[s]
                                 \/ \E t \in F : <<b, t>> \in m.dropped
       /\ \A t \in Stream : <<b, t>> \in m.pending =>
            /\ t \in K
            /\ PushTo(i, b) => t \in F
            /\ PullFrom(i, b) => t \in F \/ b \in m.sources[s] \/ \E u \in F : <<b, u>> \in m.dropped

Sound(Q, m, side, U) ==
  \A r \in Peer, s \in Stream : \A d \in Places(Q, r, s) : \A b \in Block :
    Uses(At(Q, r, s, d), b) =>
      Use(At(Q, r, s, d), s, b, Known(Q, r, s, d), Fenced(Q, r, s, d), m, side, U)

\* More comes after, more has been touched.
LEMMA UseMonotonic ==
  ASSUME NEW i, NEW s, NEW b, NEW K, NEW F, NEW m, NEW side, NEW U, NEW K2, NEW F2, NEW side2,
         K \subseteq K2, F \subseteq F2, side \subseteq side2, Use(i, s, b, K, F, m, side, U)
  PROVE  Use(i, s, b, K2, F2, m, side2, U)
<1>1. Front(b, side) \subseteq Front(b, side2)
  BY DEF Front
<1> QED
  BY <1>1 DEF Use

\* Giving more memory to the side stream keeps the books sound.
LEMMA SoundTouched ==
  ASSUME NEW Q, NEW m, NEW side, NEW U, NEW side2, side \subseteq side2, Sound(Q, m, side, U)
  PROVE  Sound(Q, m, side2, U)
  BY UseMonotonic DEF Sound

\* An operation whose uses the books account for keeps them sound.
LEMMA SoundGrown ==
  ASSUME NEW Q, QueuesOK(Q), NEW s \in Stream, NEW f \in [Peer -> Item], NEW m, NEW side, NEW U, Sound(Q, m, side, U),
         \A r \in Peer : \A b \in Block : Uses(f[r], b) => Use(f[r], s, b, {s}, {}, m, side, U)
  PROVE  Sound(Grown(Q, s, f), m, side, U)
<1> DEFINE G == Grown(Q, s, f)
<1>0. Q \in Queues
  BY DEF QueuesOK
<1> SUFFICES ASSUME NEW r \in Peer, NEW t \in Stream, NEW d \in Places(G, r, t), NEW b \in Block, Uses(At(G, r, t, d), b)
             PROVE  Use(At(G, r, t, d), t, b, Known(G, r, t, d), Fenced(G, r, t, d), m, side, U)
  BY DEF Sound
<1>1. \/ t = s /\ d = 0 /\ At(G, r, t, d) = f[r]
      \/ \E e \in Places(Q, r, t) : d = Shift(s, t, e) /\ At(G, r, t, d) = At(Q, r, t, e)
  BY <1>0, GrownPlaces
<1> HIDE DEF G
<1>2. CASE t = s /\ d = 0 /\ At(G, r, t, d) = f[r]
  <2>1. s \in Known(G, r, t, d)
    BY <1>2, OwnKnown
  <2> QED
    BY <2>1, <1>2, UseMonotonic
<1>3. ASSUME NEW e \in Places(Q, r, t), d = Shift(s, t, e), At(G, r, t, d) = At(Q, r, t, e)
      PROVE  Use(At(G, r, t, d), t, b, Known(G, r, t, d), Fenced(G, r, t, d), m, side, U)
  <2>1. e \in Nat
    BY <1>0, QueueFacts
  <2>2. Known(Q, r, t, e) \subseteq Known(G, r, t, d) /\ Fenced(Q, r, t, e) \subseteq Fenced(G, r, t, d)
    BY <2>1, <1>3, GrownKnown DEF G
  <2>3. Use(At(Q, r, t, e), t, b, Known(Q, r, t, e), Fenced(Q, r, t, e), m, side, U)
    BY <1>3 DEF Sound
  <2> QED
    BY <2>2, <2>3, <1>3, UseMonotonic
<1> QED
  BY <1>1, <1>2, <1>3

\* In reach: the next operation of the stream comes after all uses of its rank.
Within(Q, s, b) ==
  \A r \in Peer, u \in Stream : \A d \in Places(Q, r, u) : Uses(At(Q, r, u, d), b) => s \in Known(Q, r, u, d)

\* Uses of one stream stay of one stream when it gets more.
LEMMA WithinGrown ==
  ASSUME NEW Q, QueuesOK(Q), NEW s \in Stream, NEW f \in [Peer -> Item], NEW b, Within(Q, s, b)
  PROVE  Within(Grown(Q, s, f), s, b)
<1> DEFINE G == Grown(Q, s, f)
<1>0. Q \in Queues
  BY DEF QueuesOK
<1> SUFFICES ASSUME NEW r \in Peer, NEW t \in Stream, NEW d \in Places(G, r, t), Uses(At(G, r, t, d), b)
             PROVE  s \in Known(G, r, t, d)
  BY DEF Within
<1>1. \/ t = s /\ d = 0
      \/ \E e \in Places(Q, r, t) : d = Shift(s, t, e) /\ At(G, r, t, d) = At(Q, r, t, e)
  BY <1>0, GrownPlaces
<1> HIDE DEF G
<1>2. CASE t = s /\ d = 0
  BY <1>2, OwnKnown
<1>3. ASSUME NEW e \in Places(Q, r, t), d = Shift(s, t, e), At(G, r, t, d) = At(Q, r, t, e)
      PROVE  s \in Known(G, r, t, d)
  <2>1. e \in Nat
    BY <1>0, QueueFacts
  <2>2. Known(Q, r, t, e) \subseteq Known(G, r, t, d)
    BY <2>1, <1>3, GrownKnown DEF G
  <2> QED
    BY <2>2, <1>3 DEF Within
<1> QED
  BY <1>1, <1>2, <1>3

\* What a barrier queues behind stays behind it.
LEMMA WithinBarrier ==
  ASSUME NEW Q, QueuesOK(Q), NEW s \in Stream, NEW b, Within(Q, s, b)
  PROVE  Quiet(Grown(Q, s, Alone(Barrier)), s, b)
<1> DEFINE f == Alone(Barrier)
           G == Grown(Q, s, f)
<1>0. Q \in Queues /\ f \in [Peer -> Item] /\ \A r \in Peer : f[r].op = "barrier"
  BY DEF QueuesOK, Alone, Barrier, Item
<1> SUFFICES ASSUME NEW r \in Peer, NEW t \in Stream, NEW d \in Places(G, r, t), Uses(At(G, r, t, d), b)
             PROVE  s \in Fenced(G, r, t, d)
  BY DEF Quiet
<1>1. \/ At(G, r, t, d) = f[r]
      \/ \E e \in Places(Q, r, t) : d = Shift(s, t, e) /\ At(G, r, t, d) = At(Q, r, t, e)
  BY <1>0, GrownPlaces
<1>2. At(G, r, t, d).op # "barrier"
  BY DEF Uses, LocalRead, LocalWrite, PushTo, PullFrom
<1> HIDE DEF G, f
<1>3. PICK e \in Places(Q, r, t) : d = Shift(s, t, e) /\ At(G, r, t, d) = At(Q, r, t, e)
  BY <1>0, <1>1, <1>2
<1>4. s \in Known(Q, r, t, e) /\ e \in Nat
  BY <1>0, <1>3, QueueFacts DEF Within
<1>5. s \in Fenced(G, r, t, Shift(s, t, e))
  BY <1>4, BarrierOrders DEF G, f, Alone
<1> QED
  BY <1>3, <1>5

-----------------------------------------------------------------------------
(* The host's books                                                      *)

Alive == <<"live", 0>>
BackKey == {Clean, OfGroup(0), OfGroup(1)}
HeapKey == BackKey \cup {Alive, OfStream(0), OfStream(1)}

\* Tensors that wait for a view are no scratch, and what a group holds is a
\* tensor, or its own scratch.
Books(m) ==
  /\ m \in [heap : [Block -> HeapKey], back : [Block -> BackKey], sources : [Stream -> SUBSET Block],
            pending : SUBSET (Block \X Stream), dropped : SUBSET (Block \X Stream)]
  /\ \A x \in m.pending : m.heap[x[1]] = Alive /\ m.back[x[1]] = Clean
  /\ \A s \in Stream : \A b \in m.sources[s] : m.heap[b] = Alive /\ m.back[b] \in {Clean, OfGroup(s)}

\* Names of the owners of memory are different.
LEMMA Keys ==
  /\ Clean # Alive
  /\ \A s \in Stream : /\ OfStream(s) # Alive /\ OfGroup(s) # Alive /\ OfStream(s) # Clean /\ OfGroup(s) # Clean
                       /\ OfStream(s) \in HeapKey /\ OfGroup(s) \in BackKey /\ OfGroup(s) \in HeapKey
                       /\ \A t \in Stream : /\ OfStream(s) # OfGroup(t)
                                            /\ OfStream(s) = OfStream(t) <=> s = t
                                            /\ OfGroup(s) = OfGroup(t) <=> s = t
  /\ Clean \in BackKey /\ Clean \in HeapKey /\ Alive \in HeapKey
<1>1. "live" # "clean" /\ "live" # "stream" /\ "live" # "group" /\ "clean" # "stream" /\ "clean" # "group" /\ "stream" # "group"
  OBVIOUS
<1> QED
  BY <1>1 DEF Clean, OfStream, OfGroup, Alive, Stream, BackKey, HeapKey

\* The books are what the variables of the host hold.
LEMMA BookTypes ==
  ASSUME NEW m, Books(m)
  PROVE  /\ m.heap \in [Block -> HeapKey] /\ m.back \in [Block -> BackKey] /\ m.sources \in [Stream -> SUBSET Block]
         /\ m.pending \in SUBSET (Block \X Stream) /\ m.dropped \in SUBSET (Block \X Stream)
         /\ m = [heap |-> m.heap, back |-> m.back, sources |-> m.sources, pending |-> m.pending, dropped |-> m.dropped]
         /\ \A b \in Block : m.heap[b] \in HeapKey /\ m.back[b] \in BackKey
         /\ \A s \in Stream : m.sources[s] \subseteq Block
         /\ \A b, s : <<b, s>> \in m.pending => b \in Block /\ s \in Stream /\ m.heap[b] = Alive /\ m.back[b] = Clean
         /\ \A b, s : <<b, s>> \in m.dropped => b \in Block /\ s \in Stream
  BY DEF Books

\* What cleanupSources does before disposals are done.
Staging(m, s) == {b \in m.sources[s] : m.back[b] = OfGroup(s)}
Released(m, s) ==
  [m EXCEPT !.heap = [b \in Block |-> IF b \in Staging(m, s) THEN OfGroup(s) ELSE m.heap[b]],
            !.back = [b \in Block |-> IF b \in Staging(m, s) THEN Clean ELSE m.back[b]],
            !.dropped = @ \cup {<<b, s>> : b \in m.sources[s] \ Staging(m, s)},
            !.sources[s] = {}]

\* What finishDispose is for.
Freed(m, s) == {b \in Block : <<b, s>> \in m.pending /\ NoViewLeft(m, b, s)}

\* A barrier's release: scratch goes back to the group, and views of other
\* memory are dropped.
LEMMA ReleasedFacts ==
  ASSUME NEW m, Books(m), NEW s \in Stream
  PROVE  /\ Books(Released(m, s))
         /\ \A b \in Block :
              /\ Released(m, s).heap[b] = IF b \in Staging(m, s) THEN OfGroup(s) ELSE m.heap[b]
              /\ Released(m, s).back[b] = IF b \in Staging(m, s) THEN Clean ELSE m.back[b]
         /\ Released(m, s).pending = m.pending
         /\ Released(m, s).dropped = m.dropped \cup {<<b, s>> : b \in m.sources[s] \ Staging(m, s)}
         /\ \A t \in Stream : Released(m, s).sources[t] = IF t = s THEN {} ELSE m.sources[t]
<1> DEFINE x == Released(m, s)
           S == Staging(m, s)
           H == [b \in Block |-> IF b \in S THEN OfGroup(s) ELSE m.heap[b]]
           B == [b \in Block |-> IF b \in S THEN Clean ELSE m.back[b]]
           D == m.dropped \cup {<<b, s>> : b \in m.sources[s] \ S}
           T == [m.sources EXCEPT ![s] = {}]
<1>1. /\ m.heap \in [Block -> HeapKey] /\ m.back \in [Block -> BackKey] /\ m.sources \in [Stream -> SUBSET Block]
      /\ m.pending \in SUBSET (Block \X Stream) /\ m.dropped \in SUBSET (Block \X Stream)
      /\ m = [heap |-> m.heap, back |-> m.back, sources |-> m.sources, pending |-> m.pending, dropped |-> m.dropped]
  BY BookTypes
<1>2. x = [heap |-> H, back |-> B, sources |-> T, pending |-> m.pending, dropped |-> D]
  <2> HIDE DEF H, B, T, D
  <2>1. x = [m EXCEPT !.heap = H, !.back = B, !.dropped = D, !.sources = T]
    BY <1>1 DEF Released, H, B, D, T
  <2> QED
    BY <1>1, <2>1
<1>3. x.heap = H /\ x.back = B /\ x.sources = T /\ x.pending = m.pending /\ x.dropped = D
  BY <1>2
<1>4. S \subseteq m.sources[s] /\ m.sources[s] \subseteq Block
  BY <1>1 DEF Staging
<1>5. H \in [Block -> HeapKey] /\ B \in [Block -> BackKey]
  BY <1>1, Keys
<1>6. T \in [Stream -> SUBSET Block] /\ D \in SUBSET (Block \X Stream)
  BY <1>1, <1>4
<1> HIDE DEF x, S
<1>7. x \in [heap : [Block -> HeapKey], back : [Block -> BackKey], sources : [Stream -> SUBSET Block],
             pending : SUBSET (Block \X Stream), dropped : SUBSET (Block \X Stream)]
  BY <1>1, <1>2, <1>5, <1>6
<1>8. ASSUME NEW y \in x.pending PROVE x.heap[y[1]] = Alive /\ x.back[y[1]] = Clean
  <2>1. y \in m.pending /\ y[1] \in Block /\ m.heap[y[1]] = Alive /\ m.back[y[1]] = Clean
    BY <1>1, <1>3, <1>8 DEF Books
  <2>2. y[1] \notin S
    BY <2>1, Keys DEF S, Staging
  <2> QED
    BY <2>1, <2>2, <1>3
<1>9. ASSUME NEW t \in Stream, NEW b \in x.sources[t] PROVE x.heap[b] = Alive /\ x.back[b] \in {Clean, OfGroup(t)}
  <2>1. t # s /\ b \in m.sources[t] /\ b \in Block
    BY <1>1, <1>3, <1>9
  <2>2. m.heap[b] = Alive /\ m.back[b] \in {Clean, OfGroup(t)}
    BY <2>1 DEF Books
  <2>3. b \notin S
    BY <2>1, <2>2, Keys DEF S, Staging
  <2> QED
    BY <2>1, <2>2, <2>3, <1>3
<1>10. Books(x)
  BY <1>7, <1>8, <1>9 DEF Books
<1> QED
  BY <1>1, <1>3, <1>10 DEF x, S

\* What waited for its last view only is freed to the stream.
LEMMA SettledFacts ==
  ASSUME NEW m, Books(m), NEW s \in Stream
  PROVE  /\ Books(Settled(m, s))
         /\ \A b \in Block : Settled(m, s).heap[b] = IF b \in Freed(m, s) THEN OfStream(s) ELSE m.heap[b]
         /\ Settled(m, s).back = m.back /\ Settled(m, s).sources = m.sources
         /\ Settled(m, s).pending = {y \in m.pending : y[1] \notin Freed(m, s)}
         /\ Settled(m, s).dropped = {y \in m.dropped : y[1] \notin Freed(m, s)}
<1> DEFINE x == Settled(m, s)
           S == Freed(m, s)
           H == [b \in Block |-> IF b \in S THEN OfStream(s) ELSE m.heap[b]]
           P == {y \in m.pending : y[1] \notin S}
           D == {y \in m.dropped : y[1] \notin S}
<1>1. /\ m.heap \in [Block -> HeapKey] /\ m.back \in [Block -> BackKey] /\ m.sources \in [Stream -> SUBSET Block]
      /\ m.pending \in SUBSET (Block \X Stream) /\ m.dropped \in SUBSET (Block \X Stream)
      /\ m = [heap |-> m.heap, back |-> m.back, sources |-> m.sources, pending |-> m.pending, dropped |-> m.dropped]
  BY BookTypes
<1>2. x = [heap |-> H, back |-> m.back, sources |-> m.sources, pending |-> P, dropped |-> D]
  <2> HIDE DEF H, P, D
  <2>1. x = [m EXCEPT !.heap = H, !.pending = P, !.dropped = D]
    BY <1>1 DEF Settled, Freed, H, P, D
  <2> QED
    BY <1>1, <2>1
<1>3. x.heap = H /\ x.back = m.back /\ x.sources = m.sources /\ x.pending = P /\ x.dropped = D
  BY <1>2
<1>4. H \in [Block -> HeapKey]
  BY <1>1, Keys
<1>5. P \in SUBSET (Block \X Stream) /\ D \in SUBSET (Block \X Stream)
  BY <1>1
<1>6. \A b \in S : b \in Block /\ \A t \in Stream : b \notin m.sources[t]
  BY DEF Freed, NoViewLeft
<1> HIDE DEF x, S
<1>7. x \in [heap : [Block -> HeapKey], back : [Block -> BackKey], sources : [Stream -> SUBSET Block],
             pending : SUBSET (Block \X Stream), dropped : SUBSET (Block \X Stream)]
  BY <1>1, <1>2, <1>4, <1>5
<1>8. ASSUME NEW y \in x.pending PROVE x.heap[y[1]] = Alive /\ x.back[y[1]] = Clean
  <2>1. y \in m.pending /\ y[1] \in Block /\ m.heap[y[1]] = Alive /\ m.back[y[1]] = Clean /\ y[1] \notin S
    BY <1>1, <1>3, <1>8 DEF Books
  <2> QED
    BY <2>1, <1>3
<1>9. ASSUME NEW t \in Stream, NEW b \in x.sources[t] PROVE x.heap[b] = Alive /\ x.back[b] \in {Clean, OfGroup(t)}
  <2>1. b \in m.sources[t] /\ b \in Block /\ b \notin S
    BY <1>1, <1>3, <1>6, <1>9
  <2>2. m.heap[b] = Alive /\ m.back[b] \in {Clean, OfGroup(t)}
    BY <2>1 DEF Books
  <2> QED
    BY <2>1, <2>2, <1>3
<1>10. Books(x)
  BY <1>7, <1>8, <1>9 DEF Books
<1> QED
  BY <1>3, <1>10 DEF x, S

\* CleanupSources releases and settles.
LEMMA CleanupIs == \A m, s : CleanupSources(m, s) = Settled(Released(m, s), s)
  BY DEF CleanupSources, Released, Staging

\* Draining makes the freed memory of the keys clean.
LEMMA DrainedFacts ==
  ASSUME NEW m, Books(m), NEW keys, Alive \notin keys
  PROVE  /\ Books(Drained(m, keys))
         /\ \A b \in Block : Drained(m, keys).heap[b] = IF m.heap[b] \in keys THEN Clean ELSE m.heap[b]
         /\ Drained(m, keys).back = m.back /\ Drained(m, keys).sources = m.sources
         /\ Drained(m, keys).pending = m.pending /\ Drained(m, keys).dropped = m.dropped
<1> DEFINE x == Drained(m, keys)
           H == [b \in Block |-> IF m.heap[b] \in keys THEN Clean ELSE m.heap[b]]
<1>1. /\ m.heap \in [Block -> HeapKey] /\ m.back \in [Block -> BackKey] /\ m.sources \in [Stream -> SUBSET Block]
      /\ m.pending \in SUBSET (Block \X Stream) /\ m.dropped \in SUBSET (Block \X Stream)
      /\ m = [heap |-> m.heap, back |-> m.back, sources |-> m.sources, pending |-> m.pending, dropped |-> m.dropped]
  BY BookTypes
<1>2. x = [heap |-> H, back |-> m.back, sources |-> m.sources, pending |-> m.pending, dropped |-> m.dropped]
  <2> HIDE DEF H
  <2>1. x = [m EXCEPT !.heap = H]
    BY DEF Drained, H
  <2> QED
    BY <1>1, <2>1
<1>3. x.heap = H /\ x.back = m.back /\ x.sources = m.sources /\ x.pending = m.pending /\ x.dropped = m.dropped
  BY <1>2
<1>4. H \in [Block -> HeapKey]
  BY <1>1, Keys
<1> HIDE DEF x
<1>5. \A b \in Block : m.heap[b] = Alive => x.heap[b] = Alive
  BY <1>3
<1>6. (\A y \in m.pending : y[1] \in Block) /\ \A t \in Stream : \A b \in m.sources[t] : b \in Block
  BY <1>1
<1>7. x \in [heap : [Block -> HeapKey], back : [Block -> BackKey], sources : [Stream -> SUBSET Block],
             pending : SUBSET (Block \X Stream), dropped : SUBSET (Block \X Stream)]
  BY <1>1, <1>2, <1>4
<1>8. Books(x)
  BY <1>3, <1>5, <1>6, <1>7 DEF Books
<1> QED
  BY <1>3, <1>8 DEF x

\* An allocation gives out one block.
LEMMA TakenFacts ==
  ASSUME NEW m, Books(m), NEW b \in Block, m.heap[b] # Alive, NEW key \in BackKey
  PROVE  /\ Books(Taken(m, b, key))
         /\ \A c \in Block : /\ Taken(m, b, key).heap[c] = IF c = b THEN Alive ELSE m.heap[c]
                             /\ Taken(m, b, key).back[c] = IF c = b THEN key ELSE m.back[c]
         /\ Taken(m, b, key).sources = m.sources /\ Taken(m, b, key).pending = m.pending
         /\ Taken(m, b, key).dropped = m.dropped
<1> DEFINE x == Taken(m, b, key)
           H == [m.heap EXCEPT ![b] = Alive]
           B == [m.back EXCEPT ![b] = key]
<1>1. /\ m.heap \in [Block -> HeapKey] /\ m.back \in [Block -> BackKey] /\ m.sources \in [Stream -> SUBSET Block]
      /\ m.pending \in SUBSET (Block \X Stream) /\ m.dropped \in SUBSET (Block \X Stream)
      /\ m = [heap |-> m.heap, back |-> m.back, sources |-> m.sources, pending |-> m.pending, dropped |-> m.dropped]
  BY BookTypes
<1>2. x = [heap |-> H, back |-> B, sources |-> m.sources, pending |-> m.pending, dropped |-> m.dropped]
  <2> HIDE DEF H, B
  <2>1. x = [m EXCEPT !.heap = H, !.back = B]
    BY <1>1 DEF Taken, H, B, Alive
  <2> QED
    BY <1>1, <2>1
<1>3. x.heap = H /\ x.back = B /\ x.sources = m.sources /\ x.pending = m.pending /\ x.dropped = m.dropped
  BY <1>2
<1>4. H \in [Block -> HeapKey] /\ B \in [Block -> BackKey]
  BY <1>1, Keys
<1> HIDE DEF x
<1>5. \A c \in Block : c # b => x.heap[c] = m.heap[c] /\ x.back[c] = m.back[c]
  BY <1>1, <1>3
<1>6. /\ \A y \in m.pending : y[1] \in Block /\ y[1] # b
      /\ \A t \in Stream : \A c \in m.sources[t] : c \in Block /\ c # b
  BY <1>1 DEF Books
<1>7. x \in [heap : [Block -> HeapKey], back : [Block -> BackKey], sources : [Stream -> SUBSET Block],
             pending : SUBSET (Block \X Stream), dropped : SUBSET (Block \X Stream)]
  BY <1>1, <1>2, <1>4
<1>8. Books(x)
  BY <1>3, <1>5, <1>6, <1>7 DEF Books
<1> QED
  BY <1>1, <1>3, <1>5, <1>8 DEF x

\* A group takes in a tensor, or its scratch.
Sourced(m, s, b) == [m EXCEPT !.sources[s] = @ \cup {b}]

\* A group retains one block more.
LEMMA SourcedFacts ==
  ASSUME NEW m, Books(m), NEW s \in Stream, NEW b \in Block, m.heap[b] = Alive, m.back[b] \in {Clean, OfGroup(s)}
  PROVE  /\ Books(Sourced(m, s, b))
         /\ Sourced(m, s, b).heap = m.heap /\ Sourced(m, s, b).back = m.back
         /\ Sourced(m, s, b).pending = m.pending /\ Sourced(m, s, b).dropped = m.dropped
         /\ \A t \in Stream : Sourced(m, s, b).sources[t] = IF t = s THEN m.sources[t] \cup {b} ELSE m.sources[t]
<1> DEFINE x == Sourced(m, s, b)
           T == [m.sources EXCEPT ![s] = @ \cup {b}]
<1>1. /\ m.heap \in [Block -> HeapKey] /\ m.back \in [Block -> BackKey] /\ m.sources \in [Stream -> SUBSET Block]
      /\ m.pending \in SUBSET (Block \X Stream) /\ m.dropped \in SUBSET (Block \X Stream)
      /\ m = [heap |-> m.heap, back |-> m.back, sources |-> m.sources, pending |-> m.pending, dropped |-> m.dropped]
  BY BookTypes
<1>2. x = [heap |-> m.heap, back |-> m.back, sources |-> T, pending |-> m.pending, dropped |-> m.dropped]
  <2> HIDE DEF T
  <2>1. x = [m EXCEPT !.sources = T]
    BY <1>1 DEF Sourced, T
  <2> QED
    BY <1>1, <2>1
<1>3. x.heap = m.heap /\ x.back = m.back /\ x.sources = T /\ x.pending = m.pending /\ x.dropped = m.dropped
  BY <1>2
<1>4. T \in [Stream -> SUBSET Block] /\ \A t \in Stream : T[t] = IF t = s THEN m.sources[t] \cup {b} ELSE m.sources[t]
  BY <1>1
<1> HIDE DEF x, T
<1>7. x \in [heap : [Block -> HeapKey], back : [Block -> BackKey], sources : [Stream -> SUBSET Block],
             pending : SUBSET (Block \X Stream), dropped : SUBSET (Block \X Stream)]
  BY <1>1, <1>2, <1>4
<1>8. Books(x)
  BY <1>3, <1>4, <1>7 DEF Books
<1> QED
  BY <1>3, <1>4, <1>8 DEF x, T

-----------------------------------------------------------------------------
(* What the books tell of pending uses, as they change                   *)

\* What a release does to the books tells no less of a use that is ordered
\* before the stream's next.
LEMMA UseReleased ==
  ASSUME NEW m, Books(m), NEW i, NEW u \in Stream, NEW b \in Block, NEW s \in Stream, NEW K, NEW F, NEW side, NEW U,
         u \in K, s \in K => s \in F, \A t \in Stream : <<b, t>> \in U => t = s,
         Use(i, u, b, K, F, m, side, U)
  PROVE  Use(i, u, b, K, F, Released(m, s), side, {})
<1> DEFINE x == Released(m, s)
<1>1. /\ x.heap[b] = IF b \in Staging(m, s) THEN OfGroup(s) ELSE m.heap[b]
      /\ x.back[b] = IF b \in Staging(m, s) THEN Clean ELSE m.back[b]
      /\ x.pending = m.pending
      /\ x.dropped = m.dropped \cup {<<c, s>> : c \in m.sources[s] \ Staging(m, s)}
      /\ \A t \in Stream : x.sources[t] = IF t = s THEN {} ELSE m.sources[t]
  BY ReleasedFacts
<1> HIDE DEF x
<1>2. CASE b \in Staging(m, s)
  <2>1. m.heap[b] = Alive /\ m.back[b] = OfGroup(s) /\ b \in m.sources[s]
    BY <1>2 DEF Staging, Books
  <2>2. s \in F
    BY <2>1 DEF Use, Alive
  <2>3. x.heap[b] = OfGroup(s)
    BY <1>1, <1>2
  <2>4. Use(i, u, b, K, F, x, side, {})
    BY <2>2, <2>3, Keys DEF Use, Alive
  <2> QED
    BY <2>4 DEF x
<1>3. CASE b \notin Staging(m, s)
  <2>1. x.heap[b] = m.heap[b] /\ x.back[b] = m.back[b]
    BY <1>1, <1>3
  <2>2. b \in m.sources[s] => <<b, s>> \in x.dropped
    BY <1>1, <1>3
  <2>3. \A t : <<b, t>> \in m.dropped => <<b, t>> \in x.dropped
    BY <1>1
  <2>4. b \in m.sources[u] => b \in x.sources[u] \/ (u = s /\ <<b, s>> \in x.dropped /\ s \in F)
    BY <1>1, <2>2
  <2>5. \A v \in Front(b, side) \cap K : <<b, v>> \in U => Front(b, side) \cap F # {}
    BY DEF Front, Stream
  <2>6. Use(i, u, b, K, F, x, side, {})
    BY <1>1, <2>1, <2>3, <2>4, <2>5 DEF Use
  <2> QED
    BY <2>6 DEF x
<1> QED
  BY <1>2, <1>3

\* Neither does settling.
LEMMA UseSettled ==
  ASSUME NEW m, Books(m), NEW i, NEW u \in Stream, NEW b \in Block, NEW s \in Stream, NEW K, NEW F, NEW side, NEW U,
         Use(i, u, b, K, F, m, side, U)
  PROVE  Use(i, u, b, K, F, Settled(m, s), side, U)
<1> DEFINE x == Settled(m, s)
<1>1. /\ x.heap[b] = IF b \in Freed(m, s) THEN OfStream(s) ELSE m.heap[b]
      /\ x.back = m.back /\ x.sources = m.sources
      /\ x.pending = {y \in m.pending : y[1] \notin Freed(m, s)}
      /\ x.dropped = {y \in m.dropped : y[1] \notin Freed(m, s)}
  BY SettledFacts
<1> HIDE DEF x
<1>2. CASE b \in Freed(m, s)
  <2>1. <<b, s>> \in m.pending /\ NoViewLeft(m, b, s)
    BY <1>2 DEF Freed
  <2>2. m.heap[b] = Alive
    BY <2>1, BookTypes
  <2>3. s \in K /\ (PushTo(i, b) => s \in F) /\ (PullFrom(i, b) => s \in F)
    BY <2>1, <2>2, BookTypes DEF Use, Alive, NoViewLeft
  <2>4. x.heap[b] = OfStream(s)
    BY <1>1, <1>2
  <2>5. Use(i, u, b, K, F, x, side, U)
    BY <2>3, <2>4, Keys DEF Use, Alive
  <2> QED
    BY <2>5 DEF x
<1>3. CASE b \notin Freed(m, s)
  <2>1. x.heap[b] = m.heap[b]
    BY <1>1, <1>3
  <2>2. \A t : (<<b, t>> \in x.pending <=> <<b, t>> \in m.pending) /\ (<<b, t>> \in x.dropped <=> <<b, t>> \in m.dropped)
    BY <1>1, <1>3
  <2>3. Use(i, u, b, K, F, x, side, U)
    BY <1>1, <2>1, <2>2 DEF Use
  <2> QED
    BY <2>3 DEF x
<1> QED
  BY <1>2, <1>3

\* Nor draining stream 0 into clean memory, once stream 0 has been
\* synchronized.
LEMMA UseDrained ==
  ASSUME NEW m, Books(m), NEW i, NEW u \in Stream, NEW b \in Block, NEW K, NEW F, NEW side, NEW U,
         0 \in K => 0 \in F,
         Use(i, u, b, K, F, m, side, U)
  PROVE  Use(i, u, b, K, F, Drained(m, {OfGroup(0), OfStream(0)}), side, U)
<1> DEFINE x == Drained(m, {OfGroup(0), OfStream(0)})
<1>1. /\ x.heap[b] = IF m.heap[b] \in {OfGroup(0), OfStream(0)} THEN Clean ELSE m.heap[b]
      /\ x.back = m.back /\ x.sources = m.sources /\ x.pending = m.pending /\ x.dropped = m.dropped
  BY DrainedFacts, Keys DEF Stream
<1> HIDE DEF x
<1>2. CASE m.heap[b] \in {OfGroup(0), OfStream(0)}
  <2>1. 0 \in F
    BY <1>2 DEF Use, Stream
  <2>2. x.heap[b] = Clean
    BY <1>1, <1>2
  <2>3. Use(i, u, b, K, F, x, side, U)
    BY <2>1, <2>2, Keys DEF Use, Alive
  <2> QED
    BY <2>3 DEF x
<1>3. CASE m.heap[b] \notin {OfGroup(0), OfStream(0)}
  <2>1. Use(i, u, b, K, F, x, side, U)
    BY <1>1, <1>3 DEF Use
  <2> QED
    BY <2>1 DEF x
<1> QED
  BY <1>2, <1>3

\* The books are well formed after a barrier.
LEMMA AfterBarrierBooks ==
  ASSUME NEW m, Books(m), NEW s \in Stream
  PROVE  Books(AfterBarrier(m, s)) /\ Books(CleanupSources(m, s))
<1>1. Books(CleanupSources(m, s))
  BY CleanupIs, ReleasedFacts, SettledFacts
<1>2. Alive \notin {OfGroup(0), OfStream(0)}
  BY Keys DEF Stream
<1> QED
  BY <1>1, <1>2, DrainedFacts DEF AfterBarrier

\* A use before the barrier is told of after it.
LEMMA UseAfterBarrier ==
  ASSUME NEW m, Books(m), NEW i, NEW u \in Stream, NEW b \in Block, NEW s \in Stream, NEW K, NEW F, NEW side, NEW U,
         u \in K, s \in K => s \in F, \A t \in Stream : <<b, t>> \in U => t = s,
         Use(i, u, b, K, F, m, side, U)
  PROVE  Use(i, u, b, K, F, AfterBarrier(m, s), side, {})
<1>1. Use(i, u, b, K, F, Released(m, s), side, {}) /\ Books(Released(m, s))
  BY UseReleased, ReleasedFacts
<1>2. Use(i, u, b, K, F, CleanupSources(m, s), side, {})
  BY <1>1, UseSettled, CleanupIs
<1>3. Books(CleanupSources(m, s))
  BY AfterBarrierBooks
<1>4. CASE s = 0
  BY <1>2, <1>3, <1>4, UseDrained DEF AfterBarrier
<1>5. CASE s # 0
  BY <1>2, <1>5 DEF AfterBarrier
<1> QED
  BY <1>4, <1>5

\* A tensor in use stays where it is.
LEMMA AfterBarrierKeeps ==
  ASSUME NEW m, Books(m), NEW s \in Stream, NEW b \in Block, m.heap[b] = Alive,
         \A t \in Stream : <<b, t>> \notin m.pending, m.back[b] = Clean \/ b \notin m.sources[s]
  PROVE  /\ AfterBarrier(m, s).heap[b] = Alive /\ AfterBarrier(m, s).back[b] = m.back[b]
         /\ \A t \in Stream : <<b, t>> \notin AfterBarrier(m, s).pending
<1> DEFINE x == Released(m, s)
           y == Settled(x, s)
<1>1. b \notin Staging(m, s)
  BY Keys DEF Staging
<1>2. x.heap[b] = Alive /\ x.back[b] = m.back[b] /\ x.pending = m.pending /\ Books(x)
  BY <1>1, ReleasedFacts
<1> HIDE DEF x
<1>3. b \notin Freed(x, s)
  BY <1>2 DEF Freed
<1>4. y.heap[b] = Alive /\ y.back[b] = m.back[b] /\ y.pending \subseteq m.pending /\ Books(y)
  BY <1>2, <1>3, SettledFacts
<1> HIDE DEF y
<1>5. AfterBarrier(m, s) = IF s = 0 THEN Drained(y, {OfGroup(0), OfStream(0)}) ELSE y
  BY CleanupIs DEF AfterBarrier, x, y
<1>6. Alive \notin {OfGroup(0), OfStream(0)}
  BY Keys DEF Stream
<1>7. CASE s = 0
  BY <1>4, <1>5, <1>6, <1>7, DrainedFacts
<1>8. CASE s # 0
  BY <1>4, <1>5, <1>8
<1> QED
  BY <1>7, <1>8

\* A barrier fences what was pushed and pulled before it, and keeps the books
\* sound.
LEMMA SoundBarrier ==
  ASSUME NEW Q, QueuesOK(Q), NEW m, Books(m), NEW s \in Stream, NEW side, NEW U,
         \A b \in Block, t \in Stream : <<b, t>> \in U => t = s, Sound(Q, m, side, U)
  PROVE  Sound(Grown(Q, s, Alone(Barrier)), AfterBarrier(m, s), side, {})
<1> DEFINE f == Alone(Barrier)
           G == Grown(Q, s, f)
           n == AfterBarrier(m, s)
<1>0. Q \in Queues /\ f \in [Peer -> Item] /\ \A r \in Peer : f[r].op = "barrier"
  BY DEF QueuesOK, Alone, Barrier, Item
<1> SUFFICES ASSUME NEW r \in Peer, NEW t \in Stream, NEW d \in Places(G, r, t), NEW b \in Block, Uses(At(G, r, t, d), b)
             PROVE  Use(At(G, r, t, d), t, b, Known(G, r, t, d), Fenced(G, r, t, d), n, side, {})
  BY DEF Sound
<1>1. \/ At(G, r, t, d) = f[r]
      \/ \E e \in Places(Q, r, t) : d = Shift(s, t, e) /\ At(G, r, t, d) = At(Q, r, t, e)
  BY <1>0, GrownPlaces
<1>2. At(G, r, t, d).op # "barrier"
  BY DEF Uses, LocalRead, LocalWrite, PushTo, PullFrom
<1> HIDE DEF G, f, n
<1>3. PICK e \in Places(Q, r, t) : d = Shift(s, t, e) /\ At(G, r, t, d) = At(Q, r, t, e)
  BY <1>0, <1>1, <1>2
<1> DEFINE K == Known(Q, r, t, e)
           F == Fenced(Q, r, t, e) \cup (K \cap {s})
           i == At(Q, r, t, e)
<1>4. e \in Nat /\ t \in K
  BY <1>0, QueueFacts, OwnKnown
<1>5. K \subseteq Known(G, r, t, d) /\ Fenced(Q, r, t, e) \subseteq Fenced(G, r, t, d)
  BY <1>0, <1>3, <1>4, GrownKnown DEF G
<1>6. s \in K => s \in Fenced(G, r, t, d)
  BY <1>3, <1>4, BarrierOrders DEF G, f, Alone
<1>7. F \subseteq Fenced(G, r, t, d)
  BY <1>5, <1>6
<1>8. Use(i, t, b, K, Fenced(Q, r, t, e), m, side, U)
  BY <1>3 DEF Sound
<1>9. Use(i, t, b, K, F, m, side, U)
  BY <1>8, UseMonotonic
<1>10. s \in K => s \in F
  OBVIOUS
<1>11. Use(i, t, b, K, F, n, side, {})
  <2> HIDE DEF K, F, i
  <2> QED
    BY <1>4, <1>9, <1>10, UseAfterBarrier DEF n
<1> QED
  BY <1>3, <1>5, <1>7, <1>11, UseMonotonic

\* An allocation that its stream may use keeps the books sound.
LEMMA SoundTaken ==
  ASSUME NEW Q, NEW m, Books(m), NEW side, NEW U, Sound(Q, m, side, U),
         NEW b \in Block, m.heap[b] # Alive, NEW key \in BackKey, NEW s \in Stream,
         \/ key = OfGroup(s) /\ Within(Q, s, b)
         \/ key = Clean /\ s \in Front(b, side) /\ Changeable(Q, s, b)
  PROVE  Sound(Q, Taken(m, b, key), side, U)
<1> DEFINE x == Taken(m, b, key)
<1>1. /\ \A c \in Block : /\ x.heap[c] = IF c = b THEN Alive ELSE m.heap[c]
                          /\ x.back[c] = IF c = b THEN key ELSE m.back[c]
      /\ x.sources = m.sources /\ x.pending = m.pending /\ x.dropped = m.dropped
  BY TakenFacts
<1> SUFFICES ASSUME NEW r \in Peer, NEW t \in Stream, NEW d \in Places(Q, r, t), NEW c \in Block, Uses(At(Q, r, t, d), c)
             PROVE  Use(At(Q, r, t, d), t, c, Known(Q, r, t, d), Fenced(Q, r, t, d), x, side, U)
  BY DEF Sound
<1> HIDE DEF x
<1> DEFINE i == At(Q, r, t, d)
           K == Known(Q, r, t, d)
           F == Fenced(Q, r, t, d)
<1>2. Use(i, t, c, K, F, m, side, U)
  BY DEF Sound
<1>3. CASE c # b
  <2>1. x.heap[c] = m.heap[c] /\ x.back[c] = m.back[c]
    BY <1>1, <1>3
  <2> HIDE DEF i, K, F
  <2>2. Use(i, t, c, K, F, x, side, U)
    BY <1>1, <1>2, <2>1 DEF Use
  <2> QED
    BY <2>2 DEF i, K, F
<1>4. CASE c = b
  <2>1. x.heap[c] = Alive /\ x.back[c] = key /\ \A u \in Stream : <<c, u>> \notin x.pending
    BY <1>1, <1>4, BookTypes
  <2>2. CASE key = OfGroup(s) /\ Within(Q, s, b)
    <3>1. s \in K
      BY <1>4, <2>2 DEF Within
    <3> HIDE DEF i, K, F
    <3>2. Use(i, t, c, K, F, x, side, U)
      BY <2>1, <2>2, <3>1, Keys DEF Use, Alive
    <3> QED
      BY <3>2 DEF i, K, F
  <2>3. CASE key = Clean /\ s \in Front(b, side) /\ Changeable(Q, s, b)
    <3>1. s \in K /\ (PushTo(i, c) \/ PullFrom(i, c) => s \in F)
      BY <1>4, <2>3 DEF Changeable, Readable
    <3> HIDE DEF i, K, F
    <3>2. Use(i, t, c, K, F, x, side, U)
      BY <2>1, <2>3, <3>1, <1>4, Keys DEF Use, Alive
    <3> QED
      BY <3>2 DEF i, K, F
  <2> QED
    BY <2>2, <2>3
<1> QED
  BY <1>3, <1>4

\* So does retaining a block.
LEMMA SoundSourced ==
  ASSUME NEW Q, NEW m, Books(m), NEW side, NEW U, Sound(Q, m, side, U),
         NEW s \in Stream, NEW b \in Block, m.heap[b] = Alive, m.back[b] \in {Clean, OfGroup(s)}
  PROVE  Sound(Q, Sourced(m, s, b), side, U)
<1> DEFINE x == Sourced(m, s, b)
<1>0. Books(m) /\ m.heap[b] = Alive /\ m.back[b] \in {Clean, OfGroup(s)}
  OBVIOUS
<1> HIDE DEF x
<1>a. Books(Sourced(m, s, b))
  BY <1>0, SourcedFacts
<1>b. Sourced(m, s, b).heap = m.heap
  BY <1>0, SourcedFacts
<1>c. Sourced(m, s, b).back = m.back /\ Sourced(m, s, b).pending = m.pending /\ Sourced(m, s, b).dropped = m.dropped
  BY <1>0, SourcedFacts
<1>d. \A t \in Stream : Sourced(m, s, b).sources[t] = IF t = s THEN m.sources[t] \cup {b} ELSE m.sources[t]
  BY <1>0, SourcedFacts, Zenon
<1>1. /\ x.heap = m.heap /\ x.back = m.back /\ x.pending = m.pending /\ x.dropped = m.dropped
      /\ \A t \in Stream : x.sources[t] = IF t = s THEN m.sources[t] \cup {b} ELSE m.sources[t]
  BY <1>a, <1>b, <1>c, <1>d DEF x
<1> HIDE DEF x
<1>2. Sound(Q, x, side, U)
  <2> SUFFICES ASSUME NEW r \in Peer, NEW t \in Stream, NEW d \in Places(Q, r, t), NEW c \in Block, Uses(At(Q, r, t, d), c)
               PROVE  Use(At(Q, r, t, d), t, c, Known(Q, r, t, d), Fenced(Q, r, t, d), x, side, U)
    BY DEF Sound
  <2> DEFINE i == At(Q, r, t, d)
             K == Known(Q, r, t, d)
             F == Fenced(Q, r, t, d)
  <2>1. Use(i, t, c, K, F, m, side, U)
    BY DEF Sound
  <2> HIDE DEF i, K, F
  <2>2. m.sources[t] \subseteq x.sources[t]
    BY <1>1
  <2>3. Use(i, t, c, K, F, x, side, U)
    BY <1>1, <2>1, <2>2 DEF Use
  <2> QED
    BY <2>3 DEF i, K, F
<1> QED
  BY <1>2 DEF x

-----------------------------------------------------------------------------
(* What the host may do with a block                                     *)

\* What one stream may do, a stream joined to it may.
LEMMA JoinedReach ==
  ASSUME NEW Q, Q \in Queues, NEW s \in Stream, Joined(Q, s, 1 - s), NEW b
  PROVE  /\ Quiet(Q, 1 - s, b) => Quiet(Q, s, b)
         /\ Changeable(Q, 1 - s, b) => Changeable(Q, s, b)
         /\ Readable(Q, 1 - s, b) => Readable(Q, s, b)
<1>1. \A r \in Peer, u \in Stream : \A d \in Places(Q, r, u) :
        /\ 1 - s \in Known(Q, r, u, d) => s \in Known(Q, r, u, d)
        /\ 1 - s \in Fenced(Q, r, u, d) => s \in Fenced(Q, r, u, d)
  <2> TAKE r \in Peer, u \in Stream
  <2> TAKE d \in Places(Q, r, u)
  <2>1. d \in Nat
    BY QueueFacts
  <2> QED
    BY <2>1, JoinedKnown
<1> QED
  BY <1>1 DEF Quiet, Changeable, Readable

\* A free one.
LEMMA FreeReach ==
  ASSUME NEW Q, Q \in Queues, NEW m, NEW side, NEW U, Sound(Q, m, side, U), NEW b \in Block
  PROVE  /\ m.heap[b] = Clean => Quiet(Q, 0, b)
         /\ \A s \in Stream : m.heap[b] = OfGroup(s) => Quiet(Q, s, b)
         /\ \A s \in Stream : m.heap[b] = OfStream(s) => Changeable(Q, s, b)
<1>1. \A r \in Peer, u \in Stream : \A d \in Places(Q, r, u) :
        Uses(At(Q, r, u, d), b) => Use(At(Q, r, u, d), u, b, Known(Q, r, u, d), Fenced(Q, r, u, d), m, side, U)
  BY DEF Sound
<1>2. \A i : PushTo(i, b) \/ PullFrom(i, b) => Uses(i, b)
  BY DEF Uses
<1>3. m.heap[b] = Clean => Quiet(Q, 0, b)
  BY <1>1 DEF Quiet, Use
<1>4. ASSUME NEW s \in Stream, m.heap[b] = OfGroup(s) PROVE Quiet(Q, s, b)
  BY <1>1, <1>4 DEF Quiet, Use
<1>5. ASSUME NEW s \in Stream, m.heap[b] = OfStream(s) PROVE Changeable(Q, s, b)
  BY <1>1, <1>2, <1>5 DEF Changeable, Readable, Use
<1> QED
  BY <1>3, <1>4, <1>5

\* The stream has joined the other, or nothing of the other's is concerned.
Current(Q, s, side, b) == s \in Stream /\ (Joined(Q, s, 1 - s) \/ (s = 0 /\ b \notin side))

\* A tensor.
LEMMA TensorReach ==
  ASSUME NEW Q, Q \in Queues, NEW m, NEW side, Sound(Q, m, side, {}), NEW b \in Block, NEW s, Current(Q, s, side, b),
         m.heap[b] = Alive, m.back[b] = Clean
  PROVE  /\ Readable(Q, s, b)
         /\ (\A t \in Stream : b \notin m.sources[t] /\ (<<b, t>> \in m.dropped => t \in {0, s})) => Changeable(Q, s, b)
         /\ \A r \in Peer, u \in Stream : \A d \in Places(Q, r, u) : Uses(At(Q, r, u, d), b) =>
              /\ s \in Known(Q, r, u, d)
              /\ PushTo(At(Q, r, u, d), b) => s \in Fenced(Q, r, u, d)
              /\ PullFrom(At(Q, r, u, d), b) => \/ s \in Fenced(Q, r, u, d)
                                                 \/ b \in m.sources[u]
                                                 \/ \E t \in Fenced(Q, r, u, d) : <<b, t>> \in m.dropped
<1>1. \A r \in Peer, u \in Stream : \A d \in Places(Q, r, u) :
        Uses(At(Q, r, u, d), b) => Use(At(Q, r, u, d), u, b, Known(Q, r, u, d), Fenced(Q, r, u, d), m, side, {})
  BY DEF Sound
<1>2. s \in Stream /\ (s = 0 \/ 1 - s = 0) /\ 1 - s \in Stream
  BY DEF Current, Stream
<1>3. \A r \in Peer, u \in Stream : \A d \in Places(Q, r, u) :
        /\ Front(b, side) \cap Known(Q, r, u, d) # {} => s \in Known(Q, r, u, d)
        /\ Front(b, side) \cap Fenced(Q, r, u, d) # {} => s \in Fenced(Q, r, u, d)
        /\ 0 \in Fenced(Q, r, u, d) => s \in Fenced(Q, r, u, d)
  <2> SUFFICES ASSUME NEW r \in Peer, NEW u \in Stream, NEW d \in Places(Q, r, u)
               PROVE  /\ Front(b, side) \cap Known(Q, r, u, d) # {} => s \in Known(Q, r, u, d)
                      /\ Front(b, side) \cap Fenced(Q, r, u, d) # {} => s \in Fenced(Q, r, u, d)
                      /\ 0 \in Fenced(Q, r, u, d) => s \in Fenced(Q, r, u, d)
    OBVIOUS
  <2>1. CASE Joined(Q, s, 1 - s)
    <3>1. d \in Nat
      BY QueueFacts
    <3>2. /\ 1 - s \in Known(Q, r, u, d) => s \in Known(Q, r, u, d)
          /\ 1 - s \in Fenced(Q, r, u, d) => s \in Fenced(Q, r, u, d)
      BY <1>2, <2>1, <3>1, JoinedKnown
    <3>3. \A v \in Front(b, side) : v = s \/ v = 1 - s
      BY <1>2 DEF Front, Stream
    <3> QED
      BY <1>2, <3>2, <3>3
  <2>2. CASE s = 0 /\ b \notin side
    BY <2>2 DEF Front
  <2> QED
    BY <2>1, <2>2 DEF Current
<1>4. \A i : PushTo(i, b) \/ PullFrom(i, b) => Uses(i, b)
  BY DEF Uses
<1>5. \A r \in Peer, u \in Stream : \A d \in Places(Q, r, u) : Uses(At(Q, r, u, d), b) =>
        /\ s \in Known(Q, r, u, d)
        /\ PushTo(At(Q, r, u, d), b) => s \in Fenced(Q, r, u, d)
        /\ PullFrom(At(Q, r, u, d), b) => \/ s \in Fenced(Q, r, u, d)
                                           \/ b \in m.sources[u]
                                           \/ \E t \in Fenced(Q, r, u, d) : <<b, t>> \in m.dropped
  BY <1>1, <1>3 DEF Use, Alive
<1>6. Readable(Q, s, b)
  BY <1>5 DEF Readable
<1>7. ASSUME \A t \in Stream : b \notin m.sources[t] /\ (<<b, t>> \in m.dropped => t \in {0, s}) PROVE Changeable(Q, s, b)
  <2> SUFFICES ASSUME NEW r \in Peer, NEW u \in Stream, NEW d \in Places(Q, r, u), PullFrom(At(Q, r, u, d), b)
               PROVE  s \in Fenced(Q, r, u, d)
    BY <1>6 DEF Changeable
  <2>1. Fenced(Q, r, u, d) \subseteq Stream
    BY DEF Fenced
  <2>2. s \in Fenced(Q, r, u, d) \/ \E t \in Fenced(Q, r, u, d) : t \in {0, s}
    BY <1>4, <1>5, <1>7, <2>1
  <2> QED
    BY <2>2, <1>3
<1> QED
  BY <1>5, <1>6, <1>7

-----------------------------------------------------------------------------
(* One operation more                                                    *)

Good(Q, m, side, U) == QueuesOK(Q) /\ Ordered(Q) /\ Sound(Q, m, side, U) /\ Books(m)

\* Queues stay well formed.
LEMMA QueuesGrown ==
  ASSUME NEW Q, QueuesOK(Q), NEW s \in Stream, NEW f \in [Peer -> Item],
         \A r \in Peer : f[r].op = "wait" => f[r].from = 1 - s /\ f[r].to <= Len(Q[r][1 - s])
  PROVE  QueuesOK(Grown(Q, s, f))
<1> DEFINE G == Grown(Q, s, f)
<1>0. Q \in Queues /\ Waiting(Q)
  BY DEF QueuesOK
<1>1. /\ G \in Queues
      /\ \A r \in Peer : Len(G[r][s]) = Len(Q[r][s]) + 1 /\ At(G, r, s, 0) = f[r]
      /\ \A r \in Peer, t \in Stream : /\ t # s => G[r][t] = Q[r][t]
                                       /\ \A k \in 1..Len(Q[r][t]) : G[r][t][k] = Q[r][t][k]
  BY <1>0, GrownFacts
<1>2. \A r \in Peer, t \in Stream : Len(Q[r][t]) \in Nat /\ \A k \in 1..Len(Q[r][t]) : Q[r][t][k] \in Item
  BY <1>0, QueueFacts
<1> HIDE DEF G
<1> SUFFICES ASSUME NEW r \in Peer, NEW t \in Stream, NEW k \in 1..Len(G[r][t]), G[r][t][k].op = "wait"
             PROVE  G[r][t][k].from = 1 - t /\ G[r][t][k].to <= Len(G[r][1 - t])
  BY <1>1 DEF QueuesOK, Waiting, G
<1>3. 1 - t \in Stream /\ 1 - t # t
  BY DEF Stream
<1>4. Len(Q[r][1 - t]) <= Len(G[r][1 - t]) /\ Len(G[r][1 - t]) \in Nat
  <2>1. CASE 1 - t = s
    BY <1>1, <1>2, <1>3, <2>1
  <2>2. CASE 1 - t # s
    BY <1>1, <1>2, <1>3, <2>2
  <2> QED
    BY <2>1, <2>2
<1>5. CASE k \in 1..Len(Q[r][t])
  <2>1. G[r][t][k] = Q[r][t][k] /\ Q[r][t][k] \in Item
    BY <1>1, <1>2, <1>5
  <2>2. Q[r][t][k].from = 1 - t /\ Q[r][t][k].to <= Len(Q[r][1 - t]) /\ Q[r][t][k].to \in Nat
    BY <2>1, <1>0, <1>5 DEF Waiting, Item
  <2>3. Len(Q[r][1 - t]) \in Nat
    BY <1>2, <1>3
  <2> QED
    BY <2>1, <2>2, <2>3, <1>4
<1>6. CASE k \notin 1..Len(Q[r][t])
  <2>1. t = s /\ k = Len(G[r][t])
    <3>1. t = s
      BY <1>1, <1>6
    <3> QED
      BY <3>1, <1>1, <1>2, <1>6
  <2>2. Len(G[r][t]) - 0 = k
    BY <2>1
  <2>3. G[r][t][k] = f[r]
    BY <1>1, <2>1, <2>2 DEF At
  <2>4. f[r].from = 1 - t /\ f[r].to <= Len(Q[r][1 - t]) /\ f[r].to \in Nat
    <3>1. f[r] \in Item
      OBVIOUS
    <3> QED
      BY <2>1, <2>3, <3>1 DEF Item
  <2>5. Len(Q[r][1 - t]) \in Nat
    BY <1>2, <1>3
  <2> QED
    BY <2>3, <2>4, <2>5, <1>4
<1> QED
  BY <1>5, <1>6

\* A live tensor, or scratch of the stream's group.
Fit(m, side, s, b) ==
  /\ m.heap[b] = Alive
  /\ \A t \in Stream : <<b, t>> \notin m.pending
  /\ m.back[b] = OfGroup(s) \/ (m.back[b] = Clean /\ s \in Front(b, side))

\* The books account for what is used on the stream the memory is given to.
LEMMA FitUse ==
  ASSUME NEW m, NEW side, NEW s \in Stream, NEW b \in Block, Fit(m, side, s, b), NEW i, NEW U,
         PushTo(i, b) => m.back[b] = OfGroup(s) \/ <<b, s>> \in U,
         PullFrom(i, b) => b \in m.sources[s]
  PROVE  Use(i, s, b, {s}, {}, m, side, U)
  BY Keys DEF Fit, Use, Alive

\* An operation that follows, and whose memory fits, may be queued.
LEMMA StepUse ==
  ASSUME NEW Q, NEW m, NEW side, NEW U, Good(Q, m, side, U), NEW s \in Stream, NEW i \in Item,
         i.op # "wait",
         Follows(Q, s, Alone(i)), Alone(i) \in [Peer -> Item],
         \A b \in Block : Uses(i, b) => /\ Fit(m, side, s, b)
                                        /\ PushTo(i, b) => m.back[b] = OfGroup(s) \/ <<b, s>> \in U
                                        /\ PullFrom(i, b) => b \in m.sources[s]
  PROVE  Good(Grown(Q, s, Alone(i)), m, side, U)
<1>1. \A r \in Peer : Alone(i)[r] = i
  BY DEF Alone
<1>2. QueuesOK(Grown(Q, s, Alone(i)))
  BY <1>1, QueuesGrown DEF Good
<1>3. Ordered(Grown(Q, s, Alone(i)))
  BY OrderedGrown DEF Good
<1>4. \A r \in Peer : \A b \in Block : Uses(Alone(i)[r], b) => Use(Alone(i)[r], s, b, {s}, {}, m, side, U)
  BY <1>1, FitUse
<1>5. Sound(Grown(Q, s, Alone(i)), m, side, U)
  BY <1>4, SoundGrown DEF Good
<1> QED
  BY <1>2, <1>3, <1>5 DEF Good

\* What is queued is an item.
LEMMA ItemTypes ==
  ASSUME NEW a \in Block, NEW b \in Block
  PROVE  Kernel(a, b) \in Item /\ Push(a, b) \in Item /\ Pull(a, b) \in Item /\ Barrier \in Item
<1>1. a \in Nat /\ b \in Nat
  BY CollectivesAssumption
<1> QED
  BY <1>1 DEF Kernel, Push, Pull, Barrier, Item

\* A kernel may be queued on memory it may read and change.
LEMMA StepKernel ==
  ASSUME NEW Q, NEW m, NEW side, NEW U, Good(Q, m, side, U), NEW s \in Stream, NEW a \in Block, NEW b \in Block,
         Readable(Q, s, a), Changeable(Q, s, b), Fit(m, side, s, a), Fit(m, side, s, b)
  PROVE  Good(Grown(Q, s, Alone(Kernel(a, b))), m, side, U)
<1> DEFINE i == Kernel(a, b)
<1>1. i \in Item /\ i.op = "kernel" /\ i.from = a /\ i.to = b
  BY ItemTypes DEF Kernel
<1> HIDE DEF i
<1>2. Alone(i) \in [Peer -> Item] /\ Follows(Q, s, Alone(i))
  BY <1>1, NextFollows DEF Good
<1>3. \A c \in Block : Uses(i, c) => Fit(m, side, s, c) /\ ~PushTo(i, c) /\ ~PullFrom(i, c)
  BY <1>1 DEF Uses, LocalRead, LocalWrite, PushTo, PullFrom
<1> QED
  BY <1>1, <1>2, <1>3, StepUse DEF i

\* A push may be queued into memory nobody uses, and is unfenced until the
\* next barrier.
LEMMA StepPush ==
  ASSUME NEW Q, NEW m, NEW side, NEW U, Good(Q, m, side, U), NEW s \in Stream, NEW a \in Block, NEW b \in Block, a # b,
         Readable(Q, s, a), Quiet(Q, s, b), Fit(m, side, s, a), Fit(m, side, s, b)
  PROVE  Good(Grown(Q, s, Alone(Push(a, b))), m, side, U \cup {<<b, s>>})
<1> DEFINE i == Push(a, b)
           V == U \cup {<<b, s>>}
<1>1. i \in Item /\ i.op = "push" /\ i.from = a /\ i.to = b
  BY ItemTypes DEF Push
<1>0. Good(Q, m, side, V)
  <2>1. ASSUME NEW j, NEW u, NEW c, NEW K, NEW F, Use(j, u, c, K, F, m, side, U) PROVE Use(j, u, c, K, F, m, side, V)
    BY <2>1 DEF Use
  <2> HIDE DEF V
  <2> QED
    BY <2>1 DEF Good, Sound
<1> HIDE DEF i
<1>2. Alone(i) \in [Peer -> Item] /\ Follows(Q, s, Alone(i))
  BY <1>1, NextFollows DEF Good
<1>3. \A c \in Block : Uses(i, c) => Fit(m, side, s, c) /\ (PushTo(i, c) => <<c, s>> \in V) /\ ~PullFrom(i, c)
  BY <1>1 DEF Uses, LocalRead, LocalWrite, PushTo, PullFrom
<1> HIDE DEF V
<1>4. Good(Grown(Q, s, Alone(i)), m, side, V)
  BY <1>0, <1>1, <1>2, <1>3, StepUse
<1> QED
  BY <1>4 DEF i, V

\* A pull may be queued from memory that nobody uses and the group retains.
LEMMA StepPull ==
  ASSUME NEW Q, NEW m, NEW side, NEW U, Good(Q, m, side, U), NEW s \in Stream, NEW a \in Block, NEW b \in Block, a # b,
         Quiet(Q, s, a), Changeable(Q, s, b), Fit(m, side, s, a), Fit(m, side, s, b), a \in m.sources[s]
  PROVE  Good(Grown(Q, s, Alone(Pull(a, b))), m, side, U)
<1> DEFINE i == Pull(a, b)
<1>1. i \in Item /\ i.op = "pull" /\ i.from = a /\ i.to = b
  BY ItemTypes DEF Pull
<1> HIDE DEF i
<1>2. Alone(i) \in [Peer -> Item] /\ Follows(Q, s, Alone(i))
  BY <1>1, NextFollows DEF Good
<1>3. \A c \in Block : Uses(i, c) => Fit(m, side, s, c) /\ ~PushTo(i, c) /\ (PullFrom(i, c) => c \in m.sources[s])
  BY <1>1 DEF Uses, LocalRead, LocalWrite, PushTo, PullFrom
<1> QED
  BY <1>1, <1>2, <1>3, StepUse DEF i

\* A barrier may always be queued; none of its stream's pushes is unfenced
\* after it.
LEMMA StepBarrier ==
  ASSUME NEW Q, NEW m, NEW side, NEW U, Good(Q, m, side, U), NEW s \in Stream,
         \A b \in Block, t \in Stream : <<b, t>> \in U => t = s
  PROVE  Good(Grown(Q, s, Alone(Barrier)), AfterBarrier(m, s), side, {})
<1>1. Barrier \in Item /\ Barrier.op = "barrier"
  BY DEF Barrier, Item
<1>2. Alone(Barrier) \in [Peer -> Item] /\ Follows(Q, s, Alone(Barrier)) /\ \A r \in Peer : Alone(Barrier)[r] = Barrier
  BY <1>1, NextFollows DEF Good, Alone
<1>3. QueuesOK(Grown(Q, s, Alone(Barrier)))
  BY <1>1, <1>2, QueuesGrown DEF Good
<1>4. Ordered(Grown(Q, s, Alone(Barrier)))
  BY <1>2, OrderedGrown DEF Good
<1>5. Sound(Grown(Q, s, Alone(Barrier)), AfterBarrier(m, s), side, {})
  BY SoundBarrier DEF Good
<1>6. Books(AfterBarrier(m, s))
  BY AfterBarrierBooks DEF Good
<1> QED
  BY <1>3, <1>4, <1>5, <1>6 DEF Good

\* A wait for all of the other stream.
LEMMA StepWait ==
  ASSUME NEW Q, NEW m, NEW side, NEW U, Good(Q, m, side, U), NEW s \in Stream
  PROVE  /\ Good(Grown(Q, s, WaitFor(Q, 1 - s)), m, side, U)
         /\ Joined(Grown(Q, s, WaitFor(Q, 1 - s)), s, 1 - s)
<1> DEFINE f == WaitFor(Q, 1 - s)
<1>0. QueuesOK(Q) /\ Q \in Queues
  BY DEF Good, QueuesOK
<1>1. f \in [Peer -> Item] /\ Joined(Grown(Q, s, f), s, 1 - s)
  BY <1>0, WaitJoins
<1>2. \A r \in Peer : f[r].op = "wait" /\ f[r].from = 1 - s /\ f[r].to = Len(Q[r][1 - s]) /\ Len(Q[r][1 - s]) \in Nat
  BY <1>0, QueueFacts, Sides DEF WaitFor, WaitEvent
<1> HIDE DEF f
<1>3. QueuesOK(Grown(Q, s, f))
  BY <1>0, <1>1, <1>2, QueuesGrown
<1>4. Ordered(Grown(Q, s, f))
  BY <1>0, <1>1, <1>2, WaitFollows, OrderedGrown DEF Good
<1>5. \A r \in Peer : \A b : ~Uses(f[r], b)
  BY <1>2 DEF Uses, LocalRead, LocalWrite, PushTo, PullFrom
<1>6. Sound(Grown(Q, s, f), m, side, U)
  BY <1>0, <1>1, <1>5, SoundGrown DEF Good
<1> QED
  BY <1>1, <1>3, <1>4, <1>6 DEF Good, f

\* A free block may be given out where its former uses allow, and then fits.
LEMMA StepTaken ==
  ASSUME NEW Q, NEW m, NEW side, NEW U, Good(Q, m, side, U), NEW b \in Block, m.heap[b] # Alive, NEW key \in BackKey,
         NEW s \in Stream,
         \/ key = OfGroup(s) /\ Quiet(Q, s, b)
         \/ key = Clean /\ s \in Front(b, side) /\ Changeable(Q, s, b)
  PROVE  Good(Q, Taken(m, b, key), side, U) /\ Fit(Taken(m, b, key), side, s, b)
<1>1. Quiet(Q, s, b) => Within(Q, s, b)
  BY QuietChangeable DEF Within, Readable, Good, QueuesOK
<1>2. Sound(Q, Taken(m, b, key), side, U)
  BY <1>1, SoundTaken DEF Good
<1>3. /\ Books(Taken(m, b, key))
      /\ \A c \in Block : /\ Taken(m, b, key).heap[c] = IF c = b THEN Alive ELSE m.heap[c]
                          /\ Taken(m, b, key).back[c] = IF c = b THEN key ELSE m.back[c]
      /\ Taken(m, b, key).pending = m.pending
  BY TakenFacts DEF Good
<1>4. \A t \in Stream : <<b, t>> \notin m.pending
  BY BookTypes DEF Good
<1>5. Taken(m, b, key).heap[b] = Alive /\ Taken(m, b, key).back[b] = key
  BY <1>3
<1>6. Fit(Taken(m, b, key), side, s, b)
  <2>1. \A t \in Stream : <<b, t>> \notin Taken(m, b, key).pending
    BY <1>3, <1>4
  <2>2. Taken(m, b, key).back[b] = OfGroup(s) \/ (Taken(m, b, key).back[b] = Clean /\ s \in Front(b, side))
    BY <1>5
  <2> DEFINE x == Taken(m, b, key)
  <2>3. /\ x.heap[b] = Alive
        /\ \A t \in Stream : <<b, t>> \notin x.pending
        /\ x.back[b] = OfGroup(s) \/ (x.back[b] = Clean /\ s \in Front(b, side))
    BY <1>5, <2>1, <2>2
  <2> HIDE DEF x
  <2>4. Fit(x, side, s, b)
    BY <2>3 DEF Fit
  <2> QED
    BY <2>4 DEF x
<1> QED
  BY <1>2, <1>3, <1>6 DEF Good

\* What is in use stays fit for use.
LEMMA FitKept ==
  ASSUME NEW m, Books(m), NEW side, NEW s \in Stream, NEW c \in Block, Fit(m, side, s, c)
  PROVE  /\ \A b \in Block, key \in BackKey : m.heap[b] # Alive => b # c /\ Fit(Taken(m, b, key), side, s, c)
         /\ m.back[c] = Clean \/ c \notin m.sources[s] => Fit(AfterBarrier(m, s), side, s, c)
         /\ \A b \in Block : m.heap[b] = Alive /\ m.back[b] \in {Clean, OfGroup(s)} => Fit(Sourced(m, s, b), side, s, c)
<1>1. ASSUME NEW b \in Block, NEW key \in BackKey, m.heap[b] # Alive PROVE b # c /\ Fit(Taken(m, b, key), side, s, c)
  <2>1. b # c
    BY <1>1 DEF Fit
  <2>2. Taken(m, b, key).heap[c] = m.heap[c] /\ Taken(m, b, key).back[c] = m.back[c] /\ Taken(m, b, key).pending = m.pending
    BY <1>1, <2>1, TakenFacts
  <2> QED
    BY <2>1, <2>2 DEF Fit
<1>2. ASSUME m.back[c] = Clean \/ c \notin m.sources[s] PROVE Fit(AfterBarrier(m, s), side, s, c)
  <2>1. /\ AfterBarrier(m, s).heap[c] = Alive /\ AfterBarrier(m, s).back[c] = m.back[c]
        /\ \A t \in Stream : <<c, t>> \notin AfterBarrier(m, s).pending
    BY <1>2, AfterBarrierKeeps DEF Fit
  <2> QED
    BY <2>1 DEF Fit
<1>3. ASSUME NEW b \in Block, m.heap[b] = Alive /\ m.back[b] \in {Clean, OfGroup(s)} PROVE Fit(Sourced(m, s, b), side, s, c)
  <2>1. Sourced(m, s, b).heap = m.heap /\ Sourced(m, s, b).back = m.back /\ Sourced(m, s, b).pending = m.pending
    BY <1>3, SourcedFacts
  <2> QED
    BY <2>1 DEF Fit
<1> QED
  BY <1>1, <1>2, <1>3

\* A group may retain what is alive.
LEMMA StepSourced ==
  ASSUME NEW Q, NEW m, NEW side, NEW U, Good(Q, m, side, U), NEW s \in Stream, NEW b \in Block,
         m.heap[b] = Alive, m.back[b] \in {Clean, OfGroup(s)}
  PROVE  Good(Q, Sourced(m, s, b), side, U)
<1>1. Books(Sourced(m, s, b))
  BY SourcedFacts DEF Good
<1>2. Sound(Q, Sourced(m, s, b), side, U)
  BY SoundSourced DEF Good
<1> QED
  BY <1>1, <1>2 DEF Good

\* A stream that has joined the other has its uses.
LEMMA SoundJoined ==
  ASSUME NEW Q, Q \in Queues, NEW m, NEW side, NEW U, NEW V, Sound(Q, m, side, U), Joined(Q, 0, 1),
         \A b, u : <<b, u>> \in U => <<b, 0>> \in V
  PROVE  Sound(Q, m, {}, V)
<1> SUFFICES ASSUME NEW r \in Peer, NEW t \in Stream, NEW d \in Places(Q, r, t), NEW b \in Block, Uses(At(Q, r, t, d), b)
             PROVE  Use(At(Q, r, t, d), t, b, Known(Q, r, t, d), Fenced(Q, r, t, d), m, {}, V)
  BY DEF Sound
<1> DEFINE i == At(Q, r, t, d)
           K == Known(Q, r, t, d)
           F == Fenced(Q, r, t, d)
<1>1. Use(i, t, b, K, F, m, side, U)
  BY DEF Sound
<1>2. (1 \in K => 0 \in K) /\ (1 \in F => 0 \in F)
  <2>1. d \in Nat /\ 0 \in Stream /\ 1 - 0 = 1
    BY QueueFacts DEF Stream
  <2> QED
    BY <2>1, JoinedKnown
<1> HIDE DEF i, K, F
<1>3. Front(b, side) \subseteq {0, 1} /\ Front(b, {}) = {0}
  BY DEF Front
<1>4. /\ Front(b, side) \cap K # {} => Front(b, {}) \cap K # {}
      /\ Front(b, side) \cap F # {} => Front(b, {}) \cap F # {}
      /\ (\E u \in Front(b, side) \cap K : <<b, u>> \in U) => (\E u \in Front(b, {}) \cap K : <<b, u>> \in V)
  BY <1>2, <1>3
<1>5. Use(i, t, b, K, F, m, {}, V)
  BY <1>1, <1>4 DEF Use
<1> QED
  BY <1>5 DEF i, K, F

-----------------------------------------------------------------------------
(* How ranks stand at barriers, and who waits for whom                   *)

Phase == {"outside", "waits", "released"}

\* Ranks have the same barriers.
Alike(Q) ==
  \A r, q \in Peer, s \in Stream : \A d \in Places(Q, r, s) :
    d \in Places(Q, q, s) => (At(Q, r, s, d).op = "barrier" <=> At(Q, q, s, d).op = "barrier")

AtBarrier(Q, r, s) == Len(Q[r][s]) > 0 /\ At(Q, r, s, Len(Q[r][s]) - 1).op = "barrier"

\* p are the phases of the stream's group.  Who waits has no one behind, who is
\* released has no one before, and only such a rank has a barrier left that
\* another is past.
Phased(Q, s, p) ==
  /\ p \in [Peer -> Phase]
  /\ \A r \in Peer :
       /\ p[r] # "outside" => AtBarrier(Q, r, s)
       /\ p[r] = "waits" => (\A q \in Peer : Len(Q[r][s]) <= Len(Q[q][s])) /\ \E q \in Peer : p[q] # "waits"
       /\ p[r] = "released" => \A q \in Peer : Len(Q[q][s]) <= Len(Q[r][s])
                                               /\ (Len(Q[q][s]) = Len(Q[r][s]) => p[q] = "released")
       /\ \A q \in Peer : \A d \in Places(Q, r, s) :
            (At(Q, r, s, d).op = "barrier" /\ Len(Q[q][s]) <= d) => p[r] = "released" /\ d = Len(Q[r][s]) - 1

\* Operations have ages: a wait is for what is older.
Ages == [Stream -> [Nat -> Nat]]

Dated(Q, a) ==
  /\ \A s \in Stream : \A d, e \in Nat : d < e => a[s][d] < a[s][e]
  /\ \A r \in Peer, s \in Stream : \A d \in Places(Q, r, s) :
       (At(Q, r, s, d).op = "wait" /\ At(Q, r, s, d).to > 0) =>
         a[s][d] < a[1 - s][Len(Q[r][1 - s]) - At(Q, r, s, d).to]

Bounded(Q, n) == \A r \in Peer, s \in Stream : Len(Q[r][s]) <= n

Aged(Q) == \E a \in Ages, n \in Nat : Dated(Q, a) /\ Bounded(Q, n)

\* Ranks queue the same.
LEMMA AlikeGrown ==
  ASSUME NEW Q, Q \in Queues, NEW s \in Stream, NEW f \in [Peer -> Item], Alike(Q),
         \A r, q \in Peer : f[r].op = f[q].op
  PROVE  Alike(Grown(Q, s, f))
<1> DEFINE G == Grown(Q, s, f)
<1> SUFFICES ASSUME NEW r \in Peer, NEW q \in Peer, NEW t \in Stream, NEW d \in Places(G, r, t), d \in Places(G, q, t)
             PROVE  At(G, r, t, d).op = "barrier" <=> At(G, q, t, d).op = "barrier"
  BY DEF Alike
<1>1. \/ t = s /\ d = 0 /\ At(G, r, t, d) = f[r]
      \/ \E e \in Places(Q, r, t) : d = Shift(s, t, e) /\ At(G, r, t, d) = At(Q, r, t, e)
  BY GrownPlaces
<1>2. \/ t = s /\ d = 0 /\ At(G, q, t, d) = f[q]
      \/ \E e \in Places(Q, q, t) : d = Shift(s, t, e) /\ At(G, q, t, d) = At(Q, q, t, e)
  BY GrownPlaces
<1> HIDE DEF G
<1>3. \A x, y \in Nat : Shift(s, t, x) = Shift(s, t, y) => x = y
  BY DEF Shift
<1>4. \A x \in Nat : t = s => Shift(s, t, x) # 0
  BY DEF Shift
<1>5. (\A x \in Places(Q, r, t) : x \in Nat) /\ (\A x \in Places(Q, q, t) : x \in Nat)
  BY QueueFacts
<1>6. CASE t = s /\ d = 0 /\ At(G, r, t, d) = f[r]
  BY <1>2, <1>4, <1>5, <1>6
<1>7. ASSUME NEW x \in Places(Q, r, t), d = Shift(s, t, x), At(G, r, t, d) = At(Q, r, t, x)
      PROVE  At(G, r, t, d).op = "barrier" <=> At(G, q, t, d).op = "barrier"
  <2>1. PICK y \in Places(Q, q, t) : d = Shift(s, t, y) /\ At(G, q, t, d) = At(Q, q, t, y)
    BY <1>2, <1>4, <1>5, <1>7
  <2>2. x = y
    BY <2>1, <1>3, <1>5, <1>7
  <2> QED
    BY <2>1, <2>2, <1>7 DEF Alike
<1> QED
  BY <1>1, <1>6, <1>7

\* Queueing more leaves ranks at the barriers they are at.
LEMMA PhasedGrown ==
  ASSUME NEW Q, Q \in Queues, NEW s \in Stream, NEW f \in [Peer -> Item], NEW t \in Stream, NEW p, Phased(Q, t, p)
  PROVE  Phased(Grown(Q, s, f), t, p)
<1> DEFINE G == Grown(Q, s, f)
           k == IF t = s THEN 1 ELSE 0
<1>1. \A r \in Peer : Len(Q[r][t]) \in Nat /\ Len(G[r][t]) = Len(Q[r][t]) + k
  <2> TAKE r \in Peer
  <2>1. Len(Q[r][t]) \in Nat
    BY QueueFacts
  <2>2. CASE t = s
    <3>1. Len(G[r][s]) = Len(Q[r][s]) + 1
      BY GrownFacts
    <3> QED
      BY <2>1, <2>2, <3>1
  <2>3. CASE t # s
    <3>1. G[r][t] = Q[r][t]
      BY <2>3, GrownFacts
    <3> HIDE DEF G
    <3> QED
      BY <2>1, <2>3, <3>1
  <2> QED
    BY <2>2, <2>3
<1>2. \A x : x \in Nat => Shift(s, t, x) = x + k
  BY DEF Shift
<1>3. \A r \in Peer : \A d \in Places(G, r, t) :
        \/ d = 0 /\ k = 1
        \/ \E e \in Places(Q, r, t) : e \in Nat /\ d = e + k /\ At(G, r, t, d) = At(Q, r, t, e)
  <2> TAKE r \in Peer
  <2> TAKE d \in Places(G, r, t)
  <2>1. \/ t = s /\ d = 0
        \/ \E e \in Places(Q, r, t) : d = Shift(s, t, e) /\ At(G, r, t, d) = At(Q, r, t, e)
    BY GrownPlaces
  <2>2. \A e \in Places(Q, r, t) : e \in Nat
    BY QueueFacts
  <2> QED
    BY <2>1, <2>2, <1>2
<1>4. \A r \in Peer : \A e \in Places(Q, r, t) : e + k \in Places(G, r, t) /\ At(G, r, t, e + k) = At(Q, r, t, e)
  <2> TAKE r \in Peer
  <2> TAKE e \in Places(Q, r, t)
  <2>1. e \in Nat
    BY QueueFacts
  <2>2. Shift(s, t, e) \in Places(G, r, t) /\ At(G, r, t, Shift(s, t, e)) = At(Q, r, t, e)
    BY GrownFacts
  <2> QED
    BY <2>1, <2>2, <1>2
<1>5. k \in Nat
  OBVIOUS
<1> HIDE DEF G, k
<1>6. ASSUME NEW r \in Peer, AtBarrier(Q, r, t) PROVE AtBarrier(G, r, t)
  <2>1. Len(Q[r][t]) - 1 \in Places(Q, r, t)
    BY <1>1, <1>6 DEF AtBarrier, Places
  <2>2. (Len(Q[r][t]) - 1) + k = Len(G[r][t]) - 1
    BY <1>1, <1>5
  <2>3. At(G, r, t, Len(G[r][t]) - 1) = At(Q, r, t, Len(Q[r][t]) - 1)
    BY <1>4, <2>1, <2>2
  <2> QED
    BY <2>3, <1>1, <1>5, <1>6 DEF AtBarrier
<1>7. ASSUME NEW r \in Peer, NEW q \in Peer, NEW d \in Places(G, r, t), At(G, r, t, d).op = "barrier", Len(G[q][t]) <= d
      PROVE  p[r] = "released" /\ d = Len(G[r][t]) - 1
  <2>1. ~(d = 0 /\ k = 1)
    BY <1>1, <1>7
  <2>2. PICK e \in Places(Q, r, t) : e \in Nat /\ d = e + k /\ At(G, r, t, d) = At(Q, r, t, e)
    BY <2>1, <1>3
  <2>3. Len(Q[q][t]) <= e
    BY <2>2, <1>1, <1>5, <1>7
  <2>4. p[r] = "released" /\ e = Len(Q[r][t]) - 1
    BY <2>2, <2>3, <1>7 DEF Phased
  <2> QED
    BY <2>2, <2>4, <1>1, <1>5
<1>8. \A r, q \in Peer : /\ Len(Q[r][t]) <= Len(Q[q][t]) => Len(G[r][t]) <= Len(G[q][t])
                         /\ Len(G[r][t]) = Len(G[q][t]) => Len(Q[r][t]) = Len(Q[q][t])
  <2> TAKE r, q \in Peer
  <2>1. Len(Q[r][t]) \in Nat /\ Len(Q[q][t]) \in Nat /\ Len(G[r][t]) = Len(Q[r][t]) + k /\ Len(G[q][t]) = Len(Q[q][t]) + k
    BY <1>1
  <2> QED
    BY <2>1, <1>5
<1> QED
  BY <1>6, <1>7, <1>8 DEF Phased, G

\* What is queued last is youngest.
LEMMA AgedGrown ==
  ASSUME NEW Q, QueuesOK(Q), NEW s \in Stream, NEW f \in [Peer -> Item], Aged(Q),
         \A r \in Peer : f[r].op = "wait" => f[r].from = 1 - s /\ f[r].to <= Len(Q[r][1 - s])
  PROVE  Aged(Grown(Q, s, f))
<1> DEFINE G == Grown(Q, s, f)
<1>0. Q \in Queues
  BY DEF QueuesOK
<1>1. PICK a \in Ages, n \in Nat : Dated(Q, a) /\ Bounded(Q, n)
  BY DEF Aged
<1> DEFINE b == [t \in Stream |-> [d \in Nat |-> IF t # s THEN a[t][d] + 1 ELSE IF d = 0 THEN 0 ELSE a[t][d - 1] + 1]]
<1>2. \A t \in Stream : \A d \in Nat : a[t][d] \in Nat
  BY DEF Ages
<1>3. b \in Ages
  <2>1. \A t \in Stream : \A d \in Nat : (IF t # s THEN a[t][d] + 1 ELSE IF d = 0 THEN 0 ELSE a[t][d - 1] + 1) \in Nat
    BY <1>2
  <2> QED
    BY <2>1 DEF Ages
<1>4. \A t \in Stream : \A d \in Nat : b[t][Shift(s, t, d)] = a[t][d] + 1
  BY <1>2 DEF Shift
<1>5. b[s][0] = 0
  OBVIOUS
<1>6. ASSUME NEW t \in Stream, NEW d \in Nat, NEW e \in Nat, d < e PROVE b[t][d] < b[t][e]
  <2>1. CASE t # s
    <3>1. a[t][d] < a[t][e]
      BY <1>1, <1>6 DEF Dated
    <3> QED
      BY <2>1, <3>1, <1>2
  <2>2. CASE t = s /\ d = 0
    <3>1. e - 1 \in Nat
      BY <1>6
    <3>2. b[t][e] = a[t][e - 1] + 1 /\ b[t][d] = 0
      BY <1>6, <2>2
    <3> QED
      BY <3>1, <3>2, <1>2
  <2>3. CASE t = s /\ d # 0
    <3>1. e - 1 \in Nat /\ d - 1 \in Nat /\ d - 1 < e - 1
      BY <1>6, <2>3
    <3>2. b[t][e] = a[t][e - 1] + 1 /\ b[t][d] = a[t][d - 1] + 1
      BY <1>6, <2>3
    <3>3. a[t][d - 1] < a[t][e - 1]
      BY <3>1, <1>1 DEF Dated
    <3> QED
      BY <3>1, <3>2, <3>3, <1>2
  <2> QED
    BY <2>1, <2>2, <2>3
<1> HIDE DEF b
<1>7. /\ \A r \in Peer : Len(G[r][s]) = Len(Q[r][s]) + 1
      /\ \A r \in Peer, t \in Stream : t # s => G[r][t] = Q[r][t]
      /\ \A r \in Peer, t \in Stream : Len(Q[r][t]) \in Nat
  BY <1>0, GrownFacts, QueueFacts
<1>8. ASSUME NEW r \in Peer, NEW t \in Stream, NEW d \in Places(G, r, t), At(G, r, t, d).op = "wait", At(G, r, t, d).to > 0
      PROVE  b[t][d] < b[1 - t][Len(G[r][1 - t]) - At(G, r, t, d).to]
  <2> DEFINE to == At(G, r, t, d).to
  <2>1. \/ t = s /\ d = 0 /\ At(G, r, t, d) = f[r]
        \/ \E e \in Places(Q, r, t) : d = Shift(s, t, e) /\ At(G, r, t, d) = At(Q, r, t, e)
    BY <1>0, GrownPlaces
  <2>2. 1 - t \in Stream /\ 1 - t # t /\ (1 - t = s <=> t # s)
    BY DEF Stream
  <2> HIDE DEF G
  <2>3. CASE t = s /\ d = 0 /\ At(G, r, t, d) = f[r]
    <3>1. to \in Nat /\ to <= Len(Q[r][1 - s]) /\ Len(G[r][1 - t]) = Len(Q[r][1 - s])
      <4>1. f[r] \in Item
        OBVIOUS
      <4> QED
        BY <4>1, <2>2, <2>3, <1>7, <1>8 DEF Item
    <3>2. Len(Q[r][1 - s]) - to \in Nat /\ 1 - s \in Stream
      BY <3>1, <2>2, <2>3, <1>7
    <3>3. b[1 - s][Len(Q[r][1 - s]) - to] = a[1 - s][Len(Q[r][1 - s]) - to] + 1
      BY <3>2, <2>2, <2>3, <1>4 DEF Shift
    <3>4. a[1 - s][Len(Q[r][1 - s]) - to] \in Nat
      BY <3>2, <1>2
    <3>5. b[t][d] = 0
      BY <2>3, <1>5
    <3> HIDE DEF to
    <3>6. b[t][d] < b[1 - t][Len(G[r][1 - t]) - to]
      BY <3>1, <3>3, <3>4, <3>5, <2>3
    <3> QED
      BY <3>6 DEF to
  <2>4. ASSUME NEW e \in Places(Q, r, t), d = Shift(s, t, e), At(G, r, t, d) = At(Q, r, t, e)
        PROVE  b[t][d] < b[1 - t][Len(G[r][1 - t]) - to]
    <3>1. e \in Nat /\ At(Q, r, t, e).op = "wait" /\ to = At(Q, r, t, e).to
      BY <1>0, <1>8, <2>4, QueueFacts
    <3>2. to \in Nat /\ to <= Len(Q[r][1 - t]) /\ to > 0
      BY <3>1, <1>8, <2>4, WaitFacts
    <3> DEFINE x == Len(Q[r][1 - t]) - to
    <3>3. x \in Nat
      BY <3>2, <2>2, <1>7
    <3>4. a[t][e] < a[1 - t][x]
      BY <3>1, <3>2, <1>1 DEF Dated
    <3>5. Len(G[r][1 - t]) - to = Shift(s, 1 - t, x)
      <4>1. CASE 1 - t = s
        <5>1. Len(G[r][1 - t]) = Len(Q[r][1 - t]) + 1
          BY <4>1, <1>7
        <5> QED
          BY <4>1, <5>1, <3>2, <2>2, <1>7 DEF Shift
      <4>2. CASE 1 - t # s
        <5>1. Len(G[r][1 - t]) = Len(Q[r][1 - t])
          BY <4>2, <2>2, <1>7
        <5> QED
          BY <4>2, <5>1 DEF Shift
      <4> QED
        BY <4>1, <4>2
    <3> HIDE DEF x, to
    <3>6. b[t][d] = a[t][e] + 1 /\ b[1 - t][Shift(s, 1 - t, x)] = a[1 - t][x] + 1
      BY <3>1, <3>3, <2>2, <2>4, <1>4
    <3>7. a[t][e] \in Nat /\ a[1 - t][x] \in Nat
      BY <3>1, <3>3, <2>2, <1>2
    <3> QED
      BY <3>4, <3>5, <3>6, <3>7
  <2> QED
    BY <2>1, <2>3, <2>4
<1>9. Bounded(G, n + 1)
  <2> SUFFICES ASSUME NEW r \in Peer, NEW t \in Stream PROVE Len(G[r][t]) <= n + 1
    BY DEF Bounded
  <2>1. Len(Q[r][t]) <= n
    BY <1>1 DEF Bounded
  <2>2. CASE t = s
    BY <2>1, <2>2, <1>7
  <2>3. CASE t # s
    BY <2>1, <2>3, <1>7
  <2> QED
    BY <2>2, <2>3
<1>10. Dated(G, b)
  BY <1>6, <1>8 DEF Dated
<1>11. n + 1 \in Nat
  OBVIOUS
<1> HIDE DEF G
<1> QED
  BY <1>3, <1>9, <1>10, <1>11 DEF Aged, G

\* Barriers and waits, of all streams.
Lines(Q, p) == p \in [Stream -> [Peer -> Phase]] /\ Alike(Q) /\ Aged(Q) /\ \A s \in Stream : Phased(Q, s, p[s])

\* All of it: the lines stay in order when every rank queues one more.
LEMMA LinesGrown ==
  ASSUME NEW Q, QueuesOK(Q), NEW p, Lines(Q, p), NEW s \in Stream, NEW f \in [Peer -> Item],
         \A r, q \in Peer : f[r].op = f[q].op,
         \A r \in Peer : f[r].op = "wait" => f[r].from = 1 - s /\ f[r].to <= Len(Q[r][1 - s])
  PROVE  Lines(Grown(Q, s, f), p)
<1>0. Q \in Queues
  BY DEF QueuesOK
<1>1. Alike(Grown(Q, s, f))
  BY <1>0, AlikeGrown DEF Lines
<1>2. Aged(Grown(Q, s, f))
  BY AgedGrown DEF Lines
<1>3. \A t \in Stream : Phased(Grown(Q, s, f), t, p[t])
  BY <1>0, PhasedGrown DEF Lines
<1> QED
  BY <1>1, <1>2, <1>3 DEF Lines

\* What the cases below need of a queue with its first operation run.
LEMMA PoppedLens ==
  ASSUME NEW Q, QueuesOK(Q), NEW r \in Peer, NEW s \in Stream, Q[r][s] # <<>>,
         Head(Q[r][s]).op = "wait" => Head(Q[r][s]).to = 0
  PROVE  /\ Q \in Queues /\ Popped(Q, r, s) \in Queues
         /\ Len(Q[r][s]) \in Nat \ {0} /\ Len(Popped(Q, r, s)[r][s]) = Len(Q[r][s]) - 1
         /\ \A q \in Peer, t \in Stream :
              /\ Len(Q[q][t]) \in Nat
              /\ <<q, t>> # <<r, s>> => Len(Popped(Q, r, s)[q][t]) = Len(Q[q][t])
              /\ \A d \in Places(Popped(Q, r, s), q, t) : d \in Places(Q, q, t) /\ At(Popped(Q, r, s), q, t, d).op = At(Q, q, t, d).op
         /\ (AtBarrier(Q, r, s) <=> Head(Q[r][s]).op = "barrier")
<1>1. Q \in Queues /\ Popped(Q, r, s) \in Queues
  BY PoppedFacts DEF QueuesOK
<1>2. Len(Q[r][s]) \in Nat \ {0} /\ At(Q, r, s, Len(Q[r][s]) - 1) = Head(Q[r][s])
  BY <1>1, HeadPlace
<1>3. \A q \in Peer, t \in Stream : Len(Q[q][t]) \in Nat
  BY <1>1, QueueFacts
<1>4. AtBarrier(Q, r, s) <=> Head(Q[r][s]).op = "barrier"
  BY <1>2 DEF AtBarrier
<1> QED
  BY <1>1, <1>2, <1>3, <1>4, PoppedFacts

\* Ranks have queued the same, whatever has run.
LEMMA AlikePopped ==
  ASSUME NEW Q, QueuesOK(Q), NEW r \in Peer, NEW s \in Stream, Q[r][s] # <<>>,
         Head(Q[r][s]).op = "wait" => Head(Q[r][s]).to = 0, Alike(Q)
  PROVE  Alike(Popped(Q, r, s))
<1> DEFINE P == Popped(Q, r, s)
<1>1. \A q \in Peer, t \in Stream : \A d \in Places(P, q, t) : d \in Places(Q, q, t) /\ At(P, q, t, d).op = At(Q, q, t, d).op
  BY PoppedLens
<1> HIDE DEF P
<1>2. Alike(P)
  BY <1>1 DEF Alike
<1> QED
  BY <1>2 DEF P

\* Ages are kept as operations run.
LEMMA AgedPopped ==
  ASSUME NEW Q, QueuesOK(Q), NEW r \in Peer, NEW s \in Stream, Q[r][s] # <<>>,
         Head(Q[r][s]).op = "wait" => Head(Q[r][s]).to = 0, Aged(Q)
  PROVE  Aged(Popped(Q, r, s))
<1> DEFINE P == Popped(Q, r, s)
<1>1. PICK a \in Ages, n \in Nat : Dated(Q, a) /\ Bounded(Q, n)
  BY DEF Aged
<1>2. /\ Len(Q[r][s]) \in Nat \ {0} /\ Len(P[r][s]) = Len(Q[r][s]) - 1
      /\ \A q \in Peer, t \in Stream : Len(Q[q][t]) \in Nat /\ (<<q, t>> # <<r, s>> => Len(P[q][t]) = Len(Q[q][t]))
  BY PoppedLens
<1>3. \A q \in Peer, t \in Stream : \A d \in Places(P, q, t) :
        /\ d \in Places(Q, q, t)
        /\ At(P, q, t, d).op = At(Q, q, t, d).op
        /\ At(Q, q, t, d).op = "wait" =>
             At(P, q, t, d).to = IF q = r /\ t # s /\ At(Q, q, t, d).to > 0 THEN At(Q, q, t, d).to - 1 ELSE At(Q, q, t, d).to
  BY PoppedFacts
<1> HIDE DEF P
<1>4. Bounded(P, n)
  <2> SUFFICES ASSUME NEW q \in Peer, NEW t \in Stream PROVE Len(P[q][t]) <= n
    BY DEF Bounded
  <2>1. Len(Q[q][t]) <= n
    BY <1>1 DEF Bounded
  <2>2. CASE <<q, t>> = <<r, s>>
    BY <2>1, <2>2, <1>2
  <2>3. CASE <<q, t>> # <<r, s>>
    BY <2>1, <2>3, <1>2
  <2> QED
    BY <2>2, <2>3
<1>5. ASSUME NEW q \in Peer, NEW t \in Stream, NEW d \in Places(P, q, t), At(P, q, t, d).op = "wait", At(P, q, t, d).to > 0
      PROVE  a[t][d] < a[1 - t][Len(P[q][1 - t]) - At(P, q, t, d).to]
  <2> DEFINE to == At(P, q, t, d).to
             old == At(Q, q, t, d).to
  <2>1. d \in Places(Q, q, t) /\ At(Q, q, t, d).op = "wait"
    BY <1>3, <1>5
  <2>2. old \in Nat /\ to = IF q = r /\ t # s /\ old > 0 THEN old - 1 ELSE old
    BY <2>1, <1>3, WaitFacts
  <2>3. 1 - t \in Stream /\ (1 - t = s <=> t # s)
    BY DEF Stream
  <2>0. to > 0
    BY <1>5
  <2>4. Len(P[q][1 - t]) - to = Len(Q[q][1 - t]) - old /\ old > 0
    <3> HIDE DEF to, old
    <3>1. CASE q = r /\ t # s
      <4>1. Len(P[q][1 - t]) = Len(Q[q][1 - t]) - 1 /\ Len(Q[q][1 - t]) \in Nat
        BY <1>2, <2>3, <3>1
      <4>2. CASE old > 0
        BY <2>0, <2>2, <3>1, <4>1, <4>2
      <4>3. CASE ~(old > 0)
        BY <2>0, <2>2, <3>1, <4>3
      <4> QED
        BY <4>2, <4>3
    <3>2. CASE ~(q = r /\ t # s)
      <4>1. <<q, 1 - t>> # <<r, s>>
        BY <2>3, <3>2
      <4>2. Len(P[q][1 - t]) = Len(Q[q][1 - t])
        BY <1>2, <2>3, <4>1
      <4> QED
        BY <2>0, <2>2, <3>2, <4>2
    <3> QED
      BY <3>1, <3>2
  <2>5. a[t][d] < a[1 - t][Len(Q[q][1 - t]) - old]
    BY <2>1, <2>4, <1>1 DEF Dated
  <2> QED
    BY <2>4, <2>5
<1>6. Dated(P, a)
  BY <1>1, <1>5 DEF Dated
<1> QED
  BY <1>4, <1>6 DEF Aged, P

\* A rank arrives.
LEMMA PhasedArrive ==
  ASSUME NEW Q, Q \in Queues, NEW r \in Peer, NEW s \in Stream, NEW p, Phased(Q, s, p),
         AtBarrier(Q, r, s), p[r] = "outside"
  PROVE  Phased(Q, s, Meet!Arrived(p, r))
<1> DEFINE n == Meet!Arrived(p, r)
<1>1. p \in [Peer -> Phase]
  BY DEF Phased
<1>2. \A q \in Peer : Len(Q[q][s]) \in Nat
  BY QueueFacts
<1>3. Len(Q[r][s]) - 1 \in Places(Q, r, s) /\ At(Q, r, s, Len(Q[r][s]) - 1).op = "barrier" /\ Len(Q[r][s]) > 0
  BY <1>2 DEF AtBarrier, Places
<1>4. ASSUME NEW q \in Peer PROVE Len(Q[r][s]) <= Len(Q[q][s])
  <2> SUFFICES ASSUME Len(Q[q][s]) < Len(Q[r][s]) PROVE FALSE
    BY <1>2
  <2>1. Len(Q[q][s]) <= Len(Q[r][s]) - 1
    BY <1>2
  <2>2. p[r] = "released"
    BY <2>1, <1>3 DEF Phased
  <2> QED
    BY <2>2
<1>5. CASE \A q \in Peer \ {r} : p[q] = "waits"
  <2>1. n = [q \in Peer |-> "released"]
    BY <1>5 DEF Meet!Arrived
  <2>2. \A q \in Peer : AtBarrier(Q, q, s)
    BY <1>5 DEF Phased
  <2>3. \A q \in Peer : Len(Q[q][s]) = Len(Q[r][s])
    <3> SUFFICES ASSUME NEW q \in Peer, q # r PROVE Len(Q[q][s]) = Len(Q[r][s])
      OBVIOUS
    <3>1. Len(Q[q][s]) <= Len(Q[r][s])
      BY <1>5 DEF Phased
    <3> QED
      BY <3>1, <1>2, <1>4
  <2>4. n \in [Peer -> Phase]
    BY <2>1 DEF Phase
  <2> HIDE DEF n
  <2>5. ASSUME NEW q \in Peer, NEW o \in Peer, NEW d \in Places(Q, q, s), Len(Q[o][s]) <= d PROVE FALSE
    BY <2>3, <2>5, <1>2 DEF Places
  <2>6. \A q \in Peer : n[q] = "released"
    BY <2>1
  <2>7. \A q, o \in Peer : Len(Q[q][s]) <= Len(Q[o][s])
    <3> TAKE q, o \in Peer
    <3>1. Len(Q[q][s]) = Len(Q[r][s]) /\ Len(Q[o][s]) = Len(Q[r][s]) /\ Len(Q[r][s]) \in Nat
      BY <2>3, <1>2
    <3> QED
      BY <3>1
  <2>8. Phased(Q, s, n)
    BY <2>2, <2>4, <2>5, <2>6, <2>7 DEF Phased
  <2> QED
    BY <2>8 DEF n
<1>6. CASE ~(\A q \in Peer \ {r} : p[q] = "waits")
  <2>1. n = [p EXCEPT ![r] = "waits"]
    BY <1>6 DEF Meet!Arrived
  <2>2. n \in [Peer -> Phase] /\ n[r] = "waits" /\ \A q \in Peer : q # r => n[q] = p[q]
    BY <2>1, <1>1 DEF Phase
  <2>3. PICK x \in Peer : x # r /\ p[x] # "waits"
    BY <1>6
  <2> HIDE DEF n
  <2>4. \A q \in Peer : n[q] # "outside" => AtBarrier(Q, q, s)
    BY <2>2 DEF Phased
  <2>5. \E q \in Peer : n[q] # "waits"
    BY <2>2, <2>3
  <2>6. \A q \in Peer : n[q] = "waits" => \A o \in Peer : Len(Q[q][s]) <= Len(Q[o][s])
    BY <2>2, <1>4 DEF Phased
  <2>7. ASSUME NEW q \in Peer, n[q] = "released", NEW o \in Peer
        PROVE  Len(Q[o][s]) <= Len(Q[q][s]) /\ (Len(Q[o][s]) = Len(Q[q][s]) => n[o] = "released")
    <3>1. q # r /\ p[q] = "released"
      BY <2>2, <2>7
    <3>2. Len(Q[o][s]) <= Len(Q[q][s]) /\ (Len(Q[o][s]) = Len(Q[q][s]) => p[o] = "released")
      BY <3>1 DEF Phased
    <3>3. p[o] = "released" => o # r
      OBVIOUS
    <3> QED
      BY <3>2, <3>3, <2>2
  <2>8. ASSUME NEW q \in Peer, NEW o \in Peer, NEW d \in Places(Q, q, s), At(Q, q, s, d).op = "barrier", Len(Q[o][s]) <= d
        PROVE  n[q] = "released" /\ d = Len(Q[q][s]) - 1
    <3>1. p[q] = "released" /\ d = Len(Q[q][s]) - 1
      BY <2>8 DEF Phased
    <3> QED
      BY <3>1, <2>2
  <2>9. Phased(Q, s, n)
    BY <2>2, <2>4, <2>5, <2>6, <2>7, <2>8 DEF Phased
  <2> QED
    BY <2>9 DEF n
<1> QED
  BY <1>5, <1>6

\* A rank leaves.
LEMMA PhasedLeave ==
  ASSUME NEW Q, QueuesOK(Q), NEW r \in Peer, NEW s \in Stream, NEW p, Phased(Q, s, p), Q[r][s] # <<>>,
         Head(Q[r][s]).op = "barrier", p[r] = "released"
  PROVE  Phased(Popped(Q, r, s), s, Meet!Left(p, r))
<1> DEFINE n == Meet!Left(p, r)
           P == Popped(Q, r, s)
<1>0. "barrier" # "wait"
  OBVIOUS
<1>1. /\ Len(Q[r][s]) \in Nat \ {0} /\ Len(P[r][s]) = Len(Q[r][s]) - 1
      /\ \A q \in Peer : Len(Q[q][s]) \in Nat /\ (q # r => Len(P[q][s]) = Len(Q[q][s]))
      /\ \A q \in Peer : \A d \in Places(P, q, s) : d \in Places(Q, q, s) /\ At(P, q, s, d).op = At(Q, q, s, d).op
  BY <1>0, PoppedLens
<1>2. n \in [Peer -> Phase] /\ n[r] = "outside" /\ \A q \in Peer : q # r => n[q] = p[q]
  BY DEF Meet!Left, Phased, Phase
<1>3. \A q \in Peer : Len(Q[q][s]) <= Len(Q[r][s]) /\ (Len(Q[q][s]) = Len(Q[r][s]) => p[q] = "released")
  BY DEF Phased
<1> HIDE DEF n, P
<1>4. ASSUME NEW q \in Peer, n[q] # "outside" PROVE AtBarrier(P, q, s)
  <2>1. q # r /\ p[q] = n[q]
    BY <1>2, <1>4
  <2>2. AtBarrier(Q, q, s)
    BY <2>1, <1>4 DEF Phased
  <2>3. Len(P[q][s]) = Len(Q[q][s]) /\ Len(P[q][s]) - 1 \in Places(P, q, s)
    BY <2>1, <2>2, <1>1 DEF AtBarrier, Places
  <2> QED
    BY <2>2, <2>3, <1>1 DEF AtBarrier
<1>5. ASSUME NEW q \in Peer, n[q] = "waits" PROVE (\A o \in Peer : Len(P[q][s]) <= Len(P[o][s])) /\ \E o \in Peer : n[o] # "waits"
  <2>1. q # r /\ p[q] = "waits"
    BY <1>2, <1>5
  <2>2. Len(Q[q][s]) # Len(Q[r][s])
    BY <2>1, <1>3
  <2>3. Len(Q[q][s]) <= Len(Q[r][s]) - 1
    BY <2>2, <1>1, <1>3
  <2>4. ASSUME NEW o \in Peer PROVE Len(P[q][s]) <= Len(P[o][s])
    <3>1. Len(Q[q][s]) <= Len(Q[o][s])
      BY <2>1 DEF Phased
    <3> QED
      BY <3>1, <2>1, <2>3, <1>1
  <2> QED
    BY <2>4, <1>2
<1>6. ASSUME NEW q \in Peer, n[q] = "released", NEW o \in Peer
      PROVE  Len(P[o][s]) <= Len(P[q][s]) /\ (Len(P[o][s]) = Len(P[q][s]) => n[o] = "released")
  <2>1. q # r /\ p[q] = "released"
    BY <1>2, <1>6
  <2>2. \A x \in Peer : Len(Q[x][s]) <= Len(Q[q][s]) /\ (Len(Q[x][s]) = Len(Q[q][s]) => p[x] = "released")
    BY <2>1 DEF Phased
  <2>3. Len(Q[q][s]) = Len(Q[r][s])
    BY <2>2, <1>1, <1>3
  <2>4. CASE o = r
    BY <2>1, <2>3, <2>4, <1>1
  <2>5. CASE o # r
    BY <2>1, <2>2, <2>5, <1>1, <1>2
  <2> QED
    BY <2>4, <2>5
<1>7. ASSUME NEW q \in Peer, NEW o \in Peer, NEW d \in Places(P, q, s), At(P, q, s, d).op = "barrier", Len(P[o][s]) <= d
      PROVE  n[q] = "released" /\ d = Len(P[q][s]) - 1
  <2>1. d \in Places(Q, q, s) /\ At(Q, q, s, d).op = "barrier"
    BY <1>1, <1>7
  <2>2. d \in Nat /\ d < Len(P[q][s])
    <3>1. Len(P[q][s]) \in Nat
      BY <1>1
    <3> QED
      BY <3>1 DEF Places
  <2>3. q # r
    <3> SUFFICES ASSUME q = r PROVE FALSE
      OBVIOUS
    <3>1. o # r
      BY <2>2, <1>7
    <3>2. d = Len(Q[r][s]) - 1
      BY <2>1, <3>1, <1>1, <1>7 DEF Phased
    <3> QED
      BY <3>2, <2>2, <1>1
  <2>4. CASE o # r
    <3>1. p[q] = "released" /\ d = Len(Q[q][s]) - 1
      BY <2>1, <2>4, <1>1, <1>7 DEF Phased
    <3> QED
      BY <3>1, <2>3, <1>1, <1>2
  <2>5. CASE o = r
    <3>1. Len(Q[q][s]) <= Len(Q[r][s]) /\ Len(P[q][s]) = Len(Q[q][s]) /\ Len(Q[r][s]) - 1 <= d
      BY <2>3, <2>5, <1>1, <1>3, <1>7
    <3>2. d = Len(Q[q][s]) - 1 /\ Len(Q[q][s]) = Len(Q[r][s])
      BY <3>1, <2>2, <1>1
    <3> QED
      BY <3>1, <3>2, <2>3, <1>2, <1>3
  <2> QED
    BY <2>4, <2>5
<1>8. Phased(P, s, n)
  BY <1>2, <1>4, <1>5, <1>6, <1>7 DEF Phased
<1> QED
  BY <1>8 DEF n, P

\* A rank runs something else.
LEMMA PhasedPass ==
  ASSUME NEW Q, QueuesOK(Q), NEW r \in Peer, NEW s \in Stream, NEW p, Phased(Q, s, p), Alike(Q), Q[r][s] # <<>>,
         Head(Q[r][s]).op # "barrier", Head(Q[r][s]).op = "wait" => Head(Q[r][s]).to = 0
  PROVE  Phased(Popped(Q, r, s), s, p)
<1> DEFINE P == Popped(Q, r, s)
<1>1. /\ Q \in Queues
      /\ Len(Q[r][s]) \in Nat \ {0} /\ Len(P[r][s]) = Len(Q[r][s]) - 1
      /\ \A q \in Peer : Len(Q[q][s]) \in Nat /\ (q # r => Len(P[q][s]) = Len(Q[q][s]))
      /\ \A q \in Peer : \A d \in Places(P, q, s) : d \in Places(Q, q, s) /\ At(P, q, s, d).op = At(Q, q, s, d).op
      /\ ~AtBarrier(Q, r, s)
  BY PoppedLens
<1>2. p \in [Peer -> Phase] /\ p[r] = "outside"
  BY <1>1 DEF Phased
<1>3. Len(Q[r][s]) - 1 \in Places(Q, r, s) /\ At(Q, r, s, Len(Q[r][s]) - 1).op # "barrier"
  BY <1>1 DEF AtBarrier, Places
<1>a. ASSUME NEW q \in Peer, AtBarrier(Q, q, s) PROVE Len(Q[q][s]) # Len(Q[r][s])
  <2> SUFFICES ASSUME Len(Q[q][s]) = Len(Q[r][s]) PROVE FALSE
    OBVIOUS
  <2>1. Len(Q[r][s]) - 1 \in Places(Q, q, s) /\ At(Q, q, s, Len(Q[r][s]) - 1).op = "barrier"
    BY <1>a, <1>1 DEF AtBarrier, Places
  <2> QED
    BY <2>1, <1>3 DEF Alike
<1> HIDE DEF P
<1>4. ASSUME NEW q \in Peer, p[q] # "outside" PROVE AtBarrier(P, q, s)
  <2>1. q # r /\ AtBarrier(Q, q, s)
    BY <1>2, <1>4 DEF Phased
  <2>3. Len(P[q][s]) = Len(Q[q][s]) /\ Len(P[q][s]) - 1 \in Places(P, q, s)
    BY <2>1, <1>1 DEF AtBarrier, Places
  <2> QED
    BY <2>1, <2>3, <1>1 DEF AtBarrier
<1>5. ASSUME NEW q \in Peer, p[q] = "waits" PROVE (\A o \in Peer : Len(P[q][s]) <= Len(P[o][s])) /\ \E o \in Peer : p[o] # "waits"
  <2>1. q # r /\ AtBarrier(Q, q, s) /\ \A o \in Peer : Len(Q[q][s]) <= Len(Q[o][s])
    BY <1>2, <1>5 DEF Phased
  <2>2. Len(Q[q][s]) # Len(Q[r][s])
    BY <2>1, <1>a
  <2>3. Len(Q[q][s]) <= Len(Q[r][s]) - 1
    BY <2>1, <2>2, <1>1
  <2> QED
    BY <2>1, <2>3, <1>1, <1>2
<1>6. ASSUME NEW q \in Peer, p[q] = "released", NEW o \in Peer
      PROVE  Len(P[o][s]) <= Len(P[q][s]) /\ (Len(P[o][s]) = Len(P[q][s]) => p[o] = "released")
  <2>1. q # r
    BY <1>2, <1>6
  <2>2. \A x \in Peer : Len(Q[x][s]) <= Len(Q[q][s]) /\ (Len(Q[x][s]) = Len(Q[q][s]) => p[x] = "released")
    BY <1>6 DEF Phased
  <2>4. CASE o = r
    BY <2>1, <2>2, <2>4, <1>1
  <2>5. CASE o # r
    BY <2>1, <2>2, <2>5, <1>1
  <2> QED
    BY <2>4, <2>5
<1>7. ASSUME NEW q \in Peer, NEW o \in Peer, NEW d \in Places(P, q, s), At(P, q, s, d).op = "barrier", Len(P[o][s]) <= d
      PROVE  p[q] = "released" /\ d = Len(P[q][s]) - 1
  <2>1. d \in Places(Q, q, s) /\ At(Q, q, s, d).op = "barrier"
    BY <1>1, <1>7
  <2>2. d \in Nat /\ d < Len(P[q][s])
    <3>1. Len(P[q][s]) \in Nat
      BY <1>1
    <3> QED
      BY <3>1 DEF Places
  <2>3. o = r => d # Len(Q[r][s]) - 1
    BY <2>1, <1>3 DEF Alike
  <2>4. Len(Q[o][s]) <= d
    BY <2>2, <2>3, <1>1, <1>7
  <2>5. p[q] = "released" /\ d = Len(Q[q][s]) - 1
    BY <2>1, <2>4 DEF Phased
  <2> QED
    BY <2>5, <1>1, <1>2
<1>8. Phased(P, s, p)
  BY <1>2, <1>4, <1>5, <1>6, <1>7 DEF Phased
<1> QED
  BY <1>8 DEF P

\* The other streams see nothing of it.
LEMMA PhasedOther ==
  ASSUME NEW Q, QueuesOK(Q), NEW r \in Peer, NEW s \in Stream, NEW t \in Stream, t # s, NEW p, Phased(Q, t, p), Q[r][s] # <<>>,
         Head(Q[r][s]).op = "wait" => Head(Q[r][s]).to = 0
  PROVE  Phased(Popped(Q, r, s), t, p)
<1> DEFINE P == Popped(Q, r, s)
<1>1. \A q \in Peer : /\ Len(Q[q][t]) \in Nat /\ Len(P[q][t]) = Len(Q[q][t])
                      /\ \A d \in Places(P, q, t) : d \in Places(Q, q, t) /\ At(P, q, t, d).op = At(Q, q, t, d).op
  BY PoppedLens
<1> HIDE DEF P
<1>2. ASSUME NEW q \in Peer, AtBarrier(Q, q, t) PROVE AtBarrier(P, q, t)
  <2>1. Len(P[q][t]) - 1 \in Places(P, q, t)
    BY <1>1, <1>2 DEF AtBarrier, Places
  <2> QED
    BY <2>1, <1>1, <1>2 DEF AtBarrier
<1>3. p \in [Peer -> Phase] /\ \A q \in Peer : p[q] # "outside" => AtBarrier(P, q, t)
  BY <1>2 DEF Phased
<1>4. \A q \in Peer : /\ p[q] = "waits" => (\A o \in Peer : Len(P[q][t]) <= Len(P[o][t])) /\ \E o \in Peer : p[o] # "waits"
                      /\ p[q] = "released" => \A o \in Peer : Len(P[o][t]) <= Len(P[q][t])
                                                              /\ (Len(P[o][t]) = Len(P[q][t]) => p[o] = "released")
  <2> DEFINE N(q) == Len(Q[q][t])
  <2>1. \A q \in Peer : Len(P[q][t]) = N(q)
    BY <1>1
  <2>2. \A q \in Peer : /\ p[q] = "waits" => (\A o \in Peer : N(q) <= N(o)) /\ \E o \in Peer : p[o] # "waits"
                        /\ p[q] = "released" => \A o \in Peer : N(o) <= N(q) /\ (N(o) = N(q) => p[o] = "released")
    BY DEF Phased
  <2> HIDE DEF N
  <2> QED
    BY <2>1, <2>2
<1>5. ASSUME NEW q \in Peer, NEW o \in Peer, NEW d \in Places(P, q, t), At(P, q, t, d).op = "barrier", Len(P[o][t]) <= d
      PROVE  p[q] = "released" /\ d = Len(P[q][t]) - 1
  <2>1. d \in Places(Q, q, t) /\ At(Q, q, t, d).op = "barrier" /\ Len(Q[o][t]) <= d
    BY <1>1, <1>5
  <2>2. p[q] = "released" /\ d = Len(Q[q][t]) - 1
    BY <2>1 DEF Phased
  <2> QED
    BY <2>2, <1>1
<1>6. Phased(P, t, p)
  BY <1>3, <1>4, <1>5 DEF Phased
<1> QED
  BY <1>6 DEF P

-----------------------------------------------------------------------------
(* The invariant, and what it tells of what is ready                     *)

HostOK(Q, h) ==
  /\ h \in [stream : Stream, handle : {"none", "open", "ended"}, side : SUBSET Block]
  /\ h.stream = 1 <=> h.handle = "open"
  /\ h.handle = "none" => h.side = {}
  /\ h.handle = "open" => Joined(Q, 1, 0)

CollectivesInv ==
  /\ Good(queue, Memory, host.side, {})
  /\ Lines(queue, barrier)
  /\ HostOK(queue, host)

\* All that is left, but for the first operation of a stream, is a closed cut.
LEMMA HeadNotAfter ==
  ASSUME NEW Q, QueuesOK(Q), NEW r \in Peer, NEW s \in Stream, NEW q \in Peer, NEW t \in Stream, <<r, s>> # <<q, t>>,
         Q[r][s] # <<>>, Q[q][t] # <<>>, Head(Q[q][t]).op \notin {"barrier", "wait"}
  PROVE  ~After(Q, r, s, Len(Q[r][s]) - 1, q, t, Len(Q[q][t]) - 1)
<1> DEFINE C == [p \in Peer |-> [u \in Stream |-> IF <<p, u>> = <<q, t>> THEN Len(Q[p][u]) - 1 ELSE Len(Q[p][u])]]
<1>1. Q \in Queues /\ \A p \in Peer, u \in Stream : Len(Q[p][u]) \in Nat
  BY QueueFacts DEF QueuesOK
<1>2. Len(Q[q][t]) \in Nat \ {0} /\ At(Q, q, t, Len(Q[q][t]) - 1) = Head(Q[q][t]) /\ Len(Q[r][s]) \in Nat \ {0}
  BY <1>1, HeadPlace
<1>3. \A p \in Peer, u \in Stream : C[p][u] = IF <<p, u>> = <<q, t>> THEN Len(Q[p][u]) - 1 ELSE Len(Q[p][u])
  OBVIOUS
<1>4. C \in Cut
  <2>1. \A p \in Peer, u \in Stream : (IF <<p, u>> = <<q, t>> THEN Len(Q[p][u]) - 1 ELSE Len(Q[p][u])) \in Nat
    BY <1>1, <1>2
  <2> QED
    BY <2>1 DEF Cut
<1> HIDE DEF C
<1>5. Closed(Q, C)
  <2> SUFFICES ASSUME NEW p \in Peer, NEW u \in Stream
               PROVE  /\ C[p][u] <= Len(Q[p][u])
                      /\ \A d \in C[p][u]..(Len(Q[p][u]) - 1) : At(Q, p, u, d).op \notin {"barrier", "wait"}
    BY DEF Closed
  <2>1. CASE <<p, u>> = <<q, t>>
    <3>1. p = q /\ u = t
      BY <2>1
    <3>2. \A d \in C[p][u]..(Len(Q[p][u]) - 1) : d = Len(Q[q][t]) - 1
      BY <3>1, <1>2, <1>3
    <3> QED
      BY <3>1, <3>2, <1>2, <1>3
  <2>2. CASE <<p, u>> # <<q, t>>
    BY <2>2, <1>1, <1>3
  <2> QED
    BY <2>1, <2>2
<1>6. C[q][t] = Len(Q[q][t]) - 1 /\ C[r][s] = Len(Q[r][s])
  BY <1>3
<1>7. C[q][t] <= Len(Q[q][t]) - 1 /\ ~(C[r][s] <= Len(Q[r][s]) - 1)
  BY <1>2, <1>6
<1> QED
  BY <1>4, <1>5, <1>7 DEF After

\* What two operations both touch, and one writes, makes them clash.
LEMMA TouchClash ==
  ASSUME NEW r \in Peer, NEW q \in Peer, NEW i, NEW j, Writes(r, i) \cap (Reads(q, j) \cup Writes(q, j)) # {}
  PROVE  Clash(r, i, q, j) \/ Clash(q, j, r, i)
<1>1. PICK x : x \in Writes(r, i) /\ x \in Reads(q, j) \cup Writes(q, j)
  OBVIOUS
<1>2. \/ LocalWrite(i, i.to) /\ \E slot \in Peer : x = <<r, i.to, slot>>
      \/ PushTo(i, i.to) /\ \E p \in Peer : x = <<p, i.to, r>>
  BY <1>1 DEF Writes, Own, Slot, LocalWrite, PushTo
<1>3. \/ LocalRead(j, j.from) /\ \E slot \in Peer : x = <<q, j.from, slot>>
      \/ PullFrom(j, j.from) /\ \E p \in Peer : x = <<p, j.from, q>>
      \/ LocalWrite(j, j.to) /\ \E slot \in Peer : x = <<q, j.to, slot>>
      \/ PushTo(j, j.to) /\ \E p \in Peer : x = <<p, j.to, q>>
  BY <1>1 DEF Reads, Writes, Own, Slot, LocalRead, PullFrom, LocalWrite, PushTo
<1>4. \E b : Uses(j, b) /\ b = i.to
  BY <1>2, <1>3 DEF Uses
<1>5. CASE r = q
  BY <1>2, <1>4, <1>5 DEF Clash
<1>6. CASE r # q
  BY <1>2, <1>3, <1>6 DEF Clash
<1> QED
  BY <1>5, <1>6

\* What clashes with another operation does not wait for anything.
LEMMA ClashOps ==
  ASSUME NEW r, NEW q, NEW i, NEW j, Clash(r, i, q, j)
  PROVE  i.op \notin {"barrier", "wait"} /\ j.op \notin {"barrier", "wait"}
  BY DEF Clash, Uses, LocalRead, LocalWrite, PushTo, PullFrom

\* Operations ready together are not ordered, so none of them clash.
LEMMA NoRaceInv == CollectivesInv => NoRace
<1> SUFFICES ASSUME CollectivesInv, NEW r \in Peer, NEW q \in Peer, NEW s \in Stream, NEW t \in Stream,
                    <<r, s>> # <<q, t>>, Ready(r, s), Ready(q, t)
             PROVE  Writes(r, Head(queue[r][s])) \cap (Reads(q, Head(queue[q][t])) \cup Writes(q, Head(queue[q][t]))) = {}
  BY DEF NoRace
<1> DEFINE i == Head(queue[r][s])
           j == Head(queue[q][t])
           d == Len(queue[r][s]) - 1
           e == Len(queue[q][t]) - 1
<1> SUFFICES ASSUME Writes(r, i) \cap (Reads(q, j) \cup Writes(q, j)) # {} PROVE FALSE
  OBVIOUS
<1>1. QueuesOK(queue) /\ queue \in Queues /\ Ordered(queue) /\ queue[r][s] # <<>> /\ queue[q][t] # <<>>
  BY DEF CollectivesInv, Good, QueuesOK, Ready
<1>2. d \in Places(queue, r, s) /\ At(queue, r, s, d) = i /\ e \in Places(queue, q, t) /\ At(queue, q, t, e) = j
  BY <1>1, HeadPlace
<1> HIDE DEF i, j
<1>3. Clash(r, i, q, j) \/ Clash(q, j, r, i)
  BY TouchClash
<1>4. i.op \notin {"barrier", "wait"} /\ j.op \notin {"barrier", "wait"}
  BY <1>3, ClashOps
<1>5. ~After(queue, r, s, d, q, t, e) /\ ~After(queue, q, t, e, r, s, d)
  BY <1>1, <1>4, HeadNotAfter DEF i, j
<1>6. <<r, s, d>> # <<q, t, e>>
  OBVIOUS
<1> HIDE DEF d, e
<1> QED
  BY <1>1, <1>2, <1>3, <1>5, <1>6 DEF Ordered

\* A set of numbers has a least one.
LEMMA LeastOf ==
  ASSUME NEW S \in SUBSET Nat, S # {}
  PROVE  \E m \in S : \A n \in S : m <= n
<1>1. PICK m \in S : \A n \in S : ~(<<n, m>> \in OpToRel(<, Nat))
  BY NatLessThanWellFounded, WFMin
<1>2. \A n \in S : ~(n < m)
  <2> SUFFICES ASSUME NEW n \in S, n < m PROVE FALSE
    OBVIOUS
  <2>1. <<n, m>> \in Nat \X Nat /\ n < m
    OBVIOUS
  <2>2. <<n, m>> \in OpToRel(<, Nat)
    BY <2>1 DEF OpToRel
  <2> QED
    BY <1>1, <2>2
<1> QED
  BY <1>2

\* The oldest of the first operations can run.
LEMMA SomebodyRunsInv == CollectivesInv => SomebodyRuns
<1> SUFFICES ASSUME CollectivesInv, NEW r0 \in Peer, NEW s0 \in Stream, queue[r0][s0] # <<>>
             PROVE  \E r \in Peer : \E s \in Stream : Ready(r, s)
  BY DEF SomebodyRuns
<1>1. QueuesOK(queue) /\ queue \in Queues /\ Lines(queue, barrier)
  BY DEF CollectivesInv, Good, QueuesOK
<1>2. PICK a \in Ages, n \in Nat : Dated(queue, a) /\ Bounded(queue, n)
  BY <1>1 DEF Lines, Aged
<1>3. \A s \in Stream : \A d \in Nat : a[s][d] \in Nat
  BY DEF Ages
<1>4. \A r \in Peer, s \in Stream : Len(queue[r][s]) \in Nat
  BY <1>1, QueueFacts
<1> DEFINE Age(r, s) == a[s][Len(queue[r][s]) - 1]
           Top == a[0][n] + a[1][n]
           Left == {x \in Peer \X Stream : queue[x[1]][x[2]] # <<>>}
           S == {Top - Age(x[1], x[2]) : x \in Left}
<1>5. \A x \in Left : Age(x[1], x[2]) \in Nat /\ Age(x[1], x[2]) <= Top
  <2> SUFFICES ASSUME NEW r \in Peer, NEW s \in Stream, queue[r][s] # <<>>
               PROVE  Age(r, s) \in Nat /\ Age(r, s) <= Top
    OBVIOUS
  <2>1. Len(queue[r][s]) \in Nat \ {0} /\ Len(queue[r][s]) <= n
    BY <1>1, <1>2, HeadPlace DEF Bounded
  <2>2. Len(queue[r][s]) - 1 \in Nat /\ Len(queue[r][s]) - 1 < n
    BY <2>1
  <2>3. a[s][Len(queue[r][s]) - 1] < a[s][n]
    BY <2>2, <1>2 DEF Dated
  <2>4. a[s][Len(queue[r][s]) - 1] \in Nat /\ a[s][n] \in Nat /\ a[0][n] \in Nat /\ a[1][n] \in Nat
    BY <2>2, <1>3 DEF Stream
  <2>5. a[s][n] <= Top
    BY <2>4 DEF Stream
  <2> QED
    BY <2>3, <2>4, <2>5
<1>6. Top \in Nat
  BY <1>3 DEF Stream
<1>7. S \in SUBSET Nat /\ S # {}
  <2>1. <<r0, s0>> \in Left
    OBVIOUS
  <2>2. \A x \in Left : Top - Age(x[1], x[2]) \in Nat
    <3> HIDE DEF Left, Age, Top
    <3> QED
      BY <1>5, <1>6
  <2> QED
    BY <2>1, <2>2
<1>8. PICK k \in S : \A l \in S : k <= l
  <2> HIDE DEF S
  <2> QED
    BY <1>7, LeastOf
<1>9. PICK r \in Peer, s \in Stream : <<r, s>> \in Left /\ k = Top - Age(r, s)
  OBVIOUS
<1>10. \A q \in Peer, t \in Stream : queue[q][t] # <<>> => Age(q, t) <= Age(r, s)
  <2> TAKE q \in Peer, t \in Stream
  <2> HAVE queue[q][t] # <<>>
  <2>1. <<q, t>> \in Left
    OBVIOUS
  <2>2. Top - Age(q, t) \in S
    BY <2>1
  <2>3. Top - Age(r, s) <= Top - Age(q, t)
    BY <2>2, <1>8, <1>9
  <2>4. Age(q, t) \in Nat /\ Age(r, s) \in Nat
    BY <2>1, <1>5, <1>9
  <2> HIDE DEF Age, Top, S, Left
  <2> QED
    BY <2>3, <2>4, <1>6
<1>11. queue[r][s] # <<>>
  BY <1>9
<1> HIDE DEF Top, S, Left
<1> DEFINE i == Head(queue[r][s])
           d == Len(queue[r][s]) - 1
<1>12. Len(queue[r][s]) \in Nat \ {0} /\ d \in Places(queue, r, s) /\ At(queue, r, s, d) = i /\ d \in Nat
  BY <1>1, <1>11, HeadPlace
<1>13. CASE i.op \notin {"barrier", "wait"}
  <2>1. Ready(r, s)
    BY <1>11, <1>13 DEF Ready
  <2> QED
    BY <2>1
<1>14. CASE i.op = "wait"
  <2>1. i.to = 0
    <3> SUFFICES ASSUME i.to # 0 PROVE FALSE
      OBVIOUS
    <3>1. i.to \in Nat /\ i.to <= Len(queue[r][1 - s]) /\ i.to > 0
      <4>1. At(queue, r, s, d).to <= Len(queue[r][1 - s]) /\ At(queue, r, s, d).to \in Nat
        BY <1>1, <1>12, <1>14, WaitFacts
      <4> HIDE DEF d, i
      <4> QED
        BY <4>1, <1>12
    <3>2. 1 - s \in Stream
      BY DEF Stream
    <3>3. Len(queue[r][1 - s]) \in Nat \ {0} /\ queue[r][1 - s] # <<>>
      <4>1. Len(queue[r][1 - s]) \in Nat
        BY <1>4, <3>2
      <4>2. Len(queue[r][1 - s]) # 0
        BY <4>1, <3>1
      <4> QED
        BY <4>1, <4>2
    <3> DEFINE x == Len(queue[r][1 - s]) - i.to
    <3>4. x \in Nat /\ x <= Len(queue[r][1 - s]) - 1
      BY <3>1, <3>3
    <3>5. a[s][d] < a[1 - s][x]
      <4>1. At(queue, r, s, d).op = "wait" /\ At(queue, r, s, d).to > 0
        BY <1>12, <1>14, <3>1
      <4>2. a[s][d] < a[1 - s][Len(queue[r][1 - s]) - At(queue, r, s, d).to]
        BY <4>1, <1>2, <1>12 DEF Dated
      <4> QED
        BY <4>2, <1>12
    <3>6. a[1 - s][Len(queue[r][1 - s]) - 1] <= a[s][d]
      BY <1>10, <3>2, <3>3
    <3>7. Len(queue[r][1 - s]) - 1 \in Nat
      BY <3>3
    <3>8. a[1 - s][x] <= a[1 - s][Len(queue[r][1 - s]) - 1]
      <4>1. CASE x = Len(queue[r][1 - s]) - 1
        BY <4>1, <3>2, <3>7, <1>3
      <4>2. CASE x # Len(queue[r][1 - s]) - 1
        <5>1. x < Len(queue[r][1 - s]) - 1
          BY <4>2, <3>4, <3>7
        <5>2. a[1 - s][x] < a[1 - s][Len(queue[r][1 - s]) - 1]
          BY <5>1, <3>2, <3>4, <3>7, <1>2 DEF Dated
        <5> QED
          BY <5>2, <3>2, <3>4, <3>7, <1>3
      <4> QED
        BY <4>1, <4>2
    <3>9. a[s][d] \in Nat /\ a[1 - s][x] \in Nat /\ a[1 - s][Len(queue[r][1 - s]) - 1] \in Nat
      BY <1>3, <1>12, <3>2, <3>4, <3>7
    <3> HIDE DEF x, d, i
    <3> QED
      BY <3>5, <3>6, <3>8, <3>9
  <2>2. Ready(r, s)
    BY <1>11, <1>14, <2>1 DEF Ready
  <2> QED
    BY <2>2
<1>15. CASE i.op = "barrier"
  <2> DEFINE p == barrier[s]
  <2>1. Phased(queue, s, p) /\ Alike(queue) /\ p \in [Peer -> Phase]
    BY <1>1 DEF Lines
  <2>2. \A q \in Peer : Len(queue[q][s]) <= Len(queue[r][s])
    <3> SUFFICES ASSUME NEW q \in Peer, ~(Len(queue[q][s]) <= Len(queue[r][s])) PROVE FALSE
      OBVIOUS
    <3>1. Len(queue[q][s]) \in Nat /\ d < Len(queue[q][s]) - 1 /\ Len(queue[q][s]) - 1 \in Nat /\ Len(queue[q][s]) # 0
      BY <1>4, <1>12
    <3>2. queue[q][s] # <<>>
      BY <3>1
    <3>3. a[s][d] < a[s][Len(queue[q][s]) - 1]
      BY <3>1, <1>2, <1>12 DEF Dated
    <3>4. a[s][Len(queue[q][s]) - 1] <= a[s][d]
      BY <1>10, <3>2
    <3>5. a[s][d] \in Nat /\ a[s][Len(queue[q][s]) - 1] \in Nat
      BY <1>3, <1>12, <3>1
    <3> HIDE DEF d
    <3> QED
      BY <3>3, <3>4, <3>5
  <2>3. CASE p[r] # "waits"
    <3>1. p[r] = "outside" \/ p[r] = "released"
      BY <2>1, <2>3 DEF Phase
    <3>2. Ready(r, s)
      BY <3>1, <1>11, <1>15 DEF Ready, Meet!CanArrive, Meet!CanLeave
    <3> QED
      BY <3>2
  <2>4. CASE p[r] = "waits"
    <3>1. (\A q \in Peer : Len(queue[r][s]) <= Len(queue[q][s])) /\ \E q \in Peer : p[q] # "waits"
      BY <2>1, <2>4 DEF Phased
    <3>2. PICK q \in Peer : p[q] # "waits"
      BY <3>1
    <3>3. Len(queue[q][s]) = Len(queue[r][s])
      <4>1. Len(queue[q][s]) <= Len(queue[r][s]) /\ Len(queue[r][s]) <= Len(queue[q][s])
        BY <2>2, <3>1
      <4> QED
        BY <4>1, <1>4
    <3>4. queue[q][s] # <<>> /\ d \in Places(queue, q, s)
      BY <3>3, <1>12 DEF Places
    <3>5. At(queue, q, s, d) = Head(queue[q][s])
      <4>1. At(queue, q, s, Len(queue[q][s]) - 1) = Head(queue[q][s])
        BY <1>1, <3>4, HeadPlace
      <4> QED
        BY <3>3, <4>1
    <3>6. Head(queue[q][s]).op = "barrier"
      <4>1. At(queue, r, s, d).op = "barrier" <=> At(queue, q, s, d).op = "barrier"
        BY <1>12, <2>1, <3>4 DEF Alike
      <4> QED
        BY <4>1, <1>12, <1>15, <3>5
    <3>7. p[q] = "outside" \/ p[q] = "released"
      BY <2>1, <3>2 DEF Phase
    <3>8. Ready(q, s)
      BY <3>4, <3>6, <3>7 DEF Ready, Meet!CanArrive, Meet!CanLeave
    <3> QED
      BY <3>8
  <2> QED
    BY <2>3, <2>4
<1> QED
  BY <1>13, <1>14, <1>15

-----------------------------------------------------------------------------
(* The empty queues, and one operation less                              *)

\* Nothing is queued, and all memory clean, at first.
LEMMA CollectivesInitInv == CollectivesInit => CollectivesInv
<1> SUFFICES ASSUME CollectivesInit PROVE CollectivesInv
  OBVIOUS
<1>1. \A r \in Peer, s \in Stream : queue[r][s] = <<>> /\ Len(queue[r][s]) = 0 /\ Places(queue, r, s) = {} /\ DOMAIN queue[r][s] = {}
  <2>1. \A r \in Peer, s \in Stream : queue[r][s] = <<>>
    BY DEF CollectivesInit
  <2> QED
    BY <2>1 DEF Places
<1>2. QueuesOK(queue)
  <2>1. queue \in Queues
    <3>1. <<>> \in Seq(Item)
      OBVIOUS
    <3> QED
      BY <3>1 DEF CollectivesInit, Queues
  <2>2. Waiting(queue)
    BY <1>1 DEF Waiting
  <2> QED
    BY <2>1, <2>2 DEF QueuesOK
<1>3. Ordered(queue)
  BY <1>1 DEF Ordered
<1>4. Sound(queue, Memory, host.side, {})
  BY <1>1 DEF Sound
<1>5. Books(Memory)
  <2>1. heap \in [Block -> HeapKey] /\ back \in [Block -> BackKey] /\ sources \in [Stream -> SUBSET Block] /\ pending = {} /\ dropped = {}
    BY Keys DEF CollectivesInit
  <2>2. \A s \in Stream : sources[s] = {}
    BY DEF CollectivesInit
  <2> QED
    BY <2>1, <2>2 DEF Books, Memory
<1>6. Lines(queue, barrier)
  <2>1. barrier \in [Stream -> [Peer -> Phase]] /\ \A s \in Stream, r \in Peer : barrier[s][r] = "outside"
    BY DEF CollectivesInit, Meet!Outside, Phase
  <2>2. Alike(queue)
    BY <1>1 DEF Alike
  <2>3. Aged(queue)
    <3> DEFINE a == [s \in Stream |-> [d \in Nat |-> d]]
    <3>1. a \in Ages /\ \A s \in Stream : \A d \in Nat : a[s][d] = d
      BY DEF Ages
    <3> HIDE DEF a
    <3>2. Dated(queue, a)
      BY <1>1, <3>1 DEF Dated
    <3>3. Bounded(queue, 0)
      BY <1>1 DEF Bounded
    <3> QED
      BY <3>1, <3>2, <3>3 DEF Aged
  <2>4. \A s \in Stream : Phased(queue, s, barrier[s])
    <3> SUFFICES ASSUME NEW s \in Stream PROVE Phased(queue, s, barrier[s])
      OBVIOUS
    <3>1. \A r \in Peer : barrier[s][r] = "outside"
      BY <2>1
    <3>2. barrier[s] \in [Peer -> Phase]
      BY <2>1
    <3> QED
      BY <1>1, <3>1, <3>2 DEF Phased
  <2> QED
    BY <2>1, <2>2, <2>3, <2>4 DEF Lines
<1>7. HostOK(queue, host)
  BY DEF CollectivesInit, HostOK, Stream
<1> QED
  BY <1>2, <1>3, <1>4, <1>5, <1>6, <1>7 DEF CollectivesInv, Good

\* An operation that is done leaves the others as they were ordered.
LEMMA GoodPopped ==
  ASSUME NEW Q, NEW m, NEW side, NEW U, Good(Q, m, side, U), NEW r \in Peer, NEW s \in Stream, Passable(Q, r, s)
  PROVE  Good(Popped(Q, r, s), m, side, U)
<1> DEFINE P == Popped(Q, r, s)
<1>1. QueuesOK(Q) /\ Ordered(Q) /\ Sound(Q, m, side, U) /\ Books(m)
  BY DEF Good
<1>2. Q[r][s] # <<>> /\ (Head(Q[r][s]).op = "wait" => Head(Q[r][s]).to = 0)
  BY DEF Passable
<1>3. /\ QueuesOK(P)
      /\ \A q \in Peer, t \in Stream : \A d \in Places(P, q, t) :
           /\ d \in Places(Q, q, t)
           /\ At(P, q, t, d).op = At(Q, q, t, d).op
           /\ At(Q, q, t, d).op # "wait" => At(P, q, t, d) = At(Q, q, t, d)
  BY <1>1, <1>2, PoppedFacts
<1> HIDE DEF P
<1>4. Ordered(P)
  <2> SUFFICES ASSUME NEW p \in Peer, NEW q \in Peer, NEW u \in Stream, NEW t \in Stream,
                      NEW d \in Places(P, p, u), NEW e \in Places(P, q, t),
                      <<p, u, d>> # <<q, t, e>>, Clash(p, At(P, p, u, d), q, At(P, q, t, e))
               PROVE  After(P, p, u, d, q, t, e) \/ After(P, q, t, e, p, u, d)
    BY DEF Ordered
  <2>1. At(P, p, u, d).op # "wait" /\ At(P, q, t, e).op # "wait"
    BY ClashOps
  <2>2. At(P, p, u, d) = At(Q, p, u, d) /\ At(P, q, t, e) = At(Q, q, t, e) /\ d \in Places(Q, p, u) /\ e \in Places(Q, q, t)
    BY <1>3, <2>1
  <2>3. After(Q, p, u, d, q, t, e) \/ After(Q, q, t, e, p, u, d)
    BY <1>1, <2>2 DEF Ordered
  <2> QED
    BY <2>3, <1>1, PoppedAfter DEF P
<1>5. Sound(P, m, side, U)
  <2> SUFFICES ASSUME NEW q \in Peer, NEW t \in Stream, NEW d \in Places(P, q, t), NEW b \in Block, Uses(At(P, q, t, d), b)
               PROVE  Use(At(P, q, t, d), t, b, Known(P, q, t, d), Fenced(P, q, t, d), m, side, U)
    BY DEF Sound
  <2>1. At(P, q, t, d).op # "wait"
    BY DEF Uses, LocalRead, LocalWrite, PushTo, PullFrom
  <2>2. At(P, q, t, d) = At(Q, q, t, d) /\ d \in Places(Q, q, t)
    BY <1>3, <2>1
  <2>3. Use(At(Q, q, t, d), t, b, Known(Q, q, t, d), Fenced(Q, q, t, d), m, side, U)
    BY <1>1, <2>2 DEF Sound
  <2>4. Known(Q, q, t, d) \subseteq Known(P, q, t, d) /\ Fenced(Q, q, t, d) \subseteq Fenced(P, q, t, d)
    BY <1>1, PoppedKnown DEF P
  <2> QED
    BY <2>2, <2>3, <2>4, UseMonotonic
<1> QED
  BY <1>1, <1>3, <1>4, <1>5 DEF Good, P

\* Run, a stream's next operation, preserves the invariant.
LEMMA RunInv ==
  ASSUME CollectivesInv, NEW r \in Peer, NEW s \in Stream, Run(r, s)
  PROVE  CollectivesInv'
<1>1. /\ Good(queue, Memory, host.side, {}) /\ Lines(queue, barrier) /\ HostOK(queue, host)
      /\ QueuesOK(queue) /\ queue \in Queues
  BY DEF CollectivesInv, Good, QueuesOK
<1>2. Memory' = Memory /\ host' = host
  BY DEF Run, Memory
<1>3. /\ barrier \in [Stream -> [Peer -> Phase]] /\ Alike(queue) /\ Aged(queue)
      /\ \A t \in Stream : Phased(queue, t, barrier[t])
  BY <1>1 DEF Lines
<1>4. queue[r][s] # <<>> /\ Ready(r, s)
  BY DEF Run, Ready
<1>5. Len(queue[r][s]) \in Nat \ {0} /\ At(queue, r, s, Len(queue[r][s]) - 1) = Head(queue[r][s])
  BY <1>1, <1>4, HeadPlace
<1>6. CASE Head(queue[r][s]).op = "barrier" /\ Meet!CanArrive(barrier[s], r)
  <2>1. barrier' = [barrier EXCEPT ![s] = Meet!Arrived(@, r)] /\ queue' = queue
    BY <1>6 DEF Run
  <2>2. AtBarrier(queue, r, s) /\ barrier[s][r] = "outside"
    BY <1>5, <1>6 DEF AtBarrier, Meet!CanArrive
  <2>3. Phased(queue, s, Meet!Arrived(barrier[s], r))
    BY <1>1, <1>3, <2>2, PhasedArrive
  <2>4. Lines(queue, barrier')
    <3>1. Meet!Arrived(barrier[s], r) \in [Peer -> Phase]
      BY <2>3 DEF Phased
    <3>2. barrier' \in [Stream -> [Peer -> Phase]]
      BY <1>3, <2>1, <3>1
    <3>3. \A t \in Stream : Phased(queue, t, barrier'[t])
      BY <1>3, <2>1, <2>3
    <3> QED
      BY <1>3, <3>2, <3>3 DEF Lines
  <2> QED
    BY <1>1, <1>2, <2>1, <2>4 DEF CollectivesInv
<1>7. CASE ~(Head(queue[r][s]).op = "barrier" /\ Meet!CanArrive(barrier[s], r))
  <2> DEFINE P == Popped(queue, r, s)
  <2>1. queue' = P
    BY <1>7 DEF Run, Pop, Popped
  <2>2. Head(queue[r][s]).op = "wait" => Head(queue[r][s]).to = 0
    BY <1>4 DEF Ready
  <2>3. Head(queue[r][s]).op = "barrier" => barrier[s][r] = "released"
    BY <1>4, <1>7 DEF Ready, Meet!CanLeave
  <2>4. Passable(queue, r, s)
    <3>1. Head(queue[r][s]).op = "barrier" => \A q \in Peer : Len(queue[q][s]) <= Len(queue[r][s])
      BY <1>3, <2>3 DEF Phased
    <3> QED
      BY <1>4, <2>2, <3>1 DEF Passable
  <2>5. Good(P, Memory, host.side, {})
    BY <1>1, <2>4, GoodPopped
  <2>6. Alike(P) /\ Aged(P)
    BY <1>1, <1>3, <1>4, <2>2, AlikePopped, AgedPopped
  <2>7. \A t \in Stream : t # s => Phased(P, t, barrier[t])
    BY <1>1, <1>3, <1>4, <2>2, PhasedOther
  <2>8. HostOK(P, host)
    <3>1. Joined(queue, 1, 0) => Joined(P, 1, 0)
      BY <1>1, <2>4, PoppedJoined
    <3> QED
      BY <1>1, <3>1 DEF HostOK
  <2>9. Lines(P, barrier')
    <3>1. CASE Head(queue[r][s]).op = "barrier"
      <4>1. barrier' = [barrier EXCEPT ![s] = Meet!Left(@, r)]
        BY <1>7, <3>1 DEF Run
      <4>2. Phased(P, s, Meet!Left(barrier[s], r))
        BY <1>1, <1>3, <1>4, <2>3, <3>1, PhasedLeave
      <4>3. Meet!Left(barrier[s], r) \in [Peer -> Phase]
        BY <4>2 DEF Phased
      <4>4. barrier' \in [Stream -> [Peer -> Phase]]
        BY <1>3, <4>1, <4>3
      <4>5. \A t \in Stream : Phased(P, t, barrier'[t])
        BY <1>3, <4>1, <4>2, <2>7
      <4> QED
        BY <2>6, <4>4, <4>5 DEF Lines
    <3>2. CASE Head(queue[r][s]).op # "barrier"
      <4>1. barrier' = barrier
        BY <1>7, <3>2 DEF Run
      <4>2. Phased(P, s, barrier[s])
        BY <1>1, <1>3, <1>4, <2>2, <3>2, PhasedPass
      <4> QED
        BY <1>3, <2>6, <2>7, <4>1, <4>2 DEF Lines
    <3> QED
      BY <3>1, <3>2
  <2> QED
    BY <1>2, <2>1, <2>5, <2>8, <2>9 DEF CollectivesInv
<1> QED
  BY <1>6, <1>7

-----------------------------------------------------------------------------
(* What an operation of the host starts from                             *)

\* What is queued at once is queued one after another.
Put(Q, items, s) == [r \in Peer |-> [Q[r] EXCEPT ![s] = @ \o items]]

\* Queueing a list is queueing its operations in turn.
LEMMA PutAppend ==
  ASSUME NEW Q, Q \in Queues, NEW s \in Stream
  PROVE  /\ Put(Q, <<>>, s) = Q
         /\ \A items \in Seq(Item), x \in Item : Put(Q, Append(items, x), s) = Grown(Put(Q, items, s), s, Alone(x))
<1>1. \A P \in Queues, x \in Item : Grown(P, s, Alone(x)) \in Queues
      /\ Grown(P, s, Alone(x)) = [r \in Peer |-> [t \in Stream |-> IF t = s THEN Append(P[r][t], x) ELSE P[r][t]]]
  <2> SUFFICES ASSUME NEW P \in Queues, NEW x \in Item
               PROVE  Grown(P, s, Alone(x)) \in Queues
                      /\ Grown(P, s, Alone(x)) = [r \in Peer |-> [t \in Stream |-> IF t = s THEN Append(P[r][t], x) ELSE P[r][t]]]
    OBVIOUS
  <2>1. Alone(x) \in [Peer -> Item] /\ \A r \in Peer : Alone(x)[r] = x
    BY DEF Alone
  <2>2. Grown(P, s, Alone(x)) \in Queues
    BY <2>1, GrownFacts
  <2>3. Grown(P, s, Alone(x)) = [r \in Peer |-> [t \in Stream |-> IF t = s THEN Append(P[r][t], x) ELSE P[r][t]]]
    BY <2>1 DEF Grown
  <2> QED
    BY <2>2, <2>3
<1>2. \A items \in Seq(Item) : /\ Put(Q, items, s) \in Queues
                               /\ Put(Q, items, s) = [r \in Peer |-> [t \in Stream |-> IF t = s THEN Q[r][t] \o items ELSE Q[r][t]]]
  <2> SUFFICES ASSUME NEW items \in Seq(Item)
               PROVE  /\ Put(Q, items, s) \in Queues
                      /\ Put(Q, items, s) = [r \in Peer |-> [t \in Stream |-> IF t = s THEN Q[r][t] \o items ELSE Q[r][t]]]
    OBVIOUS
  <2>1. \A r \in Peer : Q[r] \in [Stream -> Seq(Item)] /\ Q[r][s] \in Seq(Item)
    BY QueueFacts
  <2>2. \A r \in Peer : /\ [Q[r] EXCEPT ![s] = @ \o items] \in [Stream -> Seq(Item)]
                         /\ [Q[r] EXCEPT ![s] = @ \o items] = [t \in Stream |-> IF t = s THEN Q[r][t] \o items ELSE Q[r][t]]
    <3> TAKE r \in Peer
    <3>1. Q[r][s] \o items \in Seq(Item)
      BY <2>1
    <3>2. [Q[r] EXCEPT ![s] = Q[r][s] \o items] \in [Stream -> Seq(Item)]
      BY <2>1, <3>1
    <3>3. Q[r] \in [Stream -> Seq(Item)]
      BY <2>1
    <3>4. [Q[r] EXCEPT ![s] = Q[r][s] \o items] = [t \in Stream |-> IF t = s THEN Q[r][t] \o items ELSE Q[r][t]]
      BY <3>3
    <3> QED
      BY <3>2, <3>4
  <2> QED
    BY <2>2 DEF Queues, Put
<1>3. ASSUME NEW items \in Seq(Item), NEW x \in Item
      PROVE  Put(Q, Append(items, x), s) = Grown(Put(Q, items, s), s, Alone(x))
  <2>1. \A q \in Seq(Item) : q \o Append(items, x) = Append(q \o items, x)
    BY ConcatAssociative, AppendIsConcat, ConcatProperties
  <2>2. \A r \in Peer, t \in Stream : Q[r][t] \in Seq(Item)
    BY QueueFacts
  <2>3. Append(items, x) \in Seq(Item)
    OBVIOUS
  <2>4. Put(Q, Append(items, x), s) = [r \in Peer |-> [t \in Stream |-> IF t = s THEN Append(Q[r][t] \o items, x) ELSE Q[r][t]]]
    <3>1. Put(Q, Append(items, x), s) = [r \in Peer |-> [t \in Stream |-> IF t = s THEN Q[r][t] \o Append(items, x) ELSE Q[r][t]]]
      BY <1>2, <2>3
    <3> QED
      BY <2>1, <2>2, <3>1
  <2>5. Put(Q, items, s) \in Queues /\ Put(Q, items, s) = [r \in Peer |-> [t \in Stream |-> IF t = s THEN Q[r][t] \o items ELSE Q[r][t]]]
    BY <1>2
  <2>6. \A r \in Peer, t \in Stream : Put(Q, items, s)[r][t] = IF t = s THEN Q[r][t] \o items ELSE Q[r][t]
    BY <2>5
  <2>7. Grown(Put(Q, items, s), s, Alone(x)) =
          [r \in Peer |-> [t \in Stream |-> IF t = s THEN Append(Put(Q, items, s)[r][t], x) ELSE Put(Q, items, s)[r][t]]]
    BY <1>1, <2>5
  <2> QED
    BY <2>4, <2>6, <2>7
<1>4. Put(Q, <<>>, s) = Q
  <2>1. \A r \in Peer, t \in Stream : Q[r][t] \o <<>> = Q[r][t]
    BY QueueFacts, ConcatEmptySeq
  <2>2. Put(Q, <<>>, s) = [r \in Peer |-> [t \in Stream |-> IF t = s THEN Q[r][t] \o <<>> ELSE Q[r][t]]]
    <3>1. <<>> \in Seq(Item)
      OBVIOUS
    <3> QED
      BY <1>2, <3>1
  <2>3. Q = [r \in Peer |-> [t \in Stream |-> Q[r][t]]]
    <3>1. \A r \in Peer : Q[r] = [t \in Stream |-> Q[r][t]]
      BY QueueFacts
    <3> QED
      BY <3>1 DEF Queues
  <2> QED
    BY <2>1, <2>2, <2>3
<1> QED
  BY <1>3, <1>4

\* Queueing one operation.
LEMMA PutOne ==
  ASSUME NEW Q, Q \in Queues, NEW s \in Stream, NEW a \in Item
  PROVE  Put(Q, <<a>>, s) = Grown(Q, s, Alone(a))
<1>1. <<a>> = Append(<<>>, a) /\ <<>> \in Seq(Item)
  OBVIOUS
<1>2. Put(Q, Append(<<>>, a), s) = Grown(Put(Q, <<>>, s), s, Alone(a)) /\ Put(Q, <<>>, s) = Q
  BY <1>1, PutAppend
<1> QED
  BY <1>1, <1>2

\* Queueing two.
LEMMA PutTwo ==
  ASSUME NEW Q, Q \in Queues, NEW s \in Stream, NEW a \in Item, NEW b \in Item
  PROVE  Put(Q, <<a, b>>, s) = Grown(Grown(Q, s, Alone(a)), s, Alone(b))
<1>1. <<a, b>> = Append(<<a>>, b) /\ <<a>> \in Seq(Item)
  OBVIOUS
<1>2. Put(Q, Append(<<a>>, b), s) = Grown(Put(Q, <<a>>, s), s, Alone(b))
  BY <1>1, PutAppend
<1>3. Put(Q, <<a>>, s) = Grown(Q, s, Alone(a))
  BY PutOne
<1>4. Put(Q, <<a, b>>, s) = Put(Q, Append(<<a>>, b), s)
  BY <1>1
<1> QED
  BY <1>2, <1>3, <1>4

\* Queueing three.
LEMMA PutThree ==
  ASSUME NEW Q, Q \in Queues, NEW s \in Stream, NEW a \in Item, NEW b \in Item, NEW c \in Item
  PROVE  Put(Q, <<a, b, c>>, s) = Grown(Grown(Grown(Q, s, Alone(a)), s, Alone(b)), s, Alone(c))
<1>1. <<a, b, c>> = Append(<<a, b>>, c) /\ <<a, b>> \in Seq(Item)
  OBVIOUS
<1>2. Put(Q, Append(<<a, b>>, c), s) = Grown(Put(Q, <<a, b>>, s), s, Alone(c))
  BY <1>1, PutAppend
<1>3. Put(Q, <<a, b>>, s) = Grown(Grown(Q, s, Alone(a)), s, Alone(b))
  BY PutTwo
<1>4. Put(Q, <<a, b, c>>, s) = Put(Q, Append(<<a, b>>, c), s)
  BY <1>1
<1> QED
  BY <1>2, <1>3, <1>4

\* Queueing four.
LEMMA PutFour ==
  ASSUME NEW Q, Q \in Queues, NEW s \in Stream, NEW a \in Item, NEW b \in Item, NEW c \in Item, NEW d \in Item
  PROVE  Put(Q, <<a, b, c, d>>, s) = Grown(Grown(Grown(Grown(Q, s, Alone(a)), s, Alone(b)), s, Alone(c)), s, Alone(d))
<1>1. <<a, b, c, d>> = Append(<<a, b, c>>, d) /\ <<a, b, c>> \in Seq(Item)
  OBVIOUS
<1>2. Put(Q, Append(<<a, b, c>>, d), s) = Grown(Put(Q, <<a, b, c>>, s), s, Alone(d))
  BY <1>1, PutAppend
<1>3. Put(Q, <<a, b, c>>, s) = Grown(Grown(Grown(Q, s, Alone(a)), s, Alone(b)), s, Alone(c))
  BY PutThree
<1>4. Put(Q, <<a, b, c, d>>, s) = Put(Q, Append(<<a, b, c>>, d), s)
  BY <1>1
<1> QED
  BY <1>2, <1>3, <1>4

\* The lines and the host are as they were when an operation is added.
LEMMA Carries ==
  ASSUME NEW Q, QueuesOK(Q), NEW p, Lines(Q, p), NEW h, HostOK(Q, h), NEW s, s = h.stream, NEW i \in Item, i.op # "wait"
  PROVE  Lines(Grown(Q, s, Alone(i)), p) /\ HostOK(Grown(Q, s, Alone(i)), h)
<1>1. Alone(i) \in [Peer -> Item] /\ \A r \in Peer : Alone(i)[r] = i
  BY DEF Alone
<1>2. s \in Stream /\ (h.handle = "open" => s = 1)
  BY DEF HostOK
<1>3. Lines(Grown(Q, s, Alone(i)), p)
  BY <1>1, <1>2, LinesGrown
<1>4. ASSUME s = 1, Joined(Q, 1, 0) PROVE Joined(Grown(Q, s, Alone(i)), 1, 0)
  <2>1. Joined(Q, s, 1 - s)
    BY <1>4
  <2>2. Joined(Grown(Q, s, Alone(i)), s, 1 - s)
    BY <1>1, <1>2, <2>1, GrownJoined
  <2> QED
    BY <1>4, <2>2
<1> QED
  BY <1>2, <1>3, <1>4 DEF HostOK

\* The heaps of a lineage give a block that is free in one of them.
LEMMA LeastBlock ==
  ASSUME NEW S \in SUBSET Block, S # {}
  PROVE  \E b \in S : \A c \in S : b <= c
<1>1. S \in SUBSET Nat
  BY CollectivesAssumption
<1> QED
  BY <1>1, LeastOf

\* An allocation finds a block with a key of its lineage.
LEMMA AllocatedFrom ==
  ASSUME NEW m, NEW lineage, NEW n \in Nat, DOMAIN lineage = 1..n, CanAlloc(m, lineage)
  PROVE  Allocated(m, lineage) \in Block /\ \E k \in 1..n : m.heap[Allocated(m, lineage)] = lineage[k]
<1> DEFINE has == {k \in DOMAIN lineage : \E b \in Block : m.heap[b] = lineage[k]}
           k0 == CHOOSE k \in has : \A j \in has : k <= j
           key == lineage[k0]
           S == {b \in Block : m.heap[b] = key}
<1>1. has \in SUBSET Nat /\ has # {}
  BY DEF CanAlloc
<1>2. \E k \in has : \A j \in has : k <= j
  BY <1>1, LeastOf
<1>3. k0 \in has
  BY <1>2
<1>4. k0 \in 1..n /\ \E b \in Block : m.heap[b] = key
  BY <1>3
<1> HIDE DEF k0, key
<1>5. S # {} /\ S \in SUBSET Block
  BY <1>4
<1>6. PICK b \in S : \A c \in S : b <= c
  BY <1>5, LeastBlock
<1>7. \E a \in Block : m.heap[a] = key /\ \A c \in Block : m.heap[c] = key => a <= c
  BY <1>6
<1>8. Allocated(m, lineage) = CHOOSE a \in Block : m.heap[a] = key /\ \A c \in Block : m.heap[c] = key => a <= c
  BY DEF Allocated, key, k0
<1>9. Allocated(m, lineage) \in Block /\ m.heap[Allocated(m, lineage)] = key
  BY <1>7, <1>8
<1> QED
  BY <1>4, <1>9 DEF key

\* What the lineages of a group, of clean memory and of a stream may give out.
LEMMA AllocatedKeys ==
  ASSUME NEW m, NEW s \in Stream
  PROVE  /\ CanAlloc(m, GroupLineage(s)) => LET b == Allocated(m, GroupLineage(s))
                                            IN b \in Block /\ m.heap[b] \in {Clean, OfGroup(s)}
         /\ CanAlloc(m, CleanLineage) => LET b == Allocated(m, CleanLineage) IN b \in Block /\ m.heap[b] = Clean
         /\ CanAlloc(m, Lineage(s)) => LET b == Allocated(m, Lineage(s))
                                       IN b \in Block /\ m.heap[b] \in {Clean, OfStream(0), OfStream(s)}
<1>1. DOMAIN GroupLineage(s) = 1..2 /\ GroupLineage(s)[1] = OfGroup(s) /\ GroupLineage(s)[2] = Clean
  BY DEF GroupLineage
<1>2. DOMAIN CleanLineage = 1..1 /\ CleanLineage[1] = Clean
  BY DEF CleanLineage
<1>3. s = 0 => DOMAIN Lineage(s) = 1..2 /\ Lineage(s)[1] = OfStream(0) /\ Lineage(s)[2] = Clean
  BY DEF Lineage
<1>4. s = 1 => DOMAIN Lineage(s) = 1..3 /\ Lineage(s)[1] = OfStream(1) /\ Lineage(s)[2] = OfStream(0) /\ Lineage(s)[3] = Clean
  BY DEF Lineage
<1>5. ASSUME CanAlloc(m, GroupLineage(s))
      PROVE  Allocated(m, GroupLineage(s)) \in Block /\ m.heap[Allocated(m, GroupLineage(s))] \in {Clean, OfGroup(s)}
  <2>1. Allocated(m, GroupLineage(s)) \in Block /\ \E k \in 1..2 : m.heap[Allocated(m, GroupLineage(s))] = GroupLineage(s)[k]
    BY <1>1, <1>5, AllocatedFrom
  <2>2. 1..2 = {1, 2}
    OBVIOUS
  <2> QED
    BY <1>1, <2>1, <2>2
<1>6. ASSUME CanAlloc(m, CleanLineage)
      PROVE  Allocated(m, CleanLineage) \in Block /\ m.heap[Allocated(m, CleanLineage)] = Clean
  <2>1. Allocated(m, CleanLineage) \in Block /\ \E k \in 1..1 : m.heap[Allocated(m, CleanLineage)] = CleanLineage[k]
    BY <1>2, <1>6, AllocatedFrom
  <2>2. 1..1 = {1}
    OBVIOUS
  <2> QED
    BY <1>2, <2>1, <2>2
<1>7. ASSUME CanAlloc(m, Lineage(s))
      PROVE  Allocated(m, Lineage(s)) \in Block /\ m.heap[Allocated(m, Lineage(s))] \in {Clean, OfStream(0), OfStream(s)}
  <2>1. CASE s = 0
    <3>1. Allocated(m, Lineage(s)) \in Block /\ \E k \in 1..2 : m.heap[Allocated(m, Lineage(s))] = Lineage(s)[k]
      BY <1>3, <1>7, <2>1, AllocatedFrom
    <3>2. 1..2 = {1, 2}
      OBVIOUS
    <3> QED
      BY <1>3, <2>1, <3>1, <3>2
  <2>2. CASE s = 1
    <3>1. Allocated(m, Lineage(s)) \in Block /\ \E k \in 1..3 : m.heap[Allocated(m, Lineage(s))] = Lineage(s)[k]
      BY <1>4, <1>7, <2>2, AllocatedFrom
    <3>2. 1..3 = {1, 2, 3}
      OBVIOUS
    <3> QED
      BY <1>4, <2>2, <3>1, <3>2
  <2> QED
    BY <2>1, <2>2 DEF Stream
<1> QED
  BY <1>5, <1>6, <1>7

\* A free block may be taken on the current stream, for its group or for a tensor.
LEMMA AllocatedReach ==
  ASSUME NEW Q, NEW m, NEW side, NEW U, Good(Q, m, side, U), NEW s \in Stream, s = 1 => Joined(Q, 1, 0)
  PROVE  /\ CanAlloc(m, GroupLineage(s)) => LET b == Allocated(m, GroupLineage(s))
                                            IN b \in Block /\ m.heap[b] # Alive /\ Quiet(Q, s, b)
         /\ CanAlloc(m, CleanLineage) => LET b == Allocated(m, CleanLineage)
                                         IN b \in Block /\ m.heap[b] # Alive /\ Quiet(Q, s, b)
         /\ CanAlloc(m, Lineage(s)) => LET b == Allocated(m, Lineage(s))
                                       IN b \in Block /\ m.heap[b] # Alive /\ Changeable(Q, s, b)
<1>1. Q \in Queues /\ Sound(Q, m, side, U)
  BY DEF Good, QueuesOK
<1>2. ASSUME NEW b \in Block
      PROVE  /\ m.heap[b] \in {Clean, OfGroup(s)} => m.heap[b] # Alive /\ Quiet(Q, s, b)
             /\ m.heap[b] \in {Clean, OfStream(0), OfStream(s)} => m.heap[b] # Alive /\ Changeable(Q, s, b)
  <2>1. /\ m.heap[b] = Clean => Quiet(Q, 0, b)
        /\ \A t \in Stream : m.heap[b] = OfGroup(t) => Quiet(Q, t, b)
        /\ \A t \in Stream : m.heap[b] = OfStream(t) => Changeable(Q, t, b)
    BY <1>1, FreeReach
  <2>2. 0 \in Stream /\ 1 \in Stream
    BY DEF Stream
  <2>3. Quiet(Q, 0, b) => Quiet(Q, s, b)
    <3>1. CASE s = 0
      BY <3>1
    <3>2. CASE s = 1
      <4>1. Joined(Q, s, 1 - s) /\ 1 - s = 0
        BY <3>2
      <4>2. Quiet(Q, 1 - s, b) => Quiet(Q, s, b)
        BY <1>1, <4>1, JoinedReach
      <4> QED
        BY <4>1, <4>2
    <3> QED
      BY <3>1, <3>2 DEF Stream
  <2>4. Changeable(Q, 0, b) => Changeable(Q, s, b)
    <3>1. CASE s = 0
      BY <3>1
    <3>2. CASE s = 1
      <4>1. Joined(Q, s, 1 - s) /\ 1 - s = 0
        BY <3>2
      <4>2. Changeable(Q, 1 - s, b) => Changeable(Q, s, b)
        BY <1>1, <4>1, JoinedReach
      <4> QED
        BY <4>1, <4>2
    <3> QED
      BY <3>1, <3>2 DEF Stream
  <2>5. Quiet(Q, s, b) => Changeable(Q, s, b)
    BY <1>1, QuietChangeable
  <2> QED
    BY <2>1, <2>2, <2>3, <2>4, <2>5, Keys
<1> QED
  BY <1>2, AllocatedKeys

-----------------------------------------------------------------------------
(* What an operation starts from, and what it leaves                     *)

\* The blocks an operation touches are given to its stream beforehand.
Touched(h, blocks) == IF h.stream = 1 THEN [h EXCEPT !.side = @ \cup blocks] ELSE h

\* Touched blocks are the stream's, and the host's joins stay.
LEMMA TouchedFacts ==
  ASSUME NEW Q, NEW h, HostOK(Q, h), NEW blocks \in SUBSET Block
  PROVE  /\ HostOK(Q, Touched(h, blocks)) /\ Touched(h, blocks).stream = h.stream /\ h.stream \in Stream
         /\ h.stream = 1 => Joined(Q, 1, 0)
         /\ h.side \subseteq Touched(h, blocks).side
         /\ \A b \in blocks : h.stream \in Front(b, Touched(h, blocks).side)
<1>1. /\ h \in [stream : Stream, handle : {"none", "open", "ended"}, side : SUBSET Block]
      /\ h.stream = 1 <=> h.handle = "open"
      /\ h.handle = "none" => h.side = {}
      /\ h.handle = "open" => Joined(Q, 1, 0)
  BY DEF HostOK
<1>2. CASE h.stream = 1
  <2> DEFINE g == [h EXCEPT !.side = @ \cup blocks]
  <2>1. /\ g \in [stream : Stream, handle : {"none", "open", "ended"}, side : SUBSET Block]
        /\ g.stream = h.stream /\ g.handle = h.handle /\ g.side = h.side \cup blocks
    BY <1>1
  <2>2. Touched(h, blocks) = g
    BY <1>2 DEF Touched
  <2> HIDE DEF g
  <2> QED
    BY <1>1, <1>2, <2>1, <2>2 DEF HostOK, Front
<1>3. CASE h.stream = 0
  <2>1. Touched(h, blocks) = h
    BY <1>3 DEF Touched
  <2> QED
    BY <1>1, <1>3, <2>1 DEF HostOK, Front
<1> QED
  BY <1>1, <1>2, <1>3 DEF Stream

\* What a caller may use: it is alive, of the current stream, and may be read
\* there; and what it may write may be changed there.
LEMMA UsableFacts ==
  ASSUME CollectivesInv, NEW t \in Usable
  PROVE  /\ t \in Block /\ Memory.heap[t] = Alive /\ Memory.back[t] = Clean
         /\ \A s \in Stream : <<t, s>> \notin Memory.pending
         /\ Current(queue, host.stream, host.side, t)
         /\ Readable(queue, host.stream, t)
         /\ t \in Writable => /\ Changeable(queue, host.stream, t)
                              /\ \A s \in Stream : t \notin Memory.sources[s]
<1>1. /\ Good(queue, Memory, host.side, {}) /\ HostOK(queue, host) /\ queue \in Queues /\ Sound(queue, Memory, host.side, {})
  BY DEF CollectivesInv, Good, QueuesOK
<1>2. /\ t \in Block /\ heap[t] = Alive /\ back[t] = Clean /\ \A s \in Stream : <<t, s>> \notin pending
      /\ host.handle = "ended" => t \notin host.side
  BY DEF Usable, Live, Alive
<1>3. Memory.heap = heap /\ Memory.back = back /\ Memory.pending = pending /\ Memory.sources = sources /\ Memory.dropped = dropped
  BY DEF Memory
<1>4. Current(queue, host.stream, host.side, t)
  <2>1. CASE host.stream = 1
    BY <1>1, <2>1 DEF HostOK, Current
  <2>2. CASE host.stream = 0
    <3>1. host.handle # "open" /\ t \notin host.side
      BY <1>1, <1>2, <2>2 DEF HostOK
    <3> QED
      BY <2>2, <3>1, Sides DEF Current
  <2> QED
    BY <1>1, <2>1, <2>2 DEF HostOK, Stream
<1>5. /\ Readable(queue, host.stream, t)
      /\ (\A u \in Stream : t \notin Memory.sources[u] /\ (<<t, u>> \in Memory.dropped => u \in {0, host.stream})) => Changeable(queue, host.stream, t)
  BY <1>1, <1>2, <1>3, <1>4, TensorReach
<1>6. t \in Writable => \A u \in Stream : t \notin Memory.sources[u] /\ (<<t, u>> \in Memory.dropped => u \in {0, host.stream})
  BY <1>3 DEF Writable
<1> QED
  BY <1>2, <1>3, <1>4, <1>5, <1>6

\* What a caller uses fits.
LEMMA UsableFit ==
  ASSUME CollectivesInv, NEW t \in Usable, NEW side, host.stream \in Front(t, side)
  PROVE  Fit(Memory, side, host.stream, t)
<1> QED
  BY UsableFacts DEF Fit

\* What is stored is what the program has.
LEMMA Stored ==
  ASSUME NEW m, Books(m), Store(m)
  PROVE  Memory' = m
<1>1. m = [heap |-> m.heap, back |-> m.back, sources |-> m.sources, pending |-> m.pending, dropped |-> m.dropped]
  BY BookTypes
<1>2. Memory' = [heap |-> m.heap, back |-> m.back, sources |-> m.sources, pending |-> m.pending, dropped |-> m.dropped]
  BY DEF Store, Memory
<1> QED
  BY <1>1, <1>2

\* A group retains nothing after its barrier.
LEMMA AfterBarrierSources ==
  ASSUME NEW m, Books(m), NEW s \in Stream
  PROVE  \A t \in Stream : AfterBarrier(m, s).sources[t] = IF t = s THEN {} ELSE m.sources[t]
<1> DEFINE y == Released(m, s)
           x == CleanupSources(m, s)
<1>1. x = Settled(y, s)
  BY CleanupIs
<1>2. Books(y) /\ \A t \in Stream : y.sources[t] = IF t = s THEN {} ELSE m.sources[t]
  BY ReleasedFacts
<1>3. Books(x) /\ x.sources = y.sources
  <2> HIDE DEF y, x
  <2> QED
    BY <1>1, <1>2, SettledFacts
<1>4. Drained(x, {OfGroup(0), OfStream(0)}).sources = x.sources
  <2>1. Alive \notin {OfGroup(0), OfStream(0)}
    BY Keys DEF Stream
  <2> HIDE DEF y, x
  <2> QED
    BY <1>3, <2>1, DrainedFacts
<1>5. AfterBarrier(m, s) = IF s = 0 THEN Drained(x, {OfGroup(0), OfStream(0)}) ELSE x
  BY DEF AfterBarrier
<1> HIDE DEF y, x
<1> QED
  BY <1>2, <1>3, <1>4, <1>5

\* All that is queued, and what comes of it.
State(Q, m, h, p, U) == Good(Q, m, h.side, U) /\ Lines(Q, p) /\ HostOK(Q, h)

\* The invariant, from what an operation leaves.
LEMMA StateInv ==
  ASSUME NEW m, State(queue', m, host', barrier', {}), Store(m)
  PROVE  CollectivesInv'
<1>1. Memory' = m
  BY Stored DEF State, Good
<1> QED
  BY <1>1 DEF CollectivesInv, State

\* Staging, or the output, is taken; peers push into it; the barrier orders that.
LEMMA StepTransfer ==
  ASSUME NEW Q, NEW m, NEW h, NEW p, State(Q, m, h, p, {}), NEW s, s = h.stream, NEW t \in Block, NEW b \in Block,
         m.heap[b] # Alive, Quiet(Q, s, b), Readable(Q, s, t), Fit(m, h.side, s, t), m.back[t] = Clean,
         NEW key, key = OfGroup(s) \/ key = Clean, s \in Front(b, h.side)
  PROVE  LET P == Grown(Grown(Q, s, Alone(Push(t, b))), s, Alone(Barrier))
             x == AfterBarrier(Taken(m, b, key), s)
         IN /\ State(P, x, h, p, {})
            /\ Quiet(P, s, b) /\ Fit(x, h.side, s, b) /\ x.back[b] = key /\ x.sources[s] = {}
            /\ \A c : Within(Q, s, c) => Quiet(P, s, c)
            /\ \A c \in Block : (Fit(m, h.side, s, c) /\ m.back[c] = Clean) => Fit(x, h.side, s, c) /\ x.back[c] = Clean
<1> DEFINE n == Taken(m, b, key)
           N == Grown(Q, s, Alone(Push(t, b)))
           P == Grown(N, s, Alone(Barrier))
           x == AfterBarrier(n, s)
<1>1. Good(Q, m, h.side, {}) /\ Lines(Q, p) /\ HostOK(Q, h) /\ s \in Stream /\ QueuesOK(Q) /\ Q \in Queues /\ Books(m)
  BY DEF State, Good, HostOK, QueuesOK
<1>2. key \in BackKey
  BY <1>1, Keys
<1>3. Changeable(Q, s, b) /\ Within(Q, s, b)
  <2>1. Changeable(Q, s, b)
    BY <1>1, QuietChangeable
  <2> QED
    BY <2>1 DEF Changeable, Readable, Within
<1>4. Good(Q, n, h.side, {}) /\ Fit(n, h.side, s, b)
  BY <1>1, <1>2, <1>3, StepTaken
<1>5. /\ b # t /\ Fit(n, h.side, s, t)
      /\ \A c \in Block : Fit(m, h.side, s, c) => b # c /\ Fit(n, h.side, s, c)
  BY <1>1, <1>2, FitKept
<1>6. n.back[b] = key /\ n.heap[b] = Alive /\ (\A c \in Block : n.back[c] = IF c = b THEN key ELSE m.back[c])
      /\ n.sources = m.sources /\ n.pending = m.pending /\ Books(n)
  BY <1>1, <1>2, TakenFacts
<1>7. b \notin n.sources[s]
  BY <1>1, <1>6 DEF Books
<1> HIDE DEF n
<1>8. Good(N, n, h.side, {<<b, s>>})
  <2>1. Good(N, n, h.side, {} \cup {<<b, s>>})
    BY <1>1, <1>4, <1>5, StepPush
  <2> QED
    BY <2>1
<1>9. Push(t, b) \in Item /\ Barrier \in Item /\ Push(t, b).op # "wait" /\ Barrier.op # "wait"
  BY ItemTypes DEF Push, Barrier
<1>10. Alone(Push(t, b)) \in [Peer -> Item] /\ Alone(Barrier) \in [Peer -> Item]
  BY <1>9 DEF Alone
<1>11. QueuesOK(N) /\ Lines(N, p) /\ HostOK(N, h)
  BY <1>1, <1>8, <1>9, Carries DEF Good
<1>12. \A c : Within(Q, s, c) => Within(N, s, c)
  BY <1>1, <1>10, WithinGrown
<1> HIDE DEF N
<1>13. Good(P, x, h.side, {})
  BY <1>1, <1>8, StepBarrier
<1>14. Lines(P, p) /\ HostOK(P, h)
  BY <1>9, <1>11, Carries
<1>15. \A c : Within(Q, s, c) => Quiet(P, s, c)
  BY <1>1, <1>11, <1>12, WithinBarrier
<1>16. \A c \in Block : Fit(n, h.side, s, c) /\ (n.back[c] = Clean \/ c \notin n.sources[s]) => Fit(x, h.side, s, c) /\ x.back[c] = n.back[c]
  <2> SUFFICES ASSUME NEW c \in Block, Fit(n, h.side, s, c), n.back[c] = Clean \/ c \notin n.sources[s]
               PROVE  Fit(x, h.side, s, c) /\ x.back[c] = n.back[c]
    OBVIOUS
  <2>1. Fit(x, h.side, s, c)
    BY <1>1, <1>6, FitKept
  <2>2. x.back[c] = n.back[c]
    BY <1>1, <1>6, AfterBarrierKeeps DEF Fit
  <2> QED
    BY <2>1, <2>2
<1>17. x.sources[s] = {}
  BY <1>1, <1>6, AfterBarrierSources
<1>18. Fit(x, h.side, s, b) /\ x.back[b] = key
  BY <1>4, <1>6, <1>7, <1>16
<1>19. \A c \in Block : (Fit(m, h.side, s, c) /\ m.back[c] = Clean) => Fit(x, h.side, s, c) /\ x.back[c] = Clean
  BY <1>5, <1>6, <1>16
<1> QED
  BY <1>3, <1>13, <1>14, <1>15, <1>17, <1>18, <1>19 DEF State, N, n

\* Every operation starts from the memory as it is, its blocks touched.
LEMMA Starts ==
  ASSUME CollectivesInv, NEW blocks \in SUBSET Block, NEW h, h = Touched(host, blocks), NEW s, s = host.stream
  PROVE  /\ State(queue, Memory, h, barrier, {}) /\ h.stream = s /\ s \in Stream /\ Books(Memory)
         /\ queue \in Queues
         /\ s = 1 => Joined(queue, 1, 0)
         /\ \A b \in blocks : s \in Front(b, h.side)
         /\ \A t \in Usable : /\ t \in Block /\ Memory.heap[t] = Alive /\ Memory.back[t] = Clean /\ Readable(queue, s, t)
                              /\ Within(queue, s, t)
                              /\ t \in blocks => Fit(Memory, h.side, s, t)
                              /\ t \in Writable => Changeable(queue, s, t)
<1>1. Good(queue, Memory, host.side, {}) /\ Lines(queue, barrier) /\ HostOK(queue, host)
  BY DEF CollectivesInv
<1>2. HostOK(queue, h) /\ h.stream = s /\ s \in Stream /\ (s = 1 => Joined(queue, 1, 0)) /\ host.side \subseteq h.side
      /\ \A b \in blocks : s \in Front(b, h.side)
  BY <1>1, TouchedFacts
<1>3. Good(queue, Memory, h.side, {})
  BY <1>1, <1>2, SoundTouched DEF Good
<1>4. ASSUME NEW t \in Usable
      PROVE  /\ t \in Block /\ Memory.heap[t] = Alive /\ Memory.back[t] = Clean /\ Readable(queue, s, t)
             /\ t \in blocks => Fit(Memory, h.side, s, t)
             /\ t \in Writable => Changeable(queue, s, t)
  BY <1>2, UsableFacts, UsableFit
<1>5. ASSUME NEW t, Readable(queue, s, t) PROVE Within(queue, s, t)
  BY <1>5 DEF Readable, Within
<1> QED
  BY <1>1, <1>2, <1>3, <1>4, <1>5 DEF State, Good, QueuesOK

\* Touch is Touched, of the host.
LEMMA Touching ==
  ASSUME NEW blocks, Touch(blocks)
  PROVE  host' = Touched(host, blocks)
BY DEF Touch, Touched

\* Enqueue is Put, on the current stream.
LEMMA Enqueued ==
  ASSUME NEW items, Enqueue(items)
  PROVE  queue' = Put(queue, items, host.stream)
BY DEF Enqueue, Appended, Put

\* Adding one operation to all that is queued.
LEMMA AddKernel ==
  ASSUME NEW Q, NEW m, NEW h, NEW p, State(Q, m, h, p, {}), NEW s, s = h.stream, NEW a \in Block, NEW b \in Block,
         Readable(Q, s, a), Changeable(Q, s, b), Fit(m, h.side, s, a), Fit(m, h.side, s, b)
  PROVE  State(Grown(Q, s, Alone(Kernel(a, b))), m, h, p, {})
<1>1. Good(Q, m, h.side, {}) /\ Lines(Q, p) /\ HostOK(Q, h) /\ s \in Stream /\ QueuesOK(Q)
  BY DEF State, Good, HostOK
<1>2. Kernel(a, b) \in Item /\ Kernel(a, b).op # "wait"
  BY ItemTypes DEF Kernel
<1>3. Good(Grown(Q, s, Alone(Kernel(a, b))), m, h.side, {})
  BY <1>1, StepKernel
<1> QED
  BY <1>1, <1>2, <1>3, Carries DEF State

\* Adding a pull to what an operation has queued so far.
LEMMA AddPull ==
  ASSUME NEW Q, NEW m, NEW h, NEW p, State(Q, m, h, p, {}), NEW s, s = h.stream, NEW a \in Block, NEW b \in Block, a # b,
         Quiet(Q, s, a), Changeable(Q, s, b), Fit(m, h.side, s, a), Fit(m, h.side, s, b), a \in m.sources[s]
  PROVE  State(Grown(Q, s, Alone(Pull(a, b))), m, h, p, {})
<1>1. Good(Q, m, h.side, {}) /\ Lines(Q, p) /\ HostOK(Q, h) /\ s \in Stream /\ QueuesOK(Q)
  BY DEF State, Good, HostOK
<1>2. Pull(a, b) \in Item /\ Pull(a, b).op # "wait"
  BY ItemTypes DEF Pull
<1>3. Good(Grown(Q, s, Alone(Pull(a, b))), m, h.side, {})
  BY <1>1, StepPull
<1> QED
  BY <1>1, <1>2, <1>3, Carries DEF State

\* Adding a barrier, behind which memory of one stream is quiet.
LEMMA AddBarrier ==
  ASSUME NEW Q, NEW m, NEW h, NEW p, NEW U, State(Q, m, h, p, U), NEW s, s = h.stream,
         \A b \in Block, t \in Stream : <<b, t>> \in U => t = s
  PROVE  /\ State(Grown(Q, s, Alone(Barrier)), AfterBarrier(m, s), h, p, {})
         /\ AfterBarrier(m, s).sources[s] = {}
         /\ \A c : Within(Q, s, c) => Quiet(Grown(Q, s, Alone(Barrier)), s, c)
         /\ \A c \in Block : (Fit(m, h.side, s, c) /\ (m.back[c] = Clean \/ c \notin m.sources[s])) =>
               Fit(AfterBarrier(m, s), h.side, s, c) /\ AfterBarrier(m, s).back[c] = m.back[c]
<1>1. Good(Q, m, h.side, U) /\ Lines(Q, p) /\ HostOK(Q, h) /\ s \in Stream /\ QueuesOK(Q) /\ Books(m)
  BY DEF State, Good, HostOK
<1>2. Barrier \in Item /\ Barrier.op # "wait"
  BY DEF Barrier, Item
<1>3. Good(Grown(Q, s, Alone(Barrier)), AfterBarrier(m, s), h.side, {})
  BY <1>1, StepBarrier
<1>4. State(Grown(Q, s, Alone(Barrier)), AfterBarrier(m, s), h, p, {})
  BY <1>1, <1>2, <1>3, Carries DEF State
<1>5. AfterBarrier(m, s).sources[s] = {}
  BY <1>1, AfterBarrierSources
<1>6. \A c : Within(Q, s, c) => Quiet(Grown(Q, s, Alone(Barrier)), s, c)
  BY <1>1, WithinBarrier
<1>7. ASSUME NEW c \in Block, Fit(m, h.side, s, c), m.back[c] = Clean \/ c \notin m.sources[s]
      PROVE  Fit(AfterBarrier(m, s), h.side, s, c) /\ AfterBarrier(m, s).back[c] = m.back[c]
  <2>1. Fit(AfterBarrier(m, s), h.side, s, c)
    BY <1>1, <1>7, FitKept
  <2>2. AfterBarrier(m, s).back[c] = m.back[c]
    BY <1>1, <1>7, AfterBarrierKeeps DEF Fit
  <2> QED
    BY <2>1, <2>2
<1> QED
  BY <1>4, <1>5, <1>6, <1>7

\* Adding a push.
LEMMA AddPush ==
  ASSUME NEW Q, NEW m, NEW h, NEW p, State(Q, m, h, p, {}), NEW s, s = h.stream, NEW a \in Block, NEW b \in Block, a # b,
         Readable(Q, s, a), Quiet(Q, s, b), Fit(m, h.side, s, a), Fit(m, h.side, s, b)
  PROVE  /\ State(Grown(Q, s, Alone(Push(a, b))), m, h, p, {<<b, s>>})
         /\ \A c : Within(Q, s, c) => Within(Grown(Q, s, Alone(Push(a, b))), s, c)
<1>1. Good(Q, m, h.side, {}) /\ Lines(Q, p) /\ HostOK(Q, h) /\ s \in Stream /\ QueuesOK(Q)
  BY DEF State, Good, HostOK
<1>2. Push(a, b) \in Item /\ Push(a, b).op # "wait"
  BY ItemTypes DEF Push
<1>3. Good(Grown(Q, s, Alone(Push(a, b))), m, h.side, {} \cup {<<b, s>>})
  BY <1>1, StepPush
<1>4. {} \cup {<<b, s>>} = {<<b, s>>}
  OBVIOUS
<1>5. Alone(Push(a, b)) \in [Peer -> Item]
  BY <1>2 DEF Alone
<1>6. \A c : Within(Q, s, c) => Within(Grown(Q, s, Alone(Push(a, b))), s, c)
  BY <1>1, <1>5, WithinGrown
<1> QED
  BY <1>1, <1>2, <1>3, <1>4, <1>6, Carries DEF State

\* A retained block is retained.
LEMMA SourcedHas ==
  ASSUME NEW m, Books(m), NEW s \in Stream, NEW b \in Block
  PROVE  b \in Sourced(m, s, b).sources[s]
<1>1. m.sources \in [Stream -> SUBSET Block]
  BY BookTypes
<1>2. m = [heap |-> m.heap, back |-> m.back, sources |-> m.sources, pending |-> m.pending, dropped |-> m.dropped]
  BY BookTypes
<1>3. Sourced(m, s, b) = [m EXCEPT !.sources = [m.sources EXCEPT ![s] = @ \cup {b}]]
  BY DEF Sourced
<1>4. Sourced(m, s, b).sources = [m.sources EXCEPT ![s] = @ \cup {b}]
  BY <1>2, <1>3
<1> QED
  BY <1>1, <1>4

\* The group retains a block until its next barrier.
LEMMA Retain ==
  ASSUME NEW Q, NEW m, NEW h, NEW p, State(Q, m, h, p, {}), NEW s, s = h.stream, NEW b \in Block, Fit(m, h.side, s, b)
  PROVE  /\ State(Q, Sourced(m, s, b), h, p, {}) /\ b \in Sourced(m, s, b).sources[s]
         /\ \A c \in Block : Fit(m, h.side, s, c) => Fit(Sourced(m, s, b), h.side, s, c)
         /\ [m EXCEPT !.sources[s] = @ \cup {b}] = Sourced(m, s, b)
<1>1. Good(Q, m, h.side, {}) /\ HostOK(Q, h) /\ s \in Stream /\ Books(m)
  BY DEF State, Good, HostOK
<1>2. m.heap[b] = Alive /\ m.back[b] \in {Clean, OfGroup(s)}
  BY DEF Fit
<1>3. Good(Q, Sourced(m, s, b), h.side, {})
  BY <1>1, <1>2, StepSourced
<1>4. \A c \in Block : Fit(m, h.side, s, c) => Fit(Sourced(m, s, b), h.side, s, c)
  BY <1>1, <1>2, FitKept
<1>5. b \in Sourced(m, s, b).sources[s]
  BY <1>1, <1>2, SourcedHas
<1> QED
  BY <1>3, <1>4, <1>5 DEF State, Sourced

\* A new tensor.
LEMMA AddTensor ==
  ASSUME NEW Q, NEW m, NEW h, NEW p, State(Q, m, h, p, {}), NEW s, s = h.stream, NEW b \in Block,
         m.heap[b] # Alive, Changeable(Q, s, b), s \in Front(b, h.side)
  PROVE  /\ State(Q, Taken(m, b, Clean), h, p, {}) /\ Fit(Taken(m, b, Clean), h.side, s, b)
         /\ Taken(m, b, Clean).sources = m.sources
         /\ \A c \in Block : Fit(m, h.side, s, c) => b # c /\ Fit(Taken(m, b, Clean), h.side, s, c)
<1>1. Good(Q, m, h.side, {}) /\ HostOK(Q, h) /\ s \in Stream /\ Books(m)
  BY DEF State, Good, HostOK
<1>2. Clean \in BackKey
  BY Keys
<1>3. Good(Q, Taken(m, b, Clean), h.side, {}) /\ Fit(Taken(m, b, Clean), h.side, s, b)
  BY <1>1, <1>2, StepTaken
<1>4. \A c \in Block : Fit(m, h.side, s, c) => b # c /\ Fit(Taken(m, b, Clean), h.side, s, c)
  BY <1>1, <1>2, FitKept
<1>5. Taken(m, b, Clean).sources = m.sources
  BY <1>1, <1>2, TakenFacts
<1> QED
  BY <1>3, <1>4, <1>5 DEF State
-----------------------------------------------------------------------------
(* The operations of one device                                          *)

\* Input, memory filled by the host, preserves the invariant.
LEMMA InputInv ==
  ASSUME CollectivesInv, Input, barrier' = barrier
  PROVE  CollectivesInv'
<1> DEFINE s == host.stream
           b == Allocated(Memory, Lineage(s))
           h == Touched(host, {b})
           n == Taken(Memory, b, Clean)
<1>1. CanAlloc(Memory, Lineage(s)) /\ Enqueue(<<Kernel(b, b)>>) /\ Store(n) /\ Touch({b})
  BY DEF Input
<1>2. Good(queue, Memory, host.side, {}) /\ HostOK(queue, host) /\ s \in Stream /\ (s = 1 => Joined(queue, 1, 0))
  BY DEF CollectivesInv, HostOK
<1>3. b \in Block /\ Memory.heap[b] # Alive /\ Changeable(queue, s, b)
  BY <1>1, <1>2, AllocatedReach
<1> HIDE DEF b
<1>4. host' = h /\ queue' = Put(queue, <<Kernel(b, b)>>, s)
  BY <1>1, Touching, Enqueued
<1>5. State(queue, Memory, h, barrier, {}) /\ h.stream = s /\ s \in Front(b, h.side) /\ queue \in Queues
  BY <1>3, Starts
<1> HIDE DEF h, s
<1>6. State(queue, n, h, barrier, {}) /\ Fit(n, h.side, s, b)
  BY <1>3, <1>5, AddTensor
<1>7. Readable(queue, s, b)
  BY <1>3 DEF Changeable
<1> HIDE DEF n
<1>8. State(Grown(queue, s, Alone(Kernel(b, b))), n, h, barrier, {})
  BY <1>3, <1>5, <1>6, <1>7, AddKernel
<1>9. queue' = Grown(queue, s, Alone(Kernel(b, b)))
  BY <1>2, <1>3, <1>4, <1>5, PutOne, ItemTypes
<1> QED
  BY <1>1, <1>4, <1>8, <1>9, StateInv

\* Compute, a kernel into new memory, preserves it.
LEMMA ComputeInv ==
  ASSUME CollectivesInv, NEW t \in Usable, Compute(t), barrier' = barrier
  PROVE  CollectivesInv'
<1> DEFINE s == host.stream
           b == Allocated(Memory, Lineage(s))
           h == Touched(host, {t, b})
           n == Taken(Memory, b, Clean)
<1>1. CanAlloc(Memory, Lineage(s)) /\ Enqueue(<<Kernel(t, b)>>) /\ Store(n) /\ Touch({t, b})
  BY DEF Compute
<1>2. Good(queue, Memory, host.side, {}) /\ HostOK(queue, host) /\ s \in Stream /\ (s = 1 => Joined(queue, 1, 0))
  BY DEF CollectivesInv, HostOK
<1>3. b \in Block /\ Memory.heap[b] # Alive /\ Changeable(queue, s, b) /\ t \in Block
  BY <1>1, <1>2, AllocatedReach, UsableFacts
<1> HIDE DEF b
<1>4. host' = h /\ queue' = Put(queue, <<Kernel(t, b)>>, s)
  BY <1>1, Touching, Enqueued
<1>5. /\ State(queue, Memory, h, barrier, {}) /\ h.stream = s /\ s \in Front(b, h.side) /\ queue \in Queues
      /\ Readable(queue, s, t) /\ Fit(Memory, h.side, s, t)
  <2>1. {t, b} \in SUBSET Block
    BY <1>3
  <2> QED
    BY <2>1, Starts
<1> HIDE DEF h, s
<1>6. State(queue, n, h, barrier, {}) /\ Fit(n, h.side, s, b) /\ Fit(n, h.side, s, t)
  BY <1>3, <1>5, AddTensor
<1> HIDE DEF n
<1>8. State(Grown(queue, s, Alone(Kernel(t, b))), n, h, barrier, {})
  BY <1>3, <1>5, <1>6, AddKernel
<1>9. queue' = Grown(queue, s, Alone(Kernel(t, b)))
  BY <1>2, <1>3, <1>4, <1>5, PutOne, ItemTypes
<1> QED
  BY <1>1, <1>4, <1>8, <1>9, StateInv

\* Update, a kernel that writes a tensor in place, preserves it.
LEMMA UpdateInv ==
  ASSUME CollectivesInv, NEW t \in Writable, Update(t), barrier' = barrier
  PROVE  CollectivesInv'
<1> DEFINE s == host.stream
           h == Touched(host, {t})
<1>1. Enqueue(<<Kernel(t, t)>>) /\ Memory' = Memory /\ Touch({t}) /\ t \in Usable
  BY DEF Update, Memory, Writable
<1>2. t \in Block
  BY <1>1, UsableFacts
<1>3. host' = h /\ queue' = Put(queue, <<Kernel(t, t)>>, s)
  BY <1>1, Touching, Enqueued
<1>4. /\ State(queue, Memory, h, barrier, {}) /\ h.stream = s /\ queue \in Queues /\ s \in Stream
      /\ Readable(queue, s, t) /\ Fit(Memory, h.side, s, t) /\ Changeable(queue, s, t)
  <2>1. {t} \in SUBSET Block
    BY <1>2
  <2> QED
    BY <1>1, <2>1, Starts
<1> HIDE DEF h, s
<1>5. State(Grown(queue, s, Alone(Kernel(t, t))), Memory, h, barrier, {})
  BY <1>2, <1>4, AddKernel
<1>6. queue' = Grown(queue, s, Alone(Kernel(t, t)))
  BY <1>2, <1>3, <1>4, PutOne, ItemTypes
<1> QED
  BY <1>1, <1>3, <1>5, <1>6 DEF CollectivesInv, State

-----------------------------------------------------------------------------
(* The collectives                                                       *)

\* AllReduce, which pushes to scratch between its two barriers, preserves it.
LEMMA AllReduceInv ==
  ASSUME CollectivesInv, NEW t \in Writable, AllReduce(t), barrier' = barrier
  PROVE  CollectivesInv'
<1> DEFINE s == host.stream
           b == Allocated(Memory, GroupLineage(s))
           h == Touched(host, {t, b})
           n == Taken(Memory, b, OfGroup(s))
           x == AfterBarrier(n, s)
           y == AfterBarrier(x, s)
           z == Sourced(y, s, b)
           P == Grown(Grown(queue, s, Alone(Push(t, b))), s, Alone(Barrier))
           V == Grown(P, s, Alone(Push(b, t)))
           N == Grown(V, s, Alone(Barrier))
<1>1. CanAlloc(Memory, GroupLineage(s)) /\ Enqueue(<<Push(t, b), Barrier, Push(b, t), Barrier>>) /\ Store(z) /\ Touch({t, b})
  BY DEF AllReduce, Sourced
<1>2. Good(queue, Memory, host.side, {}) /\ HostOK(queue, host) /\ s \in Stream /\ (s = 1 => Joined(queue, 1, 0)) /\ t \in Usable
  BY DEF CollectivesInv, HostOK, Writable
<1>3. b \in Block /\ Memory.heap[b] # Alive /\ Quiet(queue, s, b) /\ t \in Block /\ b # t
  BY <1>1, <1>2, AllocatedReach, UsableFacts
<1> HIDE DEF b
<1>4. host' = h /\ queue' = Put(queue, <<Push(t, b), Barrier, Push(b, t), Barrier>>, s)
  BY <1>1, Touching, Enqueued
<1>5. /\ State(queue, Memory, h, barrier, {}) /\ h.stream = s /\ s \in Front(b, h.side) /\ queue \in Queues
      /\ Readable(queue, s, t) /\ Fit(Memory, h.side, s, t) /\ Memory.back[t] = Clean /\ Within(queue, s, t)
  <2>1. {t, b} \in SUBSET Block
    BY <1>3
  <2> QED
    BY <1>2, <2>1, Starts
<1> HIDE DEF h, s
<1>6. /\ State(P, x, h, barrier, {}) /\ Quiet(P, s, b) /\ Fit(x, h.side, s, b) /\ x.back[b] = OfGroup(s) /\ x.sources[s] = {}
      /\ Quiet(P, s, t) /\ Fit(x, h.side, s, t) /\ x.back[t] = Clean
  BY <1>3, <1>5, StepTransfer
<1>7. queue' = N
  BY <1>2, <1>3, <1>4, <1>5, PutFour, ItemTypes
<1> HIDE DEF P, x
<1>8. Readable(P, s, b) /\ Within(P, s, t)
  <2>1. P \in Queues
    BY <1>6 DEF State, Good, QueuesOK
  <2>2. Readable(P, s, b) /\ Readable(P, s, t)
    BY <1>2, <1>6, <2>1, QuietChangeable
  <2> QED
    BY <2>2 DEF Readable, Within
<1>9. State(V, x, h, barrier, {<<t, s>>}) /\ Within(V, s, t)
  BY <1>3, <1>5, <1>6, <1>8, AddPush
<1> HIDE DEF V
<1>10. State(N, y, h, barrier, {}) /\ Fit(y, h.side, s, b)
  <2>1. \A a \in Block, u \in Stream : <<a, u>> \in {<<t, s>>} => u = s
    OBVIOUS
  <2> QED
    BY <1>3, <1>5, <1>6, <1>9, <2>1, AddBarrier
<1> HIDE DEF N, y
<1>11. State(N, z, h, barrier, {})
  BY <1>3, <1>5, <1>10, Retain
<1> HIDE DEF z
<1> QED
  BY <1>1, <1>4, <1>7, <1>11, StateInv

\* AllGather into new memory preserves it.
LEMMA AllGatherInv ==
  ASSUME CollectivesInv, NEW t \in Usable, AllGather(t), barrier' = barrier
  PROVE  CollectivesInv'
<1> DEFINE s == host.stream
           b == Allocated(Memory, CleanLineage)
           h == Touched(host, {t, b})
           x == AfterBarrier(Taken(Memory, b, Clean), s)
           P == Grown(Grown(queue, s, Alone(Push(t, b))), s, Alone(Barrier))
<1>1. CanAlloc(Memory, CleanLineage) /\ Enqueue(<<Push(t, b), Barrier>>) /\ Store(x) /\ Touch({t, b})
  BY DEF AllGather
<1>2. Good(queue, Memory, host.side, {}) /\ HostOK(queue, host) /\ s \in Stream /\ (s = 1 => Joined(queue, 1, 0))
  BY DEF CollectivesInv, HostOK
<1>3. b \in Block /\ Memory.heap[b] # Alive /\ Quiet(queue, s, b) /\ t \in Block
  BY <1>1, <1>2, AllocatedReach, UsableFacts
<1> HIDE DEF b
<1>4. host' = h /\ queue' = Put(queue, <<Push(t, b), Barrier>>, s)
  BY <1>1, Touching, Enqueued
<1>5. /\ State(queue, Memory, h, barrier, {}) /\ h.stream = s /\ s \in Front(b, h.side) /\ queue \in Queues
      /\ Readable(queue, s, t) /\ Fit(Memory, h.side, s, t) /\ Memory.back[t] = Clean
  <2>1. {t, b} \in SUBSET Block
    BY <1>3
  <2> QED
    BY <2>1, Starts
<1> HIDE DEF h, s
<1>6. State(P, x, h, barrier, {})
  BY <1>3, <1>5, StepTransfer
<1>7. queue' = P
  BY <1>2, <1>3, <1>4, <1>5, PutTwo, ItemTypes
<1> HIDE DEF P, x
<1> QED
  BY <1>1, <1>4, <1>6, <1>7, StateInv

\* AllGatherInto given memory preserves it.
LEMMA AllGatherIntoInv ==
  ASSUME CollectivesInv, NEW t \in Usable, NEW output \in Writable \ {t}, AllGatherInto(t, output), barrier' = barrier
  PROVE  CollectivesInv'
<1> DEFINE s == host.stream
           b == Allocated(Memory, GroupLineage(s))
           h == Touched(host, {t, output, b})
           x == AfterBarrier(Taken(Memory, b, OfGroup(s)), s)
           z == Sourced(x, s, b)
           P == Grown(Grown(queue, s, Alone(Push(t, b))), s, Alone(Barrier))
           N == Grown(P, s, Alone(Kernel(b, output)))
<1>1. CanAlloc(Memory, GroupLineage(s)) /\ Enqueue(<<Push(t, b), Barrier, Kernel(b, output)>>) /\ Store(z) /\ Touch({t, output, b})
  BY DEF AllGatherInto, Sourced
<1>2. Good(queue, Memory, host.side, {}) /\ HostOK(queue, host) /\ s \in Stream /\ (s = 1 => Joined(queue, 1, 0)) /\ output \in Usable
  BY DEF CollectivesInv, HostOK, Writable
<1>3. b \in Block /\ Memory.heap[b] # Alive /\ Quiet(queue, s, b) /\ t \in Block /\ output \in Block
  BY <1>1, <1>2, AllocatedReach, UsableFacts
<1> HIDE DEF b
<1>4. host' = h /\ queue' = Put(queue, <<Push(t, b), Barrier, Kernel(b, output)>>, s)
  BY <1>1, Touching, Enqueued
<1>5. /\ State(queue, Memory, h, barrier, {}) /\ h.stream = s /\ s \in Front(b, h.side) /\ queue \in Queues
      /\ Readable(queue, s, t) /\ Fit(Memory, h.side, s, t) /\ Memory.back[t] = Clean
      /\ Within(queue, s, output) /\ Fit(Memory, h.side, s, output) /\ Memory.back[output] = Clean
  <2>1. {t, output, b} \in SUBSET Block
    BY <1>3
  <2> QED
    BY <1>2, <2>1, Starts
<1> HIDE DEF h, s
<1>6. /\ State(P, x, h, barrier, {}) /\ Quiet(P, s, b) /\ Fit(x, h.side, s, b)
      /\ Quiet(P, s, output) /\ Fit(x, h.side, s, output)
  BY <1>3, <1>5, StepTransfer
<1>7. queue' = N
  BY <1>2, <1>3, <1>4, <1>5, PutThree, ItemTypes
<1> HIDE DEF P, x
<1>8. Readable(P, s, b) /\ Changeable(P, s, output)
  <2>1. P \in Queues
    BY <1>6 DEF State, Good, QueuesOK
  <2> QED
    BY <1>2, <1>6, <2>1, QuietChangeable
<1>9. State(N, x, h, barrier, {})
  BY <1>3, <1>5, <1>6, <1>8, AddKernel
<1> HIDE DEF N
<1>10. State(N, z, h, barrier, {})
  BY <1>3, <1>5, <1>6, <1>9, Retain
<1> HIDE DEF z
<1> QED
  BY <1>1, <1>4, <1>7, <1>10, StateInv

\* MergePush, which pushes partial results to their owner, preserves it.
LEMMA MergePushInv ==
  ASSUME CollectivesInv, NEW t \in Usable, MergePush(t), barrier' = barrier
  PROVE  CollectivesInv'
<1> DEFINE s == host.stream
           b == Allocated(Memory, GroupLineage(s))
           x == AfterBarrier(Taken(Memory, b, OfGroup(s)), s)
           out == Allocated(x, Lineage(s))
           h == Touched(host, {t, out, b})
           y == Taken(x, out, Clean)
           z == Sourced(y, s, b)
           P == Grown(Grown(queue, s, Alone(Push(t, b))), s, Alone(Barrier))
           N == Grown(P, s, Alone(Kernel(b, out)))
<1>1. /\ CanAlloc(Memory, GroupLineage(s)) /\ CanAlloc(x, Lineage(s)) /\ Enqueue(<<Push(t, b), Barrier, Kernel(b, out)>>)
      /\ Store(z) /\ Touch({t, out, b})
  BY DEF MergePush, Sourced
<1>2. Good(queue, Memory, host.side, {}) /\ HostOK(queue, host) /\ s \in Stream /\ (s = 1 => Joined(queue, 1, 0))
  BY DEF CollectivesInv, HostOK
<1>3. b \in Block /\ Memory.heap[b] # Alive /\ Quiet(queue, s, b) /\ t \in Block
  BY <1>1, <1>2, AllocatedReach, UsableFacts
<1>4. out \in Block /\ x.heap[out] \in {Clean, OfStream(0), OfStream(s)}
  BY <1>1, <1>2, AllocatedKeys
<1>5. host' = h /\ queue' = Put(queue, <<Push(t, b), Barrier, Kernel(b, out)>>, s)
  BY <1>1, Touching, Enqueued
<1> HIDE DEF b
<1>6. /\ State(queue, Memory, h, barrier, {}) /\ h.stream = s /\ s \in Front(b, h.side) /\ s \in Front(out, h.side) /\ queue \in Queues
      /\ Readable(queue, s, t) /\ Fit(Memory, h.side, s, t) /\ Memory.back[t] = Clean
  <2>1. {t, out, b} \in SUBSET Block
    BY <1>3, <1>4
  <2> HIDE DEF out
  <2> QED
    BY <2>1, Starts
<1>7. s = 1 => (h.stream = 1 => h.handle = "open")
  BY <1>6 DEF State, HostOK
<1> HIDE DEF h, s
<1>8. State(P, x, h, barrier, {}) /\ Quiet(P, s, b) /\ Fit(x, h.side, s, b)
  BY <1>3, <1>6, StepTransfer
<1>9. out \in Block /\ x.heap[out] # Alive /\ Changeable(P, s, out)
  <2>1. Good(P, x, h.side, {}) /\ (s = 1 => Joined(P, 1, 0))
    BY <1>6, <1>8 DEF State, HostOK
  <2> HIDE DEF P, x
  <2> QED
    BY <1>1, <1>2, <2>1, AllocatedReach
<1> HIDE DEF out
<1>10. queue' = N
  BY <1>2, <1>3, <1>5, <1>6, <1>9, PutThree, ItemTypes
<1> HIDE DEF P, x
<1>11. State(P, y, h, barrier, {}) /\ Fit(y, h.side, s, out) /\ Fit(y, h.side, s, b)
  BY <1>3, <1>6, <1>8, <1>9, AddTensor
<1>12. Readable(P, s, b)
  <2>1. P \in Queues
    BY <1>8 DEF State, Good, QueuesOK
  <2> QED
    BY <1>2, <1>8, <2>1, QuietChangeable
<1> HIDE DEF y
<1>13. State(N, y, h, barrier, {})
  BY <1>3, <1>6, <1>9, <1>11, <1>12, AddKernel
<1> HIDE DEF N
<1>14. State(N, z, h, barrier, {})
  BY <1>3, <1>6, <1>11, <1>13, Retain
<1> HIDE DEF z
<1> QED
  BY <1>1, <1>5, <1>10, <1>14, StateInv

\* MergePull, which retains its staging for the pulls until the next barrier,
\* preserves it.
LEMMA MergePullInv ==
  ASSUME CollectivesInv, NEW t \in Usable, MergePull(t), barrier' = barrier
  PROVE  CollectivesInv'
<1> DEFINE s == host.stream
           x == AfterBarrier(Memory, s)
           out == Allocated(x, Lineage(s))
           h == Touched(host, {t, out})
           y == Taken(x, out, Clean)
           z == Sourced(y, s, t)
           P == Grown(queue, s, Alone(Barrier))
           N == Grown(P, s, Alone(Pull(t, out)))
<1>1. CanAlloc(x, Lineage(s)) /\ Enqueue(<<Barrier, Pull(t, out)>>) /\ Store(z) /\ Touch({t, out})
  BY DEF MergePull, Sourced
<1>2. Good(queue, Memory, host.side, {}) /\ HostOK(queue, host) /\ s \in Stream /\ (s = 1 => Joined(queue, 1, 0))
  BY DEF CollectivesInv, HostOK
<1>3. t \in Block
  BY UsableFacts
<1>4. out \in Block /\ x.heap[out] \in {Clean, OfStream(0), OfStream(s)}
  BY <1>1, <1>2, AllocatedKeys
<1>5. host' = h /\ queue' = Put(queue, <<Barrier, Pull(t, out)>>, s)
  BY <1>1, Touching, Enqueued
<1>6. /\ State(queue, Memory, h, barrier, {}) /\ h.stream = s /\ s \in Front(out, h.side) /\ queue \in Queues
      /\ Within(queue, s, t) /\ Fit(Memory, h.side, s, t) /\ Memory.back[t] = Clean
  <2>1. {t, out} \in SUBSET Block
    BY <1>3, <1>4
  <2> HIDE DEF out
  <2> QED
    BY <2>1, Starts
<1> HIDE DEF h, s
<1>8. State(P, x, h, barrier, {}) /\ Quiet(P, s, t) /\ Fit(x, h.side, s, t)
  <2>1. \A a \in Block, u \in Stream : <<a, u>> \in {} => u = s
    OBVIOUS
  <2>2. /\ State(P, x, h, barrier, {})
        /\ \A c : Within(queue, s, c) => Quiet(P, s, c)
        /\ \A c \in Block : (Fit(Memory, h.side, s, c) /\ (Memory.back[c] = Clean \/ c \notin Memory.sources[s])) => Fit(x, h.side, s, c)
    BY <1>6, <2>1, AddBarrier
  <2> HIDE DEF P, x
  <2> QED
    BY <1>3, <1>6, <2>2
<1>9. out \in Block /\ x.heap[out] # Alive /\ Changeable(P, s, out)
  <2>1. Good(P, x, h.side, {}) /\ (s = 1 => Joined(P, 1, 0))
    BY <1>6, <1>8 DEF State, HostOK
  <2> HIDE DEF P, x
  <2> QED
    BY <1>1, <1>2, <2>1, AllocatedReach
<1> HIDE DEF out
<1>10. queue' = N
  BY <1>2, <1>3, <1>5, <1>6, <1>9, PutTwo, ItemTypes
<1> HIDE DEF P, x
<1>11. State(P, y, h, barrier, {}) /\ Fit(y, h.side, s, out) /\ Fit(y, h.side, s, t) /\ out # t
  BY <1>3, <1>6, <1>8, <1>9, AddTensor
<1> HIDE DEF y
<1>12. State(P, z, h, barrier, {}) /\ t \in z.sources[s] /\ Fit(z, h.side, s, out) /\ Fit(z, h.side, s, t)
  BY <1>3, <1>6, <1>9, <1>11, Retain
<1> HIDE DEF z
<1>13. State(N, z, h, barrier, {})
  BY <1>3, <1>6, <1>8, <1>9, <1>11, <1>12, AddPull
<1> QED
  BY <1>1, <1>5, <1>10, <1>13, StateInv

-----------------------------------------------------------------------------
(* Both streams                                                          *)

\* A wait changes neither the lines nor, on the current stream, what has been joined.
LEMMA AddWait ==
  ASSUME NEW Q, NEW m, NEW side, NEW U, Good(Q, m, side, U), NEW p, Lines(Q, p), NEW s \in Stream
  PROVE  LET P == Grown(Q, s, WaitFor(Q, 1 - s))
         IN /\ Good(P, m, side, U) /\ Lines(P, p) /\ P \in Queues
            /\ Joined(P, s, 1 - s)
<1> DEFINE f == WaitFor(Q, 1 - s)
           P == Grown(Q, s, f)
<1>1. QueuesOK(Q) /\ Q \in Queues /\ 1 - s \in Stream
  BY Sides DEF Good, QueuesOK
<1>2. f \in [Peer -> Item]
  BY <1>1, WaitJoins
<1>3. \A r \in Peer : f[r].op = "wait" /\ f[r].from = 1 - s /\ f[r].to = Len(Q[r][1 - s]) /\ Len(Q[r][1 - s]) \in Nat
  BY <1>1, QueueFacts DEF WaitFor, WaitEvent
<1>4. Good(P, m, side, U) /\ Joined(P, s, 1 - s)
  BY StepWait
<1> HIDE DEF f
<1>5. Lines(P, p)
  BY <1>1, <1>2, <1>3, LinesGrown
<1>6. P \in Queues
  BY <1>4 DEF Good, QueuesOK
<1> QED
  BY <1>4, <1>5, <1>6 DEF f

\* Waiting for all of the other stream is queueing one wait.
LEMMA WaitQueue ==
  ASSUME NEW Q, Q \in Queues, NEW s \in Stream, NEW u, u = 1 - s
  PROVE  [r \in Peer |-> [Q[r] EXCEPT ![s] = Append(@, WaitEvent(u, Len(Q[r][u])))] ] = Grown(Q, s, WaitFor(Q, u))
<1>1. \A r \in Peer : [Q[r] EXCEPT ![s] = Append(@, WaitEvent(u, Len(Q[r][u])))] =
                        [t \in Stream |-> IF t = s THEN Append(Q[r][t], WaitEvent(u, Len(Q[r][u]))) ELSE Q[r][t]]
  <2> TAKE r \in Peer
  <2>1. Q[r] \in [Stream -> Seq(Item)]
    BY QueueFacts
  <2> QED
    BY <2>1
<1>2. \A r \in Peer : WaitFor(Q, u)[r] = WaitEvent(u, Len(Q[r][u]))
  BY DEF WaitFor
<1> DEFINE A(r) == [Q[r] EXCEPT ![s] = Append(@, WaitEvent(u, Len(Q[r][u])))]
           B(r) == [t \in Stream |-> IF t = s THEN Append(Q[r][t], WaitEvent(u, Len(Q[r][u]))) ELSE Q[r][t]]
<1>3. Grown(Q, s, WaitFor(Q, u)) = [r \in Peer |-> B(r)]
  BY <1>2 DEF Grown
<1>4. \A r \in Peer : A(r) = B(r)
  BY <1>1
<1> HIDE DEF A, B
<1>5. [r \in Peer |-> A(r)] = [r \in Peer |-> B(r)]
  BY <1>4
<1> QED
  BY <1>3, <1>5 DEF A

\* BeginStream, which makes the side stream wait for the main one, preserves
\* the invariant.
LEMMA BeginStreamInv ==
  ASSUME CollectivesInv, BeginStream
  PROVE  CollectivesInv'
<1> DEFINE P == Grown(queue, 1, WaitFor(queue, 0))
           h == [stream |-> 1, handle |-> "open", side |-> {}]
<1>1. /\ Good(queue, Memory, host.side, {}) /\ Lines(queue, barrier) /\ HostOK(queue, host) /\ queue \in Queues
      /\ 1 \in Stream /\ 1 - 1 = 0
  BY Sides DEF CollectivesInv, Good, QueuesOK
<1>2. host.side = {} /\ host' = h /\ Memory' = Memory /\ barrier' = barrier
  BY <1>1 DEF BeginStream, HostOK, Memory
<1>3. queue' = P
  BY <1>1, WaitQueue DEF BeginStream
<1>4. Good(P, Memory, {}, {}) /\ Lines(P, barrier) /\ Joined(P, 1, 0)
  BY <1>1, <1>2, AddWait
<1>5. HostOK(P, h)
  BY <1>1, <1>4 DEF HostOK
<1> QED
  BY <1>2, <1>3, <1>4, <1>5 DEF CollectivesInv

\* EndStream, which leaves the side stream running, preserves it.
LEMMA EndStreamInv ==
  ASSUME CollectivesInv, EndStream
  PROVE  CollectivesInv'
<1>1. /\ Good(queue, Memory, host.side, {}) /\ Lines(queue, barrier) /\ HostOK(queue, host)
  BY DEF CollectivesInv
<1>2. queue' = queue /\ Memory' = Memory /\ barrier' = barrier /\ host' = [host EXCEPT !.stream = 0, !.handle = "ended"]
  BY DEF EndStream, Memory
<1>3. host' = [stream |-> 0, handle |-> "ended", side |-> host.side]
  BY <1>1, <1>2 DEF HostOK
<1>4. HostOK(queue, host')
  BY <1>1, <1>3 DEF HostOK, Stream
<1>5. host'.side = host.side
  BY <1>3
<1> QED
  BY <1>1, <1>2, <1>4, <1>5 DEF CollectivesInv

\* The transfer runs on stream 1, after what stream 0 has; stream 0 joins it.
LEMMA AllGatherOnStreamInv ==
  ASSUME CollectivesInv, NEW t \in Usable, AllGatherOnStream(t), barrier' = barrier
  PROVE  CollectivesInv'
<1> DEFINE b == Allocated(Memory, CleanLineage)
           side == {t, b}
           n == Taken(Memory, b, Clean)
           x == AfterBarrier(n, 0)
           P == Grown(queue, 1, WaitFor(queue, 0))
           V == Grown(P, 1, Alone(Push(t, b)))
           N == Grown(V, 0, WaitFor(V, 1))
           E == Grown(N, 0, Alone(Barrier))
<1>1. /\ Good(queue, Memory, host.side, {}) /\ Lines(queue, barrier) /\ HostOK(queue, host) /\ queue \in Queues
      /\ 0 \in Stream /\ 1 \in Stream /\ 1 - 1 = 0 /\ 1 - 0 = 1
  BY Sides DEF CollectivesInv, Good, QueuesOK
<1>2. /\ host.stream = 0 /\ host.handle = "none" /\ host.side = {} /\ host' = host
      /\ CanAlloc(Memory, CleanLineage) /\ Store(x)
      /\ queue' = [r \in Peer |->
                    [s \in Stream |->
                       IF s = 1
                       THEN queue[r][1] \o <<WaitEvent(0, Len(queue[r][0])), Push(t, b)>>
                       ELSE queue[r][0] \o <<WaitEvent(1, Len(queue[r][1]) + 2), Barrier>>]]
  BY <1>1 DEF AllGatherOnStream, HostOK
<1>3. b \in Block /\ Memory.heap[b] = Clean /\ t \in Block /\ Memory.heap[t] = Alive /\ Memory.back[t] = Clean
  BY <1>1, <1>2, AllocatedKeys, UsableFacts
<1> HIDE DEF b
<1>4. Good(queue, Memory, side, {})
  BY <1>1, <1>2, SoundTouched DEF Good
<1>5. Good(P, Memory, side, {}) /\ Lines(P, barrier) /\ P \in Queues /\ Joined(P, 1, 0)
  BY <1>1, <1>4, AddWait
<1>6. /\ Front(t, side) = {0, 1} /\ Front(b, side) = {0, 1}
  BY DEF Front
<1>7. Fit(Memory, side, 1, t)
  <2>1. \A s \in Stream : <<t, s>> \notin Memory.pending
    BY UsableFacts
  <2> QED
    BY <1>3, <1>6, <2>1 DEF Fit
<1> HIDE DEF side
<1> HIDE DEF P
<1>8. Quiet(P, 1, b) /\ Readable(P, 1, t) /\ Changeable(P, 1, b)
  <2>1. Sound(P, Memory, side, {})
    BY <1>5 DEF Good
  <2>2. Quiet(P, 0, b)
    BY <1>3, <1>5, <2>1, FreeReach
  <2>3. Quiet(P, 1, b)
    BY <1>1, <1>5, <2>2, JoinedReach
  <2>4. Current(P, 1, side, t)
    BY <1>1, <1>5 DEF Current
  <2>5. Readable(P, 1, t)
    BY <1>3, <1>5, <2>1, <2>4, TensorReach
  <2> QED
    BY <1>1, <1>5, <2>3, <2>5, QuietChangeable
<1>9. Good(P, n, side, {}) /\ Fit(n, side, 1, b) /\ Fit(n, side, 1, t) /\ b # t
  <2>1. Clean \in BackKey /\ Memory.heap[b] # Alive /\ Books(Memory)
    BY <1>1, <1>3, Keys DEF Good
  <2>2. Good(P, n, side, {}) /\ Fit(n, side, 1, b)
    BY <1>1, <1>3, <1>5, <1>6, <1>8, <2>1, StepTaken
  <2>3. Fit(n, side, 1, t) /\ b # t
    BY <1>1, <1>3, <1>7, <2>1, FitKept
  <2> QED
    BY <2>2, <2>3
<1> HIDE DEF n
<1>10. Good(V, n, side, {<<b, 1>>})
  <2>1. Good(V, n, side, {} \cup {<<b, 1>>})
    BY <1>1, <1>3, <1>8, <1>9, StepPush
  <2> QED
    BY <2>1
<1>11. Push(t, b) \in Item /\ Barrier \in Item /\ Push(t, b).op # "wait" /\ Barrier.op # "wait"
  BY <1>3, ItemTypes DEF Push, Barrier
<1>12. Lines(V, barrier)
  <2>1. Alone(Push(t, b)) \in [Peer -> Item] /\ \A r \in Peer : Alone(Push(t, b))[r] = Push(t, b)
    BY <1>11 DEF Alone
  <2>2. QueuesOK(P)
    BY <1>5 DEF Good
  <2> QED
    BY <1>1, <1>5, <1>11, <2>1, <2>2, LinesGrown
<1>13. Good(N, n, side, {<<b, 1>>}) /\ Lines(N, barrier) /\ N \in Queues /\ Joined(N, 0, 1)
  <2> HIDE DEF V
  <2> QED
    BY <1>1, <1>10, <1>12, AddWait
<1>14. HostOK(queue, host) => \A Q : HostOK(Q, host)
  BY <1>2 DEF HostOK
<1>15. State(N, n, host, barrier, {<<b, 0>>})
  <2> HIDE DEF N
  <2>1. \A a, u : <<a, u>> \in {<<b, 1>>} => <<a, 0>> \in {<<b, 0>>}
    OBVIOUS
  <2>2. Sound(N, n, {}, {<<b, 0>>})
    BY <1>13, <2>1, SoundJoined DEF Good
  <2> QED
    BY <1>1, <1>2, <1>13, <1>14, <2>2 DEF State, Good
<1>16. State(E, x, host, barrier, {})
  <2>1. \A a \in Block, u \in Stream : <<a, u>> \in {<<b, 0>>} => u = 0
    OBVIOUS
  <2> HIDE DEF N
  <2> QED
    BY <1>2, <1>15, <2>1, AddBarrier
<1>17. queue' = E
  <2>1. \A r \in Peer, s \in Stream : queue[r][s] \in Seq(Item)
    BY <1>1, QueueFacts
  <2>2. \A r \in Peer : P[r][1] = Append(queue[r][1], WaitEvent(0, Len(queue[r][0]))) /\ P[r][0] = queue[r][0]
    BY <1>1 DEF P, Grown, WaitFor
  <2>3. \A r \in Peer : V[r][1] = Append(P[r][1], Push(t, b)) /\ V[r][0] = P[r][0]
    BY <1>1 DEF Grown, Alone
  <2> HIDE DEF V
  <2>4. \A r \in Peer : N[r][0] = Append(V[r][0], WaitEvent(1, Len(V[r][1]))) /\ N[r][1] = V[r][1]
    BY <1>1 DEF Grown, WaitFor
  <2> HIDE DEF N
  <2>5. \A r \in Peer : E[r][0] = Append(N[r][0], Barrier) /\ E[r][1] = N[r][1]
    BY <1>1 DEF Grown, Alone
  <2>6. E = [r \in Peer |-> E[r]]
    BY DEF Grown
  <2> HIDE DEF E
  <2>7. ASSUME NEW r \in Peer
        PROVE  E[r] = [s \in Stream |->
                       IF s = 1
                       THEN queue[r][1] \o <<WaitEvent(0, Len(queue[r][0])), Push(t, b)>>
                       ELSE queue[r][0] \o <<WaitEvent(1, Len(queue[r][1]) + 2), Barrier>>]
    <3> DEFINE w == WaitEvent(0, Len(queue[r][0]))
               v == WaitEvent(1, Len(V[r][1]))
    <3>1. queue[r][0] \in Seq(Item) /\ queue[r][1] \in Seq(Item) /\ Len(queue[r][0]) \in Nat /\ Len(queue[r][1]) \in Nat
      BY <1>1, <2>1
    <3>2. w \in Item
      BY <3>1 DEF WaitEvent, Item
    <3>3. P[r][1] = Append(queue[r][1], w) /\ P[r][0] = queue[r][0]
      BY <1>1, <2>2
    <3>4. V[r][1] = Append(Append(queue[r][1], w), Push(t, b)) /\ V[r][0] = queue[r][0]
      BY <1>1, <2>3, <3>3
    <3> HIDE DEF w
    <3>5. Len(V[r][1]) = Len(queue[r][1]) + 2
      BY <1>11, <3>1, <3>2, <3>4
    <3>6. v \in Item
      BY <3>1, <3>5 DEF WaitEvent, Item
    <3>7. N[r][0] = Append(queue[r][0], v) /\ N[r][1] = V[r][1]
      BY <1>1, <2>4, <3>4
    <3>8. v = WaitEvent(1, Len(queue[r][1]) + 2)
      BY <3>5
    <3> HIDE DEF v
    <3>9. E[r][0] = Append(Append(queue[r][0], v), Barrier) /\ E[r][1] = Append(Append(queue[r][1], w), Push(t, b))
      BY <1>1, <2>5, <3>4, <3>7
    <3>10. \A q \in Seq(Item), y \in Item, z \in Item : Append(Append(q, y), z) = q \o <<y, z>>
      OBVIOUS
    <3>11. E[r][0] = queue[r][0] \o <<v, Barrier>> /\ E[r][1] = queue[r][1] \o <<w, Push(t, b)>>
      BY <1>11, <3>1, <3>2, <3>6, <3>9, <3>10
    <3>12. E[r] = [s \in Stream |-> E[r][s]]
      BY DEF E, Grown
    <3>13. \A s \in Stream : s = 0 \/ s = 1
      BY DEF Stream
    <3>14. \A s \in Stream : E[r][s] = IF s = 1 THEN queue[r][1] \o <<w, Push(t, b)>> ELSE queue[r][0] \o <<v, Barrier>>
      BY <3>11, <3>13
    <3>15. E[r] = [s \in Stream |-> IF s = 1 THEN queue[r][1] \o <<w, Push(t, b)>> ELSE queue[r][0] \o <<v, Barrier>>]
      BY <3>12, <3>14
    <3> QED
      BY <3>8, <3>15 DEF w
  <2> QED
    BY <1>2, <2>6, <2>7
<1> HIDE DEF E, x
<1> QED
  BY <1>2, <1>16, <1>17, StateInv

-----------------------------------------------------------------------------
(* Disposal, joining and synchronizing                                   *)

Awaiting(m, s, t) == [m EXCEPT !.pending = @ \cup {<<t, s>>}]

\* A disposed tensor waits for its views.
LEMMA AwaitingFacts ==
  ASSUME NEW m, Books(m), NEW s \in Stream, NEW t \in Block, m.heap[t] = Alive, m.back[t] = Clean
  PROVE  /\ Books(Awaiting(m, s, t))
         /\ Awaiting(m, s, t).heap = m.heap /\ Awaiting(m, s, t).back = m.back /\ Awaiting(m, s, t).sources = m.sources
         /\ Awaiting(m, s, t).dropped = m.dropped /\ Awaiting(m, s, t).pending = m.pending \cup {<<t, s>>}
<1> DEFINE x == Awaiting(m, s, t)
           D == m.pending \cup {<<t, s>>}
<1>1. /\ m.heap \in [Block -> HeapKey] /\ m.back \in [Block -> BackKey] /\ m.sources \in [Stream -> SUBSET Block]
      /\ m.pending \in SUBSET (Block \X Stream) /\ m.dropped \in SUBSET (Block \X Stream)
      /\ m = [heap |-> m.heap, back |-> m.back, sources |-> m.sources, pending |-> m.pending, dropped |-> m.dropped]
  BY BookTypes
<1>2. x = [heap |-> m.heap, back |-> m.back, sources |-> m.sources, pending |-> D, dropped |-> m.dropped]
  <2> HIDE DEF D
  <2>1. x = [m EXCEPT !.pending = D]
    BY DEF Awaiting, D
  <2> QED
    BY <1>1, <2>1
<1>3. x.heap = m.heap /\ x.back = m.back /\ x.sources = m.sources /\ x.pending = D /\ x.dropped = m.dropped
  BY <1>2
<1>4. D \in SUBSET (Block \X Stream)
  BY <1>1
<1> HIDE DEF x
<1>5. x \in [heap : [Block -> HeapKey], back : [Block -> BackKey], sources : [Stream -> SUBSET Block],
             pending : SUBSET (Block \X Stream), dropped : SUBSET (Block \X Stream)]
  <2> HIDE DEF D
  <2> QED
    BY <1>1, <1>2, <1>4
<1>6. \A y \in D : m.heap[y[1]] = Alive /\ m.back[y[1]] = Clean
  BY DEF Books
<1>7. Books(x)
  BY <1>3, <1>5, <1>6 DEF Books
<1> QED
  BY <1>3, <1>7 DEF x

\* Dispose preserves the invariant.
LEMMA DisposeInv ==
  ASSUME CollectivesInv, NEW t \in Usable, Dispose(t), barrier' = barrier
  PROVE  CollectivesInv'
<1> DEFINE s == host.stream
           m == Memory
           n == Awaiting(m, s, t)
           x == Settled(n, s)
<1>1. Store(x) /\ queue' = queue /\ host' = host
  BY DEF Dispose, Awaiting
<1>2. /\ Good(queue, m, host.side, {}) /\ Lines(queue, barrier) /\ HostOK(queue, host) /\ queue \in Queues /\ s \in Stream
      /\ Sound(queue, m, host.side, {}) /\ Books(m) /\ QueuesOK(queue) /\ Ordered(queue)
  BY DEF CollectivesInv, Good, QueuesOK, HostOK
<1>3. t \in Block /\ m.heap[t] = Alive /\ m.back[t] = Clean /\ Current(queue, s, host.side, t) /\ \A u \in Stream : <<t, u>> \notin m.pending
  BY UsableFacts
<1> HIDE DEF s, m
<1>4. /\ Books(n) /\ n.heap = m.heap /\ n.back = m.back /\ n.sources = m.sources
      /\ n.dropped = m.dropped /\ n.pending = m.pending \cup {<<t, s>>}
  BY <1>2, <1>3, AwaitingFacts
<1> HIDE DEF n
<1>5. Sound(queue, n, host.side, {})
  <2> SUFFICES ASSUME NEW r \in Peer, NEW u \in Stream, NEW d \in Places(queue, r, u), NEW b \in Block, Uses(At(queue, r, u, d), b)
               PROVE  Use(At(queue, r, u, d), u, b, Known(queue, r, u, d), Fenced(queue, r, u, d), n, host.side, {})
    BY DEF Sound
  <2> DEFINE i == At(queue, r, u, d)
             K == Known(queue, r, u, d)
             F == Fenced(queue, r, u, d)
  <2>1. Use(i, u, b, K, F, m, host.side, {})
    BY <1>2 DEF Sound
  <2>2. b = t => /\ s \in K
                 /\ PushTo(i, b) => s \in F
                 /\ PullFrom(i, b) => s \in F \/ b \in m.sources[u] \/ \E v \in F : <<b, v>> \in m.dropped
    BY <1>2, <1>3, TensorReach
  <2> HIDE DEF i, K, F
  <2>3. \A v \in Stream : <<b, v>> \in n.pending => <<b, v>> \in m.pending \/ (b = t /\ v = s)
    BY <1>4
  <2>4. Use(i, u, b, K, F, n, host.side, {})
    BY <1>4, <2>1, <2>2, <2>3 DEF Use
  <2> QED
    BY <2>4 DEF i, K, F
<1>6. Books(x)
  BY <1>2, <1>4, SettledFacts
<1>7. Sound(queue, x, host.side, {})
  BY <1>2, <1>4, <1>5, UseSettled DEF Sound
<1> HIDE DEF x
<1>8. State(queue, x, host, barrier, {})
  BY <1>2, <1>6, <1>7 DEF State, Good
<1> QED
  BY <1>1, <1>8, StateInv

\* What stream 1 has becomes stream 0's, before disposals are done.
Moved(m) ==
  [m EXCEPT !.heap = [b \in Block |-> IF m.heap[b] = OfStream(1) THEN OfStream(0) ELSE m.heap[b]],
            !.pending = {<<x[1], 0>> : x \in @},
            !.dropped = {<<x[1], 0>> : x \in @}]

\* Joining hands the side stream's memory, and what waits on it, to the main
\* stream.
LEMMA MovedFacts ==
  ASSUME NEW m, Books(m)
  PROVE  /\ Books(Moved(m)) /\ Merged(m) = Settled(Moved(m), 0)
         /\ \A b \in Block : Moved(m).heap[b] = IF m.heap[b] = OfStream(1) THEN OfStream(0) ELSE m.heap[b]
         /\ Moved(m).back = m.back /\ Moved(m).sources = m.sources
         /\ \A b, t : <<b, t>> \in Moved(m).pending <=> t = 0 /\ \E u \in Stream : <<b, u>> \in m.pending
         /\ \A b, t : <<b, t>> \in Moved(m).dropped <=> t = 0 /\ \E u \in Stream : <<b, u>> \in m.dropped
<1> DEFINE x == Moved(m)
           H == [b \in Block |-> IF m.heap[b] = OfStream(1) THEN OfStream(0) ELSE m.heap[b]]
           A == {<<y[1], 0>> : y \in m.pending}
           D == {<<y[1], 0>> : y \in m.dropped}
<1>1. /\ m.heap \in [Block -> HeapKey] /\ m.back \in [Block -> BackKey] /\ m.sources \in [Stream -> SUBSET Block]
      /\ m.pending \in SUBSET (Block \X Stream) /\ m.dropped \in SUBSET (Block \X Stream)
      /\ m = [heap |-> m.heap, back |-> m.back, sources |-> m.sources, pending |-> m.pending, dropped |-> m.dropped]
  BY BookTypes
<1>2. x = [heap |-> H, back |-> m.back, sources |-> m.sources, pending |-> A, dropped |-> D]
  <2> HIDE DEF H, A, D
  <2>1. x = [m EXCEPT !.heap = H, !.pending = A, !.dropped = D]
    BY DEF Moved, H, A, D
  <2> QED
    BY <1>1, <2>1
<1>3. x.heap = H /\ x.back = m.back /\ x.sources = m.sources /\ x.pending = A /\ x.dropped = D
  BY <1>2
<1>4. A \in SUBSET (Block \X Stream) /\ D \in SUBSET (Block \X Stream)
  BY <1>1 DEF Stream
<1>5. H \in [Block -> HeapKey]
  BY <1>1, Keys DEF Stream
<1>6. \A b, t : <<b, t>> \in A <=> t = 0 /\ \E u \in Stream : <<b, u>> \in m.pending
  <2> SUFFICES ASSUME NEW b, NEW t PROVE <<b, t>> \in A <=> t = 0 /\ \E u \in Stream : <<b, u>> \in m.pending
    OBVIOUS
  <2>1. ASSUME <<b, t>> \in A PROVE t = 0 /\ \E u \in Stream : <<b, u>> \in m.pending
    <3>1. PICK y \in m.pending : <<b, t>> = <<y[1], 0>>
      BY <2>1
    <3>2. b = y[1] /\ t = 0 /\ y = <<y[1], y[2]>> /\ y[2] \in Stream
      BY <1>1, <3>1
    <3> QED
      BY <3>1, <3>2
  <2>2. ASSUME t = 0, NEW u \in Stream, <<b, u>> \in m.pending PROVE <<b, t>> \in A
    BY <2>2
  <2> QED
    BY <2>1, <2>2
<1>7. \A b, t : <<b, t>> \in D <=> t = 0 /\ \E u \in Stream : <<b, u>> \in m.dropped
  <2> SUFFICES ASSUME NEW b, NEW t PROVE <<b, t>> \in D <=> t = 0 /\ \E u \in Stream : <<b, u>> \in m.dropped
    OBVIOUS
  <2>1. ASSUME <<b, t>> \in D PROVE t = 0 /\ \E u \in Stream : <<b, u>> \in m.dropped
    <3>1. PICK y \in m.dropped : <<b, t>> = <<y[1], 0>>
      BY <2>1
    <3>2. b = y[1] /\ t = 0 /\ y = <<y[1], y[2]>> /\ y[2] \in Stream
      BY <1>1, <3>1
    <3> QED
      BY <3>1, <3>2
  <2>2. ASSUME t = 0, NEW u \in Stream, <<b, u>> \in m.dropped PROVE <<b, t>> \in D
    BY <2>2
  <2> QED
    BY <2>1, <2>2
<1>8. \A b \in Block : H[b] = IF m.heap[b] = OfStream(1) THEN OfStream(0) ELSE m.heap[b]
  OBVIOUS
<1>9. Merged(m) = Settled(x, 0)
  BY DEF Merged, Moved
<1> HIDE DEF x, H
<1>10. x \in [heap : [Block -> HeapKey], back : [Block -> BackKey], sources : [Stream -> SUBSET Block],
             pending : SUBSET (Block \X Stream), dropped : SUBSET (Block \X Stream)]
  <2> HIDE DEF A, D
  <2> QED
    BY <1>1, <1>2, <1>4, <1>5
<1>11. \A b \in Block : (H[b] = Alive <=> m.heap[b] = Alive)
  <2>1. OfStream(1) # Alive /\ OfStream(0) # Alive
    BY Keys DEF Stream
  <2> QED
    BY <1>8, <2>1
<1>12. \A y \in A : H[y[1]] = Alive /\ m.back[y[1]] = Clean
  <2> SUFFICES ASSUME NEW z \in m.pending PROVE H[z[1]] = Alive /\ m.back[z[1]] = Clean
    OBVIOUS
  <2> QED
    BY <1>1, <1>11 DEF Books
<1>13. \A s \in Stream : \A b \in m.sources[s] : H[b] = Alive /\ m.back[b] \in {Clean, OfGroup(s)}
  BY <1>1, <1>11 DEF Books
<1> HIDE DEF A, D
<1>14. Books(x)
  BY <1>3, <1>10, <1>12, <1>13 DEF Books
<1> QED
  BY <1>3, <1>6, <1>7, <1>8, <1>9, <1>14 DEF x

\* JoinStream, which makes the main stream wait for the side one, preserves
\* the invariant.
LEMMA JoinStreamInv ==
  ASSUME CollectivesInv, JoinStream
  PROVE  CollectivesInv'
<1> DEFINE m == Memory
           n == Moved(m)
           x == Settled(n, 0)
           P == Grown(queue, 0, WaitFor(queue, 1))
           h == [stream |-> 0, handle |-> "none", side |-> {}]
<1>1. /\ Good(queue, m, host.side, {}) /\ Lines(queue, barrier) /\ HostOK(queue, host) /\ queue \in Queues /\ Books(m)
      /\ 0 \in Stream /\ 1 \in Stream /\ 1 - 0 = 1
  BY Sides DEF CollectivesInv, Good, QueuesOK
<1>2. Books(n) /\ Merged(m) = x
  BY <1>1, MovedFacts
<1>3. host' = h /\ barrier' = barrier /\ Store(x)
  BY <1>2 DEF JoinStream
<1>4. queue' = P
  BY <1>1, WaitQueue DEF JoinStream
<1> HIDE DEF m
<1>5. Good(P, m, host.side, {}) /\ Lines(P, barrier) /\ P \in Queues /\ Joined(P, 0, 1)
  BY <1>1, AddWait
<1> HIDE DEF P
<1>6. Sound(P, m, {}, {})
  BY <1>5, SoundJoined DEF Good
<1>7. Sound(P, n, {}, {})
  <2> SUFFICES ASSUME NEW r \in Peer, NEW u \in Stream, NEW d \in Places(P, r, u), NEW b \in Block, Uses(At(P, r, u, d), b)
               PROVE  Use(At(P, r, u, d), u, b, Known(P, r, u, d), Fenced(P, r, u, d), n, {}, {})
    BY DEF Sound
  <2> DEFINE i == At(P, r, u, d)
             K == Known(P, r, u, d)
             F == Fenced(P, r, u, d)
  <2>1. Use(i, u, b, K, F, m, {}, {})
    BY <1>6 DEF Sound
  <2>2. (1 \in K => 0 \in K) /\ (1 \in F => 0 \in F) /\ K \subseteq Stream /\ F \subseteq Stream
    <3>1. d \in Nat
      BY <1>5, QueueFacts
    <3> QED
      BY <1>1, <1>5, <3>1, JoinedKnown DEF Known, Fenced
  <2> HIDE DEF i, K, F
  <2>3. /\ n.heap[b] = IF m.heap[b] = OfStream(1) THEN OfStream(0) ELSE m.heap[b]
        /\ n.back = m.back /\ n.sources = m.sources
        /\ \A t : <<b, t>> \in n.pending <=> t = 0 /\ \E v \in Stream : <<b, v>> \in m.pending
        /\ \A t : <<b, t>> \in n.dropped <=> t = 0 /\ \E v \in Stream : <<b, v>> \in m.dropped
    BY <1>1, MovedFacts
  <2> HIDE DEF n
  <2>4. \A v \in Stream : (v \in K => 0 \in K) /\ (v \in F => 0 \in F)
    BY <2>2 DEF Stream
  <2>5. (\E v \in F : <<b, v>> \in m.dropped) => \E v \in F : <<b, v>> \in n.dropped
    BY <2>2, <2>3, <2>4
  <2>6. ASSUME m.heap[b] = OfStream(1) PROVE Use(i, u, b, K, F, n, {}, {})
    <3>1. n.heap[b] = OfStream(0) /\ 0 \in K /\ (PushTo(i, b) \/ PullFrom(i, b) => 0 \in F)
      BY <1>1, <2>1, <2>2, <2>3, <2>6 DEF Use
    <3>2. /\ OfStream(0) # Clean /\ OfStream(0) # Alive
          /\ \A t \in Stream : OfStream(0) # OfGroup(t) /\ (OfStream(0) = OfStream(t) => t = 0)
      BY <1>1, Keys
    <3> QED
      BY <3>1, <3>2 DEF Use, Alive
  <2>7. ASSUME m.heap[b] # OfStream(1) PROVE Use(i, u, b, K, F, n, {}, {})
    <3>1. n.heap[b] = m.heap[b]
      BY <2>3, <2>7
    <3>2. \A t \in Stream : (m.heap[b] = Alive /\ <<b, t>> \in n.pending) =>
            /\ t \in K
            /\ PushTo(i, b) => t \in F
            /\ PullFrom(i, b) => t \in F \/ b \in n.sources[u] \/ \E v \in F : <<b, v>> \in n.dropped
      <4> SUFFICES ASSUME NEW v \in Stream, <<b, v>> \in m.pending, m.heap[b] = Alive
                   PROVE  /\ 0 \in K
                          /\ PushTo(i, b) => 0 \in F
                          /\ PullFrom(i, b) => 0 \in F \/ b \in n.sources[u] \/ \E w \in F : <<b, w>> \in n.dropped
        BY <2>3
      <4>1. /\ v \in K
            /\ PushTo(i, b) => v \in F
            /\ PullFrom(i, b) => v \in F \/ b \in m.sources[u] \/ \E w \in F : <<b, w>> \in m.dropped
        BY <2>1 DEF Use, Alive
      <4> QED
        BY <2>3, <2>4, <2>5, <4>1
    <3> QED
      BY <2>1, <2>3, <2>5, <3>1, <3>2 DEF Use, Alive
  <2>8. Use(i, u, b, K, F, n, {}, {})
    BY <2>6, <2>7
  <2> QED
    BY <2>8 DEF i, K, F
<1> HIDE DEF n
<1>8. Books(x)
  BY <1>1, <1>2, SettledFacts
<1>9. Sound(P, x, {}, {})
  BY <1>1, <1>2, <1>7, UseSettled DEF Sound
<1> HIDE DEF x
<1>10. HostOK(P, h)
  BY <1>1 DEF HostOK
<1>11. State(P, x, h, barrier, {})
  <2>1. h.side = {}
    OBVIOUS
  <2> QED
    BY <1>5, <1>8, <1>9, <1>10, <2>1 DEF State, Good
<1> QED
  BY <1>3, <1>4, <1>11, StateInv

\* Synchronize, which finds the queues empty, preserves it.
LEMMA SynchronizeInv ==
  ASSUME CollectivesInv, Synchronize
  PROVE  CollectivesInv'
<1> DEFINE c == CleanupSources(Memory, 1)
           g == Merged(c)
           e == CleanupSources(g, 0)
           m == [e EXCEPT !.dropped = {}]
           keys == {OfStream(s) : s \in Stream} \cup {OfGroup(s) : s \in Stream}
           x == Drained(m, keys)
<1>1. /\ Good(queue, Memory, host.side, {}) /\ Lines(queue, barrier) /\ HostOK(queue, host) /\ Books(Memory)
      /\ 0 \in Stream /\ 1 \in Stream
  BY Sides DEF CollectivesInv, Good
<1>2. Store(x) /\ queue' = queue /\ barrier' = barrier /\ host' = host /\ \A r \in Peer, s \in Stream : queue[r][s] = <<>>
  BY DEF Synchronize
<1>3. Books(c)
  BY <1>1, AfterBarrierBooks
<1>4. Books(g)
  <2> HIDE DEF c
  <2>1. Books(Moved(c)) /\ g = Settled(Moved(c), 0)
    BY <1>3, MovedFacts
  <2> QED
    BY <1>1, <2>1, SettledFacts
<1>5. Books(e)
  <2> HIDE DEF g
  <2> QED
    BY <1>1, <1>4, AfterBarrierBooks
<1>6. Books(m)
  <2> HIDE DEF e
  <2>1. e = [heap |-> e.heap, back |-> e.back, sources |-> e.sources, pending |-> e.pending, dropped |-> e.dropped]
    BY <1>5, BookTypes
  <2>2. m = [heap |-> e.heap, back |-> e.back, sources |-> e.sources, pending |-> e.pending, dropped |-> {}]
    BY <2>1
  <2>3. m.heap = e.heap /\ m.back = e.back /\ m.sources = e.sources /\ m.pending = e.pending /\ m.dropped = {}
    BY <2>2
  <2>4. m \in [heap : [Block -> HeapKey], back : [Block -> BackKey], sources : [Stream -> SUBSET Block],
               pending : SUBSET (Block \X Stream), dropped : SUBSET (Block \X Stream)]
    BY <1>5, <2>2, BookTypes
  <2> HIDE DEF m
  <2> QED
    BY <1>5, <2>3, <2>4 DEF Books
<1>7. Books(x)
  <2>1. Alive \notin keys
    BY Keys
  <2> HIDE DEF m, keys
  <2> QED
    BY <1>6, <2>1, DrainedFacts
<1> HIDE DEF x
<1>8. Sound(queue, x, host.side, {})
  <2>1. \A r \in Peer, s \in Stream : Places(queue, r, s) = {}
    BY <1>2 DEF Places
  <2> QED
    BY <2>1 DEF Sound
<1>9. State(queue, x, host, barrier, {})
  BY <1>1, <1>7, <1>8 DEF State, Good
<1> QED
  BY <1>2, <1>9, StateInv
-----------------------------------------------------------------------------
(* The theorems                                                          *)

\* Every step preserves the invariant.
LEMMA CollectivesNextInv ==
  ASSUME CollectivesInv, [CollectivesNext]_collectiveVars
  PROVE  CollectivesInv'
<1>1. CASE UNCHANGED collectiveVars
  <2>1. queue' = queue /\ barrier' = barrier /\ host' = host /\ Memory' = Memory
    BY <1>1 DEF collectiveVars, Memory
  <2> QED
    BY <2>1 DEF CollectivesInv
<1>2. CASE Operation
  <2>1. barrier' = barrier
    BY <1>2 DEF Operation
  <2>2. \A t \in Writable : t \in Usable
    BY DEF Writable
  <2>3. CASE Input
    BY <2>1, <2>3, InputInv
  <2>4. ASSUME NEW t \in Writable, AllReduce(t) \/ Update(t) PROVE CollectivesInv'
    BY <2>1, <2>4, AllReduceInv, UpdateInv
  <2>5. ASSUME NEW t \in Usable, AllGather(t) \/ AllGatherOnStream(t) \/ MergePush(t) PROVE CollectivesInv'
    BY <2>1, <2>5, AllGatherInv, AllGatherOnStreamInv, MergePushInv
  <2>6. ASSUME NEW t \in Usable, MergePull(t) \/ Compute(t) \/ Dispose(t) PROVE CollectivesInv'
    BY <2>1, <2>6, MergePullInv, ComputeInv, DisposeInv
  <2>7. ASSUME NEW t \in Usable, NEW output \in Writable \ {t}, AllGatherInto(t, output) PROVE CollectivesInv'
    BY <2>1, <2>7, AllGatherIntoInv
  <2> QED
    BY <1>2, <2>3, <2>4, <2>5, <2>6, <2>7 DEF Operation
<1>3. CASE Control
  BY <1>3, BeginStreamInv, EndStreamInv, JoinStreamInv, SynchronizeInv DEF Control
<1>4. CASE \E r \in Peer, s \in Stream : Run(r, s)
  BY <1>4, RunInv
<1> QED
  BY <1>1, <1>2, <1>3, <1>4 DEF CollectivesNext

\* The inductive invariant: operations that clash are ordered by barriers and
\* waits, the books of the host account for every use still queued, and every
\* rank has queued the same, with no wait for what was queued later.
THEOREM CollectivesHold == CollectivesSpec => []CollectivesInv
<1> QED
  BY CollectivesInitInv, CollectivesNextInv, PTL DEF CollectivesSpec

\* For any number of ranks and blocks, however far the host runs ahead: what can
\* run at the same moment, on two ranks or two streams of one, touches no memory
\* one of them writes.  Releasing sources behind a barrier, draining stream 0's
\* heaps and merging heaps where streams join give out nothing too early.
THEOREM NoRaceHolds == CollectivesSpec => []NoRace
<1> QED
  BY CollectivesHold, NoRaceInv, PTL

\* Nested streams and barriers never have every rank wait: as long as something
\* is queued, some rank's stream can go on.
THEOREM SomebodyRunsHolds == CollectivesSpec => []SomebodyRuns
<1> QED
  BY CollectivesHold, SomebodyRunsInv, PTL

-----------------------------------------------------------------------------
(* What is disposed of comes back                                        *)

\* As BlocksAccounted, but for scratch in X, which no group has yet.
Accounted(m, X) ==
  /\ \A b, s : <<b, s>> \in m.pending => ~NoViewLeft(m, b, s)
  /\ \A b \in Block : (m.heap[b] = Alive /\ m.back[b] # Clean /\ b \notin X) =>
       \E s \in Stream : b \in m.sources[s] /\ m.back[b] = OfGroup(s)

\* Disposals done on a stream leave those that must wait, also if some of that
\* stream did not have to.
LEMMA AccountedSettled ==
  ASSUME NEW m, Books(m), NEW s \in Stream, NEW X,
         \A b, t : <<b, t>> \in m.pending /\ t # s => ~NoViewLeft(m, b, t),
         \A b \in Block : (m.heap[b] = Alive /\ m.back[b] # Clean /\ b \notin X) =>
           \E t \in Stream : b \in m.sources[t] /\ m.back[b] = OfGroup(t)
  PROVE  Accounted(Settled(m, s), X)
<1> DEFINE x == Settled(m, s)
           F == Freed(m, s)
<1>1. /\ \A b \in Block : x.heap[b] = IF b \in F THEN OfStream(s) ELSE m.heap[b]
      /\ x.back = m.back /\ x.sources = m.sources
      /\ x.pending = {y \in m.pending : y[1] \notin F}
      /\ x.dropped = {y \in m.dropped : y[1] \notin F}
  BY SettledFacts
<1>2. \A b : b \in F <=> b \in Block /\ <<b, s>> \in m.pending /\ NoViewLeft(m, b, s)
  BY DEF Freed
<1> HIDE DEF x, F
<1>3. ASSUME NEW b, NEW t, <<b, t>> \in x.pending PROVE ~NoViewLeft(x, b, t)
  <2>1. <<b, t>> \in m.pending /\ b \notin F /\ b \in Block
    BY <1>1, <1>3, BookTypes
  <2>2. ~NoViewLeft(m, b, t)
    BY <1>2, <2>1
  <2>3. \A u : <<b, u>> \in m.dropped => <<b, u>> \in x.dropped
    BY <1>1, <2>1
  <2> QED
    BY <1>1, <2>2, <2>3 DEF NoViewLeft
<1>4. ASSUME NEW b \in Block, x.heap[b] = Alive, x.back[b] # Clean, b \notin X
      PROVE  \E t \in Stream : b \in x.sources[t] /\ x.back[b] = OfGroup(t)
  <2>1. m.heap[b] = Alive
    BY <1>1, <1>4, Keys
  <2> QED
    BY <1>1, <1>4, <2>1
<1> QED
  BY <1>3, <1>4 DEF Accounted, x

\* A barrier's release and what settles keep the account.
LEMMA AccountedCleanup ==
  ASSUME NEW m, Books(m), NEW s \in Stream, NEW X, Accounted(m, X)
  PROVE  Accounted(CleanupSources(m, s), X)
<1> DEFINE y == Released(m, s)
           G == Staging(m, s)
<1>1. /\ Books(y)
      /\ \A b \in Block : /\ y.heap[b] = IF b \in G THEN OfGroup(s) ELSE m.heap[b]
                          /\ y.back[b] = IF b \in G THEN Clean ELSE m.back[b]
      /\ y.pending = m.pending
      /\ y.dropped = m.dropped \cup {<<b, s>> : b \in m.sources[s] \ G}
      /\ \A t \in Stream : y.sources[t] = IF t = s THEN {} ELSE m.sources[t]
  BY ReleasedFacts
<1>2. \A b : b \in G <=> b \in m.sources[s] /\ m.back[b] = OfGroup(s)
  BY DEF Staging
<1> HIDE DEF y, G
<1>3. ASSUME NEW b, NEW t, <<b, t>> \in y.pending, t # s PROVE ~NoViewLeft(y, b, t)
  <2>1. <<b, t>> \in m.pending /\ b \in Block /\ m.back[b] = Clean
    BY <1>1, <1>3, BookTypes
  <2>2. ~NoViewLeft(m, b, t)
    BY <2>1 DEF Accounted
  <2>3. b \notin G
    BY <1>2, <2>1, Keys
  <2>4. CASE \E u \in Stream : b \in m.sources[u]
    <3>1. PICK u \in Stream : b \in m.sources[u]
      BY <2>4
    <3>2. CASE u = s
      <4>1. <<b, s>> \in y.dropped
        BY <1>1, <2>3, <3>1, <3>2
      <4> QED
        BY <1>3, <4>1 DEF NoViewLeft
    <3>3. CASE u # s
      BY <1>1, <3>1, <3>3 DEF NoViewLeft
    <3> QED
      BY <3>2, <3>3
  <2>5. CASE \E u \in Stream : <<b, u>> \in m.dropped /\ u # t
    BY <1>1, <2>5 DEF NoViewLeft
  <2> QED
    BY <2>2, <2>4, <2>5 DEF NoViewLeft
<1>4. ASSUME NEW b \in Block, y.heap[b] = Alive, y.back[b] # Clean, b \notin X
      PROVE  \E t \in Stream : b \in y.sources[t] /\ y.back[b] = OfGroup(t)
  <2>1. b \notin G /\ m.heap[b] = Alive /\ m.back[b] = y.back[b]
    BY <1>1, <1>4, Keys
  <2>2. PICK t \in Stream : b \in m.sources[t] /\ m.back[b] = OfGroup(t)
    BY <1>4, <2>1 DEF Accounted
  <2>3. t # s
    BY <1>2, <2>1, <2>2
  <2> QED
    BY <1>1, <2>1, <2>2, <2>3
<1>5. Accounted(Settled(y, s), X)
  BY <1>1, <1>3, <1>4, AccountedSettled
<1> QED
  BY <1>5, CleanupIs DEF y

\* So does draining.
LEMMA AccountedDrained ==
  ASSUME NEW m, Books(m), NEW keys, Alive \notin keys, NEW X, Accounted(m, X)
  PROVE  Accounted(Drained(m, keys), X)
<1> DEFINE x == Drained(m, keys)
<1>1. /\ \A b \in Block : x.heap[b] = IF m.heap[b] \in keys THEN Clean ELSE m.heap[b]
      /\ x.back = m.back /\ x.sources = m.sources /\ x.pending = m.pending /\ x.dropped = m.dropped
  BY DrainedFacts
<1> HIDE DEF x
<1>2. \A b \in Block : x.heap[b] = Alive => m.heap[b] = Alive
  BY <1>1, Keys
<1>3. \A b, s : NoViewLeft(x, b, s) <=> NoViewLeft(m, b, s)
  BY <1>1 DEF NoViewLeft
<1> QED
  BY <1>1, <1>2, <1>3 DEF Accounted, x

\* So does all a barrier does.
LEMMA AccountedBarrier ==
  ASSUME NEW m, Books(m), NEW s \in Stream, NEW X, Accounted(m, X)
  PROVE  Accounted(AfterBarrier(m, s), X)
<1>1. Books(CleanupSources(m, s)) /\ Accounted(CleanupSources(m, s), X)
  BY AfterBarrierBooks, AccountedCleanup
<1>2. Alive \notin {OfGroup(0), OfStream(0)}
  BY Keys DEF Stream
<1>3. Accounted(Drained(CleanupSources(m, s), {OfGroup(0), OfStream(0)}), X)
  BY <1>1, <1>2, AccountedDrained
<1> QED
  BY <1>1, <1>3 DEF AfterBarrier

\* Scratch that is given out is not accounted for until a group retains it;
\* other memory is.
LEMMA AccountedTaken ==
  ASSUME NEW m, Books(m), NEW b \in Block, m.heap[b] # Alive, NEW key \in BackKey, NEW X, Accounted(m, X)
  PROVE  /\ Accounted(Taken(m, b, key), X \cup {b})
         /\ key = Clean => Accounted(Taken(m, b, key), X)
<1> DEFINE x == Taken(m, b, key)
<1>1. /\ \A c \in Block : /\ x.heap[c] = IF c = b THEN Alive ELSE m.heap[c]
                          /\ x.back[c] = IF c = b THEN key ELSE m.back[c]
      /\ x.sources = m.sources /\ x.pending = m.pending /\ x.dropped = m.dropped
  BY TakenFacts
<1> HIDE DEF x
<1>2. \A c, s : NoViewLeft(x, c, s) <=> NoViewLeft(m, c, s)
  BY <1>1 DEF NoViewLeft
<1>3. Accounted(x, X \cup {b})
  BY <1>1, <1>2 DEF Accounted
<1>4. key = Clean => Accounted(x, X)
  BY <1>1, <1>2 DEF Accounted
<1> QED
  BY <1>3, <1>4 DEF x

\* Retaining it accounts for it.
LEMMA AccountedSourced ==
  ASSUME NEW m, Books(m), NEW s \in Stream, NEW b \in Block, m.heap[b] = Alive, m.back[b] \in {Clean, OfGroup(s)},
         NEW X, X = {} \/ X = {b}, Accounted(m, X)
  PROVE  Accounted(Sourced(m, s, b), {})
<1> DEFINE x == Sourced(m, s, b)
<1>1. /\ x.heap = m.heap /\ x.back = m.back /\ x.pending = m.pending /\ x.dropped = m.dropped
      /\ \A t \in Stream : x.sources[t] = IF t = s THEN m.sources[t] \cup {b} ELSE m.sources[t]
  BY SourcedFacts
<1> HIDE DEF x
<1>2. \A t \in Stream : m.sources[t] \subseteq x.sources[t]
  BY <1>1
<1>3. b \in x.sources[s]
  BY <1>1
<1>4. \A c, t : NoViewLeft(x, c, t) => NoViewLeft(m, c, t)
  BY <1>1, <1>2 DEF NoViewLeft
<1>5. ASSUME NEW c \in Block, x.heap[c] = Alive, x.back[c] # Clean
      PROVE  \E t \in Stream : c \in x.sources[t] /\ x.back[c] = OfGroup(t)
  <2>1. CASE c = b
    BY <1>1, <1>3, <1>5, <2>1
  <2>2. CASE c # b
    <3>1. PICK t \in Stream : c \in m.sources[t] /\ m.back[c] = OfGroup(t)
      BY <1>1, <1>5, <2>2 DEF Accounted
    <3> QED
      BY <1>1, <1>2, <3>1
  <2> QED
    BY <2>1, <2>2
<1>6. \A c, t : <<c, t>> \in x.pending => ~NoViewLeft(x, c, t)
  BY <1>1, <1>4 DEF Accounted
<1> QED
  BY <1>5, <1>6 DEF Accounted, x

\* Joining the streams keeps the account.
LEMMA AccountedMerged ==
  ASSUME NEW m, Books(m), NEW X, Accounted(m, X)
  PROVE  Books(Merged(m)) /\ Accounted(Merged(m), X)
<1> DEFINE n == Moved(m)
<1>1. /\ Books(n) /\ Merged(m) = Settled(n, 0)
      /\ \A b \in Block : n.heap[b] = IF m.heap[b] = OfStream(1) THEN OfStream(0) ELSE m.heap[b]
      /\ n.back = m.back /\ n.sources = m.sources
      /\ \A b, t : <<b, t>> \in n.pending => t = 0
  BY MovedFacts
<1>2. 0 \in Stream
  BY DEF Stream
<1> HIDE DEF n
<1>3. \A b \in Block : n.heap[b] = Alive => m.heap[b] = Alive
  BY <1>1, <1>2, Keys
<1>4. \A b \in Block : (n.heap[b] = Alive /\ n.back[b] # Clean /\ b \notin X) =>
        \E t \in Stream : b \in n.sources[t] /\ n.back[b] = OfGroup(t)
  BY <1>1, <1>3 DEF Accounted
<1>5. Accounted(Settled(n, 0), X)
  BY <1>1, <1>2, <1>4, AccountedSettled
<1> QED
  BY <1>1, <1>2, <1>5, SettledFacts

\* After a barrier, what was taken for its group or for a tensor is still there.
LEMMA TransferBooks ==
  ASSUME NEW m, Books(m), NEW s \in Stream, NEW b \in Block, m.heap[b] # Alive, NEW key, key = Clean \/ key = OfGroup(s),
         Accounted(m, {})
  PROVE  LET x == AfterBarrier(Taken(m, b, key), s)
         IN /\ Books(x) /\ Accounted(x, {b}) /\ (key = Clean => Accounted(x, {}))
            /\ x.heap[b] = Alive /\ x.back[b] = key /\ x.sources[s] = {}
            /\ \A t \in Stream : <<b, t>> \notin x.pending
<1> DEFINE n == Taken(m, b, key)
           x == AfterBarrier(n, s)
<1>1. key \in BackKey
  BY Keys
<1>2. /\ Books(n) /\ n.heap[b] = Alive /\ n.back[b] = key
      /\ n.sources = m.sources /\ n.pending = m.pending
  BY <1>1, TakenFacts
<1>3. Accounted(n, {} \cup {b}) /\ (key = Clean => Accounted(n, {}))
  BY <1>1, AccountedTaken
<1>4. {} \cup {b} = {b}
  OBVIOUS
<1>5. b \notin n.sources[s] /\ \A t \in Stream : <<b, t>> \notin n.pending
  BY <1>2, BookTypes DEF Books
<1> HIDE DEF n
<1>6. Books(x) /\ Accounted(x, {b}) /\ (key = Clean => Accounted(x, {}))
  BY <1>2, <1>3, <1>4, AfterBarrierBooks, AccountedBarrier
<1>7. x.heap[b] = Alive /\ x.back[b] = key /\ \A t \in Stream : <<b, t>> \notin x.pending
  BY <1>2, <1>5, AfterBarrierKeeps
<1>8. x.sources[s] = {}
  BY <1>2, AfterBarrierSources
<1> QED
  BY <1>6, <1>7, <1>8 DEF n
-----------------------------------------------------------------------------
MemoryAccounted == Accounted(Memory, {})
AccountedInv == CollectivesInv /\ MemoryAccounted

\* The account, from the books an operation leaves.
LEMMA AccountedStep ==
  ASSUME AccountedInv, NEW m, Books(m), Store(m), Accounted(m, {})
  PROVE  MemoryAccounted'
<1>1. Memory' = m
  BY Stored
<1> QED
  BY <1>1 DEF MemoryAccounted

\* All memory is free at first.
LEMMA AccountedInit == CollectivesInit => MemoryAccounted
<1> SUFFICES ASSUME CollectivesInit PROVE Accounted(Memory, {})
  BY DEF MemoryAccounted
<1>1. Memory.pending = {} /\ \A b \in Block : Memory.heap[b] = Clean
  BY DEF CollectivesInit, Memory
<1>2. Clean # Alive
  BY Keys
<1> QED
  BY <1>1, <1>2 DEF Accounted

\* Operations that queue work keep the account.
LEMMA AccountedOperation ==
  ASSUME AccountedInv, Operation
  PROVE  MemoryAccounted'
<1> DEFINE s == host.stream
           m == Memory
           b == Allocated(m, GroupLineage(s))
           c == Allocated(m, CleanLineage)
           o == Allocated(m, Lineage(s))
<1>1. Good(queue, m, host.side, {}) /\ s \in Stream /\ Books(m) /\ Accounted(m, {}) /\ CollectivesInv /\ Clean \in BackKey /\ 0 \in Stream
  BY Keys DEF AccountedInv, MemoryAccounted, CollectivesInv, HostOK, Good, Stream
<1>2. /\ CanAlloc(m, GroupLineage(s)) => b \in Block /\ m.heap[b] # Alive
      /\ CanAlloc(m, CleanLineage) => c \in Block /\ m.heap[c] # Alive
      /\ CanAlloc(m, Lineage(s)) => o \in Block /\ m.heap[o] # Alive
  <2>1. s = 1 => Joined(queue, 1, 0)
    BY <1>1 DEF CollectivesInv, HostOK
  <2> QED
    BY <1>1, <2>1, AllocatedReach
<1>3. \A n, a : (Books(n) /\ a \in Block /\ n.heap[a] # Alive /\ Accounted(n, {})) =>
         /\ Books(Taken(n, a, Clean)) /\ Accounted(Taken(n, a, Clean), {})
         /\ \A e \in Block : Taken(n, a, Clean).heap[e] = (IF e = a THEN Alive ELSE n.heap[e])
                             /\ Taken(n, a, Clean).back[e] = (IF e = a THEN Clean ELSE n.back[e])
  <2> SUFFICES ASSUME NEW n, NEW a \in Block, Books(n), n.heap[a] # Alive, Accounted(n, {})
               PROVE  /\ Books(Taken(n, a, Clean)) /\ Accounted(Taken(n, a, Clean), {})
                      /\ \A e \in Block : Taken(n, a, Clean).heap[e] = (IF e = a THEN Alive ELSE n.heap[e])
                                          /\ Taken(n, a, Clean).back[e] = (IF e = a THEN Clean ELSE n.back[e])
    OBVIOUS
  <2>1. Books(Taken(n, a, Clean)) /\ Accounted(Taken(n, a, Clean), {})
    BY <1>1, TakenFacts, AccountedTaken
  <2>2. \A e \in Block : Taken(n, a, Clean).heap[e] = (IF e = a THEN Alive ELSE n.heap[e])
                         /\ Taken(n, a, Clean).back[e] = (IF e = a THEN Clean ELSE n.back[e])
    BY <1>1, TakenFacts
  <2> QED
    BY <2>1, <2>2
<1>4. \A t \in Usable : t \in Block /\ m.heap[t] = Alive /\ m.back[t] = Clean /\ \A u \in Stream : <<t, u>> \notin m.pending
  BY <1>1, UsableFacts
<1>5. ASSUME Store(Taken(m, o, Clean)), CanAlloc(m, Lineage(s)) PROVE MemoryAccounted'
  <2>1. o \in Block /\ m.heap[o] # Alive
    BY <1>2, <1>5
  <2> HIDE DEF o, m
  <2>2. Books(Taken(m, o, Clean)) /\ Accounted(Taken(m, o, Clean), {})
    BY <1>1, <1>3, <2>1
  <2> QED
    BY <1>5, <2>2, AccountedStep
<1>6. CASE Input
  <2>1. Store(Taken(m, o, Clean)) /\ CanAlloc(m, Lineage(s))
    BY <1>6 DEF Input
  <2> HIDE DEF o, m, s
  <2> QED
    BY <1>5, <2>1
<1>7. ASSUME NEW t \in Usable, Compute(t) PROVE MemoryAccounted'
  <2>1. Store(Taken(m, o, Clean)) /\ CanAlloc(m, Lineage(s))
    BY <1>7 DEF Compute
  <2> HIDE DEF o, m, s
  <2> QED
    BY <1>5, <2>1
<1>8. ASSUME NEW t, Update(t) PROVE MemoryAccounted'
  <2>1. Memory' = Memory
    BY <1>8 DEF Update, Memory
  <2> QED
    BY <1>1, <2>1 DEF MemoryAccounted
<1>9. ASSUME NEW t, AllReduce(t) PROVE MemoryAccounted'
  <2> DEFINE x == AfterBarrier(Taken(m, b, OfGroup(s)), s)
             y == AfterBarrier(x, s)
             z == Sourced(y, s, b)
  <2>1. CanAlloc(m, GroupLineage(s)) /\ Store(z)
    BY <1>9 DEF AllReduce, Sourced
  <2>2. b \in Block /\ m.heap[b] # Alive
    BY <1>2, <2>1
  <2> HIDE DEF b, m, s
  <2>3. /\ Books(x) /\ Accounted(x, {b}) /\ x.heap[b] = Alive /\ x.back[b] = OfGroup(s)
        /\ \A u \in Stream : <<b, u>> \notin x.pending
    <3>1. Books(x) /\ Accounted(x, {b}) /\ x.heap[b] = Alive /\ x.back[b] = OfGroup(s)
      BY <1>1, <2>2, TransferBooks
    <3>2. \A u \in Stream : <<b, u>> \notin x.pending
      BY <1>1, <2>2, TransferBooks
    <3> QED
      BY <3>1, <3>2
  <2>6. b \notin x.sources[s]
    BY <1>1, <2>2, TransferBooks
  <2> HIDE DEF x
  <2>4. Books(y) /\ Accounted(y, {b}) /\ y.heap[b] = Alive /\ y.back[b] = OfGroup(s)
    <3>1. Books(y) /\ Accounted(y, {b})
      BY <1>1, <2>3, AfterBarrierBooks, AccountedBarrier
    <3>2. y.heap[b] = Alive /\ y.back[b] = OfGroup(s)
      BY <1>1, <2>2, <2>3, <2>6, AfterBarrierKeeps
    <3> QED
      BY <3>1, <3>2
  <2> HIDE DEF y
  <2>5. Books(z) /\ Accounted(z, {})
    BY <1>1, <2>2, <2>4, SourcedFacts, AccountedSourced
  <2> HIDE DEF z
  <2> QED
    BY <2>1, <2>5, AccountedStep
<1>10. ASSUME Store(AfterBarrier(Taken(m, c, Clean), s)), CanAlloc(m, CleanLineage) PROVE MemoryAccounted'
  <2>1. c \in Block /\ m.heap[c] # Alive
    BY <1>2, <1>10
  <2> DEFINE x == AfterBarrier(Taken(m, c, Clean), s)
  <2> HIDE DEF c, m, s
  <2>2. Books(x) /\ Accounted(x, {})
    BY <1>1, <2>1, TransferBooks
  <2> HIDE DEF x
  <2>3. Store(x)
    BY <1>10 DEF x
  <2> QED
    BY <2>2, <2>3, AccountedStep
<1>11. ASSUME NEW t, AllGather(t) \/ AllGatherOnStream(t) PROVE MemoryAccounted'
  <2>1. Store(AfterBarrier(Taken(m, c, Clean), s)) /\ CanAlloc(m, CleanLineage)
    BY <1>11 DEF AllGather, AllGatherOnStream
  <2> HIDE DEF c, m, s
  <2> QED
    BY <1>10, <2>1
<1>12. ASSUME NEW t, NEW output, AllGatherInto(t, output) PROVE MemoryAccounted'
  <2> DEFINE x == AfterBarrier(Taken(m, b, OfGroup(s)), s)
             z == Sourced(x, s, b)
  <2>1. CanAlloc(m, GroupLineage(s)) /\ Store(z)
    BY <1>12 DEF AllGatherInto, Sourced
  <2>2. b \in Block /\ m.heap[b] # Alive
    BY <1>2, <2>1
  <2> HIDE DEF b, m, s
  <2>3. Books(x) /\ Accounted(x, {b}) /\ x.heap[b] = Alive /\ x.back[b] = OfGroup(s)
    BY <1>1, <2>2, TransferBooks
  <2> HIDE DEF x
  <2>4. Books(z) /\ Accounted(z, {})
    BY <1>1, <2>2, <2>3, SourcedFacts, AccountedSourced
  <2> HIDE DEF z
  <2> QED
    BY <2>1, <2>4, AccountedStep
<1>13. ASSUME NEW t, MergePush(t) PROVE MemoryAccounted'
  <2> DEFINE x == AfterBarrier(Taken(m, b, OfGroup(s)), s)
             out == Allocated(x, Lineage(s))
             y == Taken(x, out, Clean)
             z == Sourced(y, s, b)
  <2>1. CanAlloc(m, GroupLineage(s)) /\ CanAlloc(x, Lineage(s)) /\ Store(z)
    BY <1>13 DEF MergePush, Sourced
  <2>2. b \in Block /\ m.heap[b] # Alive
    BY <1>2, <2>1
  <2> HIDE DEF b, m, s
  <2>3. Books(x) /\ Accounted(x, {b}) /\ x.heap[b] = Alive /\ x.back[b] = OfGroup(s)
    BY <1>1, <2>2, TransferBooks
  <2> HIDE DEF x
  <2>4. out \in Block /\ x.heap[out] # Alive
    <3>1. out \in Block /\ x.heap[out] \in {Clean, OfStream(0), OfStream(s)}
      BY <1>1, <2>1, AllocatedKeys
    <3> QED
      BY <1>1, <3>1, Keys
  <2> HIDE DEF out
  <2>5. Books(y) /\ Accounted(y, {b}) /\ y.heap[b] = Alive /\ y.back[b] = OfGroup(s)
    <3>1. out # b
      BY <2>3, <2>4
    <3>2. Books(y) /\ Accounted(y, {b})
      BY <1>1, <2>3, <2>4, TakenFacts, AccountedTaken
    <3>3. y.heap[b] = Alive /\ y.back[b] = OfGroup(s)
      BY <1>1, <2>2, <2>3, <2>4, <3>1, TakenFacts
    <3> QED
      BY <3>2, <3>3
  <2> HIDE DEF y
  <2>6. Books(z) /\ Accounted(z, {})
    BY <1>1, <2>2, <2>5, SourcedFacts, AccountedSourced
  <2> HIDE DEF z
  <2> QED
    BY <2>1, <2>6, AccountedStep
<1>14. ASSUME NEW t \in Usable, MergePull(t) PROVE MemoryAccounted'
  <2> DEFINE x == AfterBarrier(m, s)
             out == Allocated(x, Lineage(s))
             y == Taken(x, out, Clean)
             z == Sourced(y, s, t)
  <2>1. CanAlloc(x, Lineage(s)) /\ Store(z)
    BY <1>14 DEF MergePull, Sourced
  <2>2. t \in Block /\ m.heap[t] = Alive /\ m.back[t] = Clean /\ \A u \in Stream : <<t, u>> \notin m.pending
    BY <1>4
  <2> HIDE DEF m, s
  <2>3. Books(x) /\ Accounted(x, {}) /\ x.heap[t] = Alive /\ x.back[t] = Clean
    BY <1>1, <2>2, AfterBarrierBooks, AccountedBarrier, AfterBarrierKeeps
  <2> HIDE DEF x
  <2>4. out \in Block /\ x.heap[out] # Alive
    <3>1. out \in Block /\ x.heap[out] \in {Clean, OfStream(0), OfStream(s)}
      BY <1>1, <2>1, AllocatedKeys
    <3> QED
      BY <1>1, <3>1, Keys
  <2> HIDE DEF out
  <2>5. Books(y) /\ Accounted(y, {}) /\ y.heap[t] = Alive /\ y.back[t] = Clean
    <3>1. Books(y) /\ Accounted(y, {})
      BY <1>1, <2>3, <2>4, TakenFacts, AccountedTaken
    <3>2. y.heap[t] = Alive /\ y.back[t] = Clean
      BY <1>1, <2>2, <2>3, <2>4, TakenFacts
    <3> QED
      BY <3>1, <3>2
  <2> HIDE DEF y
  <2>6. Books(z) /\ Accounted(z, {})
    BY <1>1, <2>2, <2>5, SourcedFacts, AccountedSourced
  <2> HIDE DEF z
  <2> QED
    BY <2>1, <2>6, AccountedStep
<1>15. ASSUME NEW t \in Usable, Dispose(t) PROVE MemoryAccounted'
  <2> DEFINE n == Awaiting(m, s, t)
             x == Settled(n, s)
  <2>1. Store(x)
    BY <1>15 DEF Dispose, Awaiting
  <2>2. t \in Block /\ m.heap[t] = Alive /\ m.back[t] = Clean
    BY <1>4
  <2> HIDE DEF m, s
  <2>3. /\ Books(n) /\ n.heap = m.heap /\ n.back = m.back /\ n.sources = m.sources
        /\ n.dropped = m.dropped /\ n.pending = m.pending \cup {<<t, s>>}
    BY <1>1, <2>2, AwaitingFacts
  <2> HIDE DEF n
  <2>4. \A a, u : NoViewLeft(n, a, u) <=> NoViewLeft(m, a, u)
    BY <2>3 DEF NoViewLeft
  <2>5. \A a, u : <<a, u>> \in n.pending /\ u # s => ~NoViewLeft(n, a, u)
    BY <1>1, <2>3, <2>4 DEF Accounted
  <2>6. \A a \in Block : (n.heap[a] = Alive /\ n.back[a] # Clean /\ a \notin {}) =>
          \E u \in Stream : a \in n.sources[u] /\ n.back[a] = OfGroup(u)
    BY <1>1, <2>3 DEF Accounted
  <2>7. Books(x) /\ Accounted(x, {})
    <3>1. \A X : X = {} => Accounted(Settled(n, s), X)
      BY <1>1, <2>3, <2>5, <2>6, AccountedSettled
    <3>2. Books(Settled(n, s))
      BY <1>1, <2>3, SettledFacts
    <3> QED
      BY <3>1, <3>2
  <2> HIDE DEF x
  <2> QED
    BY <2>1, <2>7, AccountedStep
<1> HIDE DEF s, m, b, c, o
<1> QED
  BY <1>6, <1>7, <1>8, <1>9, <1>11, <1>12, <1>13, <1>14, <1>15 DEF Operation

\* Synchronizing clears what waits: no group retains anything, and all that was
\* disposed of was so on one stream.
LEMMA SynchronizeClears ==
  ASSUME NEW m, Books(m), NEW x, x = CleanupSources(Merged(CleanupSources(m, 1)), 0), Accounted(m, {})
  PROVE  Books(x) /\ Accounted(x, {}) /\ x.pending = {}
<1> DEFINE c == CleanupSources(m, 1)
           g == Merged(c)
           r == Released(g, 0)
<1>1. 0 \in Stream /\ 1 \in Stream
  BY DEF Stream
<1>2. Books(c) /\ Accounted(c, {}) /\ c.sources[1] = {}
  <2>1. Books(c) /\ Accounted(c, {})
    BY <1>1, AfterBarrierBooks, AccountedCleanup
  <2>2. \A t \in Stream : AfterBarrier(m, 1).sources[t] = IF t = 1 THEN {} ELSE m.sources[t]
    BY <1>1, AfterBarrierSources
  <2>3. AfterBarrier(m, 1) = c
    BY DEF AfterBarrier
  <2> QED
    BY <1>1, <2>1, <2>2, <2>3
<1> HIDE DEF c
<1>3. Books(g) /\ Accounted(g, {})
  BY <1>2, AccountedMerged
<1>4. /\ g.sources[1] = {}
      /\ \A b, t : <<b, t>> \in g.pending => t = 0
      /\ \A b, t : <<b, t>> \in g.dropped => t = 0
  <2> DEFINE n == Moved(c)
  <2>1. Books(n) /\ g = Settled(n, 0) /\ n.sources = c.sources
        /\ (\A b, t : <<b, t>> \in n.pending => t = 0) /\ (\A b, t : <<b, t>> \in n.dropped => t = 0)
    BY <1>2, MovedFacts
  <2> HIDE DEF n, g
  <2>2. g.sources = n.sources /\ g.pending \subseteq n.pending /\ g.dropped \subseteq n.dropped
    BY <1>1, <2>1, SettledFacts
  <2> QED
    BY <1>2, <2>1, <2>2
<1> HIDE DEF g
<1>5. /\ Books(r) /\ r.pending = g.pending
      /\ r.dropped = g.dropped \cup {<<b, 0>> : b \in g.sources[0] \ Staging(g, 0)}
      /\ \A t \in Stream : r.sources[t] = IF t = 0 THEN {} ELSE g.sources[t]
  BY <1>1, <1>3, ReleasedFacts
<1> HIDE DEF r
<1>6. x = Settled(r, 0)
  BY CleanupIs DEF c, g, r
<1>7. \A b, t : <<b, t>> \in r.dropped => t = 0
  BY <1>4, <1>5
<1>8. \A t \in Stream : r.sources[t] = {}
  BY <1>4, <1>5 DEF Stream
<1>9. \A b : NoViewLeft(r, b, 0)
  BY <1>7, <1>8 DEF NoViewLeft
<1>10. \A b, t : <<b, t>> \in r.pending => b \in Freed(r, 0)
  <2> SUFFICES ASSUME NEW b, NEW t, <<b, t>> \in r.pending PROVE b \in Freed(r, 0)
    OBVIOUS
  <2>1. t = 0 /\ b \in Block
    BY <1>4, <1>5, BookTypes
  <2> QED
    BY <1>9, <2>1 DEF Freed
<1>11. x.pending = {}
  <2>1. x.pending = {y \in r.pending : y[1] \notin Freed(r, 0)}
    BY <1>1, <1>5, <1>6, SettledFacts
  <2>2. \A y \in r.pending : y = <<y[1], y[2]>>
    BY <1>5, BookTypes
  <2> QED
    BY <1>10, <2>1, <2>2
<1>12. Books(x) /\ Accounted(x, {})
  <2>1. x = CleanupSources(g, 0)
    BY DEF c, g
  <2>2. Books(CleanupSources(g, 0)) /\ Accounted(CleanupSources(g, 0), {})
    BY <1>1, <1>3, AfterBarrierBooks, AccountedCleanup
  <2> QED
    BY <2>1, <2>2
<1> QED
  BY <1>11, <1>12

\* So do those that change streams, dispose and synchronize.
LEMMA AccountedControl ==
  ASSUME AccountedInv, Control
  PROVE  MemoryAccounted'
<1>1. Books(Memory) /\ Accounted(Memory, {})
  BY DEF AccountedInv, MemoryAccounted, CollectivesInv, Good
<1>2. CASE BeginStream \/ EndStream
  <2>1. Memory' = Memory
    BY <1>2 DEF BeginStream, EndStream, Memory
  <2> QED
    BY <1>1, <2>1 DEF MemoryAccounted
<1>3. CASE JoinStream
  <2>1. Store(Merged(Memory))
    BY <1>3 DEF JoinStream
  <2>2. Books(Merged(Memory)) /\ Accounted(Merged(Memory), {})
    BY <1>1, AccountedMerged
  <2> QED
    BY <2>1, <2>2, AccountedStep
<1>4. CASE Synchronize
  <2> DEFINE e == CleanupSources(Merged(CleanupSources(Memory, 1)), 0)
             m == [e EXCEPT !.dropped = {}]
             keys == {OfStream(s) : s \in Stream} \cup {OfGroup(s) : s \in Stream}
             x == Drained(m, keys)
  <2>1. Store(x)
    BY <1>4 DEF Synchronize
  <2>2. Books(e) /\ Accounted(e, {}) /\ e.pending = {}
    BY <1>1, SynchronizeClears
  <2> HIDE DEF e
  <2>3. e = [heap |-> e.heap, back |-> e.back, sources |-> e.sources, pending |-> e.pending, dropped |-> e.dropped]
    BY <2>2, BookTypes
  <2>4. m = [heap |-> e.heap, back |-> e.back, sources |-> e.sources, pending |-> e.pending, dropped |-> {}]
    BY <2>3
  <2>5. m.heap = e.heap /\ m.back = e.back /\ m.sources = e.sources /\ m.pending = e.pending /\ m.dropped = {}
    BY <2>4
  <2>6. m \in [heap : [Block -> HeapKey], back : [Block -> BackKey], sources : [Stream -> SUBSET Block],
               pending : SUBSET (Block \X Stream), dropped : SUBSET (Block \X Stream)]
    BY <2>2, <2>4, BookTypes
  <2> HIDE DEF m
  <2>7. Books(m) /\ Accounted(m, {})
    BY <2>2, <2>5, <2>6 DEF Books, Accounted
  <2>8. Alive \notin keys
    BY Keys
  <2> HIDE DEF keys
  <2>9. Books(x) /\ Accounted(x, {})
    BY <2>7, <2>8, DrainedFacts, AccountedDrained
  <2> HIDE DEF x
  <2> QED
    BY <2>1, <2>9, AccountedStep
<1> QED
  BY <1>2, <1>3, <1>4 DEF Control

\* Every step does.
LEMMA AccountedNext ==
  ASSUME AccountedInv, [CollectivesNext]_collectiveVars
  PROVE  AccountedInv'
<1>1. CollectivesInv'
  BY CollectivesNextInv DEF AccountedInv
<1>2. ASSUME Memory' = Memory PROVE MemoryAccounted'
  BY <1>2 DEF AccountedInv, MemoryAccounted
<1>3. ASSUME UNCHANGED collectiveVars \/ \E r \in Peer, s \in Stream : Run(r, s) PROVE MemoryAccounted'
  BY <1>2, <1>3 DEF collectiveVars, Run, Memory
<1>4. MemoryAccounted'
  <2>1. ASSUME Operation PROVE MemoryAccounted'
    BY <2>1, AccountedOperation
  <2>2. ASSUME Control PROVE MemoryAccounted'
    BY <2>2, AccountedControl
  <2> QED
    BY <1>3, <2>1, <2>2 DEF CollectivesNext
<1> QED
  BY <1>1, <1>4 DEF AccountedInv

\* What the account says of dropped and pending memory.
LEMMA AccountedBlocks == AccountedInv => BlocksAccounted
<1> SUFFICES ASSUME AccountedInv PROVE BlocksAccounted
  OBVIOUS
<1>1. Books(Memory) /\ Accounted(Memory, {})
  BY DEF AccountedInv, MemoryAccounted, CollectivesInv, Good
<1>2. Memory.heap = heap /\ Memory.back = back /\ Memory.pending = pending /\ Memory.sources = sources /\ Memory.dropped = dropped
  BY DEF Memory
<1>3. \A b : b \in Live <=> b \in Block /\ heap[b] = Alive
  BY DEF Live, Alive
<1>4. \A x \in pending : x = <<x[1], x[2]>> /\ x[1] \in Block /\ heap[x[1]] = Alive
  BY <1>1, <1>2, BookTypes DEF Books
<1>5. \A x \in pending : x[1] \in Live /\ ~NoViewLeft(Memory, x[1], x[2])
  BY <1>1, <1>2, <1>3, <1>4 DEF Accounted
<1>6. \A b \in Live : back[b] # Clean => \E s \in Stream : b \in sources[s] /\ back[b] = OfGroup(s)
  BY <1>1, <1>2, <1>3 DEF Accounted
<1>7. \A s \in Stream : sources[s] \subseteq Live
  BY <1>1, <1>2, <1>3, BookTypes DEF Books
<1> QED
  BY <1>5, <1>6, <1>7 DEF BlocksAccounted

\* Scratch is a group's until a barrier releases it, and a tensor that was
\* disposed of waits only while a view of it is left: memory comes back, once.
THEOREM BlocksAccountedHolds == CollectivesSpec => []BlocksAccounted
<1>1. CollectivesInit => AccountedInv
  BY CollectivesInitInv, AccountedInit DEF AccountedInv
<1>2. AccountedInv /\ [CollectivesNext]_collectiveVars => AccountedInv'
  BY AccountedNext
<1> QED
  BY <1>1, <1>2, AccountedBlocks, PTL DEF CollectivesSpec

=============================================================================
