-------------------------- MODULE Scheduler_proofs --------------------------
(*************************************************************************)
(* Theorems about Scheduler, for any number of requests and flushes and  *)
(* any batch size: the batch and the rows of the cache stay in step, a   *)
(* server with a host tier is stopped only by its device, nobody is left *)
(* waiting when run() is over, and run() keeps the order it was given    *)
(* the requests and flushes in: it implements AdmissionBarrier.          *)
(*************************************************************************)
EXTENDS Scheduler, FiniteSetTheorems, TLAPS

-----------------------------------------------------------------------------
(* Sequences                                                             *)

\* Appending adds one element to the range, and repeats none if it is new.
LEMMA RangeAppend ==
  ASSUME NEW S, NEW u \in Seq(S), NEW e \in S
  PROVE  /\ Append(u, e) \in Seq(S) /\ Len(Append(u, e)) = Len(u) + 1
         /\ Range(Append(u, e)) = Range(u) \cup {e}
         /\ IsInjective(u) /\ e \notin Range(u) => IsInjective(Append(u, e))
<1>1. /\ Append(u, e) \in Seq(S) /\ Len(Append(u, e)) = Len(u) + 1
      /\ Append(u, e)[Len(u) + 1] = e
      /\ \A i \in 1..Len(u) : Append(u, e)[i] = u[i]
  OBVIOUS
<1>2. DOMAIN u = 1..Len(u) /\ DOMAIN Append(u, e) = 1..(Len(u) + 1) /\ Len(u) \in Nat
  BY <1>1
<1>3. Range(Append(u, e)) \subseteq Range(u) \cup {e}
  BY <1>1, <1>2 DEF Range
<1>4. Range(u) \cup {e} \subseteq Range(Append(u, e))
  BY <1>1, <1>2 DEF Range
<1>5. ASSUME IsInjective(u), e \notin Range(u) PROVE IsInjective(Append(u, e))
  <2>1. SUFFICES ASSUME NEW j \in 1..(Len(u) + 1), NEW k \in 1..(Len(u) + 1),
                        Append(u, e)[j] = Append(u, e)[k]
                 PROVE  j = k
    BY <1>2 DEF IsInjective
  <2>2. \A i \in 1..Len(u) : u[i] # e
    BY <1>2, <1>5 DEF Range
  <2>3. CASE j = Len(u) + 1 \/ k = Len(u) + 1
    BY <2>1, <2>2, <2>3, <1>1, <1>2
  <2>4. CASE j \in 1..Len(u) /\ k \in 1..Len(u)
    BY <2>1, <2>4, <1>1, <1>2, <1>5 DEF IsInjective
  <2> QED
    BY <2>3, <2>4, <1>2
<1> QED
  BY <1>1, <1>3, <1>4, <1>5

\* Taking the head takes at most one element out of the range.
LEMMA RangeTail ==
  ASSUME NEW S, NEW u \in Seq(S), u # <<>>
  PROVE  /\ Head(u) \in S /\ Tail(u) \in Seq(S)
         /\ Range(u) = {Head(u)} \cup Range(Tail(u))
         /\ IsInjective(u) => IsInjective(Tail(u)) /\ Head(u) \notin Range(Tail(u))
<1>1. /\ Len(u) \in Nat /\ Len(u) >= 1 /\ DOMAIN u = 1..Len(u)
      /\ Head(u) = u[1] /\ Head(u) \in S
      /\ Tail(u) \in Seq(S) /\ DOMAIN Tail(u) = 1..(Len(u) - 1)
      /\ \A i \in 1..(Len(u) - 1) : Tail(u)[i] = u[i + 1]
  OBVIOUS
<1>2. ASSUME NEW i \in 1..Len(u) PROVE u[i] \in {Head(u)} \cup Range(Tail(u))
  <2>1. CASE i = 1
    BY <2>1, <1>1
  <2>2. CASE i # 1
    <3>1. i - 1 \in 1..(Len(u) - 1) /\ (i - 1) + 1 = i
      BY <2>2, <1>1
    <3>2. Tail(u)[i - 1] = u[i]
      BY <3>1, <1>1
    <3> QED
      BY <3>1, <3>2, <1>1 DEF Range
  <2> QED
    BY <2>1, <2>2
<1>3. ASSUME NEW i \in 1..(Len(u) - 1) PROVE Tail(u)[i] \in Range(u)
  <2>1. i + 1 \in 1..Len(u)
    BY <1>1
  <2> QED
    BY <2>1, <1>1 DEF Range
<1>4. Head(u) \in Range(u)
  BY <1>1 DEF Range
<1>5. Range(u) \subseteq {Head(u)} \cup Range(Tail(u))
  BY <1>1, <1>2 DEF Range
<1>6. Range(Tail(u)) \subseteq Range(u)
  BY <1>1, <1>3 DEF Range
<1>7. ASSUME IsInjective(u) PROVE IsInjective(Tail(u)) /\ Head(u) \notin Range(Tail(u))
  <2>1. \A i \in 1..(Len(u) - 1) : i + 1 \in DOMAIN u /\ i + 1 # 1 /\ Tail(u)[i] = u[i + 1]
    BY <1>1
  <2>2. \A i \in 1..(Len(u) - 1) : Tail(u)[i] # Head(u)
    BY <2>1, <1>1, <1>7 DEF IsInjective
  <2>3. \A i, j \in 1..(Len(u) - 1) : Tail(u)[i] = Tail(u)[j] => i + 1 = j + 1
    BY <2>1, <1>7 DEF IsInjective
  <2>4. \A i, j \in 1..(Len(u) - 1) : i + 1 = j + 1 => i = j
    BY <1>1
  <2> QED
    BY <2>2, <2>3, <2>4, <1>1 DEF IsInjective, Range
<1> QED
  BY <1>1, <1>4, <1>5, <1>6, <1>7

\* The ranges of the empty sequence and of a sequence of one.
LEMMA RangeShort ==
  ASSUME NEW e
  PROVE  /\ Range(<<>>) = {} /\ Range(<<e>>) = {e}
         /\ IsInjective(<<>>) /\ IsInjective(<<e>>)
         /\ Len(<<>>) = 0 /\ Len(<<e>>) = 1
<1>1. DOMAIN <<>> = {} /\ DOMAIN <<e>> = {1} /\ <<e>>[1] = e
  OBVIOUS
<1> QED
  BY <1>1 DEF Range, IsInjective

\* No index selects nothing.
LEMMA AtNone ==
  ASSUME NEW u
  PROVE  At(u, {}) = <<>>
  BY FS_EmptySet DEF At

\* Counting the indices at or below each one numbers them 1, 2, ... in order.
LEMMA RankBijective ==
  ASSUME NEW S \in SUBSET Nat, IsFiniteSet(S)
  PROVE  /\ \A i \in S : Rank(i, S) \in 1..Cardinality(S)
         /\ \A k \in 1..Cardinality(S) : \E i \in S : Rank(i, S) = k
         /\ \A i \in S, j \in S : Rank(i, S) = Rank(j, S) => i = j
<1> DEFINE below(i) == {j \in S : j <= i}
           rank == [i \in S |-> Rank(i, S)]
           n == Cardinality(S)
<1>1. n \in Nat /\ IsFiniteSet(1..n) /\ Cardinality(1..n) = n
  BY FS_CardinalityType, FS_Interval
<1>2. ASSUME NEW i \in S
      PROVE  IsFiniteSet(below(i)) /\ Rank(i, S) \in 1..n
  <2>1. below(i) \in SUBSET S /\ i \in below(i)
    OBVIOUS
  <2>2. IsFiniteSet(below(i)) /\ Cardinality(below(i)) <= n
    BY <2>1, FS_Subset
  <2>3. Cardinality(below(i)) \in Nat /\ Cardinality(below(i)) # 0
    BY <2>1, <2>2, FS_CardinalityType, FS_EmptySet
  <2> QED
    BY <2>2, <2>3, <1>1 DEF Rank
<1>3. ASSUME NEW i \in S, NEW j \in S, i < j
      PROVE  Rank(i, S) # Rank(j, S)
  <2>1. below(i) \in SUBSET below(j) /\ j \in below(j) /\ j \notin below(i)
    <3>1. i \in Nat /\ j \in Nat /\ S \subseteq Nat
      OBVIOUS
    <3>2. \A m \in S : m <= i => m <= j
      BY <3>1, <1>3
    <3>3. j <= j /\ ~(j <= i)
      BY <3>1, <1>3
    <3> QED
      BY <3>2, <3>3
  <2>2. below(i) # below(j)
    BY <2>1
  <2> QED
    BY <2>1, <2>2, <1>2, FS_Subset DEF Rank
<1>4. \A i \in S, j \in S : Rank(i, S) = Rank(j, S) => i = j
  <2> SUFFICES ASSUME NEW i \in S, NEW j \in S, i # j PROVE Rank(i, S) # Rank(j, S)
    OBVIOUS
  <2>1. CASE i < j
    BY <2>1, <1>3
  <2>2. CASE j < i
    BY <2>2, <1>3
  <2> QED
    BY <2>1, <2>2
<1>5. rank \in Injection(S, 1..n)
  BY <1>2, <1>4 DEF Injection, IsInjective
<1>6. rank \in Surjection(S, 1..n)
  BY <1>1, <1>5, FS_Injection
<1> QED
  BY <1>2, <1>4, <1>6 DEF Surjection

\* Selecting rows keeps exactly the selected ones, and keeps them distinct.
LEMMA AtFacts ==
  ASSUME NEW T, NEW u \in Seq(T), NEW S \in SUBSET DOMAIN u
  PROVE  /\ At(u, S) \in Seq(T)
         /\ Len(At(u, S)) <= Len(u)
         /\ Range(At(u, S)) = {u[i] : i \in S}
         /\ IsInjective(u) => IsInjective(At(u, S))
<1> DEFINE n == Cardinality(S)
           pick(k) == CHOOSE i \in S : Rank(i, S) = k
           v == At(u, S)
<1>1. /\ DOMAIN u = 1..Len(u) /\ Len(u) \in Nat
      /\ \A i \in DOMAIN u : u[i] \in T
  OBVIOUS
<1>2. IsFiniteSet(S) /\ S \in SUBSET Nat /\ n \in Nat /\ n <= Len(u)
  <2>1. IsFiniteSet(DOMAIN u) /\ Cardinality(DOMAIN u) = Len(u)
    <3>1. IsFiniteSet(1..Len(u)) /\ Cardinality(1..Len(u)) = Len(u)
      <4> HIDE <1>1
      <4>1. Len(u) \in Nat
        OBVIOUS
      <4> QED
        BY <4>1, FS_Interval
    <3> QED
      BY <3>1, <1>1
  <2>2. IsFiniteSet(S) /\ Cardinality(S) <= Len(u)
    BY <2>1, FS_Subset
  <2> QED
    BY <2>2, <1>1, FS_CardinalityType
<1>3. \A k \in 1..n : pick(k) \in S /\ Rank(pick(k), S) = k
  BY <1>2, RankBijective
<1>4. \A i \in S : Rank(i, S) \in 1..n /\ pick(Rank(i, S)) = i
  BY <1>2, <1>3, RankBijective
<1>5. v = [k \in 1..n |-> u[pick(k)]]
  BY DEF At
<1> HIDE DEF pick, v, n
<1>6. v \in Seq(T) /\ Len(v) = n /\ DOMAIN v = 1..n
  BY <1>1, <1>2, <1>3, <1>5
<1>7. Range(v) = {u[i] : i \in S}
  BY <1>3, <1>4, <1>5 DEF Range
<1>8. ASSUME IsInjective(u) PROVE IsInjective(v)
  <2>1. SUFFICES ASSUME NEW j \in 1..n, NEW k \in 1..n, v[j] = v[k] PROVE j = k
    BY <1>6 DEF IsInjective
  <2>2. pick(j) = pick(k)
    BY <2>1, <1>3, <1>5, <1>8 DEF IsInjective
  <2> QED
    BY <2>2, <1>3
<1> QED
  BY <1>2, <1>6, <1>7, <1>8 DEF v

\* A sequence has as many elements as places when it repeats none, else fewer.
LEMMA RangeCardinality ==
  ASSUME NEW T, NEW u \in Seq(T)
  PROVE  /\ IsFiniteSet(Range(u)) /\ Cardinality(Range(u)) \in Nat
         /\ Cardinality(Range(u)) <= Len(u)
         /\ IsInjective(u) => Cardinality(Range(u)) = Len(u)
<1>1. /\ Len(u) \in Nat /\ DOMAIN u = 1..Len(u)
      /\ IsFiniteSet(1..Len(u)) /\ Cardinality(1..Len(u)) = Len(u)
  <2>1. Len(u) \in Nat /\ DOMAIN u = 1..Len(u)
    OBVIOUS
  <2> QED
    BY <2>1, FS_Interval
<1>2. u \in Surjection(1..Len(u), Range(u))
  BY <1>1 DEF Surjection, Range
<1>3. IsInjective(u) => u \in Injection(1..Len(u), Range(u))
  BY <1>1 DEF Injection, IsInjective, Range
<1> QED
  BY <1>1, <1>2, <1>3, FS_Surjection, FS_CardinalityType

\* Joining two sequences that share nothing.
LEMMA RangeConcat ==
  ASSUME NEW T, NEW u \in Seq(T), NEW v \in Seq(T)
  PROVE  /\ u \o v \in Seq(T) /\ Len(u \o v) = Len(u) + Len(v)
         /\ Range(u \o v) = Range(u) \cup Range(v)
         /\ IsInjective(u) /\ IsInjective(v) /\ Range(u) \cap Range(v) = {}
              => IsInjective(u \o v)
<1>1. /\ u \o v \in Seq(T) /\ Len(u \o v) = Len(u) + Len(v)
      /\ Len(u) \in Nat /\ Len(v) \in Nat
      /\ DOMAIN u = 1..Len(u) /\ DOMAIN v = 1..Len(v)
      /\ DOMAIN (u \o v) = 1..(Len(u) + Len(v))
      /\ \A i \in 1..Len(u) : (u \o v)[i] = u[i]
      /\ \A i \in (Len(u) + 1)..(Len(u) + Len(v)) : (u \o v)[i] = v[i - Len(u)]
  OBVIOUS
<1>2. \A i \in 1..Len(v) : (u \o v)[Len(u) + i] = v[i]
  <2> SUFFICES ASSUME NEW i \in 1..Len(v) PROVE (u \o v)[Len(u) + i] = v[i]
    OBVIOUS
  <2>1. Len(u) + i \in (Len(u) + 1)..(Len(u) + Len(v)) /\ (Len(u) + i) - Len(u) = i
    BY <1>1
  <2> QED
    BY <2>1, <1>1
<1>3. \A i \in 1..(Len(u) + Len(v)) : (u \o v)[i] \in Range(u) \cup Range(v)
  <2> SUFFICES ASSUME NEW i \in 1..(Len(u) + Len(v))
               PROVE  (u \o v)[i] \in Range(u) \cup Range(v)
    OBVIOUS
  <2>1. CASE i <= Len(u)
    BY <2>1, <1>1 DEF Range
  <2>2. CASE i > Len(u)
    <3>1. i - Len(u) \in 1..Len(v) /\ (u \o v)[i] = v[i - Len(u)]
      BY <2>2, <1>1
    <3> QED
      BY <3>1, <1>1 DEF Range
  <2> QED
    BY <2>1, <2>2, <1>1
<1>4. Range(u \o v) \subseteq Range(u) \cup Range(v)
  BY <1>1, <1>3 DEF Range
<1>5. Range(u) \cup Range(v) \subseteq Range(u \o v)
  <2>1. \A i \in 1..Len(u) : i \in DOMAIN (u \o v) /\ (u \o v)[i] = u[i]
    BY <1>1
  <2>2. \A i \in 1..Len(v) : Len(u) + i \in DOMAIN (u \o v) /\ (u \o v)[Len(u) + i] = v[i]
    BY <1>1, <1>2
  <2>3. ASSUME NEW x \in Range(u) PROVE x \in Range(u \o v)
    <3>1. PICK i \in 1..Len(u) : x = u[i]
      BY <1>1 DEF Range
    <3> QED
      BY <3>1, <2>1 DEF Range
  <2>4. ASSUME NEW x \in Range(v) PROVE x \in Range(u \o v)
    <3>1. PICK i \in 1..Len(v) : x = v[i]
      BY <1>1 DEF Range
    <3> QED
      BY <3>1, <2>2 DEF Range
  <2> QED
    BY <2>3, <2>4
<1>6. ASSUME IsInjective(u), IsInjective(v), Range(u) \cap Range(v) = {},
             NEW i \in 1..(Len(u) + Len(v)), NEW j \in 1..(Len(u) + Len(v)),
             (u \o v)[i] = (u \o v)[j], i < j
      PROVE  FALSE
  <2>1. CASE j <= Len(u)
    <3>1. i \in DOMAIN u /\ j \in DOMAIN u /\ u[i] = u[j]
      BY <2>1, <1>1, <1>6
    <3> QED
      BY <3>1, <1>1, <1>6 DEF IsInjective
  <2>2. CASE i > Len(u)
    <3>1. /\ i - Len(u) \in DOMAIN v /\ j - Len(u) \in DOMAIN v
          /\ v[i - Len(u)] = v[j - Len(u)]
      BY <2>2, <1>1, <1>6
    <3>2. i - Len(u) = j - Len(u)
      BY <3>1, <1>6 DEF IsInjective
    <3> QED
      BY <3>2, <1>1, <1>6
  <2>3. CASE i <= Len(u) /\ j > Len(u)
    <3>1. i \in DOMAIN u /\ (u \o v)[i] = u[i]
      BY <2>3, <1>1
    <3>2. j - Len(u) \in DOMAIN v /\ (u \o v)[j] = v[j - Len(u)]
      BY <2>3, <1>1
    <3> QED
      BY <3>1, <3>2, <1>6 DEF Range
  <2> QED
    BY <2>1, <2>2, <2>3, <1>1, <1>6
<1>7. ASSUME IsInjective(u), IsInjective(v), Range(u) \cap Range(v) = {}
      PROVE  IsInjective(u \o v)
  <2> SUFFICES ASSUME NEW i \in 1..(Len(u) + Len(v)), NEW j \in 1..(Len(u) + Len(v)),
                      (u \o v)[i] = (u \o v)[j]
               PROVE  i = j
    BY <1>1 DEF IsInjective
  <2>1. i < j \/ j < i \/ i = j
    BY <1>1
  <2> QED
    BY <2>1, <1>6, <1>7
<1> QED
  BY <1>1, <1>4, <1>5, <1>7

-----------------------------------------------------------------------------
(* The inductive invariant                                               *)

\* The rows of the cache are the batch's, also while admit puts them aside.
RowsFollow ==
  /\ RowsMatchBatch
  /\ pc = "admit" => rows = incoming /\ staged = saved

\* A request is in one place: queued, in the hands of run(), or in the batch.
OnePlace ==
  /\ IsInjective(queue) /\ IsInjective(incoming)
  /\ IsInjective(active) /\ IsInjective(saved)
  /\ Range(queue) \cup Range(incoming) \cup admitted \cup ({item} \cap Request) \subseteq Range(order)
  /\ Range(queue) \cap (Range(incoming) \cup admitted) = {}
  /\ item \in Request => item \notin Range(queue) \cup Range(incoming) \cup admitted
  /\ pc \notin {"admit", "drain"} => Range(incoming) \cap Range(active) = {}
  /\ pc = "admit" => Range(incoming) \cap Range(saved) = {}

\* Who is admitted, at every await; run() holds requests only on their way in.
BatchHeld ==
  /\ pc \notin {"admit", "drain"} => Range(active) = admitted
  /\ pc = "admit" => active = <<>> /\ Range(incoming) \cup Range(saved) = admitted
  /\ pc = "drain" => Range(incoming) \subseteq admitted
  /\ pc \notin {"collect", "take", "admit", "drain"} => incoming = <<>>
  /\ pc \in {"idle", "woken", "rejected", "collect", "flush"} => active = <<>>
  /\ pc \in {"returned", "threw", "stopped"} => admitted = {}

\* The batch, and what is on its way into it, fit; the gauge counts it.
BatchFits ==
  /\ pc \notin {"admit", "drain"} => Len(active) + Len(incoming) <= MaxBatch
  /\ pc = "admit" => Len(saved) + Len(incoming) <= MaxBatch
  /\ running = Cardinality(admitted)
  /\ running <= MaxBatch

\* Whoever has no answer yet is held where the answer will come from, and an
\* ended queue leaves nobody there.
Answerable ==
  /\ \A r \in Range(order) \cap Request :
       Ended(r) \/ r \in Range(queue) \cup Range(incoming) \cup admitted \cup {item}
  /\ \A f \in Flush : flushes[f] = "waiting" => f \in Range(queue) \cup {pendingFlush, item}
  /\ item # None => pc \in {"woken", "flush"}
  /\ pc = "woken" => item \in Event /\ pendingFlush = None
  /\ pc = "idle" => pendingFlush = None
  /\ pc = "flush" => item \in Flush /\ pendingFlush \in {item, None}
  /\ queueEnded => queue = <<>> /\ pendingFlush = None /\ \A r \in admitted : Ended(r)
  /\ pc = "take" => ~queueEnded
  /\ pc \in {"rejected", "returned", "stopped"} => queueEnded

\* Only the device leads run() out of its loop.
DeviceOnly == HasHost /\ pc \in {"drain", "threw", "stopped"} => broken

IInv == TypeOK /\ RowsFollow /\ OnePlace /\ BatchHeld /\ BatchFits /\ Answerable /\ DeviceOnly

-----------------------------------------------------------------------------
(* What the compound steps do to it                                      *)

\* removeFinished takes out of the batch, and of the gauge, exactly the
\* requests that have ended.
LEMMA RemoveFinishedFacts ==
  ASSUME IInv, pc \notin {"admit", "drain"}, RemoveFinished
  PROVE  /\ active' \in Seq(Request) /\ IsInjective(active')
         /\ Len(active') \in Nat /\ Len(active') <= Len(active)
         /\ rows' = active' /\ saved' = <<>> /\ staged' = <<>>
         /\ admitted' = Range(active') /\ admitted' \subseteq admitted
         /\ \A r \in admitted \ admitted' : Ended(r)
         /\ running' = Cardinality(admitted') /\ running' \in Nat /\ running' <= MaxBatch
         /\ success' \in Nat
         /\ Unfinished = {} => active' = <<>> /\ admitted' = {}
<1> DEFINE gone == {active[i] : i \in DOMAIN active \ Unfinished} \cap admitted
<1>1. /\ active \in Seq(Request) /\ IsInjective(active) /\ Range(active) = admitted
      /\ rows = active /\ saved = <<>> /\ staged = <<>>
      /\ running = Cardinality(admitted) /\ running <= MaxBatch
      /\ running \in Nat /\ success \in Nat
  BY DEF IInv, TypeOK, RowsFollow, RowsMatchBatch, OnePlace, BatchHeld, BatchFits
<1>2. /\ active' = At(active, Unfinished) /\ rows' = At(rows, Unfinished)
      /\ admitted' = admitted \ gone
      /\ running' = running - Cardinality(gone) /\ success' = success + Cardinality(gone)
      /\ saved' = saved /\ staged' = staged
  BY DEF RemoveFinished
<1>3. Unfinished \in SUBSET DOMAIN active
  BY DEF Unfinished
<1>4. /\ active' \in Seq(Request) /\ IsInjective(active') /\ Len(active') <= Len(active)
      /\ Range(active') = {active[i] : i \in Unfinished}
  BY <1>1, <1>2, <1>3, AtFacts
<1>5. gone = {active[i] : i \in DOMAIN active \ Unfinished}
  BY <1>1 DEF Range
<1>6. admitted \ gone = {active[i] : i \in Unfinished}
  <2>1. ASSUME NEW i \in Unfinished PROVE active[i] \in admitted /\ active[i] \notin gone
    BY <1>1, <1>3, <1>5 DEF IsInjective, Range
  <2>2. ASSUME NEW r \in admitted \ gone PROVE \E i \in Unfinished : r = active[i]
    BY <1>1, <1>5 DEF Range
  <2> QED
    BY <2>1, <2>2
<1>7. \A r \in gone : Ended(r)
  BY <1>5 DEF Unfinished
<1>8. /\ IsFiniteSet(admitted) /\ gone \in SUBSET admitted
      /\ IsFiniteSet(gone) /\ Cardinality(gone) \in Nat
      /\ Cardinality(admitted \ gone) = Cardinality(admitted) - Cardinality(gone)
      /\ Cardinality(admitted \ gone) \in Nat
      /\ Cardinality(admitted \ gone) <= Cardinality(admitted)
  <2>1. IsFiniteSet(admitted) /\ gone \in SUBSET admitted
    BY <1>1, RangeCardinality
  <2>2. IsFiniteSet(gone) /\ admitted \cap gone = gone
    BY <2>1, FS_Subset
  <2>3. /\ IsFiniteSet(admitted \ gone)
        /\ Cardinality(admitted \ gone) = Cardinality(admitted) - Cardinality(gone)
    BY <2>1, <2>2, FS_Difference
  <2>4. Cardinality(admitted \ gone) <= Cardinality(admitted)
    BY <2>1, FS_Subset
  <2> QED
    BY <2>1, <2>2, <2>3, <2>4, FS_CardinalityType
<1>9. ASSUME Unfinished = {} PROVE active' = <<>> /\ admitted' = {}
  <2>1. active' = <<>>
    BY <1>2, <1>9, AtNone
  <2> QED
    BY <2>1, <1>2, <1>6, <1>9
<1>10. /\ running' = Cardinality(admitted') /\ running' \in Nat /\ running' <= MaxBatch
       /\ success' \in Nat
  BY <1>1, <1>2, <1>8, BatchAssumption
<1>11. /\ rows' = active' /\ saved' = <<>> /\ staged' = <<>>
       /\ admitted' = Range(active') /\ admitted' \subseteq admitted
       /\ \A r \in admitted \ admitted' : Ended(r)
  BY <1>1, <1>2, <1>4, <1>6, <1>7
<1>12. Len(active') \in Nat
  BY <1>4
<1> QED
  BY <1>4, <1>9, <1>10, <1>11, <1>12

\* publish only ever ends requests, and never gives one more than its maximum.
LEMMA PublishFacts ==
  ASSUME IInv, NEW D \in SUBSET Request, NEW gain \in [D -> Nat], NEW eos, Publish(gain, eos)
  PROVE  /\ tokens' \in [Request -> {"open", "done", "error"}]
         /\ produced' \in [Request -> 0..MaxTokens]
         /\ \A r \in Request : Ended(r) => Ended(r)'
<1>1. /\ tokens \in [Request -> {"open", "done", "error"}]
      /\ produced \in [Request -> 0..MaxTokens]
      /\ MaxTokens \in Nat
  BY BoundAssumption DEF IInv, TypeOK
<1> DEFINE takes(r) == r \in DOMAIN gain /\ ~Ended(r)
           total(r) == IF produced[r] + gain[r] < MaxTokens THEN produced[r] + gain[r] ELSE MaxTokens
<1>2. /\ produced' = [r \in Request |-> IF takes(r) THEN total(r) ELSE produced[r]]
      /\ tokens' = [r \in Request |-> IF takes(r) /\ (r \in eos \/ total(r) = MaxTokens)
                                      THEN "done" ELSE tokens[r]]
  BY DEF Publish
<1>3. ASSUME NEW r \in Request, takes(r) PROVE total(r) \in 0..MaxTokens
  <2>1. produced[r] \in Nat /\ gain[r] \in Nat
    BY <1>1, <1>3
  <2> QED
    BY <2>1, <1>1
<1> HIDE DEF takes, total
<1>4. produced' \in [Request -> 0..MaxTokens]
  BY <1>1, <1>2, <1>3
<1>5. \A r \in Request : Ended(r) => Ended(r)'
  BY <1>1, <1>2 DEF Ended
<1> QED
  BY <1>1, <1>2, <1>4, <1>5

\* The requests admit adds are new to the batch, and the gauge counts them.
LEMMA AdmitCounts ==
  ASSUME IInv, pc = "take"
  PROVE  /\ Cardinality(admitted \cup Range(incoming)) = running + Len(incoming)
         /\ running + Len(incoming) \in Nat
         /\ running + Len(incoming) <= MaxBatch
<1>1. /\ incoming \in Seq(Request) /\ IsInjective(incoming)
      /\ active \in Seq(Request) /\ IsInjective(active) /\ Range(active) = admitted
      /\ Range(incoming) \cap admitted = {}
      /\ running = Cardinality(admitted) /\ Len(active) + Len(incoming) <= MaxBatch
  BY DEF IInv, TypeOK, OnePlace, BatchHeld, BatchFits
<1>2. /\ IsFiniteSet(admitted) /\ Cardinality(admitted) = Len(active)
      /\ IsFiniteSet(Range(incoming)) /\ Cardinality(Range(incoming)) = Len(incoming)
  BY <1>1, RangeCardinality
<1>3. Len(active) \in Nat /\ Len(incoming) \in Nat
  BY <1>1
<1>4. Cardinality(admitted \cup Range(incoming))
        = Cardinality(admitted) + Cardinality(Range(incoming)) - Cardinality({})
  BY <1>1, <1>2, FS_Union
<1> QED
  BY <1>1, <1>2, <1>3, <1>4, FS_EmptySet

\* A submitted event is new; it is queued, or handed to the waiting dequeue.
LEMMA SubmitFacts ==
  ASSUME IInv, NEW e \in Event, Submit(e)
  PROVE  /\ e \notin Range(order) /\ Range(order') = Range(order) \cup {e}
         /\ order' \in Seq(Event) /\ queue' \in Seq(Event) /\ IsInjective(queue')
         /\ ~queueEnded /\ queueEnded' = queueEnded /\ incoming' = incoming
         /\ \/ pc = "idle" /\ pc' = "woken" /\ item' = e /\ queue' = queue
            \/ /\ pc # "idle" /\ pc' = pc /\ item' = item
               /\ Range(queue') = Range(queue) \cup {e}
<1>1. /\ queue \in Seq(Event) /\ order \in Seq(Event) /\ IsInjective(queue)
      /\ Range(queue) \subseteq Range(order)
  BY DEF IInv, TypeOK, OnePlace
<1>2. e \notin Range(order) /\ order' = Append(order, e) /\ ~queueEnded
  BY DEF Submit
<1>3. order' \in Seq(Event) /\ Range(order') = Range(order) \cup {e}
  BY <1>1, <1>2, RangeAppend
<1>4. CASE pc = "idle"
  BY <1>1, <1>2, <1>3, <1>4 DEF Submit
<1>5. CASE pc # "idle"
  <2>1. queue' = Append(queue, e) /\ pc' = pc /\ item' = item
    BY <1>5 DEF Submit
  <2>2. queue' \in Seq(Event) /\ Range(queue') = Range(queue) \cup {e} /\ IsInjective(queue')
    BY <1>1, <1>2, <2>1, RangeAppend
  <2> QED
    BY <1>2, <1>3, <1>5, <2>1, <2>2 DEF Submit
<1> QED
  BY <1>4, <1>5

\* The head of the loop is removeFinished, and touches no client.
LEMMA LoopHeadFacts ==
  ASSUME IInv, LoopHead
  PROVE  /\ active' \in Seq(Request) /\ IsInjective(active')
         /\ Len(active') \in Nat /\ Len(active') <= Len(active) /\ Len(active) <= MaxBatch
         /\ rows' = active' /\ saved' = <<>> /\ staged' = <<>>
         /\ admitted' = Range(active') /\ admitted' \subseteq admitted
         /\ \A r \in admitted \ admitted' : Ended(r)
         /\ running' = Cardinality(admitted') /\ running' \in Nat /\ running' <= MaxBatch
         /\ success' \in Nat
         /\ Unfinished = {} => active' = <<>> /\ admitted' = {}
         /\ pc = "top" /\ incoming = <<>> /\ incoming' = <<>> /\ item = None
<1>1. pc = "top" /\ RemoveFinished /\ incoming' = incoming
  BY DEF LoopHead
<1>2. pc \notin {"admit", "drain"}
  BY <1>1
<1>3. /\ incoming = <<>> /\ item = None
      /\ Len(active) + Len(incoming) <= MaxBatch /\ active \in Seq(Request)
  BY <1>1 DEF IInv, TypeOK, BatchHeld, BatchFits, Answerable
<1>4. Len(active) <= MaxBatch
  BY <1>3, BatchAssumption
<1> QED
  BY <1>1, <1>2, <1>3, <1>4, RemoveFinishedFacts

\* What the take loop or the dequeue takes from the queue is one of its
\* events, and the rest stay.
LEMMA TakeFacts ==
  ASSUME IInv, queue # <<>>, queue' = Tail(queue)
  PROVE  /\ Head(queue) \in Event /\ queue' \in Seq(Event) /\ IsInjective(queue')
         /\ Range(queue) = {Head(queue)} \cup Range(queue')
         /\ Head(queue) \notin Range(queue')
         /\ Head(queue) \in Range(order)
         /\ Head(queue) \notin Range(incoming) \cup admitted
<1>1. /\ queue \in Seq(Event) /\ IsInjective(queue) /\ Range(queue) \subseteq Range(order)
      /\ Range(queue) \cap (Range(incoming) \cup admitted) = {}
  BY DEF IInv, TypeOK, OnePlace
<1>2. /\ Head(queue) \in Event /\ queue' \in Seq(Event) /\ IsInjective(queue')
      /\ Range(queue) = {Head(queue)} \cup Range(queue')
      /\ Head(queue) \notin Range(queue')
  BY <1>1, RangeTail
<1> QED
  BY <1>1, <1>2

\* One turn of the take loop adds a request or nothing to incoming.
LEMMA TakeOneFacts ==
  ASSUME IInv, TakeOne
  PROVE  /\ \/ /\ Head(queue) \in Flush /\ pendingFlush' = Head(queue) /\ incoming' = incoming
            \/ /\ Head(queue) \in Request /\ Ended(Head(queue)) /\ incoming' = incoming
               /\ pendingFlush' = None
            \/ /\ Head(queue) \in Request /\ Range(incoming') = Range(incoming) \cup {Head(queue)}
               /\ pendingFlush' = None
         /\ incoming' \in Seq(Request) /\ IsInjective(incoming')
         /\ Len(active) + Len(incoming') <= MaxBatch
         /\ pendingFlush' \in Flush \cup {None}
<1>1. /\ pendingFlush = None /\ queue # <<>> /\ queue' = Tail(queue)
      /\ Len(active) + Len(incoming) < MaxBatch
  BY DEF TakeOne, Room
<1>2. /\ incoming \in Seq(Request) /\ IsInjective(incoming) /\ active \in Seq(Request)
  BY DEF IInv, TypeOK, OnePlace
<1>3. Len(active) \in Nat /\ Len(incoming) \in Nat /\ MaxBatch \in Nat
  BY <1>2, BatchAssumption
<1>4. Head(queue) \in Event /\ Head(queue) \notin Range(incoming)
  BY <1>1, TakeFacts
<1>5. CASE Head(queue) \in Flush
  <2>1. pendingFlush' = Head(queue) /\ incoming' = incoming
    BY <1>5 DEF TakeOne
  <2> QED
    BY <2>1, <1>1, <1>2, <1>3, <1>5
<1>6. CASE Head(queue) \notin Flush
  <2>1. /\ Head(queue) \in Request /\ pendingFlush' = None
        /\ incoming' = IF Ended(Head(queue)) THEN incoming ELSE Append(incoming, Head(queue))
    BY <1>1, <1>4, <1>6 DEF TakeOne, Event
  <2>2. CASE Ended(Head(queue))
    BY <2>1, <2>2, <1>1, <1>2, <1>3
  <2>3. CASE ~Ended(Head(queue))
    <3>1. incoming' = Append(incoming, Head(queue))
      BY <2>1, <2>3
    <3>2. /\ incoming' \in Seq(Request) /\ Len(incoming') = Len(incoming) + 1
          /\ Range(incoming') = Range(incoming) \cup {Head(queue)} /\ IsInjective(incoming')
      BY <3>1, <2>1, <1>2, <1>4, RangeAppend
    <3> QED
      BY <3>2, <2>1, <1>1, <1>3
  <2> QED
    BY <2>2, <2>3
<1> QED
  BY <1>5, <1>6

\* Every step keeps the types.
LEMMA TypeOKNext ==
  ASSUME IInv, Next
  PROVE  TypeOK'
<1>1. TypeOK
  BY DEF IInv
<1>2. ASSUME NEW r \in Request, SubmitRequest(r) PROVE TypeOK'
  <2>1. /\ order' \in Seq(Event) /\ queue' \in Seq(Event) /\ item' \in Event \cup {None}
        /\ pc' \in Suspended \cup {"top", "take", "prefilling"}
        /\ incoming' = incoming /\ queueEnded' = queueEnded
    <3>1. Submit(r) /\ r \in Event
      BY <1>2 DEF SubmitRequest, Event
    <3> QED
      BY <3>1, <1>1, SubmitFacts DEF TypeOK, Suspended
  <2> QED
    BY <2>1, <1>2, <1>1 DEF TypeOK, SubmitRequest, clientVars, flushVars, batchVars
<1>3. ASSUME NEW r \in Request, Disconnect(r) PROVE TypeOK'
  BY <1>3, <1>1 DEF TypeOK, Suspended, Disconnect, queueVars, flushVars, batchVars,
    localVars
<1>4. ASSUME NEW f \in Flush, SubmitFlush(f) PROVE TypeOK'
  <2>1. /\ order' \in Seq(Event) /\ queue' \in Seq(Event) /\ item' \in Event \cup {None}
        /\ pc' \in Suspended \cup {"top", "take", "prefilling"}
        /\ incoming' = incoming /\ queueEnded' = queueEnded
    <3>1. Submit(f) /\ f \in Event
      BY <1>4 DEF SubmitFlush, Event
    <3> QED
      BY <3>1, <1>1, SubmitFacts DEF TypeOK, Suspended
  <2> QED
    BY <2>1, <1>4, <1>1 DEF TypeOK, SubmitFlush, clientVars, batchVars
<1>5. CASE Shutdown
  BY <1>5, <1>1 DEF TypeOK, Suspended, Shutdown, Stop, batchVars, localVars
<1>6. CASE ReturnFromRun
  <2>1. /\ active' \in Seq(Request) /\ rows' \in Seq(Request)
        /\ saved' = <<>> /\ staged' = <<>> /\ admitted' \in SUBSET Request
        /\ running' \in Nat /\ success' \in Nat /\ incoming' = <<>> /\ item = None
    BY <1>6, <1>1, LoopHeadFacts DEF TypeOK, ReturnFromRun
  <2> QED
    BY <2>1, <1>6, <1>1 DEF TypeOK, Suspended, ReturnFromRun, LoopHead, clientVars, flushVars
<1>7. CASE BeginFlush
  <2>1. /\ active' \in Seq(Request) /\ rows' \in Seq(Request)
        /\ saved' = <<>> /\ staged' = <<>> /\ admitted' \in SUBSET Request
        /\ running' \in Nat /\ success' \in Nat /\ incoming' = <<>> /\ item = None
    BY <1>7, <1>1, LoopHeadFacts DEF TypeOK, BeginFlush
  <2> QED
    BY <2>1, <1>7, <1>1 DEF TypeOK, Suspended, BeginFlush, LoopHead, clientVars, flushVars, Event, Flush
<1>8. CASE Dequeue
  <2>1. /\ active' \in Seq(Request) /\ rows' \in Seq(Request)
        /\ saved' = <<>> /\ staged' = <<>> /\ admitted' \in SUBSET Request
        /\ running' \in Nat /\ success' \in Nat /\ incoming' = <<>> /\ item = None
    BY <1>8, <1>1, LoopHeadFacts DEF TypeOK, Dequeue
  <2>2. /\ queue' \in Seq(Event) /\ item' \in Event \cup {None} /\ pc' \in Suspended
    BY <2>1, <1>8, <1>1, TakeFacts DEF TypeOK, Suspended, Dequeue
  <2> QED
    BY <2>1, <2>2, <1>8, <1>1 DEF TypeOK, Suspended, Dequeue, LoopHead, clientVars, flushVars
<1>9. CASE KeepBatch
  <2>1. /\ active' \in Seq(Request) /\ rows' \in Seq(Request)
        /\ saved' = <<>> /\ staged' = <<>> /\ admitted' \in SUBSET Request
        /\ running' \in Nat /\ success' \in Nat /\ incoming' = <<>> /\ item = None
    BY <1>9, <1>1, LoopHeadFacts DEF TypeOK, KeepBatch
  <2> QED
    BY <2>1, <1>9, <1>1 DEF TypeOK, Suspended, KeepBatch, LoopHead, clientVars, flushVars
<1>10. CASE WakeToFlush
  BY <1>10, <1>1 DEF TypeOK, Suspended, WakeToFlush, queueVars, clientVars, batchVars,
    Event
<1>11. CASE WakeToRequest
  BY <1>11, <1>1 DEF TypeOK, Suspended, WakeToRequest, queueVars, clientVars, flushVars,
    batchVars, Event
<1>12. CASE WakeToShutdown
  BY <1>12, <1>1 DEF TypeOK, Suspended, WakeToShutdown, queueVars, clientVars, flushVars,
    batchVars, localVars
<1>13. CASE Collected
  <2>1. /\ tokens' \in [Request -> {"open", "done", "error"}]
        /\ incoming' \in Seq(Request) /\ pc' \in {"top", "take"}
    <3>1. CASE queueEnded
      BY <3>1, <1>13, <1>1 DEF TypeOK, Collected
    <3>2. CASE ~queueEnded
      BY <3>2, <1>13, <1>1 DEF TypeOK, Collected
    <3> QED
      BY <3>1, <3>2
  <2> QED
    BY <2>1, <1>13, <1>1 DEF TypeOK, Collected, queueVars, flushVars, batchVars
<1>14. CASE TakeOne
  <2>1. queue' \in Seq(Event) /\ incoming' \in Seq(Request) /\ pendingFlush' \in Flush \cup {None}
    BY <1>14, TakeFacts, TakeOneFacts DEF TakeOne
  <2> QED
    BY <2>1, <1>14, <1>1 DEF TypeOK, TakeOne, clientVars, batchVars
<1>15. CASE TakeNone
  BY <1>15, <1>1 DEF TypeOK, Suspended, TakeNone, queueVars, clientVars, flushVars,
    batchVars, localVars
<1>16. CASE BeginAdmit
  <2>1. running' \in Nat /\ Range(incoming) \subseteq Request
    BY <1>16, <1>1, AdmitCounts DEF TypeOK, BeginAdmit, Range
  <2>2. /\ admitted' = admitted \cup Range(incoming) /\ saved' = active /\ staged' = rows
        /\ active' = <<>> /\ rows' = incoming /\ pc' = "admit"
    BY <1>16 DEF BeginAdmit
  <2> QED
    BY <2>1, <2>2, <1>16, <1>1
    DEF TypeOK, Suspended, BeginAdmit, queueVars, clientVars, flushVars, localVars
<1>17. CASE FinishAdmit
  BY <1>17, <1>1, RangeConcat, RangeShort DEF TypeOK, Suspended, FinishAdmit, queueVars,
    flushVars
<1>18. CASE BeginPrefill
  BY <1>18, <1>1 DEF TypeOK, Suspended, BeginPrefill, queueVars, clientVars, flushVars,
    batchVars, localVars
<1>19. CASE FinishPrefill
  <2>1. PICK chunk \in SUBSET Unread \ {{}} :
          LET complete == {r \in chunk : input[r] = 1}
          IN /\ input' = [r \in Request |-> IF r \in chunk THEN input[r] - 1 ELSE input[r]]
             /\ \E eos \in SUBSET complete : Publish([r \in complete |-> 1], eos)
    BY <1>19 DEF FinishPrefill
  <2> DEFINE complete == {r \in chunk : input[r] = 1}
  <2>2. PICK eos \in SUBSET complete : Publish([r \in complete |-> 1], eos)
    BY <2>1
  <2>3. complete \in SUBSET Request /\ [r \in complete |-> 1] \in [complete -> Nat]
    <3>1. Unread \in SUBSET Request
      BY <1>1 DEF TypeOK, Unread, Range
    <3> QED
      BY <3>1, <2>1
  <2> HIDE DEF complete
  <2>4. /\ tokens' \in [Request -> {"open", "done", "error"}]
        /\ produced' \in [Request -> 0..MaxTokens]
    BY <1>1, <2>2, <2>3, PublishFacts
  <2>5. input' \in [Request -> 0..MaxChunks]
    <3>1. \A r \in chunk : r \in Request /\ input[r] \in 1..MaxChunks
      BY <1>1, <2>1, BoundAssumption DEF TypeOK, Unread, Range
    <3> QED
      BY <2>1, <3>1, <1>1, BoundAssumption DEF TypeOK
  <2> QED
    BY <2>4, <2>5, <1>19, <1>1 DEF TypeOK, FinishPrefill, queueVars, flushVars, batchVars, localVars,
      Suspended
<1>20. CASE BeginDecode
  BY <1>20, <1>1 DEF TypeOK, Suspended, BeginDecode, queueVars, clientVars, flushVars,
    batchVars, localVars
<1>21. CASE DecodeStep
  <2>1. PICK gain \in [Range(active) -> 1..StepTokens], eos \in SUBSET Range(active) :
          Publish(gain, eos)
    BY <1>21 DEF DecodeStep
  <2>2. Range(active) \in SUBSET Request /\ gain \in [Range(active) -> Nat]
    <3>1. Range(active) \in SUBSET Request
      BY <1>1 DEF TypeOK, Range
    <3>2. 1..StepTokens \subseteq Nat
      BY BoundAssumption
    <3> QED
      BY <2>1, <3>1, <3>2
  <2>3. /\ tokens' \in [Request -> {"open", "done", "error"}]
        /\ produced' \in [Request -> 0..MaxTokens]
    BY <1>1, <2>1, <2>2, PublishFacts
  <2> QED
    BY <2>3, <1>21, <1>1 DEF TypeOK, DecodeStep, queueVars, flushVars, batchVars, localVars, Suspended
<1>22. CASE ContinueDecode
  BY <1>22, <1>1 DEF TypeOK, Suspended, ContinueDecode, queueVars, clientVars, flushVars,
    batchVars, localVars
<1>23. CASE CloseGenerator
  <2>1. /\ active' \in Seq(Request) /\ rows' \in Seq(Request)
        /\ saved' = <<>> /\ staged' = <<>> /\ admitted' \in SUBSET Request
        /\ running' \in Nat /\ success' \in Nat
    BY <1>23, <1>1, RemoveFinishedFacts DEF TypeOK, CloseGenerator
  <2> QED
    BY <2>1, <1>23, <1>1 DEF TypeOK, Suspended, CloseGenerator, queueVars, clientVars,
      flushVars, localVars
<1>24. CASE BatchError
  BY <1>24, <1>1 DEF TypeOK, Suspended, BatchError, queueVars, clientVars, flushVars,
    batchVars, localVars
<1>25. CASE Recover
  <2>1. running' \in Nat /\ tokens' \in [Request -> {"open", "done", "error"}]
    <3>1. running - Cardinality(admitted) = 0
      BY <1>1 DEF IInv, TypeOK, BatchFits
    <3> QED
      BY <3>1, <1>25, <1>1 DEF TypeOK, Recover
  <2> QED
    BY <2>1, <1>25, <1>1 DEF TypeOK, Suspended, Recover, queueVars, flushVars
<1>26. CASE FinishFlush
  BY <1>26, <1>1 DEF TypeOK, Suspended, FinishFlush, Settle, queueVars, clientVars,
    batchVars
<1>27. CASE FailFlush
  BY <1>27, <1>1 DEF TypeOK, Suspended, FailFlush, Settle, queueVars, clientVars,
    batchVars
<1>28. CASE StopAfterThrow
  BY <1>28, <1>1 DEF TypeOK, Suspended, StopAfterThrow, Stop, batchVars, localVars
<1> QED
  BY <1>2, <1>3, <1>4, <1>5, <1>6, <1>7, <1>8, <1>9, <1>10, <1>11, <1>12, <1>13, <1>14,
    <1>15, <1>16, <1>17, <1>18, <1>19, <1>20, <1>21, <1>22, <1>23, <1>24, <1>25, <1>26,
    <1>27, <1>28 DEF Next, Environment, Scheduling

\* Every step keeps the rows of the cache and the batch in step.
LEMMA RowsFollowNext ==
  ASSUME IInv, Next
  PROVE  RowsFollow'
<1>1. RowsFollow
  BY DEF IInv
<1>2. ASSUME NEW r \in Request, SubmitRequest(r) PROVE RowsFollow'
  BY <1>2, <1>1 DEF RowsFollow, RowsMatchBatch, SubmitRequest, Submit, clientVars,
    flushVars, batchVars
<1>3. ASSUME NEW r \in Request, Disconnect(r) PROVE RowsFollow'
  BY <1>3, <1>1 DEF RowsFollow, RowsMatchBatch, Disconnect, queueVars, flushVars,
    batchVars, localVars
<1>4. ASSUME NEW f \in Flush, SubmitFlush(f) PROVE RowsFollow'
  BY <1>4, <1>1 DEF RowsFollow, RowsMatchBatch, SubmitFlush, Submit, clientVars, batchVars
<1>5. CASE Shutdown
  BY <1>5, <1>1 DEF RowsFollow, RowsMatchBatch, Shutdown, Stop, batchVars, localVars
<1>6. CASE ReturnFromRun
  <2>1. rows' = active' /\ saved' = <<>> /\ staged' = <<>>
    BY <1>6, <1>1, LoopHeadFacts DEF ReturnFromRun
  <2>2. pc' # "admit"
    BY <1>6 DEF ReturnFromRun
  <2> QED
    BY <2>1, <2>2 DEF RowsFollow, RowsMatchBatch
<1>7. CASE BeginFlush
  <2>1. rows' = active' /\ saved' = <<>> /\ staged' = <<>>
    BY <1>7, <1>1, LoopHeadFacts DEF BeginFlush
  <2>2. pc' # "admit"
    BY <1>7 DEF BeginFlush
  <2> QED
    BY <2>1, <2>2 DEF RowsFollow, RowsMatchBatch
<1>8. CASE Dequeue
  <2>1. rows' = active' /\ saved' = <<>> /\ staged' = <<>>
    BY <1>8, <1>1, LoopHeadFacts DEF Dequeue
  <2>2. pc' # "admit"
    BY <1>8 DEF Dequeue
  <2> QED
    BY <2>1, <2>2 DEF RowsFollow, RowsMatchBatch
<1>9. CASE KeepBatch
  <2>1. rows' = active' /\ saved' = <<>> /\ staged' = <<>>
    BY <1>9, <1>1, LoopHeadFacts DEF KeepBatch
  <2>2. pc' # "admit"
    BY <1>9 DEF KeepBatch
  <2> QED
    BY <2>1, <2>2 DEF RowsFollow, RowsMatchBatch
<1>10. CASE WakeToFlush
  BY <1>10, <1>1 DEF RowsFollow, RowsMatchBatch, WakeToFlush, queueVars, clientVars,
    batchVars
<1>11. CASE WakeToRequest
  BY <1>11, <1>1 DEF RowsFollow, RowsMatchBatch, WakeToRequest, queueVars, clientVars,
    flushVars, batchVars
<1>12. CASE WakeToShutdown
  BY <1>12, <1>1 DEF RowsFollow, RowsMatchBatch, WakeToShutdown, queueVars, clientVars,
    flushVars, batchVars, localVars
<1>13. CASE Collected
  BY <1>13, <1>1 DEF RowsFollow, RowsMatchBatch, Collected, queueVars, flushVars,
    batchVars
<1>14. CASE TakeOne
  BY <1>14, <1>1 DEF RowsFollow, RowsMatchBatch, TakeOne, clientVars, batchVars
<1>15. CASE TakeNone
  BY <1>15, <1>1 DEF RowsFollow, RowsMatchBatch, TakeNone, queueVars, clientVars,
    flushVars, batchVars, localVars
<1>16. CASE BeginAdmit
  BY <1>16, <1>1 DEF RowsFollow, RowsMatchBatch, BeginAdmit, queueVars, clientVars,
    flushVars, localVars
<1>17. CASE FinishAdmit
  BY <1>17, <1>1 DEF RowsFollow, RowsMatchBatch, FinishAdmit, queueVars, flushVars
<1>18. CASE BeginPrefill
  BY <1>18, <1>1 DEF RowsFollow, RowsMatchBatch, BeginPrefill, queueVars, clientVars,
    flushVars, batchVars, localVars
<1>19. CASE FinishPrefill
  BY <1>19, <1>1 DEF RowsFollow, RowsMatchBatch, FinishPrefill, queueVars, flushVars,
    batchVars, localVars
<1>20. CASE BeginDecode
  BY <1>20, <1>1 DEF RowsFollow, RowsMatchBatch, BeginDecode, queueVars, clientVars,
    flushVars, batchVars, localVars
<1>21. CASE DecodeStep
  BY <1>21, <1>1 DEF RowsFollow, RowsMatchBatch, DecodeStep, queueVars, flushVars,
    batchVars, localVars
<1>22. CASE ContinueDecode
  BY <1>22, <1>1 DEF RowsFollow, RowsMatchBatch, ContinueDecode, queueVars, clientVars,
    flushVars, batchVars, localVars
<1>23. CASE CloseGenerator
  <2>1. rows' = active' /\ saved' = <<>> /\ staged' = <<>>
    BY <1>23, <1>1, RemoveFinishedFacts DEF CloseGenerator
  <2>2. pc' # "admit"
    BY <1>23 DEF CloseGenerator
  <2> QED
    BY <2>1, <2>2 DEF RowsFollow, RowsMatchBatch
<1>24. CASE BatchError
  BY <1>24, <1>1 DEF RowsFollow, RowsMatchBatch, BatchError, queueVars, clientVars,
    flushVars, batchVars, localVars
<1>25. CASE Recover
  BY <1>25, <1>1 DEF RowsFollow, RowsMatchBatch, Recover, queueVars, flushVars
<1>26. CASE FinishFlush
  BY <1>26, <1>1 DEF RowsFollow, RowsMatchBatch, FinishFlush, Settle, queueVars,
    clientVars, batchVars
<1>27. CASE FailFlush
  BY <1>27, <1>1 DEF RowsFollow, RowsMatchBatch, FailFlush, Settle, queueVars, clientVars,
    batchVars
<1>28. CASE StopAfterThrow
  BY <1>28, <1>1 DEF RowsFollow, RowsMatchBatch, StopAfterThrow, Stop, batchVars,
    localVars
<1> QED
  BY <1>2, <1>3, <1>4, <1>5, <1>6, <1>7, <1>8, <1>9, <1>10, <1>11, <1>12, <1>13, <1>14,
    <1>15, <1>16, <1>17, <1>18, <1>19, <1>20, <1>21, <1>22, <1>23, <1>24, <1>25, <1>26,
    <1>27, <1>28 DEF Next, Environment, Scheduling

\* No step puts a request in two places.
LEMMA OnePlaceNext ==
  ASSUME IInv, Next
  PROVE  OnePlace'
<1>1. OnePlace /\ TypeOK
  BY DEF IInv
<1>2. ASSUME NEW r \in Request, SubmitRequest(r) PROVE OnePlace'
  <2>1. Submit(r) /\ r \in Event /\ admitted' = admitted /\ active' = active /\ saved' = saved
    BY <1>2 DEF SubmitRequest, Event, clientVars, batchVars
  <2> QED
    BY <2>1, <1>1, SubmitFacts, EventAssumption DEF OnePlace
<1>3. ASSUME NEW r \in Request, Disconnect(r) PROVE OnePlace'
  <2>1. /\ order' = order /\ queue' = queue /\ item' = item /\ pc' = pc
        /\ admitted' = admitted /\ active' = active /\ saved' = saved /\ incoming' = incoming
    BY <1>3 DEF Disconnect, queueVars, batchVars, localVars
  <2> QED
    BY <2>1, <1>1 DEF OnePlace
<1>4. ASSUME NEW f \in Flush, SubmitFlush(f) PROVE OnePlace'
  <2>1. Submit(f) /\ f \in Event /\ admitted' = admitted /\ active' = active /\ saved' = saved
    BY <1>4 DEF SubmitFlush, Event, clientVars, batchVars
  <2> QED
    BY <2>1, <1>1, SubmitFacts, EventAssumption DEF OnePlace
<1>5. CASE Shutdown
  <2>1. /\ order' = order /\ queue' = <<>> /\ item' = item /\ pc' \in {pc, "rejected"}
        /\ pc = "admit" <=> pc' = "admit"
        /\ pc = "drain" <=> pc' = "drain"
        /\ admitted' = admitted /\ active' = active /\ saved' = saved /\ incoming' = incoming
    BY <1>5 DEF Shutdown, Stop, batchVars, localVars
  <2> QED
    BY <2>1, <1>1, RangeShort DEF OnePlace
<1>6. CASE ReturnFromRun
  <2>1. /\ IsInjective(active') /\ admitted' \subseteq admitted /\ saved' = <<>>
        /\ incoming' = <<>> /\ item = None /\ admitted' \subseteq Request
    BY <1>6, <1>1, LoopHeadFacts DEF TypeOK, ReturnFromRun
  <2>2. order' = order /\ queue' = queue /\ pc' # "admit" /\ item' = item
    BY <1>6, <2>1, <1>1 DEF ReturnFromRun, LoopHead, TypeOK
  <2> QED
    BY <2>1, <2>2, <1>1, RangeShort DEF OnePlace
<1>7. CASE BeginFlush
  <2>1. /\ IsInjective(active') /\ admitted' \subseteq admitted /\ saved' = <<>>
        /\ incoming' = <<>>
    BY <1>7, LoopHeadFacts DEF BeginFlush
  <2>2. order' = order /\ queue' = queue /\ pc' # "admit" /\ item' \notin Request
    BY <1>7, <1>1, EventAssumption DEF BeginFlush, LoopHead, TypeOK
  <2> QED
    BY <2>1, <2>2, <1>1, RangeShort DEF OnePlace
<1>8. CASE Dequeue
  <2>1. /\ IsInjective(active') /\ admitted' \subseteq admitted /\ saved' = <<>>
        /\ incoming = <<>> /\ incoming' = <<>> /\ item = None
    BY <1>8, LoopHeadFacts DEF Dequeue
  <2>2. order' = order /\ pc' # "admit"
    BY <1>8 DEF Dequeue, LoopHead
  <2>3. CASE queue = <<>>
    <3>1. queue' = queue /\ item' = item
      BY <1>8, <2>3 DEF Dequeue
    <3> QED
      BY <2>1, <2>2, <3>1, <1>1, RangeShort DEF OnePlace
  <2>4. CASE queue # <<>>
    <3>1. queue' = Tail(queue) /\ item' = Head(queue)
      BY <1>8, <2>4 DEF Dequeue
    <3> QED
      BY <2>1, <2>2, <2>4, <3>1, <1>1, TakeFacts, RangeShort DEF OnePlace
  <2> QED
    BY <2>3, <2>4
<1>9. CASE KeepBatch
  <2>1. /\ IsInjective(active') /\ admitted' \subseteq admitted /\ saved' = <<>>
        /\ incoming' = <<>> /\ item = None /\ admitted' \subseteq Request
    BY <1>9, <1>1, LoopHeadFacts DEF TypeOK, KeepBatch
  <2>2. order' = order /\ queue' = queue /\ pc' # "admit" /\ item' = item
    BY <1>9, <2>1, <1>1 DEF KeepBatch, LoopHead, TypeOK
  <2> QED
    BY <2>1, <2>2, <1>1, RangeShort DEF OnePlace
<1>10. CASE WakeToFlush
  <2>1. /\ order' = order /\ queue' = queue /\ item' = None /\ pc' # "admit" /\ pc \notin {"admit", "drain"}
        /\ admitted' = admitted /\ active' = active /\ saved' = saved /\ incoming' = incoming
    BY <1>10 DEF WakeToFlush, queueVars, batchVars
  <2> QED
    BY <2>1, <1>1, EventAssumption DEF OnePlace, Event
<1>11. CASE WakeToRequest
  <2>1. /\ pc = "woken" /\ pc' = "collect" /\ item \in Request /\ item' = None
        /\ order' = order /\ queue' = queue
        /\ admitted' = admitted /\ active' = active /\ saved' = saved
    BY <1>11 DEF WakeToRequest, queueVars, batchVars
  <2>2. Range(incoming') \subseteq {item} /\ IsInjective(incoming')
    BY <1>11, RangeShort DEF WakeToRequest
  <2>3. Range(active) = admitted /\ item \in Range(order)
    BY <2>1, <1>1, EventAssumption DEF IInv, BatchHeld, OnePlace, Event
  <2> QED
    BY <2>1, <2>2, <2>3, <1>1, EventAssumption DEF OnePlace, Event
<1>12. CASE WakeToShutdown
  <2>1. /\ order' = order /\ queue' = queue /\ item' = item /\ pc' # "admit"
        /\ pc \in {"admit", "drain"} => pc' = "drain"
        /\ admitted' = admitted /\ active' = active /\ saved' = saved /\ incoming' = incoming
    BY <1>12 DEF WakeToShutdown, queueVars, batchVars, localVars
  <2> QED
    BY <2>1, <1>1 DEF OnePlace
<1>13. CASE Collected
  <2>1. /\ order' = order /\ queue' = queue /\ item' = item /\ pc = "collect" /\ pc' # "admit"
        /\ admitted' = admitted /\ active' = active /\ saved' = saved
        /\ incoming' \in {incoming, <<>>}
    BY <1>13 DEF Collected, queueVars, batchVars
  <2> QED
    BY <2>1, <1>1, RangeShort DEF OnePlace
<1>14. CASE TakeOne
  <2>1. /\ queue # <<>> /\ queue' = Tail(queue) /\ order' = order /\ item' = item /\ pc = "take"
        /\ pc' = pc /\ admitted' = admitted /\ active' = active /\ saved' = saved
    BY <1>14 DEF TakeOne, batchVars
  <2>2. Range(active) = admitted
    BY <2>1 DEF IInv, BatchHeld
  <2> QED
    BY <1>14, <2>1, <2>2, <1>1, TakeFacts, TakeOneFacts DEF OnePlace
<1>15. CASE TakeNone
  <2>1. /\ order' = order /\ queue' = queue /\ item' = item /\ pc' # "admit"
        /\ pc \in {"admit", "drain"} => pc' = "drain"
        /\ admitted' = admitted /\ active' = active /\ saved' = saved /\ incoming' = incoming
    BY <1>15 DEF TakeNone, queueVars, batchVars, localVars
  <2> QED
    BY <2>1, <1>1 DEF OnePlace
<1>16. CASE BeginAdmit
  <2>1. /\ pc = "take" /\ pc' = "admit" /\ order' = order /\ queue' = queue /\ item' = item
        /\ incoming' = incoming /\ admitted' = admitted \cup Range(incoming)
        /\ saved' = active /\ active' = <<>>
    BY <1>16 DEF BeginAdmit, queueVars, localVars
  <2> QED
    BY <2>1, <1>1, RangeShort DEF OnePlace
<1>17. CASE FinishAdmit
  <2>1. /\ pc = "admit" /\ pc' = "admitted" /\ order' = order /\ queue' = queue /\ item' = item
        /\ active' = incoming \o saved /\ saved' = <<>> /\ incoming' = <<>> /\ admitted' = admitted
    BY <1>17 DEF FinishAdmit, queueVars
  <2>2. IsInjective(active')
    BY <2>1, <1>1, RangeConcat DEF OnePlace, TypeOK
  <2> QED
    BY <2>1, <2>2, <1>1, RangeShort DEF OnePlace
<1>18. CASE BeginPrefill
  <2>1. /\ order' = order /\ queue' = queue /\ item' = item /\ pc' # "admit"
        /\ pc \in {"admit", "drain"} => pc' = "drain"
        /\ admitted' = admitted /\ active' = active /\ saved' = saved /\ incoming' = incoming
    BY <1>18 DEF BeginPrefill, queueVars, batchVars, localVars
  <2> QED
    BY <2>1, <1>1 DEF OnePlace
<1>19. CASE FinishPrefill
  <2>1. /\ order' = order /\ queue' = queue /\ item' = item /\ pc' # "admit"
        /\ pc \in {"admit", "drain"} => pc' = "drain"
        /\ admitted' = admitted /\ active' = active /\ saved' = saved /\ incoming' = incoming
    BY <1>19 DEF FinishPrefill, queueVars, batchVars, localVars
  <2> QED
    BY <2>1, <1>1 DEF OnePlace
<1>20. CASE BeginDecode
  <2>1. /\ order' = order /\ queue' = queue /\ item' = item /\ pc' # "admit"
        /\ pc \in {"admit", "drain"} => pc' = "drain"
        /\ admitted' = admitted /\ active' = active /\ saved' = saved /\ incoming' = incoming
    BY <1>20 DEF BeginDecode, queueVars, batchVars, localVars
  <2> QED
    BY <2>1, <1>1 DEF OnePlace
<1>21. CASE DecodeStep
  <2>1. /\ order' = order /\ queue' = queue /\ item' = item /\ pc' # "admit"
        /\ pc \in {"admit", "drain"} => pc' = "drain"
        /\ admitted' = admitted /\ active' = active /\ saved' = saved /\ incoming' = incoming
    BY <1>21 DEF DecodeStep, queueVars, batchVars, localVars
  <2> QED
    BY <2>1, <1>1 DEF OnePlace
<1>22. CASE ContinueDecode
  <2>1. /\ order' = order /\ queue' = queue /\ item' = item /\ pc' # "admit"
        /\ pc \in {"admit", "drain"} => pc' = "drain"
        /\ admitted' = admitted /\ active' = active /\ saved' = saved /\ incoming' = incoming
    BY <1>22 DEF ContinueDecode, queueVars, batchVars, localVars
  <2> QED
    BY <2>1, <1>1 DEF OnePlace
<1>23. CASE CloseGenerator
  <2>1. IsInjective(active') /\ admitted' \subseteq admitted /\ saved' = <<>>
    BY <1>23, RemoveFinishedFacts DEF CloseGenerator
  <2>2. order' = order /\ queue' = queue /\ item' = item /\ incoming' = incoming /\ pc' # "admit"
    BY <1>23 DEF CloseGenerator, queueVars, localVars
  <2>3. incoming = <<>>
    BY <1>23 DEF CloseGenerator, IInv, BatchHeld
  <2> QED
    BY <2>1, <2>2, <2>3, <1>1, RangeShort DEF OnePlace
<1>24. CASE BatchError
  <2>1. /\ order' = order /\ queue' = queue /\ item' = item /\ pc' # "admit"
        /\ pc \in {"admit", "drain"} => pc' = "drain"
        /\ admitted' = admitted /\ active' = active /\ saved' = saved /\ incoming' = incoming
    BY <1>24 DEF BatchError, queueVars, batchVars, localVars
  <2> QED
    BY <2>1, <1>1 DEF OnePlace
<1>25. CASE Recover
  <2>1. /\ order' = order /\ queue' = queue /\ item' = item /\ admitted' = {} /\ pc' # "admit"
        /\ active' = <<>> /\ saved' = <<>> /\ incoming' = <<>>
    BY <1>25 DEF Recover, queueVars
  <2> QED
    BY <2>1, <1>1, RangeShort DEF OnePlace
<1>26. CASE FinishFlush
  <2>1. /\ order' = order /\ queue' = queue /\ item' = None /\ pc' # "admit" /\ pc \notin {"admit", "drain"}
        /\ admitted' = admitted /\ active' = active /\ saved' = saved /\ incoming' = incoming
    BY <1>26 DEF FinishFlush, queueVars, batchVars
  <2> QED
    BY <2>1, <1>1, EventAssumption DEF OnePlace, Event
<1>27. CASE FailFlush
  <2>1. /\ order' = order /\ queue' = queue /\ item' = None /\ pc' # "admit" /\ pc \notin {"admit", "drain"}
        /\ admitted' = admitted /\ active' = active /\ saved' = saved /\ incoming' = incoming
    BY <1>27 DEF FailFlush, queueVars, batchVars
  <2> QED
    BY <2>1, <1>1, EventAssumption DEF OnePlace, Event
<1>28. CASE StopAfterThrow
  <2>1. /\ order' = order /\ queue' = <<>> /\ item' = item /\ pc = "threw" /\ pc' = "stopped"
        /\ admitted' = admitted /\ active' = active /\ saved' = saved /\ incoming' = incoming
    BY <1>28 DEF StopAfterThrow, Stop, batchVars, localVars
  <2> QED
    BY <2>1, <1>1, RangeShort DEF OnePlace
<1> QED
  BY <1>2, <1>3, <1>4, <1>5, <1>6, <1>7, <1>8, <1>9, <1>10, <1>11, <1>12, <1>13, <1>14,
    <1>15, <1>16, <1>17, <1>18, <1>19, <1>20, <1>21, <1>22, <1>23, <1>24, <1>25, <1>26,
    <1>27, <1>28 DEF Next, Environment, Scheduling

\* Every step keeps track of who is admitted.
LEMMA BatchHeldNext ==
  ASSUME IInv, Next
  PROVE  BatchHeld'
<1>1. BatchHeld /\ TypeOK
  BY DEF IInv
<1>2. ASSUME NEW r \in Request, SubmitRequest(r) PROVE BatchHeld'
  BY <1>2, <1>1 DEF BatchHeld, SubmitRequest, Submit, clientVars, flushVars, batchVars
<1>3. ASSUME NEW r \in Request, Disconnect(r) PROVE BatchHeld'
  BY <1>3, <1>1 DEF BatchHeld, Disconnect, queueVars, flushVars, batchVars, localVars
<1>4. ASSUME NEW f \in Flush, SubmitFlush(f) PROVE BatchHeld'
  BY <1>4, <1>1 DEF BatchHeld, SubmitFlush, Submit, clientVars, batchVars
<1>5. CASE Shutdown
  BY <1>5, <1>1 DEF BatchHeld, Shutdown, Stop, batchVars, localVars
<1>6. CASE ReturnFromRun
  <2>1. /\ admitted' = Range(active') /\ admitted' \subseteq admitted /\ incoming' = <<>>
        /\ Unfinished = {} => active' = <<>> /\ admitted' = {}
        /\ pc = "top"
    BY <1>6, LoopHeadFacts DEF ReturnFromRun
  <2>2. Unfinished = {}
    <3>1. \A r \in admitted : Ended(r)
      BY <1>6 DEF ReturnFromRun, IInv, Answerable
    <3>2. \A i \in DOMAIN active : active[i] \in admitted
      BY <2>1, <1>1 DEF BatchHeld, Range
    <3> QED
      BY <3>1, <3>2 DEF Unfinished
  <2>3. pc' = "returned"
    BY <1>6 DEF ReturnFromRun
  <2> QED
    BY <2>1, <2>2, <2>3 DEF BatchHeld
<1>7. CASE BeginFlush
  <2>1. admitted' = Range(active') /\ (Unfinished = {} => active' = <<>> /\ admitted' = {})
    BY <1>7, LoopHeadFacts DEF BeginFlush
  <2>2. incoming' = <<>>
    BY <1>7, LoopHeadFacts DEF BeginFlush
  <2> QED
    BY <2>1, <2>2, <1>7 DEF BatchHeld, BeginFlush
<1>8. CASE Dequeue
  <2>1. admitted' = Range(active') /\ (Unfinished = {} => active' = <<>> /\ admitted' = {})
    BY <1>8, LoopHeadFacts DEF Dequeue
  <2>2. incoming' = <<>>
    BY <1>8, LoopHeadFacts DEF Dequeue
  <2> QED
    BY <2>1, <2>2, <1>8 DEF BatchHeld, Dequeue
<1>9. CASE KeepBatch
  <2>1. admitted' = Range(active') /\ (Unfinished = {} => active' = <<>> /\ admitted' = {})
    BY <1>9, LoopHeadFacts DEF KeepBatch
  <2>2. incoming' = <<>>
    BY <1>9, LoopHeadFacts DEF KeepBatch
  <2> QED
    BY <2>1, <2>2, <1>9 DEF BatchHeld, KeepBatch
<1>10. CASE WakeToFlush
  BY <1>10, <1>1 DEF BatchHeld, WakeToFlush, queueVars, clientVars, batchVars
<1>11. CASE WakeToRequest
  BY <1>11, <1>1, RangeShort DEF BatchHeld, WakeToRequest, queueVars, clientVars,
    flushVars, batchVars
<1>12. CASE WakeToShutdown
  <2>1. /\ pc = "rejected" /\ pc' = "returned"
        /\ active' = active /\ admitted' = admitted /\ saved' = saved /\ incoming' = incoming
    BY <1>12 DEF WakeToShutdown, batchVars, localVars
  <2>2. active = <<>> /\ admitted = {}
    BY <2>1, <1>1, RangeShort DEF BatchHeld
  <2> QED
    BY <2>1, <2>2, <1>1 DEF BatchHeld
<1>13. CASE Collected
  BY <1>13, <1>1, RangeShort DEF BatchHeld, Collected, queueVars, flushVars, batchVars
<1>14. CASE TakeOne
  <2>1. /\ pc = "take" /\ pc' = pc
        /\ active' = active /\ admitted' = admitted /\ saved' = saved
    BY <1>14 DEF TakeOne, batchVars
  <2> QED
    BY <2>1, <1>1 DEF BatchHeld
<1>15. CASE TakeNone
  BY <1>15, <1>1 DEF BatchHeld, TakeNone, queueVars, clientVars, flushVars, batchVars,
    localVars
<1>16. CASE BeginAdmit
  <2>1. /\ pc = "take" /\ pc' = "admit" /\ incoming' = incoming
        /\ admitted' = admitted \cup Range(incoming) /\ saved' = active /\ active' = <<>>
    BY <1>16 DEF BeginAdmit, localVars
  <2> QED
    BY <2>1, <1>1 DEF BatchHeld
<1>17. CASE FinishAdmit
  <2>1. /\ pc = "admit" /\ pc' = "admitted" /\ admitted' = admitted
        /\ active' = incoming \o saved /\ saved' = <<>> /\ incoming' = <<>>
    BY <1>17 DEF FinishAdmit
  <2>2. incoming \in Seq(Request) /\ saved \in Seq(Request)
    BY <1>1 DEF TypeOK
  <2>3. Range(incoming \o saved) = Range(incoming) \cup Range(saved)
    BY <2>2, RangeConcat
  <2>4. Range(active') = admitted
    BY <2>1, <2>3, <1>1 DEF BatchHeld
  <2> QED
    BY <2>1, <2>4 DEF BatchHeld
<1>18. CASE BeginPrefill
  BY <1>18, <1>1 DEF BatchHeld, BeginPrefill, queueVars, clientVars, flushVars, batchVars,
    localVars
<1>19. CASE FinishPrefill
  BY <1>19, <1>1 DEF BatchHeld, FinishPrefill, queueVars, flushVars, batchVars, localVars
<1>20. CASE BeginDecode
  BY <1>20, <1>1 DEF BatchHeld, BeginDecode, queueVars, clientVars, flushVars, batchVars,
    localVars
<1>21. CASE DecodeStep
  BY <1>21, <1>1 DEF BatchHeld, DecodeStep, queueVars, flushVars, batchVars, localVars
<1>22. CASE ContinueDecode
  BY <1>22, <1>1 DEF BatchHeld, ContinueDecode, queueVars, clientVars, flushVars,
    batchVars, localVars
<1>23. CASE CloseGenerator
  <2>1. admitted' = Range(active') /\ pc = "close" /\ pc' = "top"
    BY <1>23, RemoveFinishedFacts DEF CloseGenerator
  <2>2. incoming' = <<>>
    BY <1>23, <1>1 DEF CloseGenerator, localVars, BatchHeld
  <2> QED
    BY <2>1, <2>2 DEF BatchHeld
<1>24. CASE BatchError
  <2>1. /\ pc' = "drain" /\ pc \in {"admit", "prefill", "decode", "close", "prefilling", "admitted"}
        /\ active' = active /\ admitted' = admitted /\ saved' = saved /\ incoming' = incoming
    BY <1>24 DEF BatchError, batchVars, localVars
  <2> QED
    BY <2>1, <1>1, RangeShort DEF BatchHeld
<1>25. CASE Recover
  <2>1. /\ pc' \in {"threw", "top"} /\ admitted' = {} /\ active' = <<>> /\ incoming' = <<>>
    BY <1>25 DEF Recover
  <2> QED
    BY <2>1, RangeShort DEF BatchHeld
<1>26. CASE FinishFlush
  BY <1>26, <1>1 DEF BatchHeld, FinishFlush, Settle, queueVars, clientVars, batchVars
<1>27. CASE FailFlush
  <2>1. /\ pc = "flush" /\ pc' = "threw"
        /\ active' = active /\ admitted' = admitted /\ incoming' = incoming
    BY <1>27 DEF FailFlush, batchVars
  <2> QED
    BY <2>1, <1>1, RangeShort DEF BatchHeld
<1>28. CASE StopAfterThrow
  BY <1>28, <1>1 DEF BatchHeld, StopAfterThrow, Stop, batchVars, localVars
<1> QED
  BY <1>2, <1>3, <1>4, <1>5, <1>6, <1>7, <1>8, <1>9, <1>10, <1>11, <1>12, <1>13, <1>14,
    <1>15, <1>16, <1>17, <1>18, <1>19, <1>20, <1>21, <1>22, <1>23, <1>24, <1>25, <1>26,
    <1>27, <1>28 DEF Next, Environment, Scheduling

\* No step overfills the batch or miscounts it.
LEMMA BatchFitsNext ==
  ASSUME IInv, Next
  PROVE  BatchFits'
<1>1. BatchFits /\ TypeOK
  BY DEF IInv
<1>2. ASSUME NEW r \in Request, SubmitRequest(r) PROVE BatchFits'
  BY <1>2, <1>1 DEF BatchFits, SubmitRequest, Submit, clientVars, flushVars, batchVars
<1>3. ASSUME NEW r \in Request, Disconnect(r) PROVE BatchFits'
  BY <1>3, <1>1 DEF BatchFits, Disconnect, queueVars, flushVars, batchVars, localVars
<1>4. ASSUME NEW f \in Flush, SubmitFlush(f) PROVE BatchFits'
  BY <1>4, <1>1 DEF BatchFits, SubmitFlush, Submit, clientVars, batchVars
<1>5. CASE Shutdown
  BY <1>5, <1>1 DEF BatchFits, Shutdown, Stop, batchVars, localVars
<1>6. CASE ReturnFromRun
  <2>1. /\ running' = Cardinality(admitted') /\ running' <= MaxBatch
        /\ Len(active') \in Nat /\ Len(active') <= Len(active) /\ Len(active) <= MaxBatch
        /\ incoming' = <<>>
    BY <1>6, LoopHeadFacts DEF ReturnFromRun
  <2>2. pc' # "admit"
    BY <1>6 DEF ReturnFromRun
  <2>3. Len(active) \in Nat /\ Len(incoming') = 0
    BY <2>1, <1>1 DEF TypeOK
  <2> QED
    BY <2>1, <2>2, <2>3, BatchAssumption DEF BatchFits
<1>7. CASE BeginFlush
  <2>1. /\ running' = Cardinality(admitted') /\ running' <= MaxBatch
        /\ Len(active') \in Nat /\ Len(active') <= Len(active) /\ Len(active) <= MaxBatch
        /\ incoming' = <<>>
    BY <1>7, LoopHeadFacts DEF BeginFlush
  <2>2. pc' # "admit"
    BY <1>7 DEF BeginFlush
  <2>3. Len(active) \in Nat /\ Len(incoming') = 0
    BY <2>1, <1>1 DEF TypeOK
  <2> QED
    BY <2>1, <2>2, <2>3, BatchAssumption DEF BatchFits
<1>8. CASE Dequeue
  <2>1. /\ running' = Cardinality(admitted') /\ running' <= MaxBatch
        /\ Len(active') \in Nat /\ Len(active') <= Len(active) /\ Len(active) <= MaxBatch
        /\ incoming' = <<>>
    BY <1>8, LoopHeadFacts DEF Dequeue
  <2>2. pc' # "admit"
    BY <1>8 DEF Dequeue
  <2>3. Len(active) \in Nat /\ Len(incoming') = 0
    BY <2>1, <1>1 DEF TypeOK
  <2> QED
    BY <2>1, <2>2, <2>3, BatchAssumption DEF BatchFits
<1>9. CASE KeepBatch
  <2>1. /\ running' = Cardinality(admitted') /\ running' <= MaxBatch
        /\ Len(active') \in Nat /\ Len(active') <= Len(active) /\ Len(active) <= MaxBatch
        /\ incoming' = <<>>
    BY <1>9, LoopHeadFacts DEF KeepBatch
  <2>2. pc' # "admit"
    BY <1>9 DEF KeepBatch
  <2>3. Len(active) \in Nat /\ Len(incoming') = 0
    BY <2>1, <1>1 DEF TypeOK
  <2> QED
    BY <2>1, <2>2, <2>3, BatchAssumption DEF BatchFits
<1>10. CASE WakeToFlush
  BY <1>10, <1>1 DEF BatchFits, WakeToFlush, queueVars, clientVars, batchVars
<1>11. CASE WakeToRequest
  <2>1. /\ pc = "woken" /\ pc' = "collect"
        /\ active' = active /\ admitted' = admitted /\ running' = running
    BY <1>11 DEF WakeToRequest, batchVars
  <2>2. active = <<>> /\ Len(active) = 0
    BY <2>1, RangeShort DEF IInv, BatchHeld
  <2>3. Len(incoming') \in {0, 1}
    BY <1>11, RangeShort DEF WakeToRequest
  <2> QED
    BY <2>1, <2>2, <2>3, <1>1, BatchAssumption DEF BatchFits
<1>12. CASE WakeToShutdown
  BY <1>12, <1>1 DEF BatchFits, WakeToShutdown, queueVars, clientVars, flushVars,
    batchVars, localVars
<1>13. CASE Collected
  <2>1. /\ pc = "collect" /\ pc' \in {"top", "take"}
        /\ active' = active /\ admitted' = admitted /\ running' = running
        /\ incoming' \in {incoming, <<>>}
    BY <1>13 DEF Collected, batchVars
  <2>2. Len(active) + Len(incoming) <= MaxBatch /\ Len(active) \in Nat /\ Len(incoming) \in Nat
    BY <2>1, <1>1 DEF BatchFits, TypeOK
  <2>3. Len(active) + 0 <= MaxBatch
    BY <2>2, BatchAssumption
  <2> QED
    BY <2>1, <2>2, <2>3, <1>1, RangeShort DEF BatchFits
<1>14. CASE TakeOne
  <2>1. /\ pc = "take" /\ pc' = pc
        /\ active' = active /\ admitted' = admitted /\ running' = running
    BY <1>14 DEF TakeOne, batchVars
  <2> QED
    BY <1>14, <2>1, <1>1, TakeOneFacts DEF BatchFits
<1>15. CASE TakeNone
  BY <1>15, <1>1 DEF BatchFits, TakeNone, queueVars, clientVars, flushVars, batchVars,
    localVars
<1>16. CASE BeginAdmit
  <2>1. /\ pc = "take" /\ pc' = "admit" /\ incoming' = incoming
        /\ admitted' = admitted \cup Range(incoming) /\ saved' = active
        /\ running' = running + Len(incoming)
    BY <1>16 DEF BeginAdmit, localVars
  <2> QED
    BY <2>1, <1>1, AdmitCounts DEF BatchFits
<1>17. CASE FinishAdmit
  <2>1. /\ pc = "admit" /\ pc' = "admitted" /\ admitted' = admitted /\ running' = running
        /\ active' = incoming \o saved /\ incoming' = <<>>
    BY <1>17 DEF FinishAdmit
  <2>2. /\ incoming \in Seq(Request) /\ saved \in Seq(Request)
        /\ Len(saved) + Len(incoming) <= MaxBatch
        /\ running = Cardinality(admitted) /\ running <= MaxBatch
    BY <2>1, <1>1 DEF BatchFits, TypeOK
  <2>3. Len(active') = Len(saved) + Len(incoming) /\ Len(active') \in Nat
    BY <2>1, <2>2, RangeConcat
  <2>4. Len(active') + Len(incoming') <= MaxBatch
    BY <2>1, <2>2, <2>3, RangeShort, BatchAssumption
  <2> QED
    BY <2>1, <2>2, <2>4 DEF BatchFits
<1>18. CASE BeginPrefill
  BY <1>18, <1>1 DEF BatchFits, BeginPrefill, queueVars, clientVars, flushVars, batchVars,
    localVars
<1>19. CASE FinishPrefill
  BY <1>19, <1>1 DEF BatchFits, FinishPrefill, queueVars, flushVars, batchVars, localVars
<1>20. CASE BeginDecode
  BY <1>20, <1>1 DEF BatchFits, BeginDecode, queueVars, clientVars, flushVars, batchVars,
    localVars
<1>21. CASE DecodeStep
  BY <1>21, <1>1 DEF BatchFits, DecodeStep, queueVars, flushVars, batchVars, localVars
<1>22. CASE ContinueDecode
  BY <1>22, <1>1 DEF BatchFits, ContinueDecode, queueVars, clientVars, flushVars,
    batchVars, localVars
<1>23. CASE CloseGenerator
  <2>1. /\ running' = Cardinality(admitted') /\ running' <= MaxBatch
        /\ Len(active') \in Nat /\ Len(active') <= Len(active)
        /\ incoming' = incoming /\ pc = "close" /\ pc' = "top"
    BY <1>23, RemoveFinishedFacts DEF CloseGenerator, localVars
  <2>2. Len(active) + Len(incoming) <= MaxBatch /\ Len(active) \in Nat /\ Len(incoming) \in Nat
    BY <2>1, <1>1 DEF BatchFits, TypeOK
  <2> QED
    BY <2>1, <2>2, BatchAssumption DEF BatchFits
<1>24. CASE BatchError
  BY <1>24, <1>1 DEF BatchFits, BatchError, queueVars, clientVars, flushVars, batchVars,
    localVars
<1>25. CASE Recover
  <2>1. /\ pc' \in {"threw", "top"} /\ admitted' = {} /\ active' = <<>> /\ incoming' = <<>>
        /\ running' = running - Cardinality(admitted)
    BY <1>25 DEF Recover
  <2>2. running' = 0
    BY <2>1, <1>1 DEF BatchFits, TypeOK
  <2> QED
    BY <2>1, <2>2, FS_EmptySet, RangeShort, BatchAssumption DEF BatchFits
<1>26. CASE FinishFlush
  BY <1>26, <1>1 DEF BatchFits, FinishFlush, Settle, queueVars, clientVars, batchVars
<1>27. CASE FailFlush
  BY <1>27, <1>1 DEF BatchFits, FailFlush, Settle, queueVars, clientVars, batchVars
<1>28. CASE StopAfterThrow
  BY <1>28, <1>1 DEF BatchFits, StopAfterThrow, Stop, batchVars, localVars
<1> QED
  BY <1>2, <1>3, <1>4, <1>5, <1>6, <1>7, <1>8, <1>9, <1>10, <1>11, <1>12, <1>13, <1>14,
    <1>15, <1>16, <1>17, <1>18, <1>19, <1>20, <1>21, <1>22, <1>23, <1>24, <1>25, <1>26,
    <1>27, <1>28 DEF Next, Environment, Scheduling

\* With a host tier, no flush is refused: its rows are gone when it runs.
LEMMA DeviceOnlyNext ==
  ASSUME IInv, Next
  PROVE  DeviceOnly'
<1>1. DeviceOnly
  BY DEF IInv
<1>2. ASSUME NEW r \in Request, SubmitRequest(r) PROVE DeviceOnly'
  BY <1>2, <1>1 DEF DeviceOnly, SubmitRequest, Submit, clientVars, flushVars, batchVars
<1>3. ASSUME NEW r \in Request, Disconnect(r) PROVE DeviceOnly'
  BY <1>3, <1>1 DEF DeviceOnly, Disconnect, queueVars, flushVars, batchVars, localVars
<1>4. ASSUME NEW f \in Flush, SubmitFlush(f) PROVE DeviceOnly'
  BY <1>4, <1>1 DEF DeviceOnly, SubmitFlush, Submit, clientVars, batchVars
<1>5. CASE Shutdown
  BY <1>5, <1>1 DEF DeviceOnly, Shutdown, Stop, batchVars, localVars
<1>6. CASE ReturnFromRun
  BY <1>6, <1>1 DEF DeviceOnly, ReturnFromRun, LoopHead, clientVars, flushVars
<1>7. CASE BeginFlush
  BY <1>7, <1>1 DEF DeviceOnly, BeginFlush, LoopHead, clientVars, flushVars
<1>8. CASE Dequeue
  BY <1>8, <1>1 DEF DeviceOnly, Dequeue, LoopHead, clientVars, flushVars
<1>9. CASE KeepBatch
  BY <1>9, <1>1 DEF DeviceOnly, KeepBatch, LoopHead, clientVars, flushVars
<1>10. CASE WakeToFlush
  BY <1>10, <1>1 DEF DeviceOnly, WakeToFlush, queueVars, clientVars, batchVars
<1>11. CASE WakeToRequest
  BY <1>11, <1>1 DEF DeviceOnly, WakeToRequest, queueVars, clientVars, flushVars,
    batchVars
<1>12. CASE WakeToShutdown
  BY <1>12, <1>1 DEF DeviceOnly, WakeToShutdown, queueVars, clientVars, flushVars,
    batchVars, localVars
<1>13. CASE Collected
  BY <1>13, <1>1 DEF DeviceOnly, Collected, queueVars, flushVars, batchVars
<1>14. CASE TakeOne
  BY <1>14, <1>1 DEF DeviceOnly, TakeOne, clientVars, batchVars
<1>15. CASE TakeNone
  BY <1>15, <1>1 DEF DeviceOnly, TakeNone, queueVars, clientVars, flushVars, batchVars,
    localVars
<1>16. CASE BeginAdmit
  BY <1>16, <1>1 DEF DeviceOnly, BeginAdmit, queueVars, clientVars, flushVars, localVars
<1>17. CASE FinishAdmit
  BY <1>17, <1>1 DEF DeviceOnly, FinishAdmit, queueVars, flushVars
<1>18. CASE BeginPrefill
  BY <1>18, <1>1 DEF DeviceOnly, BeginPrefill, queueVars, clientVars, flushVars,
    batchVars, localVars
<1>19. CASE FinishPrefill
  BY <1>19, <1>1 DEF DeviceOnly, FinishPrefill, queueVars, flushVars, batchVars, localVars
<1>20. CASE BeginDecode
  BY <1>20, <1>1 DEF DeviceOnly, BeginDecode, queueVars, clientVars, flushVars, batchVars,
    localVars
<1>21. CASE DecodeStep
  BY <1>21, <1>1 DEF DeviceOnly, DecodeStep, queueVars, flushVars, batchVars, localVars
<1>22. CASE ContinueDecode
  BY <1>22, <1>1 DEF DeviceOnly, ContinueDecode, queueVars, clientVars, flushVars,
    batchVars, localVars
<1>23. CASE CloseGenerator
  BY <1>23, <1>1 DEF DeviceOnly, CloseGenerator, queueVars, clientVars, flushVars,
    localVars
<1>24. CASE BatchError
  BY <1>24, <1>1 DEF DeviceOnly, BatchError, queueVars, clientVars, flushVars, batchVars,
    localVars
<1>25. CASE Recover
  BY <1>25, <1>1 DEF DeviceOnly, Recover, queueVars, flushVars
<1>26. CASE FinishFlush
  BY <1>26, <1>1 DEF DeviceOnly, FinishFlush, Settle, queueVars, clientVars, batchVars
<1>27. CASE FailFlush
  <2>1. pc = "flush" /\ broken' = (broken \/ ~FlushRefused)
    BY <1>27 DEF FailFlush
  <2>2. rows = <<>> /\ staged = <<>>
    BY <2>1 DEF IInv, RowsFollow, RowsMatchBatch, BatchHeld
  <2>3. HasHost => ~FlushRefused
    BY <2>2 DEF FlushRefused
  <2> QED
    BY <2>1, <2>3 DEF DeviceOnly
<1>28. CASE StopAfterThrow
  BY <1>28, <1>1 DEF DeviceOnly, StopAfterThrow, Stop, batchVars, localVars
<1> QED
  BY <1>2, <1>3, <1>4, <1>5, <1>6, <1>7, <1>8, <1>9, <1>10, <1>11, <1>12, <1>13, <1>14,
    <1>15, <1>16, <1>17, <1>18, <1>19, <1>20, <1>21, <1>22, <1>23, <1>24, <1>25, <1>26,
    <1>27, <1>28 DEF Next, Environment, Scheduling

\* No step loses a request or a flush that has no answer yet.
LEMMA AnswerableNext ==
  ASSUME IInv, Next
  PROVE  Answerable'
<1>1. Answerable /\ TypeOK
  BY DEF IInv
<1>2. ASSUME NEW r \in Request, pc \in Suspended, SubmitRequest(r) PROVE Answerable'
  <2>1. /\ Submit(r) /\ r \in Event /\ tokens' = tokens /\ flushes' = flushes
        /\ pendingFlush' = pendingFlush /\ admitted' = admitted
    BY <1>2 DEF SubmitRequest, Event, clientVars, flushVars, batchVars
  <2>2. pc = "idle" => item = None /\ pendingFlush = None
    BY <1>1 DEF Answerable
  <2>3. pc # "take"
    BY <1>2 DEF Suspended
  <2> QED
    BY <2>1, <2>2, <2>3, <1>1, SubmitFacts, EventAssumption DEF Answerable, Ended, Event
<1>3. ASSUME NEW r \in Request, pc \in Suspended, Disconnect(r) PROVE Answerable'
  <2>1. /\ UNCHANGED <<order, queue, queueEnded, flushes, pendingFlush, admitted, pc, item, incoming>>
        /\ tokens' = [tokens EXCEPT ![r] = "done"]
    BY <1>3 DEF Disconnect, queueVars, flushVars, batchVars, localVars
  <2>2. \A q \in Request : Ended(q) => Ended(q)'
    BY <2>1, <1>1 DEF Ended, TypeOK
  <2>3. admitted \in SUBSET Request
    BY <1>1 DEF TypeOK
  <2> QED
    BY <2>1, <2>2, <2>3, <1>1 DEF Answerable
<1>4. ASSUME NEW f \in Flush, pc \in Suspended, SubmitFlush(f) PROVE Answerable'
  <2>1. /\ Submit(f) /\ f \in Event /\ tokens' = tokens /\ admitted' = admitted
        /\ flushes' = [flushes EXCEPT ![f] = "waiting"] /\ pendingFlush' = pendingFlush
    BY <1>4 DEF SubmitFlush, Event, clientVars, batchVars
  <2>2. pc = "idle" => item = None /\ pendingFlush = None
    BY <1>1 DEF Answerable
  <2>3. /\ incoming' = incoming /\ Range(order') = Range(order) \cup {f}
        /\ ~queueEnded /\ queueEnded' = queueEnded
        /\ \/ pc = "idle" /\ pc' = "woken" /\ item' = f /\ queue' = queue
           \/ pc # "idle" /\ pc' = pc /\ item' = item /\ Range(queue') = Range(queue) \cup {f}
    BY <2>1, SubmitFacts
  <2>4. f \notin Request
    BY EventAssumption
  <2>5. \A r \in Range(order') \cap Request :
          Ended(r)' \/ r \in Range(queue') \cup Range(incoming') \cup admitted' \cup {item'}
    BY <2>1, <2>2, <2>3, <2>4, <1>1, EventAssumption DEF Answerable, Ended, Event
  <2>6. \A g \in Flush : flushes'[g] = "waiting" => g \in Range(queue') \cup {pendingFlush', item'}
    BY <2>1, <2>2, <2>3, <1>1, EventAssumption DEF Answerable, Event, TypeOK
  <2> QED
    BY <2>1, <2>2, <2>3, <2>5, <2>6, <1>4, <1>1 DEF Answerable, Suspended
<1>5. CASE pc \in Suspended /\ Shutdown
  <2>1. /\ queueEnded' = TRUE /\ queue' = <<>> /\ pendingFlush' = None
        /\ UNCHANGED <<order, admitted, item, incoming>>
        /\ tokens' = [r \in Request |-> IF tokens[r] = "open" /\ r \in Range(queue) \cup admitted
                                        THEN "error" ELSE tokens[r]]
        /\ flushes' = [f \in Flush |-> IF flushes[f] = "waiting" /\ f \in Range(queue) \cup {pendingFlush}
                                       THEN "rejected" ELSE flushes[f]]
    BY <1>5 DEF Shutdown, Stop, batchVars, localVars
  <2>2. /\ \A r \in Request : Ended(r) => Ended(r)'
        /\ \A r \in (Range(queue) \cup admitted) \cap Request : Ended(r)'
        /\ \A f \in Flush : flushes'[f] = "waiting" =>
             flushes[f] = "waiting" /\ f \notin Range(queue) \cup {pendingFlush}
    BY <2>1, <1>1 DEF Ended, TypeOK
  <2>3. \A r \in admitted : Ended(r)'
    BY <2>2, <1>1 DEF TypeOK
  <2>4. \A r \in Range(order') \cap Request :
          Ended(r)' \/ r \in Range(queue') \cup Range(incoming') \cup admitted' \cup {item'}
    BY <2>1, <2>2, <1>1 DEF Answerable
  <2>5. \A f \in Flush : flushes'[f] = "waiting" => f \in Range(queue') \cup {pendingFlush', item'}
    BY <2>1, <2>2, <1>1 DEF Answerable
  <2>6. pc' = (IF pc = "idle" THEN "rejected" ELSE pc) /\ pc # "take"
    BY <1>5 DEF Shutdown, Suspended
  <2> QED
    BY <2>1, <2>3, <2>4, <2>5, <2>6, <1>1 DEF Answerable
<1>6. CASE ReturnFromRun
  <2>1. /\ UNCHANGED <<order, tokens, flushes, pendingFlush, queueEnded>>
        /\ pc = "top" /\ incoming = <<>> /\ incoming' = <<>> /\ item = None
        /\ admitted' \subseteq admitted /\ \A r \in admitted \ admitted' : Ended(r)
    BY <1>6, LoopHeadFacts DEF ReturnFromRun, LoopHead, clientVars, flushVars
  <2>2. \A r \in Request : Ended(r)' = Ended(r)
    BY <2>1 DEF Ended
  <2>3. admitted \in SUBSET Request
    BY <1>1 DEF TypeOK
  <2>4. queueEnded /\ pc' = "returned" /\ queue' = queue /\ item' = item
    BY <1>6 DEF ReturnFromRun
  <2> QED
    BY <2>1, <2>2, <2>3, <2>4, <1>1 DEF Answerable
<1>7. CASE BeginFlush
  <2>1. /\ UNCHANGED <<order, tokens, flushes, pendingFlush, queueEnded>>
        /\ pc = "top" /\ incoming = <<>> /\ incoming' = <<>> /\ item = None
        /\ admitted' \subseteq admitted /\ \A r \in admitted \ admitted' : Ended(r)
    BY <1>7, LoopHeadFacts DEF BeginFlush, LoopHead, clientVars, flushVars
  <2>2. \A r \in Request : Ended(r)' = Ended(r)
    BY <2>1 DEF Ended
  <2>3. admitted \in SUBSET Request
    BY <1>1 DEF TypeOK
  <2>4. /\ ~queueEnded /\ pc' = "flush" /\ queue' = queue
        /\ item' = pendingFlush /\ item' \in Flush
    BY <1>7, <1>1 DEF BeginFlush, TypeOK
  <2>5. None \notin Request /\ None \notin Flush
    BY EventAssumption DEF Event
  <2> QED
    BY <2>1, <2>2, <2>3, <2>4, <2>5, <1>1 DEF Answerable
<1>8. CASE Dequeue
  <2>1. /\ UNCHANGED <<order, tokens, flushes, pendingFlush, queueEnded>>
        /\ pc = "top" /\ incoming = <<>> /\ incoming' = <<>> /\ item = None
        /\ admitted' \subseteq admitted /\ \A r \in admitted \ admitted' : Ended(r)
    BY <1>8, LoopHeadFacts DEF Dequeue, LoopHead, clientVars, flushVars
  <2>2. \A r \in Request : Ended(r)' = Ended(r)
    BY <2>1 DEF Ended
  <2>3. admitted \in SUBSET Request
    BY <1>1 DEF TypeOK
  <2>4. /\ ~queueEnded /\ pendingFlush = None
        /\ \/ pc' = "idle" /\ queue' = queue /\ item' = item
           \/ /\ pc' = "woken" /\ item' \in Event
              /\ Range(queue) = {item'} \cup Range(queue')
    BY <1>8, TakeFacts DEF Dequeue
  <2>5. None \notin Request /\ None \notin Flush
    BY EventAssumption DEF Event
  <2> QED
    BY <2>1, <2>2, <2>3, <2>4, <2>5, <1>1 DEF Answerable
<1>9. CASE KeepBatch
  <2>1. /\ UNCHANGED <<order, tokens, flushes, pendingFlush, queueEnded>>
        /\ pc = "top" /\ incoming = <<>> /\ incoming' = <<>> /\ item = None
        /\ admitted' \subseteq admitted /\ \A r \in admitted \ admitted' : Ended(r)
    BY <1>9, LoopHeadFacts DEF KeepBatch, LoopHead, clientVars, flushVars
  <2>2. \A r \in Request : Ended(r)' = Ended(r)
    BY <2>1 DEF Ended
  <2>3. admitted \in SUBSET Request
    BY <1>1 DEF TypeOK
  <2>4. ~queueEnded /\ pc' = "take" /\ queue' = queue /\ item' = item
    BY <1>9 DEF KeepBatch
  <2> QED
    BY <2>1, <2>2, <2>3, <2>4, <1>1 DEF Answerable
<1>10. CASE WakeToFlush
  <2>1. /\ UNCHANGED <<queue, order, queueEnded, tokens, admitted, incoming>>
        /\ pc = "woken" /\ item \in Flush /\ pc' = "top" /\ item' = None
        /\ \/ /\ queueEnded /\ pendingFlush' = pendingFlush
              /\ flushes' = [flushes EXCEPT ![item] = "rejected"]
           \/ ~queueEnded /\ pendingFlush' = item /\ flushes' = flushes
    BY <1>10 DEF WakeToFlush, queueVars, clientVars, batchVars
  <2>2. \A r \in Request : (Ended(r)' = Ended(r)) /\ r # item
    BY <2>1, EventAssumption DEF Ended
  <2>3. pendingFlush = None /\ None \notin Flush /\ admitted \in SUBSET Request
    BY <2>1, <1>1, EventAssumption DEF Answerable, Event, TypeOK
  <2>4. \A f \in Flush : flushes'[f] = "waiting" => f \in Range(queue') \cup {pendingFlush', item'}
    BY <2>1, <2>3, <1>1 DEF Answerable, TypeOK
  <2> QED
    BY <2>1, <2>2, <2>3, <2>4, <1>1 DEF Answerable
<1>11. CASE WakeToRequest
  <2>1. /\ UNCHANGED <<queue, order, queueEnded, tokens, flushes, pendingFlush, admitted>>
        /\ pc = "woken" /\ item \in Request /\ pc' = "collect" /\ item' = None
        /\ Ended(item) \/ item \in Range(incoming')
    BY <1>11, RangeShort DEF WakeToRequest, queueVars, clientVars, flushVars, batchVars
  <2>2. (\A r \in Request : Ended(r)' = Ended(r)) /\ incoming = <<>> /\ Range(incoming) = {}
    BY <2>1, RangeShort DEF Ended, IInv, BatchHeld
  <2>3. admitted \in SUBSET Request /\ item \notin Flush
    BY <2>1, <1>1, EventAssumption DEF TypeOK
  <2> QED
    BY <2>1, <2>2, <2>3, <1>1 DEF Answerable
<1>12. CASE WakeToShutdown
  <2>1. /\ UNCHANGED <<queue, order, queueEnded, tokens, flushes, pendingFlush, admitted, item, incoming>>
        /\ pc = "rejected" /\ pc' = "returned"
    BY <1>12 DEF WakeToShutdown, queueVars, clientVars, flushVars, batchVars, localVars
  <2> QED
    BY <2>1, <1>1 DEF Answerable, Ended
<1>13. CASE Collected
  <2>1. /\ UNCHANGED <<queue, order, queueEnded, flushes, pendingFlush, admitted, item>>
        /\ pc = "collect"
    BY <1>13 DEF Collected, queueVars, flushVars, batchVars
  <2>2. CASE queueEnded
    <3>1. /\ tokens' = [r \in Request |-> IF r \in Range(incoming) /\ ~Ended(r) THEN "error" ELSE tokens[r]]
          /\ pc' = "top"
      BY <1>13, <2>2 DEF Collected
    <3>2. \A r \in Request : (Ended(r) => Ended(r)') /\ (r \in Range(incoming) => Ended(r)')
      BY <3>1, <1>1 DEF Ended, TypeOK
    <3>3. admitted \in SUBSET Request
      BY <1>1 DEF TypeOK
    <3> QED
      BY <2>1, <3>1, <3>2, <3>3, <1>1 DEF Answerable
  <2>3. CASE ~queueEnded
    <3>1. tokens' = tokens /\ incoming' = incoming /\ pc' = "take"
      BY <1>13, <2>3 DEF Collected
    <3> QED
      BY <2>1, <2>3, <3>1, <1>1 DEF Answerable, Ended
  <2> QED
    BY <2>2, <2>3
<1>14. CASE TakeOne
  <2>1. /\ UNCHANGED <<order, queueEnded, tokens, flushes, admitted, item, pc>>
        /\ pc = "take" /\ pendingFlush = None /\ queue # <<>> /\ queue' = Tail(queue)
    BY <1>14 DEF TakeOne, clientVars, batchVars
  <2>2. /\ Range(queue) = {Head(queue)} \cup Range(queue')
        /\ \/ Head(queue) \in Flush /\ pendingFlush' = Head(queue) /\ incoming' = incoming
           \/ /\ Head(queue) \in Request /\ Ended(Head(queue)) /\ incoming' = incoming
              /\ pendingFlush' = None
           \/ /\ Head(queue) \in Request /\ Range(incoming') = Range(incoming) \cup {Head(queue)}
              /\ pendingFlush' = None
    BY <1>14, <2>1, TakeFacts, TakeOneFacts
  <2>3. Request \cap Flush = {} /\ None \notin Flush
    BY EventAssumption DEF Event
  <2>4. \A r \in Request : Ended(r)' = Ended(r)
    BY <2>1 DEF Ended
  <2>5. ~queueEnded /\ ~queueEnded'
    BY <2>1, <1>1 DEF Answerable
  <2>6. \A r \in Range(order') \cap Request :
          Ended(r)' \/ r \in Range(queue') \cup Range(incoming') \cup admitted' \cup {item'}
    BY <2>1, <2>2, <2>3, <2>4, <1>1 DEF Answerable
  <2>7. \A f \in Flush : flushes'[f] = "waiting" => f \in Range(queue') \cup {pendingFlush', item'}
    BY <2>1, <2>2, <2>3, <1>1 DEF Answerable
  <2> QED
    BY <2>1, <2>5, <2>6, <2>7, <1>1 DEF Answerable
<1>15. CASE TakeNone
  <2>1. /\ UNCHANGED <<queue, order, queueEnded, tokens, flushes, pendingFlush, admitted, item, incoming>>
        /\ pc \notin {"woken", "flush"} /\ pc' = "prefilling"
    BY <1>15 DEF TakeNone, queueVars, clientVars, flushVars, batchVars, localVars
  <2> QED
    BY <2>1, <1>1 DEF Answerable, Ended
<1>16. CASE BeginAdmit
  <2>1. /\ UNCHANGED <<queue, order, queueEnded, tokens, flushes, pendingFlush, item, incoming>>
        /\ pc = "take" /\ pc' = "admit" /\ admitted \subseteq admitted'
    BY <1>16 DEF BeginAdmit, queueVars, clientVars, flushVars, localVars
  <2>2. ~queueEnded
    BY <2>1, <1>1 DEF Answerable
  <2> QED
    BY <2>1, <2>2, <1>1 DEF Answerable, Ended
<1>17. CASE FinishAdmit
  <2>1. /\ UNCHANGED <<queue, order, queueEnded, tokens, flushes, pendingFlush, item, admitted>>
        /\ pc = "admit" /\ pc' = "admitted"
    BY <1>17 DEF FinishAdmit, queueVars, flushVars
  <2>2. Range(incoming) \subseteq admitted
    BY <2>1 DEF IInv, BatchHeld
  <2> QED
    BY <2>1, <2>2, <1>1 DEF Answerable, Ended
<1>18. CASE BeginPrefill
  <2>1. /\ UNCHANGED <<queue, order, queueEnded, tokens, flushes, pendingFlush, admitted, item, incoming>>
        /\ pc \notin {"woken", "flush"} /\ pc' \in {"prefilled", "prefill"}
    BY <1>18 DEF BeginPrefill, queueVars, clientVars, flushVars, batchVars, localVars
  <2> QED
    BY <2>1, <1>1 DEF Answerable, Ended
<1>19. CASE FinishPrefill
  <2>1. PICK chunk \in SUBSET Unread \ {{}} :
          LET complete == {r \in chunk : input[r] = 1}
          IN \E eos \in SUBSET complete : Publish([r \in complete |-> 1], eos)
    BY <1>19 DEF FinishPrefill
  <2> DEFINE complete == {r \in chunk : input[r] = 1}
  <2>2. PICK eos \in SUBSET complete : Publish([r \in complete |-> 1], eos)
    BY <2>1
  <2>3. complete \in SUBSET Request /\ [r \in complete |-> 1] \in [complete -> Nat]
    <3>1. Unread \in SUBSET Request
      BY <1>1 DEF TypeOK, Unread, Range
    <3> QED
      BY <3>1, <2>1
  <2> HIDE DEF complete
  <2>4. \A r \in Request : Ended(r) => Ended(r)'
    BY <2>2, <2>3, PublishFacts
  <2>5. /\ UNCHANGED <<queue, order, queueEnded, flushes, pendingFlush, admitted, item, incoming>>
        /\ pc = "prefill" /\ pc' = "prefilled" /\ admitted \in SUBSET Request
    BY <1>19, <1>1 DEF FinishPrefill, queueVars, flushVars, batchVars, localVars, TypeOK
  <2> QED
    BY <2>4, <2>5, <1>1 DEF Answerable
<1>20. CASE BeginDecode
  <2>1. /\ UNCHANGED <<queue, order, queueEnded, tokens, flushes, pendingFlush, admitted, item, incoming>>
        /\ pc \notin {"woken", "flush"} /\ pc' \in {"top", "decode"}
    BY <1>20 DEF BeginDecode, queueVars, clientVars, flushVars, batchVars, localVars
  <2> QED
    BY <2>1, <1>1 DEF Answerable, Ended
<1>21. CASE DecodeStep
  <2>1. PICK gain \in [Range(active) -> 1..StepTokens], eos \in SUBSET Range(active) :
          Publish(gain, eos)
    BY <1>21 DEF DecodeStep
  <2>2. Range(active) \in SUBSET Request /\ gain \in [Range(active) -> Nat]
    <3>1. Range(active) \in SUBSET Request
      BY <1>1 DEF TypeOK, Range
    <3>2. 1..StepTokens \subseteq Nat
      BY BoundAssumption
    <3> QED
      BY <2>1, <3>1, <3>2
  <2>4. \A r \in Request : Ended(r) => Ended(r)'
    BY <2>1, <2>2, PublishFacts
  <2>5. /\ UNCHANGED <<queue, order, queueEnded, flushes, pendingFlush, admitted, item, incoming>>
        /\ pc = "decode" /\ pc' = "yielded" /\ admitted \in SUBSET Request
    BY <1>21, <1>1 DEF DecodeStep, queueVars, flushVars, batchVars, localVars, TypeOK
  <2> QED
    BY <2>4, <2>5, <1>1 DEF Answerable
<1>22. CASE ContinueDecode
  <2>1. /\ UNCHANGED <<queue, order, queueEnded, tokens, flushes, pendingFlush, admitted, item, incoming>>
        /\ pc \notin {"woken", "flush"} /\ pc' \in {"close", "decode"}
    BY <1>22 DEF ContinueDecode, queueVars, clientVars, flushVars, batchVars, localVars
  <2> QED
    BY <2>1, <1>1 DEF Answerable, Ended
<1>23. CASE CloseGenerator
  <2>1. /\ UNCHANGED <<queue, order, queueEnded, tokens, flushes, pendingFlush, item, incoming>>
        /\ pc = "close" /\ pc' = "top"
        /\ admitted' \subseteq admitted /\ \A r \in admitted \ admitted' : Ended(r)
    BY <1>23, RemoveFinishedFacts DEF CloseGenerator, queueVars, clientVars, flushVars, localVars
  <2>2. (\A r \in Request : Ended(r)' = Ended(r)) /\ admitted \in SUBSET Request
    BY <2>1, <1>1 DEF Ended, TypeOK
  <2> QED
    BY <2>1, <2>2, <1>1 DEF Answerable
<1>24. CASE BatchError
  <2>1. /\ UNCHANGED <<queue, order, queueEnded, tokens, flushes, pendingFlush, admitted, item, incoming>>
        /\ pc \notin {"woken", "flush"} /\ pc' = "drain"
    BY <1>24 DEF BatchError, queueVars, clientVars, flushVars, batchVars, localVars
  <2> QED
    BY <2>1, <1>1 DEF Answerable, Ended
<1>25. CASE Recover
  <2>1. /\ UNCHANGED <<queue, order, queueEnded, flushes, pendingFlush, item>>
        /\ tokens' = [r \in Request |-> IF r \in admitted /\ ~Ended(r) THEN "error" ELSE tokens[r]]
        /\ pc = "drain" /\ pc' \in {"threw", "top"} /\ admitted' = {}
    BY <1>25 DEF Recover, queueVars, flushVars
  <2>2. \A r \in Request : (Ended(r) => Ended(r)') /\ (r \in admitted => Ended(r)')
    BY <2>1, <1>1 DEF Ended, TypeOK
  <2>3. Range(incoming) \subseteq admitted
    BY <2>1 DEF IInv, BatchHeld
  <2> QED
    BY <2>1, <2>2, <2>3, <1>1 DEF Answerable
<1>26. CASE FinishFlush
  <2>1. /\ UNCHANGED <<queue, order, queueEnded, tokens, admitted, incoming>>
        /\ pendingFlush' = None /\ item' = None /\ pc = "flush" /\ pc' \in {"top", "threw"}
    BY <1>26 DEF FinishFlush, Settle, queueVars, clientVars, batchVars
  <2>2. item \in Flush /\ pendingFlush \in {item, None} /\ item \notin Request
    BY <2>1, <1>1, EventAssumption DEF Answerable
  <2>3. None \notin Flush /\ admitted \in SUBSET Request
    BY <1>1, EventAssumption DEF Event, TypeOK
  <2>4. \A f \in Flush : flushes'[f] = "waiting" => flushes[f] = "waiting" /\ f # item
    BY <1>26, <2>2, <1>1 DEF FinishFlush, Settle, TypeOK
  <2> QED
    BY <2>1, <2>2, <2>3, <2>4, <1>1 DEF Answerable, Ended
<1>27. CASE FailFlush
  <2>1. /\ UNCHANGED <<queue, order, queueEnded, tokens, admitted, incoming>>
        /\ pendingFlush' = None /\ item' = None /\ pc = "flush" /\ pc' \in {"top", "threw"}
    BY <1>27 DEF FailFlush, Settle, queueVars, clientVars, batchVars
  <2>2. item \in Flush /\ pendingFlush \in {item, None} /\ item \notin Request
    BY <2>1, <1>1, EventAssumption DEF Answerable
  <2>3. None \notin Flush /\ admitted \in SUBSET Request
    BY <1>1, EventAssumption DEF Event, TypeOK
  <2>4. \A f \in Flush : flushes'[f] = "waiting" => flushes[f] = "waiting" /\ f # item
    BY <1>27, <2>2, <1>1 DEF FailFlush, Settle, TypeOK
  <2> QED
    BY <2>1, <2>2, <2>3, <2>4, <1>1 DEF Answerable, Ended
<1>28. CASE StopAfterThrow
  <2>1. /\ queueEnded' = TRUE /\ queue' = <<>> /\ pendingFlush' = None
        /\ UNCHANGED <<order, admitted, item, incoming>>
        /\ tokens' = [r \in Request |-> IF tokens[r] = "open" /\ r \in Range(queue) \cup admitted
                                        THEN "error" ELSE tokens[r]]
        /\ flushes' = [f \in Flush |-> IF flushes[f] = "waiting" /\ f \in Range(queue) \cup {pendingFlush}
                                       THEN "rejected" ELSE flushes[f]]
    BY <1>28 DEF StopAfterThrow, Stop, batchVars, localVars
  <2>2. /\ \A r \in Request : Ended(r) => Ended(r)'
        /\ \A r \in (Range(queue) \cup admitted) \cap Request : Ended(r)'
        /\ \A f \in Flush : flushes'[f] = "waiting" =>
             flushes[f] = "waiting" /\ f \notin Range(queue) \cup {pendingFlush}
    BY <2>1, <1>1 DEF Ended, TypeOK
  <2>3. \A r \in admitted : Ended(r)'
    BY <2>2, <1>1 DEF TypeOK
  <2>4. \A r \in Range(order') \cap Request :
          Ended(r)' \/ r \in Range(queue') \cup Range(incoming') \cup admitted' \cup {item'}
    BY <2>1, <2>2, <1>1 DEF Answerable
  <2>5. \A f \in Flush : flushes'[f] = "waiting" => f \in Range(queue') \cup {pendingFlush', item'}
    BY <2>1, <2>2, <1>1 DEF Answerable
  <2>6. pc = "threw" /\ pc' = "stopped"
    BY <1>28 DEF StopAfterThrow
  <2> QED
    BY <2>1, <2>3, <2>4, <2>5, <2>6, <1>1 DEF Answerable
<1> QED
  BY <1>2, <1>3, <1>4, <1>5, <1>6, <1>7, <1>8, <1>9, <1>10, <1>11, <1>12, <1>13, <1>14,
    <1>15, <1>16, <1>17, <1>18, <1>19, <1>20, <1>21, <1>22, <1>23, <1>24, <1>25, <1>26,
    <1>27, <1>28 DEF Next, Environment, Scheduling

-----------------------------------------------------------------------------
(* The theorems                                                          *)

\* The invariant holds when run() starts.
LEMMA InitInvariant == Init => IInv
<1> SUFFICES ASSUME Init PROVE IInv
  OBVIOUS
<1> USE DEF Init
<1>1. TypeOK
  <2>1. <<>> \in Seq(Event) /\ <<>> \in Seq(Request) /\ 0 \in 0..MaxTokens /\ 0 \in 0..MaxChunks
    BY BoundAssumption
  <2> QED
    BY <2>1 DEF TypeOK
<1>2. RowsFollow
  BY DEF RowsFollow, RowsMatchBatch
<1>3. OnePlace
  BY RangeShort, EventAssumption DEF OnePlace, Event
<1>4. BatchHeld
  BY RangeShort DEF BatchHeld
<1>5. BatchFits
  BY RangeShort, FS_EmptySet, BatchAssumption DEF BatchFits
<1>6. Answerable
  BY RangeShort DEF Answerable
<1>7. DeviceOnly
  BY DEF DeviceOnly
<1> QED
  BY <1>1, <1>2, <1>3, <1>4, <1>5, <1>6, <1>7 DEF IInv

\* Steps that change nothing keep it.
LEMMA StutterInvariant ==
  ASSUME IInv, UNCHANGED vars
  PROVE  IInv'
<1> USE DEF vars, queueVars, clientVars, flushVars, batchVars, localVars
<1>1. TypeOK'
  BY DEF IInv, TypeOK
<1>2. RowsFollow'
  BY DEF IInv, RowsFollow, RowsMatchBatch
<1>3. OnePlace'
  BY DEF IInv, OnePlace
<1>4. BatchHeld'
  BY DEF IInv, BatchHeld
<1>5. BatchFits'
  BY DEF IInv, BatchFits
<1>6. Answerable'
  BY DEF IInv, Answerable, Ended
<1>7. DeviceOnly'
  BY DEF IInv, DeviceOnly
<1> QED
  BY <1>1, <1>2, <1>3, <1>4, <1>5, <1>6, <1>7 DEF IInv

\* The invariant is inductive: run(), its clients, the administrator and the
\* operator keep every part of it.
THEOREM SchedulerInvariant == Spec => []IInv
<1>1. Init => IInv
  BY InitInvariant
<1>2. IInv /\ [Next]_vars => IInv'
  <2>1. ASSUME IInv, Next PROVE IInv'
    BY <2>1, TypeOKNext, RowsFollowNext, OnePlaceNext, BatchHeldNext, BatchFitsNext,
       AnswerableNext, DeviceOnlyNext DEF IInv
  <2> QED
    BY <2>1, StutterInvariant
<1> QED
  BY <1>1, <1>2, PTL DEF Spec

\* The state keeps its types, and the gauge of running requests never goes
\* below zero.
THEOREM SchedulerTypeCorrect == Spec => []TypeOK
<1>1. IInv => TypeOK
  BY DEF IInv
<1> QED
  BY <1>1, SchedulerInvariant, PTL

\* Whatever joins, leaves and is readmitted, the i-th request of the batch is
\* served from the i-th row of the cache.
THEOREM RowsAlwaysMatch == Spec => []RowsMatchBatch
<1>1. IInv => RowsMatchBatch
  BY DEF IInv, RowsFollow
<1> QED
  BY <1>1, SchedulerInvariant, PTL

\* The batch is the set of admitted requests, it never exceeds its size, and
\* the gauge counts it, through errors and shutdown.
THEOREM BatchAlwaysAccounted == Spec => []BatchAccounted
<1>1. IInv => BatchAccounted
  BY FS_EmptySet DEF IInv, BatchHeld, BatchFits, OnePlace, BatchAccounted
<1> QED
  BY <1>1, SchedulerInvariant, PTL

\* Whichever way run() ends, nobody is left without an answer.
THEOREM NobodyLeftWaiting == Spec => []QuietEnd
<1>1. IInv => QuietEnd
  <2> SUFFICES ASSUME IInv, pc \in {"returned", "stopped"} PROVE QuietEnd
    BY DEF QuietEnd
  <2>1. queue = <<>> /\ incoming = <<>> /\ admitted = {} /\ item = None /\ pendingFlush = None
    BY DEF IInv, Answerable, BatchHeld
  <2>2. None \notin Request /\ None \notin Flush
    BY EventAssumption DEF Event
  <2> QED
    BY <2>1, <2>2, RangeShort DEF IInv, Answerable, QuietEnd
<1> QED
  BY <1>1, SchedulerInvariant, PTL

\* A server with a host tier is never stopped by what its clients and its
\* administrator ask of it.
THEOREM HostServerStoppedByDeviceOnly ==
  ASSUME HasHost
  PROVE  Spec => []OnlyDeviceStops
<1>1. IInv => OnlyDeviceStops
  BY DEF IInv, DeviceOnly, OnlyDeviceStops
<1> QED
  BY <1>1, SchedulerInvariant, PTL

-----------------------------------------------------------------------------
(* The order of admission                                                *)

\* How much of order has been taken from the queue.
Taken == Len(order) - Len(queue)

\* The queue is the end of order; what has been taken last is the flush that
\* waits, or what the dequeue gave.
QueueIsRest ==
  /\ IsInjective(order)
  /\ Len(queue) <= Len(order)
  /\ \A i \in 1..Len(queue) : queue[i] = order[Taken + i]
  /\ pc = "idle" => queue = <<>>
  /\ pendingFlush # None => Taken \in DOMAIN order /\ order[Taken] = pendingFlush
  /\ pc = "woken" => item \in Range(order)
  /\ pc = "woken" /\ ~queueEnded => Taken \in DOMAIN order /\ order[Taken] = item

\* An accepted event joins both, or is handed over when the queue is empty.
LEMMA SubmitKeepsRest ==
  ASSUME IInv, QueueIsRest, NEW e \in Event, Submit(e), pendingFlush' = pendingFlush
  PROVE  QueueIsRest'
<1>1. /\ queue \in Seq(Event) /\ order \in Seq(Event) /\ Len(queue) \in Nat /\ Len(order) \in Nat
      /\ DOMAIN order = 1..Len(order)
  BY DEF IInv, TypeOK
<1>2. e \notin Range(order) /\ order' = Append(order, e) /\ queueEnded' = queueEnded /\ ~queueEnded
  BY DEF Submit
<1>3. /\ Len(order') = Len(order) + 1 /\ Range(order') = Range(order) \cup {e} /\ IsInjective(order')
      /\ order'[Len(order) + 1] = e /\ DOMAIN order' = 1..(Len(order) + 1)
      /\ \A i \in 1..Len(order) : order'[i] = order[i]
  BY <1>1, <1>2, RangeAppend DEF QueueIsRest
<1>4. CASE pc = "idle"
  <2>1. queue' = queue /\ queue = <<>> /\ Len(queue) = 0 /\ item' = e /\ pc' = "woken" /\ pendingFlush = None
    BY <1>4 DEF Submit, QueueIsRest, IInv, Answerable
  <2>2. Taken' = Len(order) + 1
    BY <2>1, <1>1, <1>3 DEF Taken
  <2> QED
    BY <2>1, <2>2, <1>1, <1>3 DEF QueueIsRest
<1>5. CASE pc # "idle"
  <2>1. queue' = Append(queue, e) /\ pc' = pc /\ item' = item
    BY <1>5 DEF Submit
  <2>2. /\ Len(queue') = Len(queue) + 1 /\ queue'[Len(queue) + 1] = e
        /\ \A i \in 1..Len(queue) : queue'[i] = queue[i]
    BY <2>1, <1>1
  <2>3. Taken' = Taken /\ Taken \in Int /\ Taken + Len(queue) = Len(order) /\ Taken >= 0
    BY <2>2, <1>1, <1>3 DEF Taken, QueueIsRest
  <2>4. ASSUME NEW i \in 1..Len(queue') PROVE queue'[i] = order'[Taken' + i]
    <3>1. CASE i = Len(queue) + 1
      BY <3>1, <2>2, <2>3, <1>1, <1>3
    <3>2. CASE i # Len(queue) + 1
      <4>1. i \in 1..Len(queue) /\ Taken + i \in 1..Len(order)
        BY <3>2, <2>2, <2>3, <1>1
      <4> QED
        BY <4>1, <2>2, <2>3, <1>3 DEF QueueIsRest
    <3> QED
      BY <3>1, <3>2
  <2>5. Taken \in DOMAIN order => Taken \in DOMAIN order' /\ order'[Taken] = order[Taken]
    BY <2>3, <1>1, <1>3
  <2>6. /\ pendingFlush' # None => Taken' \in DOMAIN order' /\ order'[Taken'] = pendingFlush'
        /\ pc' = "woken" /\ ~queueEnded' => Taken' \in DOMAIN order' /\ order'[Taken'] = item'
    BY <2>1, <2>3, <2>5, <1>2 DEF QueueIsRest
  <2>7. Len(queue') <= Len(order') /\ (pc' = "woken" => item' \in Range(order'))
    BY <2>1, <2>2, <1>1, <1>3 DEF QueueIsRest
  <2> QED
    BY <2>1, <2>4, <2>6, <2>7, <1>3, <1>5 DEF QueueIsRest
<1> QED
  BY <1>4, <1>5

\* The head of the queue is the next of order.
LEMMA TakingKeepsRest ==
  ASSUME IInv, QueueIsRest, queue # <<>>, queue' = Tail(queue), order' = order
  PROVE  /\ Len(queue') <= Len(order)
         /\ \A i \in 1..Len(queue') : queue'[i] = order[Taken' + i]
         /\ Taken' \in DOMAIN order /\ order[Taken'] = Head(queue)
<1>1. /\ queue \in Seq(Event) /\ order \in Seq(Event) /\ Len(queue) \in Nat /\ Len(order) \in Nat
      /\ DOMAIN order = 1..Len(order)
  BY DEF IInv, TypeOK
<1>2. /\ Len(queue) >= 1 /\ Len(queue') = Len(queue) - 1 /\ Head(queue) = queue[1]
      /\ \A i \in 1..(Len(queue) - 1) : queue'[i] = queue[i + 1]
  BY <1>1
<1>3. /\ Taken' = Taken + 1 /\ Taken \in Nat /\ Taken + Len(queue) = Len(order)
      /\ Len(queue) <= Len(order)
  BY <1>1, <1>2 DEF Taken, QueueIsRest
<1>4. order[Taken + 1] = queue[1]
  BY <1>1, <1>2, <1>3 DEF QueueIsRest
<1>5. ASSUME NEW i \in 1..Len(queue') PROVE queue'[i] = order[Taken' + i]
  <2>1. i + 1 \in 1..Len(queue) /\ queue'[i] = queue[i + 1]
    BY <1>1, <1>2
  <2>2. queue[i + 1] = order[Taken + (i + 1)]
    BY <2>1 DEF QueueIsRest
  <2>3. Taken + (i + 1) = Taken' + i
    BY <1>1, <1>3
  <2> QED
    BY <2>1, <2>2, <2>3
<1> QED
  BY <1>1, <1>2, <1>3, <1>4, <1>5

\* Once the queue has been emptied for good nothing is left to be in order.
LEMMA StopKeepsRest ==
  ASSUME IInv, QueueIsRest, Stop, order' = order, item' = item, pc' = "woken" => pc = "woken"
  PROVE  QueueIsRest'
<1>1. /\ order \in Seq(Event) /\ Len(order) \in Nat
  BY DEF IInv, TypeOK
<1>2. queue' = <<>> /\ Len(queue') = 0 /\ pendingFlush' = None /\ queueEnded'
  BY DEF Stop
<1> QED
  BY <1>1, <1>2 DEF QueueIsRest

\* Every step keeps the queue what is left of the submissions.
LEMMA QueueIsRestNext ==
  ASSUME IInv, QueueIsRest, Next
  PROVE  QueueIsRest'
<1>1. CASE Environment
  <2>1. ASSUME NEW r \in Request, SubmitRequest(r) PROVE QueueIsRest'
    BY <2>1, SubmitKeepsRest DEF SubmitRequest, flushVars, Event
  <2>2. ASSUME NEW r \in Request, Disconnect(r) PROVE QueueIsRest'
    BY <2>2 DEF Disconnect, queueVars, flushVars, localVars, QueueIsRest, Taken
  <2>3. ASSUME NEW f \in Flush, SubmitFlush(f) PROVE QueueIsRest'
    BY <2>3, SubmitKeepsRest DEF SubmitFlush, Event
  <2>4. CASE Shutdown
    BY <2>4, StopKeepsRest DEF Shutdown, localVars
  <2> QED
    BY <1>1, <2>1, <2>2, <2>3, <2>4 DEF Environment
<1>2. CASE Dequeue
  <2>1. order' = order /\ pendingFlush' = None /\ queueEnded' = queueEnded /\ pendingFlush = None
    BY <1>2 DEF Dequeue, LoopHead, flushVars
  <2>2. CASE queue = <<>>
    BY <1>2, <2>1, <2>2 DEF Dequeue, QueueIsRest, Taken
  <2>3. CASE queue # <<>>
    <3>1. pc' = "woken" /\ item' = Head(queue) /\ queue' = Tail(queue)
      BY <1>2, <2>3 DEF Dequeue
    <3>2. Head(queue) \in Range(order)
      BY <3>1, <2>3, TakeFacts
    <3> QED
      BY <2>1, <2>3, <3>1, <3>2, TakingKeepsRest DEF QueueIsRest
  <2> QED
    BY <2>2, <2>3
<1>3. CASE TakeOne
  <2>1. /\ order' = order /\ pendingFlush = None /\ queue # <<>> /\ queue' = Tail(queue)
        /\ pc = "take" /\ pc' = "take" /\ pendingFlush' \in {Head(queue), None}
    BY <1>3 DEF TakeOne
  <2> QED
    BY <2>1, TakingKeepsRest DEF QueueIsRest
<1>4. CASE WakeToFlush
  <2>1. UNCHANGED <<queue, order>> /\ pc' = "top" /\ pc = "woken"
    BY <1>4 DEF WakeToFlush, queueVars
  <2>2. pendingFlush' = IF queueEnded THEN None ELSE item
    BY <1>4, <2>1 DEF WakeToFlush, IInv, Answerable
  <2> QED
    BY <2>1, <2>2 DEF QueueIsRest, Taken
<1>5. CASE FinishFlush \/ FailFlush
  <2>1. UNCHANGED <<queue, order>> /\ pc' \in {"top", "threw"} /\ pendingFlush' = None
    BY <1>5 DEF FinishFlush, FailFlush, Settle, queueVars
  <2> QED
    BY <2>1 DEF QueueIsRest, Taken
<1>6. CASE StopAfterThrow
  BY <1>6, StopKeepsRest DEF StopAfterThrow, localVars
<1>7. CASE ReturnFromRun \/ BeginFlush \/ KeepBatch
  BY <1>7 DEF ReturnFromRun, BeginFlush, KeepBatch, LoopHead, flushVars, QueueIsRest, Taken
<1>8. CASE WakeToRequest \/ WakeToShutdown \/ Collected \/ TakeNone \/ BeginAdmit \/ FinishAdmit
  BY <1>8 DEF WakeToRequest, WakeToShutdown, Collected, TakeNone, BeginAdmit, FinishAdmit,
     queueVars, flushVars, QueueIsRest, Taken
<1>9. CASE BeginPrefill \/ FinishPrefill \/ BeginDecode \/ DecodeStep \/ ContinueDecode
  BY <1>9 DEF BeginPrefill, FinishPrefill, BeginDecode, DecodeStep, ContinueDecode,
     queueVars, flushVars, QueueIsRest, Taken
<1>10. CASE CloseGenerator \/ BatchError \/ Recover
  BY <1>10 DEF CloseGenerator, BatchError, Recover, queueVars, flushVars, QueueIsRest, Taken
<1> QED
  BY <1>1, <1>2, <1>3, <1>4, <1>5, <1>6, <1>7, <1>8, <1>9, <1>10 DEF Next, Scheduling

-----------------------------------------------------------------------------
(* Each step is one of AdmissionBarrier                                  *)

\* The requests and flushes on their way: in hand, and not yet served.
Coming == InHand \ admitted

\* Whatever is in hand has been accepted; what AdmissionBarrier calls waiting
\* is what is coming.
LEMMA ComingFacts ==
  ASSUME IInv, QueueIsRest
  PROVE  /\ InHand \subseteq Range(order) /\ InHand \subseteq Event
         /\ admitted \subseteq InHand /\ admitted \subseteq Request
         /\ Barrier!Waiting = Coming
         /\ Range(order) \ InHand = Range(order) \ (Coming \cup admitted)
<1>1. /\ admitted \subseteq Request /\ queue \in Seq(Event) /\ incoming \in Seq(Request)
      /\ order \in Seq(Event)
      /\ Range(queue) \cup Range(incoming) \cup admitted \subseteq Range(order)
  BY DEF IInv, TypeOK, OnePlace
<1>2. Range(order) \subseteq Event
  BY <1>1 DEF Range
<1>3. pc = "woken" => item \in Range(order)
  BY DEF QueueIsRest
<1>4. pendingFlush # None => pendingFlush \in Range(order)
  BY DEF QueueIsRest, Range
<1>5. InHand \subseteq Range(order) /\ admitted \subseteq InHand
  BY <1>1, <1>3, <1>4 DEF InHand
<1> QED
  BY <1>1, <1>2, <1>5 DEF Coming, Barrier!Waiting, Barrier!Range, Range

\* An admitted request is nowhere else, but in the hands of admit.
LEMMA ComingApart ==
  ASSUME IInv, pc \notin {"admit", "drain"}
  PROVE  /\ Coming = Range(queue) \cup Range(incoming) \cup (IF pc = "woken" THEN {item} ELSE {})
                      \cup ({pendingFlush} \ {None})
         /\ Range(incoming) \cap admitted = {}
<1>1. /\ Range(queue) \cap admitted = {} /\ Range(incoming) \cap admitted = {}
      /\ item \in Request => item \notin admitted
      /\ admitted \subseteq Request /\ pendingFlush \notin Request
      /\ item \in Event \cup {None}
  BY EventAssumption DEF IInv, TypeOK, OnePlace, BatchHeld, Event
<1>2. item \notin admitted
  BY <1>1
<1> QED
  BY <1>1, <1>2 DEF Coming, InHand

\* Steps that AdmissionBarrier does not see, and those by which requests leave.
LEMMA LeaveStep ==
  ASSUME IInv, QueueIsRest, order' = order, queueEnded' = queueEnded,
         admitted' \subseteq admitted, Coming' = Coming
  PROVE  [Barrier!AbstractNext]_Barrier!abstractVars
<1>1. /\ admitted \subseteq InHand /\ InHand \subseteq Range(order) /\ admitted \subseteq Request
  BY ComingFacts
<1>2. InHand' = Coming \cup admitted'
  BY DEF Coming, InHand
<1>3. CASE admitted' = admitted
  BY <1>1, <1>2, <1>3 DEF Coming, Barrier!abstractVars
<1>4. CASE admitted' # admitted
  <2> DEFINE S == admitted \ admitted'
  <2>1. S # {} /\ S \in SUBSET Request /\ S \subseteq admitted
    BY <1>1, <1>4
  <2>2. admitted' = admitted \ S
    OBVIOUS
  <2>3. Range(order') \ InHand' = (Range(order) \ InHand) \cup S
    BY <1>1, <1>2 DEF Coming
  <2>4. Barrier!Leave(S)
    BY <2>1, <2>2, <2>3 DEF Barrier!Leave
  <2> QED
    BY <2>1, <2>4 DEF Barrier!AbstractNext
<1> QED
  BY <1>3, <1>4

\* A step after which one coming request is no longer there.
LEMMA DropStep ==
  ASSUME IInv, QueueIsRest, order' = order, queueEnded' = queueEnded, admitted' = admitted,
         NEW r \in Request, r \in Coming, Coming' = Coming \ {r}
  PROVE  Barrier!AbstractNext
<1>1. /\ admitted \subseteq InHand /\ InHand \subseteq Range(order) /\ Barrier!Waiting = Coming
  BY ComingFacts
<1>2. InHand' = (Coming \ {r}) \cup admitted
  BY DEF Coming, InHand
<1>3. Range(order') \ InHand' = (Range(order) \ InHand) \cup {r}
  BY <1>1, <1>2 DEF Coming
<1>4. Barrier!Drop(r)
  BY <1>1, <1>3 DEF Barrier!Drop
<1> QED
  BY <1>4 DEF Barrier!AbstractNext

\* A step at or after shutdown that loses any of what is coming.
LEMMA GiveUpStep ==
  ASSUME IInv, QueueIsRest, order' = order, queueEnded' = TRUE, admitted' = admitted,
         Coming' \subseteq Coming
  PROVE  Barrier!AbstractNext
<1> DEFINE S == Coming \ Coming'
<1>1. /\ admitted \subseteq InHand /\ InHand \subseteq Range(order) /\ InHand \subseteq Event
      /\ Barrier!Waiting = Coming
  BY ComingFacts
<1>2. InHand' = Coming' \cup admitted
  BY DEF Coming, InHand
<1>3. Range(order') \ InHand' = (Range(order) \ InHand) \cup S
  BY <1>1, <1>2 DEF Coming
<1>4. S \in SUBSET (Request \cup Flush)
  BY <1>1 DEF Coming, Event
<1>5. Barrier!GiveUp(S)
  BY <1>1, <1>3 DEF Barrier!GiveUp
<1> QED
  BY <1>4, <1>5 DEF Barrier!AbstractNext

\* What was taken from the queue up to a place in order is not queued.
LEMMA TakenNotQueued ==
  ASSUME IInv, QueueIsRest, NEW i \in DOMAIN order, order[i] \in Range(queue)
  PROVE  /\ Taken < i /\ \A p \in DOMAIN order : p >= i => order[p] \in Range(queue)
<1>1. /\ queue \in Seq(Event) /\ order \in Seq(Event) /\ Len(queue) \in Nat /\ Len(order) \in Nat
      /\ DOMAIN order = 1..Len(order) /\ DOMAIN queue = 1..Len(queue)
  BY DEF IInv, TypeOK
<1>2. Taken \in Nat /\ Taken + Len(queue) = Len(order)
  BY <1>1 DEF Taken, QueueIsRest
<1>3. PICK j \in 1..Len(queue) : order[i] = queue[j]
  BY <1>1 DEF Range
<1>4. queue[j] = order[Taken + j] /\ Taken + j \in DOMAIN order
  BY <1>1, <1>2 DEF QueueIsRest
<1>5. i = Taken + j
  BY <1>1, <1>3, <1>4 DEF QueueIsRest, IsInjective
<1>6. ASSUME NEW p \in DOMAIN order, p >= i PROVE order[p] \in Range(queue)
  <2>1. p - Taken \in 1..Len(queue) /\ Taken + (p - Taken) = p
    BY <1>1, <1>2, <1>5, <1>6
  <2>2. queue[p - Taken] = order[p]
    BY <2>1 DEF QueueIsRest
  <2> QED
    BY <2>1, <2>2, <1>1 DEF Range
<1> QED
  BY <1>1, <1>2, <1>5, <1>6

\* What AdmissionBarrier calls before an event is what order has before it.
LEMMA BeforeFacts ==
  ASSUME IInv, QueueIsRest, NEW p \in DOMAIN order
  PROVE  Barrier!Before(order[p]) = {order[i] : i \in 1..(p - 1)}
<1>1. Barrier!Position(order[p]) = p
  BY DEF Barrier!Position, QueueIsRest, IsInjective
<1> QED
  BY <1>1 DEF Barrier!Before

\* admit takes in everything the queue gave before what is still queued.
LEMMA AdmitStep ==
  ASSUME IInv, QueueIsRest, BeginAdmit
  PROVE  Barrier!AbstractNext
<1> DEFINE S == Range(incoming)
<1>1. /\ pc = "take" /\ incoming # <<>> /\ incoming \in Seq(Request) /\ order \in Seq(Event)
      /\ admitted' = admitted \cup S /\ order' = order /\ queueEnded' = queueEnded
      /\ queue' = queue /\ incoming' = incoming /\ pendingFlush' = pendingFlush /\ pc' = "admit"
      /\ ~queueEnded
  BY DEF BeginAdmit, queueVars, flushVars, localVars, IInv, TypeOK, Answerable
<1>2. /\ InHand \subseteq Range(order) /\ admitted \subseteq InHand /\ admitted \subseteq Request
      /\ Barrier!Waiting = Coming
  BY ComingFacts
<1>3. /\ S # {} /\ S \subseteq Request /\ S \subseteq Coming
      /\ Range(queue) \cap S = {} /\ Range(queue) \cap admitted = {}
      /\ Coming = Range(queue) \cup S \cup ({pendingFlush} \ {None})
  <2>1. S # {} /\ S \subseteq Request
    <3>1. 1 \in DOMAIN incoming /\ \A i \in DOMAIN incoming : incoming[i] \in Request
      BY <1>1
    <3> QED
      BY <3>1 DEF Range
  <2>2. Range(queue) \cap S = {} /\ Range(queue) \cap admitted = {}
    BY DEF IInv, OnePlace
  <2> QED
    BY <2>1, <2>2, <1>1, ComingApart
<1>4. InHand' = InHand
  BY <1>1, <1>3 DEF InHand
<1>5. Cardinality(admitted \cup S) <= MaxBatch
  BY <1>1, AdmitCounts
<1>6. ASSUME NEW r \in S
      PROVE  Barrier!Before(r) \subseteq (Range(order) \ InHand) \cup ((admitted \cup S) \cap Request)
  <2>1. r \in Range(order) /\ r \notin Range(queue)
    BY <1>2, <1>3 DEF Coming
  <2>2. PICK p \in DOMAIN order : r = order[p]
    BY <2>1 DEF Range
  <2>3. DOMAIN order = 1..Len(order) /\ Len(order) \in Nat
    BY <1>1
  <2>4. ASSUME NEW i \in 1..(p - 1)
        PROVE  order[i] \in (Range(order) \ InHand) \cup ((admitted \cup S) \cap Request)
    <3>1. i \in DOMAIN order /\ i < p /\ p >= i /\ i \in Int /\ p \in Int
      BY <2>3
    <3>2. order[i] \notin Range(queue)
      BY <3>1, <2>1, <2>2, TakenNotQueued
    <3>3. order[i] # pendingFlush \/ pendingFlush = None
      <4> SUFFICES ASSUME order[i] = pendingFlush, pendingFlush # None PROVE FALSE
        OBVIOUS
      <4>1. Taken \in DOMAIN order /\ order[Taken] = order[i]
        BY DEF QueueIsRest
      <4>2. Taken = i
        BY <4>1, <3>1 DEF QueueIsRest, IsInjective
      <4>3. /\ queue \in Seq(Event) /\ Len(queue) \in Nat /\ Taken + Len(queue) = Len(order)
            /\ DOMAIN queue = 1..Len(queue)
        BY <2>3 DEF Taken, IInv, TypeOK
      <4>4. p - Taken \in 1..Len(queue) /\ Taken + (p - Taken) = p
        BY <4>2, <4>3, <3>1, <2>3
      <4>5. queue[p - Taken] = order[p]
        BY <4>4 DEF QueueIsRest
      <4> QED
        BY <4>3, <4>4, <4>5, <2>1, <2>2 DEF Range
    <3>4. order[i] \in Range(order)
      BY <3>1 DEF Range
    <3>5. order[i] \in InHand => order[i] \in admitted \cup S
      BY <3>2, <3>3, <3>4, <1>1, <1>3 DEF Coming
    <3> QED
      BY <3>4, <3>5, <1>2, <1>3
  <2> QED
    BY <2>2, <2>4, BeforeFacts
<1>7. Barrier!Cardinality(admitted \cup S) = Cardinality(admitted \cup S)
  BY Zenon DEF Barrier!Cardinality, Cardinality
<1>8. Barrier!Admit(S)
  BY <1>1, <1>2, <1>3, <1>4, <1>5, <1>6, <1>7 DEF Barrier!Admit
<1> QED
  BY <1>3, <1>8 DEF Barrier!AbstractNext

\* A flush that run() performs is still pending, or shutdown has settled it.
LEMMA RunStep ==
  ASSUME IInv, QueueIsRest, FinishFlush \/ FailFlush
  PROVE  [Barrier!AbstractNext]_Barrier!abstractVars
<1>1. /\ pc = "flush" /\ pc' \in {"top", "threw"} /\ pendingFlush' = None
      /\ queue' = queue /\ order' = order /\ queueEnded' = queueEnded
      /\ incoming' = incoming /\ admitted' = admitted
  BY DEF FinishFlush, FailFlush, Settle, queueVars, batchVars
<1>2. /\ item \in Flush /\ pendingFlush \in {item, None} /\ incoming = <<>>
      /\ admitted = {} /\ order \in Seq(Event)
  BY <1>1, RangeShort DEF IInv, TypeOK, Answerable, BatchHeld
<1>3. Coming = Range(queue) \cup ({pendingFlush} \ {None}) /\ Coming' = Range(queue)
  BY <1>1, <1>2, RangeShort DEF Coming, InHand
<1>4. CASE pendingFlush = None
  BY <1>1, <1>3, <1>4, LeaveStep
<1>5. CASE pendingFlush = item
  <2>1. item # None
    BY <1>2, EventAssumption DEF Event
  <2>2. Taken \in DOMAIN order /\ order[Taken] = item
    BY <1>5, <2>1 DEF QueueIsRest
  <2>3. DOMAIN order = 1..Len(order) /\ Len(order) \in Nat
    BY <1>2
  <2>4. item \notin Range(queue)
    <3>1. ~(Taken < Taken)
      BY <2>2, <2>3
    <3> QED
      BY <2>2, <3>1, TakenNotQueued
  <2>5. /\ InHand \subseteq Range(order) /\ Barrier!Waiting = Coming
    BY ComingFacts
  <2>6. ASSUME NEW i \in 1..(Taken - 1) PROVE order[i] \in Range(order) \ InHand
    <3>1. i \in DOMAIN order /\ i < Taken /\ ~(Taken < i) /\ i # Taken
      BY <2>2, <2>3
    <3>2. order[i] \notin Range(queue)
      BY <3>1, TakenNotQueued
    <3>3. order[i] # item
      BY <3>1, <2>2 DEF QueueIsRest, IsInjective
    <3>4. InHand = Range(queue) \cup {item}
      BY <1>2, <1>3, <1>5, <2>1 DEF Coming
    <3> QED
      BY <3>1, <3>2, <3>3, <3>4 DEF Range
  <2>7. Barrier!Before(item) \subseteq Range(order) \ InHand
    BY <2>2, <2>6, BeforeFacts
  <2>8. Range(order') \ InHand' = (Range(order) \ InHand) \cup {item}
    <3>1. InHand = Range(queue) \cup {item} /\ InHand' = Range(queue)
      BY <1>1, <1>2, <1>3, <1>5, <2>1 DEF Coming
    <3>2. item \in Range(order)
      BY <2>2 DEF Range
    <3> QED
      BY <3>1, <3>2, <2>4, <1>1
  <2>9. item \in Coming
    BY <1>3, <1>5, <2>1
  <2>10. Barrier!Run(item)
    BY <1>1, <1>2, <2>5, <2>7, <2>8, <2>9 DEF Barrier!Run
  <2> QED
    BY <1>2, <2>10 DEF Barrier!AbstractNext
<1> QED
  BY <1>2, <1>4, <1>5

\* A client, the administrator or the operator: a submission is accepted, and
\* shutdown gives up what it finds waiting.
LEMMA EnvironmentRefines ==
  ASSUME IInv, QueueIsRest, Environment
  PROVE  [Barrier!AbstractNext]_Barrier!abstractVars
<1>1. ASSUME NEW e \in Event, Submit(e), UNCHANGED <<pendingFlush, admitted>>
      PROVE  Barrier!AbstractNext
  <2>1. /\ InHand \subseteq Range(order) /\ admitted \subseteq InHand
    BY ComingFacts
  <2>2. /\ e \notin Range(order) /\ Range(order') = Range(order) \cup {e}
        /\ ~queueEnded /\ queueEnded' = queueEnded /\ incoming' = incoming
        /\ \/ pc = "idle" /\ pc' = "woken" /\ item' = e /\ queue' = queue
           \/ /\ pc # "idle" /\ pc' = pc /\ item' = item
              /\ Range(queue') = Range(queue) \cup {e}
    BY <1>1, SubmitFacts
  <2>3. InHand' = InHand \cup {e}
    BY <1>1, <2>2 DEF InHand
  <2>4. Range(order') \ InHand' = Range(order) \ InHand
    BY <2>1, <2>2, <2>3
  <2>5. order' = Append(order, e)
    BY <1>1 DEF Submit
  <2>6. e \notin Barrier!Range(order)
    BY <2>2 DEF Range, Barrier!Range
  <2>7. Barrier!Accept(e)
    BY <1>1, <2>2, <2>4, <2>5, <2>6 DEF Barrier!Accept
  <2> QED
    BY <2>7 DEF Barrier!AbstractNext, Event
<1>2. ASSUME NEW r \in Request, SubmitRequest(r) PROVE Barrier!AbstractNext
  BY <1>1, <1>2 DEF SubmitRequest, flushVars, batchVars, Event
<1>3. ASSUME NEW f \in Flush, SubmitFlush(f) PROVE Barrier!AbstractNext
  BY <1>1, <1>3 DEF SubmitFlush, batchVars, Event
<1>4. ASSUME NEW r \in Request, Disconnect(r)
      PROVE  [Barrier!AbstractNext]_Barrier!abstractVars
  <2>1. UNCHANGED <<order, queueEnded, admitted>> /\ Coming' = Coming
    BY <1>4 DEF Disconnect, queueVars, flushVars, batchVars, localVars, Coming, InHand
  <2> QED
    BY <2>1, LeaveStep
<1>5. CASE Shutdown
  <2>1. Coming' \subseteq Coming /\ UNCHANGED <<order, admitted>> /\ queueEnded' = TRUE
    BY <1>5, RangeShort DEF Shutdown, Stop, batchVars, localVars, Coming, InHand
  <2> QED
    BY <2>1, GiveUpStep
<1> QED
  BY <1>2, <1>3, <1>4, <1>5 DEF Environment

\* The head of the loop, and what the dequeue gave.
LEMMA LoopRefines ==
  ASSUME IInv, QueueIsRest,
         ReturnFromRun \/ BeginFlush \/ Dequeue \/ KeepBatch \/ WakeToFlush
           \/ WakeToRequest \/ WakeToShutdown \/ Collected
  PROVE  [Barrier!AbstractNext]_Barrier!abstractVars
<1>1. ASSUME LoopHead PROVE UNCHANGED <<order, queueEnded, flushVars>> /\ admitted' \subseteq admitted
                            /\ incoming = <<>> /\ incoming' = <<>> /\ pc = "top"
  BY <1>1, LoopHeadFacts DEF LoopHead
<1>2. CASE ReturnFromRun \/ BeginFlush \/ KeepBatch
  <2>1. LoopHead /\ queue' = queue /\ pc' \in {"returned", "flush", "take"}
    BY <1>2 DEF ReturnFromRun, BeginFlush, KeepBatch
  <2>2. Coming' = Coming
    <3>1. Coming = Range(queue) \cup Range(incoming) \cup ({pendingFlush} \ {None})
      BY <1>1, <2>1, ComingApart
    <3>2. InHand' = Coming \cup admitted'
      BY <1>1, <2>1, <3>1 DEF InHand, flushVars
    <3> QED
      BY <1>1, <2>1, <3>2 DEF Coming
  <2> QED
    BY <1>1, <2>1, <2>2, LeaveStep
<1>3. CASE Dequeue
  <2>1. LoopHead /\ pendingFlush = None
    BY <1>3 DEF Dequeue
  <2>2. Coming = Range(queue)
    BY <1>1, <2>1, ComingApart, RangeShort
  <2>3. InHand' = Coming \cup admitted'
    <3>1. CASE queue = <<>>
      BY <1>1, <1>3, <2>1, <2>2, <3>1, RangeShort DEF Dequeue, InHand, flushVars
    <3>2. CASE queue # <<>>
      <4>1. queue' = Tail(queue) /\ item' = Head(queue) /\ pc' = "woken"
        BY <1>3, <3>2 DEF Dequeue
      <4>2. Range(queue) = {item'} \cup Range(queue')
        BY <3>2, <4>1, TakeFacts
      <4> QED
        BY <1>1, <2>1, <2>2, <4>1, <4>2, RangeShort DEF InHand, flushVars
    <3> QED
      BY <3>1, <3>2
  <2>4. Coming' = Coming
    BY <1>1, <2>1, <2>3 DEF Coming
  <2> QED
    BY <1>1, <2>1, <2>4, LeaveStep
<1>4. CASE WakeToFlush
  <2>1. /\ pc = "woken" /\ pc' = "top" /\ item \in Flush /\ pendingFlush = None
        /\ UNCHANGED <<queue, queueEnded, order, admitted, incoming>>
        /\ pendingFlush' = IF queueEnded THEN None ELSE item
    BY <1>4 DEF WakeToFlush, queueVars, batchVars, IInv, Answerable
  <2>2. item # None
    BY <2>1, EventAssumption DEF Event
  <2>3. CASE queueEnded
    <3>1. Coming' \subseteq Coming /\ queueEnded' = TRUE
      BY <2>1, <2>3 DEF Coming, InHand, IInv, TypeOK
    <3> QED
      BY <2>1, <3>1, GiveUpStep
  <2>4. CASE ~queueEnded
    <3>1. Coming' = Coming
      BY <2>1, <2>2, <2>4 DEF Coming, InHand
    <3> QED
      BY <2>1, <3>1, LeaveStep
  <2> QED
    BY <2>3, <2>4
<1>5. CASE WakeToRequest
  <2>1. /\ pc = "woken" /\ pc' = "collect" /\ item \in Request
        /\ UNCHANGED <<queue, queueEnded, order, admitted, pendingFlush>>
        /\ incoming' = IF Ended(item) THEN <<>> ELSE <<item>>
        /\ incoming = <<>> /\ Range(incoming) = {} /\ pendingFlush = None
        /\ item \notin Range(queue) /\ item \notin admitted
    BY <1>5, RangeShort DEF WakeToRequest, queueVars, flushVars, batchVars,
       IInv, BatchHeld, OnePlace, Answerable
  <2>2. InHand = Range(queue) \cup {item} \cup admitted
    BY <2>1 DEF InHand
  <2>3. CASE Ended(item)
    <3>1. InHand' = Range(queue) \cup admitted
      BY <2>1, <2>3, RangeShort DEF InHand
    <3>2. item \in Coming /\ Coming' = Coming \ {item}
      BY <2>1, <2>2, <3>1 DEF Coming
    <3> QED
      BY <2>1, <3>2, DropStep
  <2>4. CASE ~Ended(item)
    <3>1. InHand' = InHand
      BY <2>1, <2>2, <2>4, RangeShort DEF InHand
    <3>2. Coming' = Coming
      BY <2>1, <3>1 DEF Coming
    <3> QED
      BY <2>1, <3>2, LeaveStep
  <2> QED
    BY <2>3, <2>4
<1>6. CASE WakeToShutdown
  <2>1. UNCHANGED <<order, queueEnded, admitted>> /\ Coming' = Coming
    BY <1>6 DEF WakeToShutdown, queueVars, flushVars, batchVars, localVars, Coming, InHand
  <2> QED
    BY <2>1, LeaveStep
<1>7. CASE Collected
  <2>1. /\ pc = "collect" /\ pc' \in {"top", "take"}
        /\ UNCHANGED <<queue, queueEnded, order, admitted, pendingFlush>>
        /\ incoming' = IF queueEnded THEN <<>> ELSE incoming
    BY <1>7 DEF Collected, queueVars, flushVars, batchVars
  <2>2. CASE queueEnded
    <3>1. Coming' \subseteq Coming /\ queueEnded' = TRUE
      BY <2>1, <2>2, RangeShort DEF Coming, InHand, IInv, TypeOK
    <3> QED
      BY <2>1, <3>1, GiveUpStep
  <2>3. CASE ~queueEnded
    <3>1. Coming' = Coming
      BY <2>1, <2>3 DEF Coming, InHand
    <3> QED
      BY <2>1, <3>1, LeaveStep
  <2> QED
    BY <2>2, <2>3
<1> QED
  BY <1>2, <1>3, <1>4, <1>5, <1>6, <1>7

\* The take loop and admit.
LEMMA AdmissionRefines ==
  ASSUME IInv, QueueIsRest, TakeOne \/ TakeNone \/ BeginAdmit \/ FinishAdmit
  PROVE  [Barrier!AbstractNext]_Barrier!abstractVars
<1>1. CASE TakeOne
  <2>1. /\ pc = "take" /\ pc' = "take" /\ pendingFlush = None /\ queue # <<>>
        /\ queue' = Tail(queue) /\ UNCHANGED <<queueEnded, order, admitted>>
    BY <1>1 DEF TakeOne, batchVars
  <2>2. /\ Head(queue) \in Event /\ Range(queue) = {Head(queue)} \cup Range(queue')
        /\ Head(queue) \notin Range(queue')
        /\ Head(queue) \notin Range(incoming) \cup admitted
    BY <2>1, TakeFacts
  <2>3. Coming = Range(queue) \cup Range(incoming)
    BY <2>1, ComingApart
  <2>4. Range(incoming) \cap admitted = {} /\ Range(queue) \cap admitted = {}
        /\ admitted \subseteq Request /\ Head(queue) # None
    BY <2>1, <2>2, ComingApart, EventAssumption DEF IInv, OnePlace, TypeOK
  <2>5. CASE Head(queue) \in Flush \/ ~Ended(Head(queue))
    <3>1. \/ pendingFlush' = Head(queue) /\ incoming' = incoming
          \/ pendingFlush' = None /\ Range(incoming') = Range(incoming) \cup {Head(queue)}
      <4>1. incoming \in Seq(Request)
        BY DEF IInv, TypeOK
      <4>2. CASE Head(queue) \in Flush
        BY <1>1, <4>2 DEF TakeOne
      <4>3. CASE Head(queue) \notin Flush
        <5>1. pendingFlush' = None /\ incoming' = Append(incoming, Head(queue)) /\ Head(queue) \in Request
          BY <1>1, <2>1, <2>2, <2>5, <4>3 DEF TakeOne, Event
        <5> QED
          BY <4>1, <5>1, RangeAppend
      <4> QED
        BY <4>2, <4>3
    <3>2. InHand' = Coming \cup admitted
      BY <2>1, <2>2, <2>3, <2>4, <3>1 DEF InHand
    <3>3. Coming' = Coming
      BY <2>1, <3>2 DEF Coming
    <3> QED
      BY <2>1, <3>3, LeaveStep
  <2>6. CASE Head(queue) \notin Flush /\ Ended(Head(queue))
    <3>1. pendingFlush' = None /\ incoming' = incoming /\ Head(queue) \in Request
      BY <1>1, <2>1, <2>2, <2>6 DEF TakeOne, Event
    <3>2. InHand' = Range(queue') \cup Range(incoming) \cup admitted
      BY <2>1, <3>1 DEF InHand
    <3>3. Head(queue) \in Coming /\ Coming' = Coming \ {Head(queue)}
      BY <2>1, <2>2, <2>3, <2>4, <3>2 DEF Coming
    <3> QED
      BY <2>1, <3>1, <3>3, DropStep
  <2> QED
    BY <2>5, <2>6
<1>2. CASE TakeNone
  <2>1. UNCHANGED <<order, queueEnded, admitted>> /\ Coming' = Coming
    BY <1>2 DEF TakeNone, queueVars, flushVars, batchVars, localVars, Coming, InHand
  <2> QED
    BY <2>1, LeaveStep
<1>3. CASE FinishAdmit
  <2>1. /\ pc = "admit" /\ pc' = "admitted" /\ incoming' = <<>>
        /\ UNCHANGED <<queue, pendingFlush, order, queueEnded, admitted>>
    BY <1>3 DEF FinishAdmit, queueVars, flushVars
  <2>2. Range(incoming) \subseteq admitted
    BY <2>1 DEF IInv, BatchHeld
  <2>3. Coming' = Coming
    BY <2>1, <2>2, RangeShort DEF Coming, InHand
  <2> QED
    BY <2>1, <2>3, LeaveStep
<1> QED
  BY <1>1, <1>2, <1>3, AdmitStep

\* Serving the batch: all that AdmissionBarrier sees of it is who leaves.
LEMMA ServingRefines ==
  ASSUME IInv, QueueIsRest,
         BeginPrefill \/ FinishPrefill \/ BeginDecode \/ DecodeStep \/ ContinueDecode
           \/ CloseGenerator \/ BatchError \/ Recover
  PROVE  [Barrier!AbstractNext]_Barrier!abstractVars
<1>1. CASE BeginPrefill \/ FinishPrefill \/ BeginDecode \/ DecodeStep \/ ContinueDecode \/ BatchError
  <2>1. /\ UNCHANGED <<order, queueEnded, queue, pendingFlush, admitted, item, incoming>>
        /\ pc # "woken" /\ pc' # "woken"
    BY <1>1 DEF BeginPrefill, FinishPrefill, BeginDecode, DecodeStep, ContinueDecode, BatchError,
       queueVars, flushVars, batchVars, localVars
  <2>2. Coming' = Coming
    BY <2>1 DEF Coming, InHand
  <2> QED
    BY <2>1, <2>2, LeaveStep
<1>2. CASE CloseGenerator
  <2>1. /\ UNCHANGED <<order, queueEnded, queue, pendingFlush, incoming>> /\ RemoveFinished
        /\ pc = "close" /\ pc' = "top"
    BY <1>2 DEF CloseGenerator, queueVars, flushVars, localVars
  <2>2. admitted' \subseteq admitted
    BY <2>1 DEF RemoveFinished
  <2>3. Coming = Range(queue) \cup Range(incoming) \cup ({pendingFlush} \ {None})
    BY <2>1, ComingApart
  <2>4. InHand' = Coming \cup admitted'
    BY <2>1, <2>3 DEF InHand
  <2>5. Coming' = Coming
    BY <2>2, <2>4 DEF Coming
  <2> QED
    BY <2>1, <2>2, <2>5, LeaveStep
<1>3. CASE Recover
  <2>1. /\ UNCHANGED <<order, queueEnded, queue, pendingFlush>> /\ admitted' = {} /\ incoming' = <<>>
        /\ pc = "drain" /\ pc' \in {"threw", "top"}
    BY <1>3 DEF Recover, queueVars, flushVars
  <2>2. /\ Range(incoming) \subseteq admitted /\ Range(queue) \cap admitted = {}
        /\ admitted \subseteq Request /\ pendingFlush \notin Request
    BY <2>1, EventAssumption DEF IInv, OnePlace, BatchHeld, TypeOK, Event
  <2>3. Coming = Range(queue) \cup ({pendingFlush} \ {None})
    BY <2>1, <2>2 DEF Coming, InHand
  <2>4. InHand' = Coming
    BY <2>1, <2>3, RangeShort DEF InHand
  <2>5. Coming' = Coming
    BY <2>1, <2>4 DEF Coming
  <2> QED
    BY <2>1, <2>5, LeaveStep
<1> QED
  BY <1>1, <1>2, <1>3

\* Every step is a step of the admission barrier, or none.
LEMMA StepRefines ==
  ASSUME IInv, QueueIsRest, [Next]_vars
  PROVE  [Barrier!AbstractNext]_Barrier!abstractVars
<1>1. CASE UNCHANGED vars
  <2>1. UNCHANGED <<order, queueEnded, admitted>> /\ Coming' = Coming
    BY <1>1 DEF vars, queueVars, flushVars, batchVars, localVars, Coming, InHand
  <2> QED
    BY <2>1, LeaveStep
<1>2. CASE StopAfterThrow
  <2>1. Coming' \subseteq Coming /\ UNCHANGED <<order, admitted>> /\ queueEnded' = TRUE
    BY <1>2, RangeShort DEF StopAfterThrow, Stop, batchVars, localVars, Coming, InHand
  <2> QED
    BY <2>1, GiveUpStep
<1> QED
  BY <1>1, <1>2, EnvironmentRefines, LoopRefines, AdmissionRefines, ServingRefines, RunStep
     DEF Next, Scheduling

\* The queue stays the rest of what was accepted.
LEMMA OrderInvariant == Spec => [](IInv /\ QueueIsRest)
<1>1. Init => QueueIsRest
  <2> SUFFICES ASSUME Init PROVE QueueIsRest
    OBVIOUS
  <2>1. order = <<>> /\ queue = <<>> /\ pc = "top" /\ pendingFlush = None
    BY DEF Init
  <2>2. IsInjective(order) /\ Len(queue) <= Len(order) /\ \A i \in 1..Len(queue) : FALSE
    <3>1. Len(order) = 0 /\ Len(queue) = 0
      BY <2>1
    <3>2. IsInjective(order)
      BY <2>1, RangeShort
    <3> QED
      BY <3>1, <3>2
  <2>3. pc # "idle" /\ pc # "woken"
    BY <2>1
  <2> QED
    BY <2>1, <2>2, <2>3 DEF QueueIsRest
<1>2. IInv /\ QueueIsRest /\ [Next]_vars => QueueIsRest'
  <2>1. ASSUME QueueIsRest, UNCHANGED vars PROVE QueueIsRest'
    BY <2>1 DEF vars, queueVars, flushVars, localVars, QueueIsRest, Taken
  <2> QED
    BY <2>1, QueueIsRestNext
<1> QED
  BY <1>1, <1>2, SchedulerInvariant, PTL DEF Spec

\* However clients, flushes, errors of the device and shutdown interleave,
\* requests are admitted in the order they came, in batches that fit, and a
\* flush runs when everything before it has left and before anything after it.
THEOREM OrderAlwaysKept == Spec => OrderKept
<1>1. Init => Barrier!AbstractInit
  <2> SUFFICES ASSUME Init PROVE Barrier!AbstractInit
    OBVIOUS
  <2>1. order = <<>> /\ admitted = {} /\ queueEnded = FALSE
    BY DEF Init
  <2>2. Range(order) \ InHand = {}
    BY <2>1, RangeShort
  <2> QED
    BY <2>1, <2>2 DEF Barrier!AbstractInit
<1>2. IInv /\ QueueIsRest /\ [Next]_vars => [Barrier!AbstractNext]_Barrier!abstractVars
  BY StepRefines
<1> QED
  BY <1>1, <1>2, OrderInvariant, PTL DEF Spec, OrderKept, Barrier!AbstractSpec
=============================================================================
