--------------------------- MODULE PagedKV_proofs ---------------------------
(***************************************************************************)
(* Proofs about PagedKV, for every set of pages, page size and batch.      *)
(*                                                                         *)
(* First Inv: the reference counts are exact and a free page is held by    *)
(* nobody.  Then LayoutInv: which pages Sequences share and what they say. *)
(***************************************************************************)
EXTENDS PagedKV, FiniteSetTheorems, WellFoundedInduction, TLAPS

HoldersIn(pages, p) == {s \in SeqId : p \in Range(pages[s])}

\* What the pages q of one Sequence contribute to the count of p.
Share(q, p) == IF p \in Range(q) THEN 1 ELSE 0

-----------------------------------------------------------------------------
(* Arithmetic of page counts                                             *)

\* More tokens fill no fewer pages.
LEMMA DivMonotone ==
  ASSUME NEW m \in Nat, NEW n \in Nat, m <= n
  PROVE  m \div PageSize \in Nat /\ m \div PageSize <= n \div PageSize
  BY PageSizeAssumption

\* Pages for n tokens: as many as it fills, or one more.
LEMMA CeilDivFacts ==
  ASSUME NEW n \in Nat
  PROVE  /\ CeilDiv(n) \in Nat
         /\ CeilDiv(n * PageSize) = n
         /\ n \div PageSize <= CeilDiv(n)
         /\ n * PageSize \in Nat
         /\ CeilDiv(0) = 0
  BY PageSizeAssumption, DivMonotone DEF CeilDiv

\* More tokens need no fewer pages.
LEMMA CeilDivMonotone ==
  ASSUME NEW m \in Nat, NEW n \in Nat, m <= n
  PROVE  CeilDiv(m) <= CeilDiv(n)
  BY PageSizeAssumption, DivMonotone DEF CeilDiv

\* At most one page is filled in part.
LEMMA CeilDivNext ==
  ASSUME NEW n \in Nat
  PROVE  CeilDiv(n) <= n \div PageSize + 1
<1> DEFINE k == n \div PageSize
<1>1. k \in Nat /\ n + PageSize - 1 \in Nat
  BY PageSizeAssumption, DivMonotone
<1>2. n < PageSize * (k + 1)
  BY PageSizeAssumption
<1> HIDE DEF k
<1>3. n + PageSize - 1 < PageSize * (k + 2)
  BY <1>1, <1>2, PageSizeAssumption
<1>4. (n + PageSize - 1) \div PageSize < k + 2
  BY <1>1, <1>3, PageSizeAssumption
<1>5. (n + PageSize - 1) \div PageSize \in Nat
  BY <1>1, DivMonotone
<1> QED
  BY <1>1, <1>4, <1>5 DEF CeilDiv, k

\* A partial page needs a page of its own.
LEMMA CeilDivPartial ==
  ASSUME NEW n \in Nat, n % PageSize # 0
  PROVE  n \div PageSize + 1 <= CeilDiv(n)
<1> DEFINE k == n \div PageSize
<1>1. k \in Nat /\ n + PageSize - 1 \in Nat
  BY PageSizeAssumption, DivMonotone
<1>2. n >= PageSize * k + 1
  BY PageSizeAssumption
<1> HIDE DEF k
<1>3. n + PageSize - 1 >= PageSize * (k + 1)
  BY <1>1, <1>2, PageSizeAssumption
<1>4. (n + PageSize - 1) \div PageSize >= k + 1
  BY <1>1, <1>3, PageSizeAssumption
<1> QED
  BY <1>4 DEF CeilDiv, k

\* A page has finitely many holders.
LEMMA HoldersFinite ==
  ASSUME NEW pages, NEW p
  PROVE  IsFiniteSet(HoldersIn(pages, p)) /\ Cardinality(HoldersIn(pages, p)) \in Nat
<1>1. HoldersIn(pages, p) \in SUBSET SeqId
  BY DEF HoldersIn
<1> QED
  BY <1>1, SeqIdAssumption, FS_Subset, FS_CardinalityType

-----------------------------------------------------------------------------
(* Dealing pages out anew                                                *)

\* It keeps a cache consistent when the new deal is owned: the argument every
\* page operation below instantiates.
LEMMA RepagedConsistent ==
  ASSUME NEW c, Consistent(c),
         NEW pages \in [SeqId -> Seq(Page)], NEW allocLen \in [SeqId -> Nat],
         NEW refs \in [Page -> Nat], NEW tokenIds \in [Page -> Seq(Token)],
         NEW available \in SUBSET Page,
         Owned(pages, refs, available),
         \A s \in SeqId : CeilDiv(allocLen[s]) <= Len(pages[s]),
         \A s \in SeqId \ Live(c) : pages[s] = <<>>
  PROVE  Consistent(Repaged(c, pages, allocLen, refs, tokenIds, available))
<1> DEFINE d == Repaged(c, pages, allocLen, refs, tokenIds, available)
<1>1. d \in CacheType
  BY DEF Consistent, CacheType, Repaged
<1>2. /\ d.sequences = c.sequences /\ d.staging = c.staging
      /\ d.pages = pages /\ d.allocLen = allocLen
      /\ d.refs = refs /\ d.available = available
  BY DEF Repaged
<1>3. Live(d) = Live(c)
  BY <1>2 DEF Live
<1> HIDE DEF d
<1>4. Consistent(d)
  BY <1>1, <1>2, <1>3 DEF Consistent
<1> QED
  BY <1>4 DEF d

\* Nothing but its type depends on a pending target.
LEMMA RetargetedConsistent ==
  ASSUME NEW c, Consistent(c), NEW target \in [SeqId -> Token \cup {None}]
  PROVE  LET d == [c EXCEPT !.target = target]
         IN /\ Consistent(d)
            /\ d.sequences = c.sequences /\ d.staging = c.staging
            /\ d.pages = c.pages /\ d.allocLen = c.allocLen
            /\ d.refs = c.refs /\ d.available = c.available /\ d.tokenIds = c.tokenIds
<1> DEFINE d == [c EXCEPT !.target = target]
<1>1. c \in CacheType
  BY DEF Consistent
<1>2. d \in CacheType
  BY <1>1 DEF CacheType
<1>3. /\ d.sequences = c.sequences /\ d.staging = c.staging
      /\ d.pages = c.pages /\ d.allocLen = c.allocLen
      /\ d.refs = c.refs /\ d.available = c.available /\ d.tokenIds = c.tokenIds
  BY <1>1 DEF CacheType
<1>4. Live(d) = Live(c)
  BY <1>3 DEF Live
<1> HIDE DEF d
<1>5. Consistent(d)
  BY <1>2, <1>3, <1>4 DEF Consistent
<1> QED
  BY <1>3, <1>5 DEF d

\* Clearing a set of Sequences takes exactly their references away.
LEMMA ClearAllConsistent ==
  ASSUME NEW c, Consistent(c), NEW S \in SUBSET SeqId
  PROVE  /\ Consistent(ClearAll(c, S))
         /\ ClearAll(c, S).sequences = c.sequences
         /\ ClearAll(c, S).staging = c.staging
         /\ ClearAll(c, S).pages = [s \in SeqId |-> IF s \in S THEN <<>> ELSE c.pages[s]]
<1> DEFINE gone(p)   == {s \in S : p \in PagesOf(c, s)}
           pages     == [s \in SeqId |-> IF s \in S THEN <<>> ELSE c.pages[s]]
           left(p)   == c.refs[p] - Cardinality(gone(p))
           refs      == [p \in Page |-> left(p)]
           freed     == {p \in Page : c.refs[p] > 0 /\ left(p) = 0}
           tokenIds  == [p \in Page |-> IF p \in freed THEN <<>> ELSE c.tokenIds[p]]
           allocLen  == [s \in SeqId |-> IF s \in S THEN 0 ELSE c.allocLen[s]]
           available == c.available \cup freed
           target    == [s \in SeqId |-> IF s \in S THEN None ELSE c.target[s]]
           d         == Repaged(c, pages, allocLen, refs, tokenIds, available)
<1>1. c \in CacheType /\ Owned(c.pages, c.refs, c.available)
  BY DEF Consistent
<1>2. ASSUME NEW s \in SeqId
      PROVE  Range(pages[s]) = IF s \in S THEN {} ELSE Range(c.pages[s])
  <2>1. Range(<<>>) = {}
    BY DEF Range
  <2> QED
    BY <2>1
<1>3. ASSUME NEW p \in Page
      PROVE  /\ left(p) \in Nat
             /\ left(p) = Cardinality(HoldersIn(pages, p))
             /\ Cardinality(gone(p)) \in Nat
  <2>1. c.refs[p] = Cardinality(HoldersIn(c.pages, p))
    BY <1>1 DEF Owned, HoldersIn
  <2>2. gone(p) = HoldersIn(c.pages, p) \cap S
    BY DEF HoldersIn, PagesOf
  <2>3. HoldersIn(pages, p) = HoldersIn(c.pages, p) \ S
    <3> HIDE DEF pages
    <3> QED BY <1>2 DEF HoldersIn
  <2> HIDE DEF gone, pages
  <2>4. IsFiniteSet(HoldersIn(c.pages, p)) /\ Cardinality(HoldersIn(c.pages, p)) \in Nat
    BY HoldersFinite
  <2>5. Cardinality(HoldersIn(pages, p)) = Cardinality(HoldersIn(c.pages, p)) - Cardinality(gone(p))
    BY <2>2, <2>3, <2>4, FS_Difference
  <2>6. Cardinality(HoldersIn(pages, p)) \in Nat
    BY HoldersFinite
  <2>7. Cardinality(gone(p)) \in Nat
    BY <2>2, <2>4, FS_Intersection, FS_CardinalityType
  <2> QED
    BY <2>1, <2>5, <2>6, <2>7
<1>4. /\ pages \in [SeqId -> Seq(Page)] /\ allocLen \in [SeqId -> Nat]
      /\ tokenIds \in [Page -> Seq(Token)] /\ available \in SUBSET Page
  BY <1>1 DEF CacheType
<1>5. refs \in [Page -> Nat]
  BY <1>3
<1>6. Owned(pages, refs, available)
  <2>1. \A s \in SeqId : IsInjective(pages[s])
    <3>1. IsInjective(<<>>)
      BY DEF IsInjective
    <3> QED BY <3>1, <1>1 DEF Owned
  <2>2. \A p \in Page : refs[p] = Cardinality({s \in SeqId : p \in Range(pages[s])})
    <3> HIDE DEF pages, left
    <3> QED BY <1>3 DEF HoldersIn
  <2>3. \A p \in available : refs[p] = 0
    <3>1. ASSUME NEW p \in c.available PROVE p \in Page /\ left(p) = 0
      <4>1. p \in Page /\ c.refs[p] = 0
        BY <1>1 DEF Owned, CacheType
      <4>2. left(p) \in Nat /\ Cardinality(gone(p)) \in Nat
        BY <4>1, <1>3
      <4> HIDE DEF gone
      <4> QED BY <4>1, <4>2
    <3> HIDE DEF left
    <3> QED BY <3>1
  <2> HIDE DEF pages, refs, available
  <2> QED
    BY <2>1, <2>2, <2>3 DEF Owned
<1>7. \A s \in SeqId : CeilDiv(allocLen[s]) <= Len(pages[s])
  <2>1. CeilDiv(0) = 0
    BY CeilDivFacts
  <2> QED
    BY <2>1 DEF Consistent
<1>8. \A s \in SeqId \ Live(c) : pages[s] = <<>>
  BY DEF Consistent
<1>9. ClearAll(c, S) = [d EXCEPT !.target = [s \in SeqId |-> IF s \in S THEN None ELSE c.target[s]]]
  BY DEF ClearAll
<1>10. /\ d.sequences = c.sequences /\ d.staging = c.staging
       /\ d.pages = pages /\ d.target = c.target
  BY DEF Repaged
<1> HIDE DEF pages, allocLen, refs, tokenIds, available
<1>11. Consistent(d)
  BY <1>4, <1>5, <1>6, <1>7, <1>8, RepagedConsistent
<1>12. target \in [SeqId -> Token \cup {None}]
  BY <1>1 DEF CacheType
<1> HIDE DEF d, target
<1>13. ClearAll(c, S) = [d EXCEPT !.target = target]
  BY <1>9, <1>10 DEF target
<1> QED
  BY <1>10, <1>11, <1>12, <1>13, RetargetedConsistent DEF pages

\* Giving the Sequence s the pages q counts s in for each page of q, and out
\* for each page it had.
LEMMA HoldersUpdate ==
  ASSUME NEW pages \in [SeqId -> Seq(Page)], NEW s \in SeqId, NEW q \in Seq(Page), NEW p
  PROVE  Cardinality(HoldersIn(Updated(pages, s, q), p))
           = Cardinality(HoldersIn(pages, p)) + Share(q, p) - Share(pages[s], p)
<1> DEFINE others == HoldersIn(pages, p) \ {s}
           after  == Updated(pages, s, q)
<1>1. IsFiniteSet(others) /\ Cardinality(others) \in Nat
  BY HoldersFinite, FS_Subset, FS_CardinalityType
<1>2. s \notin others /\ Cardinality(others \cup {s}) = Cardinality(others) + 1
  BY <1>1, FS_AddElement
<1>3. HoldersIn(pages, p) = IF p \in Range(pages[s]) THEN others \cup {s} ELSE others
  <2>1. s \in HoldersIn(pages, p) <=> p \in Range(pages[s])
    BY DEF HoldersIn
  <2> QED
    BY <2>1
<1>4. \A t \in SeqId : after[t] = IF t = s THEN q ELSE pages[t]
  BY DEF Updated
<1> HIDE DEF after
<1>5. HoldersIn(after, p) = IF p \in Range(q) THEN others \cup {s} ELSE others
  BY <1>4 DEF HoldersIn
<1> HIDE DEF others
<1>6. Cardinality(HoldersIn(after, p))
        = Cardinality(HoldersIn(pages, p)) + Share(q, p) - Share(pages[s], p)
  BY <1>1, <1>2, <1>3, <1>5 DEF Share
<1> QED
  BY <1>6 DEF after

\* One Sequence changes its pages: the counts and the free list must follow.
LEMMA RepagedOneConsistent ==
  ASSUME NEW c, Consistent(c), NEW s \in Live(c),
         NEW q \in Seq(Page), IsInjective(q), NEW len \in Nat, CeilDiv(len) <= Len(q),
         NEW refs \in [Page -> Nat], NEW tokenIds \in [Page -> Seq(Token)],
         NEW available \in SUBSET Page,
         \A p \in Page : refs[p] = c.refs[p] + Share(q, p) - Share(c.pages[s], p),
         \A p \in available : refs[p] = 0
  PROVE  Consistent(Repaged(c, Updated(c.pages, s, q), Updated(c.allocLen, s, len),
                            refs, tokenIds, available))
<1> DEFINE pages    == Updated(c.pages, s, q)
           allocLen == Updated(c.allocLen, s, len)
<1>1. c \in CacheType /\ Owned(c.pages, c.refs, c.available)
  BY DEF Consistent
<1>2. c.pages \in [SeqId -> Seq(Page)] /\ c.allocLen \in [SeqId -> Nat] /\ s \in SeqId
  BY <1>1 DEF CacheType, Live, Range
<1>3. pages \in [SeqId -> Seq(Page)] /\ allocLen \in [SeqId -> Nat]
  BY <1>2 DEF Updated
<1>4. \A t \in SeqId : /\ pages[t] = IF t = s THEN q ELSE c.pages[t]
                       /\ allocLen[t] = IF t = s THEN len ELSE c.allocLen[t]
  BY <1>2 DEF Updated
<1>5. ASSUME NEW p \in Page
      PROVE  refs[p] = Cardinality(HoldersIn(pages, p))
  <2>1. c.refs[p] = Cardinality(HoldersIn(c.pages, p))
    BY <1>1 DEF Owned, HoldersIn
  <2>2. Cardinality(HoldersIn(pages, p))
          = Cardinality(HoldersIn(c.pages, p)) + Share(q, p) - Share(c.pages[s], p)
    BY <1>2, HoldersUpdate
  <2> QED
    BY <2>1, <2>2
<1> HIDE DEF pages, allocLen
<1>6. Owned(pages, refs, available)
  BY <1>1, <1>4, <1>5 DEF Owned, HoldersIn
<1>7. \A t \in SeqId : CeilDiv(allocLen[t]) <= Len(pages[t])
  BY <1>4 DEF Consistent
<1>8. \A t \in SeqId \ Live(c) : pages[t] = <<>>
  BY <1>4 DEF Consistent
<1>9. Consistent(Repaged(c, pages, allocLen, refs, tokenIds, available))
  BY <1>3, <1>6, <1>7, <1>8, RepagedConsistent
<1> QED
  BY <1>9 DEF pages, allocLen

\* Sequences change rows and staging: only where they live must be kept apart.
LEMMA RehomedConsistent ==
  ASSUME NEW c, Consistent(c),
         NEW sequences \in Seq(SeqId), IsInjective(sequences),
         NEW staging \in SUBSET SeqId, Range(sequences) \cap staging = {},
         \A s \in SeqId \ (Range(sequences) \cup staging) : c.pages[s] = <<>>
  PROVE  Consistent(Rehomed(c, sequences, staging))
<1> DEFINE d == Rehomed(c, sequences, staging)
<1>1. d \in CacheType
  BY DEF Consistent, CacheType, Rehomed
<1>2. /\ d.sequences = sequences /\ d.staging = staging
      /\ d.pages = c.pages /\ d.allocLen = c.allocLen
      /\ d.refs = c.refs /\ d.available = c.available
  BY DEF Rehomed
<1>3. Live(d) = Range(sequences) \cup staging
  BY <1>2 DEF Live
<1> HIDE DEF d
<1>4. Consistent(d)
  BY <1>1, <1>2, <1>3 DEF Consistent
<1> QED
  BY <1>4 DEF d

\* Nothing but its type depends on the reported tokens.
LEMMA RewrittenConsistent ==
  ASSUME NEW c, Consistent(c), NEW tokenIds \in [Page -> Seq(Token)]
  PROVE  LET d == [c EXCEPT !.tokenIds = tokenIds]
         IN Consistent(d) /\ d.sequences = c.sequences /\ d.staging = c.staging
<1> DEFINE d == [c EXCEPT !.tokenIds = tokenIds]
<1>1. c \in CacheType
  BY DEF Consistent
<1>2. d \in CacheType
  BY <1>1 DEF CacheType
<1>3. /\ d.sequences = c.sequences /\ d.staging = c.staging
      /\ d.pages = c.pages /\ d.allocLen = c.allocLen
      /\ d.refs = c.refs /\ d.available = c.available
  BY <1>1 DEF CacheType
<1>4. Live(d) = Live(c)
  BY <1>3 DEF Live
<1> HIDE DEF d
<1>5. Consistent(d)
  BY <1>2, <1>3, <1>4 DEF Consistent
<1> QED
  BY <1>3, <1>5 DEF d

\* The reservation of one Sequence may change within its pages.
LEMMA ReservedConsistent ==
  ASSUME NEW c, Consistent(c), NEW s \in SeqId, NEW n \in Nat, CeilDiv(n) <= Len(c.pages[s])
  PROVE  Consistent([c EXCEPT !.allocLen = Updated(c.allocLen, s, n)])
<1> DEFINE allocLen == Updated(c.allocLen, s, n)
           d        == [c EXCEPT !.allocLen = allocLen]
<1>1. c \in CacheType
  BY DEF Consistent
<1>2. d \in CacheType
  BY <1>1 DEF CacheType, Updated
<1>3. /\ d.sequences = c.sequences /\ d.staging = c.staging
      /\ d.pages = c.pages /\ d.allocLen = allocLen
      /\ d.refs = c.refs /\ d.available = c.available
  BY <1>1 DEF CacheType
<1>4. Live(d) = Live(c)
  BY <1>3 DEF Live
<1>5. \A t \in SeqId : CeilDiv(allocLen[t]) <= Len(c.pages[t])
  BY <1>1 DEF Consistent, CacheType, Updated
<1>6. [c EXCEPT !.allocLen = Updated(c.allocLen, s, n)] = d
  OBVIOUS
<1> HIDE DEF d, allocLen
<1>7. Consistent(d)
  BY <1>2, <1>3, <1>4, <1>5 DEF Consistent
<1> QED
  BY <1>6, <1>7

\* Nothing but the pending target changes with it.
LEMMA SetTargetConsistent ==
  ASSUME NEW c, Consistent(c), NEW s \in SeqId, NEW t \in Token \cup {None}
  PROVE  /\ Consistent(SetTarget(c, s, t))
         /\ SetTarget(c, s, t).sequences = c.sequences
         /\ SetTarget(c, s, t).pages = c.pages
<1> DEFINE target == Updated(c.target, s, t)
<1>1. target \in [SeqId -> Token \cup {None}]
  BY DEF Consistent, CacheType, Updated
<1>2. SetTarget(c, s, t) = [c EXCEPT !.target = target]
  BY DEF SetTarget
<1> HIDE DEF target
<1> QED
  BY <1>1, <1>2, RetargetedConsistent

-----------------------------------------------------------------------------
(* Pages                                                                 *)

\* A free page has no reference and is on nobody's list.
LEMMA FreePagesFree ==
  ASSUME NEW c, Consistent(c), NEW p \in c.available, NEW s \in SeqId
  PROVE  p \in Page /\ c.refs[p] = 0 /\ p \notin Range(c.pages[s])
<1>1. p \in Page /\ c.refs[p] = 0 /\ c.refs[p] = Cardinality(HoldersIn(c.pages, p))
  BY DEF Consistent, CacheType, Owned, HoldersIn
<1>2. HoldersIn(c.pages, p) = {}
  BY <1>1, HoldersFinite, FS_EmptySet
<1> QED
  BY <1>1, <1>2 DEF HoldersIn

\* A page on somebody's list has a reference.
LEMMA HeldPagesCounted ==
  ASSUME NEW c, Consistent(c), NEW s \in SeqId, NEW p \in Range(c.pages[s])
  PROVE  p \in Page /\ c.refs[p] >= 1 /\ c.refs[p] \in Nat
<1>1. p \in Page
  <2>1. c.pages[s] \in Seq(Page)
    BY DEF Consistent, CacheType
  <2> QED
    BY <2>1 DEF Range
<1>2. c.refs[p] = Cardinality(HoldersIn(c.pages, p)) /\ c.refs[p] \in Nat
  BY <1>1 DEF Consistent, CacheType, Owned, HoldersIn
<1>3. s \in HoldersIn(c.pages, p)
  BY DEF HoldersIn
<1>4. c.refs[p] # 0
  BY <1>2, <1>3, HoldersFinite, FS_EmptySet
<1> QED
  BY <1>1, <1>2, <1>4

\* Joining lists that share no page repeats none.
LEMMA ConcatRange ==
  ASSUME NEW S, NEW u \in Seq(S), NEW v \in Seq(S),
         IsInjective(u), IsInjective(v), Range(u) \cap Range(v) = {}
  PROVE  Range(u \o v) = Range(u) \cup Range(v) /\ IsInjective(u \o v)
<1> DEFINE w == u \o v
<1>1. w \in Seq(S) /\ Len(w) = Len(u) + Len(v) /\ DOMAIN w = 1..Len(w)
      /\ DOMAIN u = 1..Len(u) /\ DOMAIN v = 1..Len(v)
  OBVIOUS
<1>2. \A k \in 1..Len(u) : w[k] = u[k] /\ u[k] \in Range(u)
  BY DEF Range
<1>3. \A k \in 1..Len(v) : Len(u) + k \in 1..Len(w) /\ w[Len(u) + k] = v[k]
  OBVIOUS
<1>4. \A k \in 1..Len(w) :
        k \notin 1..Len(u) => /\ k - Len(u) \in 1..Len(v)
                             /\ w[k] = v[k - Len(u)]
                             /\ w[k] \in Range(v)
  BY DEF Range
<1> HIDE DEF w
<1>5. Range(w) \subseteq Range(u) \cup Range(v)
  BY <1>1, <1>2, <1>4 DEF Range
<1>6. Range(u) \cup Range(v) \subseteq Range(w)
  <2>1. ASSUME NEW k \in 1..Len(u) PROVE u[k] \in Range(w)
    <3>1. k \in DOMAIN w /\ w[k] = u[k]
      BY <1>1, <1>2
    <3> QED
      BY <3>1 DEF Range
  <2>2. ASSUME NEW k \in 1..Len(v) PROVE v[k] \in Range(w)
    <3>1. Len(u) + k \in DOMAIN w /\ w[Len(u) + k] = v[k]
      BY <1>1, <1>3
    <3> QED
      BY <3>1 DEF Range
  <2> QED
    BY <1>1, <2>1, <2>2 DEF Range
<1>7. IsInjective(w)
  <2> SUFFICES ASSUME NEW j \in 1..Len(w), NEW k \in 1..Len(w), w[j] = w[k] PROVE j = k
    BY <1>1 DEF IsInjective
  <2>1. CASE j \in 1..Len(u) /\ k \in 1..Len(u)
    BY <2>1, <1>1, <1>2 DEF IsInjective
  <2>2. CASE j \notin 1..Len(u) /\ k \notin 1..Len(u)
    <3>1. v[j - Len(u)] = v[k - Len(u)]
      BY <2>2, <1>4
    <3>2. j - Len(u) = k - Len(u)
      BY <2>2, <3>1, <1>1, <1>4 DEF IsInjective
    <3> QED
      BY <3>2
  <2>3. CASE (j \in 1..Len(u)) # (k \in 1..Len(u))
    BY <2>3, <1>2, <1>4
  <2> QED
    BY <2>1, <2>2, <2>3
<1> QED
  BY <1>5, <1>6, <1>7 DEF w

\* pushPage keeps the counts: each pushed page gains one reference.
LEMMA PushPagesConsistent ==
  ASSUME NEW c, Consistent(c), NEW s \in Live(c),
         NEW ps \in Seq(Page), IsInjective(ps), Range(ps) \cap Range(c.pages[s]) = {},
         NEW len \in Nat, CeilDiv(len) <= Len(c.pages[s]) + Len(ps)
  PROVE  Consistent(PushPages(c, s, ps, len))
<1> DEFINE q         == c.pages[s] \o ps
           refs      == [p \in Page |-> IF p \in Range(ps) THEN c.refs[p] + 1 ELSE c.refs[p]]
           available == c.available \ Range(ps)
<1>1. c \in CacheType /\ Owned(c.pages, c.refs, c.available)
  BY DEF Consistent
<1>2. s \in SeqId /\ c.pages[s] \in Seq(Page)
  BY <1>1 DEF CacheType, Live, Range
<1>3. q \in Seq(Page) /\ Len(q) = Len(c.pages[s]) + Len(ps)
  BY <1>2
<1>5. IsInjective(c.pages[s])
  BY <1>1, <1>2 DEF Owned
<1>6. Range(q) = Range(c.pages[s]) \cup Range(ps) /\ IsInjective(q)
  BY <1>2, <1>5, ConcatRange
<1>8. \A p \in Page : refs[p] = c.refs[p] + Share(q, p) - Share(c.pages[s], p)
  BY <1>1, <1>6 DEF Share, CacheType
<1>9. refs \in [Page -> Nat] /\ available \in SUBSET Page /\ c.tokenIds \in [Page -> Seq(Token)]
  BY <1>1 DEF CacheType
<1>10. \A p \in available : refs[p] = 0
  BY <1>1 DEF Owned, CacheType
<1> HIDE DEF q, refs, available
<1>11. Consistent(Repaged(c, Updated(c.pages, s, q), Updated(c.allocLen, s, len),
                          refs, c.tokenIds, available))
  BY <1>3, <1>6, <1>8, <1>9, <1>10, RepagedOneConsistent
<1>12. PushPages(c, s, ps, len)
         = Repaged(c, Updated(c.pages, s, q), Updated(c.allocLen, s, len),
                   refs, c.tokenIds, available)
  BY DEF PushPages, q, refs, available
<1> QED
  BY <1>11, <1>12

\* The front of a list of distinct pages: its length, and what it keeps.
LEMMA PrefixFacts ==
  ASSUME NEW S, NEW u \in Seq(S), IsInjective(u), NEW n \in 0..Len(u)
  PROVE  /\ SubSeq(u, 1, n) \in Seq(S) /\ Len(SubSeq(u, 1, n)) = n
         /\ IsInjective(SubSeq(u, 1, n))
         /\ \A x : x \in Range(SubSeq(u, 1, n))
                     <=> x \in Range(u) /\ x \notin {u[k] : k \in (n + 1)..Len(u)}
         /\ {u[k] : k \in (n + 1)..Len(u)} \subseteq Range(u)
<1> DEFINE w == SubSeq(u, 1, n)
           popped == {u[k] : k \in (n + 1)..Len(u)}
<1>1. w \in Seq(S) /\ Len(w) = n /\ DOMAIN w = 1..n /\ \A k \in 1..n : w[k] = u[k]
  OBVIOUS
<1>2. DOMAIN u = 1..Len(u) /\ Len(u) \in Nat /\ n \in Nat /\ n <= Len(u)
  OBVIOUS
<1> HIDE DEF w
<1>3. IsInjective(w)
  BY <1>1, <1>2 DEF IsInjective
<1>4. popped \subseteq Range(u) /\ Range(w) \subseteq Range(u)
  BY <1>1, <1>2 DEF Range
<1>5. ASSUME NEW x \in Range(w) PROVE x \notin popped
  <2>1. PICK k \in 1..n : x = u[k]
    BY <1>1 DEF Range
  <2> QED
    BY <2>1, <1>2 DEF IsInjective
<1>6. ASSUME NEW x \in Range(u), x \notin popped PROVE x \in Range(w)
  <2>1. PICK k \in 1..Len(u) : x = u[k]
    BY <1>2 DEF Range
  <2>2. k \in 1..n
    BY <1>2, <1>6, <2>1
  <2> QED
    BY <2>1, <2>2, <1>1 DEF Range
<1> QED
  BY <1>1, <1>3, <1>4, <1>5, <1>6 DEF w

\* popPage keeps the counts: each popped page loses one reference, and is free
\* when that was the last.
LEMMA PopToConsistent ==
  ASSUME NEW c, Consistent(c), NEW s \in Live(c), NEW n \in 0..Len(c.pages[s])
  PROVE  /\ Consistent(PopTo(c, s, n))
         /\ PopTo(c, s, n).sequences = c.sequences
         /\ PopTo(c, s, n).staging = c.staging
         /\ PopTo(c, s, n).pages = Updated(c.pages, s, SubSeq(c.pages[s], 1, n))
<1> DEFINE popped    == {c.pages[s][k] : k \in (n + 1)..Len(c.pages[s])}
           freed     == {p \in popped : c.refs[p] = 1}
           q         == SubSeq(c.pages[s], 1, n)
           len       == IF c.allocLen[s] < n * PageSize THEN c.allocLen[s] ELSE n * PageSize
           refs      == [p \in Page |-> IF p \in popped THEN c.refs[p] - 1 ELSE c.refs[p]]
           tokenIds  == [p \in Page |-> IF p \in freed THEN <<>> ELSE c.tokenIds[p]]
           available == c.available \cup freed
<1>1. c \in CacheType /\ Owned(c.pages, c.refs, c.available)
  BY DEF Consistent
<1>2. s \in SeqId /\ c.pages[s] \in Seq(Page) /\ n \in Nat /\ c.allocLen[s] \in Nat
  BY <1>1 DEF CacheType, Live, Range
<1>3. IsInjective(c.pages[s])
  BY <1>1, <1>2 DEF Owned
<1>4. /\ q \in Seq(Page) /\ Len(q) = n /\ IsInjective(q)
      /\ \A p : p \in Range(q) <=> p \in Range(c.pages[s]) /\ p \notin popped
      /\ popped \subseteq Range(c.pages[s])
  BY <1>2, <1>3, PrefixFacts
<1>5. len \in Nat /\ CeilDiv(len) <= Len(q)
  <2>1. n * PageSize \in Nat /\ CeilDiv(n * PageSize) = n
    BY <1>2, CeilDivFacts
  <2>2. len \in Nat /\ len <= n * PageSize
    BY <1>2, <2>1
  <2> HIDE DEF len
  <2>3. CeilDiv(len) <= n
    BY <2>1, <2>2, CeilDivMonotone
  <2> QED
    BY <1>4, <2>2, <2>3
<1>6. \A p \in popped : p \in Page /\ c.refs[p] \in Nat /\ c.refs[p] >= 1
  BY <1>2, <1>4, HeldPagesCounted
<1> HIDE DEF q, popped
<1>7. \A p \in Page : refs[p] = c.refs[p] + Share(q, p) - Share(c.pages[s], p)
  BY <1>1, <1>4 DEF Share, CacheType
<1>8. /\ refs \in [Page -> Nat] /\ available \in SUBSET Page
      /\ tokenIds \in [Page -> Seq(Token)]
  BY <1>1, <1>6 DEF CacheType
<1>9. \A p \in available : refs[p] = 0
  <2>1. \A p \in c.available : p \in Page /\ c.refs[p] = 0 /\ p \notin popped
    BY <1>2, <1>4, FreePagesFree
  <2> QED
    BY <2>1, <1>6
<1> HIDE DEF refs, available, tokenIds, len
<1>10. Consistent(Repaged(c, Updated(c.pages, s, q), Updated(c.allocLen, s, len),
                          refs, tokenIds, available))
  BY <1>4, <1>5, <1>7, <1>8, <1>9, RepagedOneConsistent
<1>11. PopTo(c, s, n)
         = Repaged(c, Updated(c.pages, s, q), Updated(c.allocLen, s, len),
                   refs, tokenIds, available)
  BY DEF PopTo, q, refs, available, tokenIds, len, freed, popped
<1> QED
  BY <1>10, <1>11 DEF Repaged, q

-----------------------------------------------------------------------------
(* Rows and staging                                                      *)

\* Taking one element out of a list of distinct ones takes only that one.
LEMMA RemoveAtFacts ==
  ASSUME NEW S, NEW u \in Seq(S), IsInjective(u), NEW i \in DOMAIN u
  PROVE  /\ RemoveAt(u, i) \in Seq(S) /\ IsInjective(RemoveAt(u, i))
         /\ Range(RemoveAt(u, i)) = Range(u) \ {u[i]}
<1> DEFINE w == RemoveAt(u, i)
<1>1. DOMAIN u = 1..Len(u) /\ Len(u) \in Nat /\ i \in 1..Len(u)
  OBVIOUS
<1>2. /\ w \in Seq(S) /\ Len(w) = Len(u) - 1 /\ DOMAIN w = 1..(Len(u) - 1)
      /\ \A k \in 1..(Len(u) - 1) : w[k] = IF k < i THEN u[k] ELSE u[k + 1]
  <2> DEFINE left  == SubSeq(u, 1, i - 1)
             right == SubSeq(u, i + 1, Len(u))
  <2>1. left \in Seq(S) /\ Len(left) = i - 1 /\ \A k \in 1..(i - 1) : left[k] = u[k]
    BY <1>1
  <2>2. /\ right \in Seq(S) /\ Len(right) = Len(u) - i
        /\ \A k \in i..(Len(u) - 1) : right[k - (i - 1)] = u[k + 1]
    <3>1. \A k \in i..(Len(u) - 1) : k - (i - 1) \in 1..(Len(u) - i) /\ (k - (i - 1)) + i = k + 1
      BY <1>1
    <3>2. /\ right \in Seq(S) /\ Len(right) = Len(u) - i
          /\ \A k \in 1..(Len(u) - i) : right[k] = u[k + i]
      BY <1>1
    <3> HIDE DEF right
    <3> QED
      BY <3>1, <3>2
  <2> HIDE DEF left, right
  <2>3. /\ left \o right \in Seq(S) /\ Len(left \o right) = Len(left) + Len(right)
        /\ \A k \in 1..Len(left) : (left \o right)[k] = left[k]
        /\ \A k \in (Len(left) + 1)..(Len(left) + Len(right)) : (left \o right)[k] = right[k - Len(left)]
    <3> left \in Seq(S) /\ right \in Seq(S)
      BY <2>1, <2>2
    <3> QED
      OBVIOUS
  <2>4. w = left \o right
    BY DEF RemoveAt, left, right
  <2> HIDE DEF w
  <2>5. w \in Seq(S) /\ Len(w) = Len(u) - 1 /\ DOMAIN w = 1..(Len(u) - 1)
    <3>1. Len(left) + Len(right) = Len(u) - 1
      BY <2>1, <2>2, <1>1
    <3>2. w \in Seq(S) /\ Len(w) = Len(left) + Len(right)
      BY <2>3, <2>4
    <3>3. DOMAIN w = 1..Len(w)
      BY <3>2
    <3> QED
      BY <3>1, <3>2, <3>3
  <2>6. ASSUME NEW k \in 1..(Len(u) - 1) PROVE w[k] = IF k < i THEN u[k] ELSE u[k + 1]
    <3>1. CASE k < i
      BY <3>1, <2>1, <2>3, <2>4, <1>1
    <3>2. CASE ~(k < i)
      <4>1. k \in i..(Len(u) - 1) /\ k \in (Len(left) + 1)..(Len(left) + Len(right))
        BY <3>2, <2>1, <2>2, <1>1
      <4>2. w[k] = right[k - (i - 1)]
        BY <4>1, <2>1, <2>3, <2>4
      <4> QED
        BY <3>2, <4>1, <4>2, <2>2
    <3> QED
      BY <3>1, <3>2
  <2> QED
    BY <2>5, <2>6
<1> HIDE DEF w
<1>3. IsInjective(w)
  <2>1. SUFFICES ASSUME NEW j \in 1..(Len(u) - 1), NEW k \in 1..(Len(u) - 1), w[j] = w[k]
                 PROVE  j = k
    BY <1>2 DEF IsInjective
  <2> DEFINE at(n) == IF n < i THEN n ELSE n + 1
  <2>2. /\ at(j) \in DOMAIN u /\ w[j] = u[at(j)]
        /\ at(k) \in DOMAIN u /\ w[k] = u[at(k)]
    BY <1>1, <1>2
  <2>3. at(j) = at(k)
    <3> HIDE DEF at
    <3> QED
      BY <2>1, <2>2, <1>1 DEF IsInjective
  <2> QED
    BY <2>3, <1>1
<1>4. ASSUME NEW x \in Range(w) PROVE x \in Range(u) \ {u[i]}
  <2>1. PICK k \in 1..(Len(u) - 1) : x = w[k]
    BY <1>2 DEF Range
  <2>2. PICK j \in 1..Len(u) : j # i /\ x = u[j]
    BY <2>1, <1>1, <1>2
  <2> QED
    BY <2>2, <1>1 DEF Range, IsInjective
<1>5. ASSUME NEW x \in Range(u), x # u[i] PROVE x \in Range(w)
  <2>1. PICK j \in 1..Len(u) : x = u[j]
    BY <1>1 DEF Range
  <2>2. PICK k \in 1..(Len(u) - 1) : x = w[k]
    <3>1. CASE j < i
      BY <3>1, <2>1, <1>1, <1>2
    <3>2. CASE j > i
      <4>1. j - 1 \in 1..(Len(u) - 1) /\ ~(j - 1 < i) /\ (j - 1) + 1 = j
        BY <3>2, <1>1
      <4>2. w[j - 1] = u[j]
        BY <4>1, <1>2
      <4> QED
        BY <4>1, <4>2, <2>1
    <3> QED
      BY <3>1, <3>2, <2>1, <1>5, <1>1
  <2> QED
    BY <2>2, <1>2 DEF Range
<1> QED
  BY <1>2, <1>3, <1>4, <1>5 DEF w

\* stageSequence moves a row to staging and nothing else.
LEMMA StageConsistent ==
  ASSUME NEW c, Consistent(c), NEW i \in DOMAIN c.sequences
  PROVE  Consistent(Stage(c, i))
<1> DEFINE s    == c.sequences[i]
           rest == RemoveAt(c.sequences, i)
<1>1. /\ c.sequences \in Seq(SeqId) /\ c.staging \in SUBSET SeqId
      /\ IsInjective(c.sequences) /\ Range(c.sequences) \cap c.staging = {}
      /\ \A t \in SeqId \ Live(c) : c.pages[t] = <<>>
  BY DEF Consistent, CacheType
<1>2. s \in Range(c.sequences) /\ s \in SeqId
  BY <1>1 DEF Range
<1>3. /\ rest \in Seq(SeqId) /\ IsInjective(rest)
      /\ Range(rest) = Range(c.sequences) \ {s}
  BY <1>1, RemoveAtFacts
<1> HIDE DEF s, rest
<1>4. Consistent(Rehomed(c, rest, c.staging \cup {s}))
  BY <1>1, <1>2, <1>3, RehomedConsistent DEF Live
<1> QED
  BY <1>4 DEF Stage, s, rest

\* A list of distinct elements with a new one at its end.
LEMMA AppendFacts ==
  ASSUME NEW S, NEW u \in Seq(S), IsInjective(u), NEW x \in S, x \notin Range(u)
  PROVE  /\ Append(u, x) \in Seq(S) /\ IsInjective(Append(u, x))
         /\ Range(Append(u, x)) = Range(u) \cup {x}
<1> DEFINE w == Append(u, x)
<1>1. /\ w \in Seq(S) /\ DOMAIN w = 1..(Len(u) + 1) /\ DOMAIN u = 1..Len(u) /\ Len(u) \in Nat
      /\ w[Len(u) + 1] = x /\ \A k \in 1..Len(u) : w[k] = u[k]
  OBVIOUS
<1> HIDE DEF w
<1>2. \A k \in 1..(Len(u) + 1) : k \in 1..Len(u) \/ k = Len(u) + 1
  BY <1>1
<1>3. \A k \in 1..Len(u) : u[k] \in Range(u) /\ k \in 1..(Len(u) + 1)
  BY <1>1 DEF Range
<1>4. IsInjective(w)
  BY <1>1, <1>2, <1>3 DEF IsInjective
<1>5. Range(w) = Range(u) \cup {x}
  <2>1. Len(u) + 1 \in DOMAIN w
    BY <1>1
  <2> QED
    BY <2>1, <1>1, <1>2, <1>3 DEF Range
<1> QED
  BY <1>1, <1>4, <1>5 DEF w

\* unstageSequence moves a staged Sequence back to a row.
LEMMA UnstageConsistent ==
  ASSUME NEW c, Consistent(c), NEW s \in c.staging
  PROVE  Consistent(Unstage(c, s))
<1>1. /\ c.sequences \in Seq(SeqId) /\ c.staging \in SUBSET SeqId /\ s \in SeqId
      /\ IsInjective(c.sequences) /\ Range(c.sequences) \cap c.staging = {}
      /\ \A t \in SeqId \ Live(c) : c.pages[t] = <<>>
  BY DEF Consistent, CacheType
<1> DEFINE rows == Append(c.sequences, s)
<1>2. rows \in Seq(SeqId) /\ IsInjective(rows) /\ Range(rows) = Range(c.sequences) \cup {s}
  BY <1>1, AppendFacts
<1> HIDE DEF rows
<1>3. Consistent(Rehomed(c, rows, c.staging \ {s}))
  BY <1>1, <1>2, RehomedConsistent DEF Live
<1> QED
  BY <1>3 DEF Unstage, rows

\* Any set of staged Sequences may go: what pressure and clearStaging do.
LEMMA RemoveStagedConsistent ==
  ASSUME NEW c, Consistent(c), NEW S \in SUBSET c.staging
  PROVE  /\ Consistent(RemoveStaged(c, S))
         /\ RemoveStaged(c, S).sequences = c.sequences
         /\ \A s \in SeqId \ S : RemoveStaged(c, S).pages[s] = c.pages[s]
<1> DEFINE d == ClearAll(c, S)
<1>1. /\ c.sequences \in Seq(SeqId) /\ c.staging \in SUBSET SeqId /\ S \in SUBSET SeqId
      /\ IsInjective(c.sequences) /\ Range(c.sequences) \cap c.staging = {}
      /\ \A t \in SeqId \ Live(c) : c.pages[t] = <<>>
  BY DEF Consistent, CacheType
<1>2. /\ Consistent(d)
      /\ d.pages = [s \in SeqId |-> IF s \in S THEN <<>> ELSE c.pages[s]]
  BY <1>1, ClearAllConsistent
<1> HIDE DEF d
<1>3. Consistent(Rehomed(d, c.sequences, c.staging \ S))
  BY <1>1, <1>2, RehomedConsistent DEF Live
<1>4. RemoveStaged(c, S) = Rehomed(d, c.sequences, c.staging \ S)
  BY DEF RemoveStaged, d
<1> QED
  BY <1>2, <1>3, <1>4 DEF Rehomed

\* removeSequence gives back the pages of the row it removes.
LEMMA RemoveSequenceConsistent ==
  ASSUME NEW c, Consistent(c), NEW i \in DOMAIN c.sequences
  PROVE  Consistent(RemoveSequence(c, i))
<1> DEFINE s    == c.sequences[i]
           d    == ClearAll(c, {s})
           rest == RemoveAt(c.sequences, i)
<1>1. /\ c.sequences \in Seq(SeqId) /\ c.staging \in SUBSET SeqId
      /\ IsInjective(c.sequences) /\ Range(c.sequences) \cap c.staging = {}
      /\ \A t \in SeqId \ Live(c) : c.pages[t] = <<>>
  BY DEF Consistent, CacheType
<1>2. s \in SeqId
  BY <1>1 DEF Range
<1>3. /\ Consistent(d)
      /\ d.pages = [t \in SeqId |-> IF t \in {s} THEN <<>> ELSE c.pages[t]]
  BY <1>2, ClearAllConsistent
<1>4. /\ rest \in Seq(SeqId) /\ IsInjective(rest)
      /\ Range(rest) = Range(c.sequences) \ {s}
  BY <1>1, RemoveAtFacts
<1> HIDE DEF s, d, rest
<1>5. Consistent(Rehomed(d, rest, c.staging))
  BY <1>1, <1>3, <1>4, RehomedConsistent DEF Live
<1> QED
  BY <1>5 DEF RemoveSequence, Clear, s, d, rest

-----------------------------------------------------------------------------
(* Reserving and committing                                              *)

\* Page pressure touches staged Sequences only.
LEMMA EnsureAvailableConsistent ==
  ASSUME NEW c, Consistent(c), NEW n, NEW d \in EnsureAvailable(c, n)
  PROVE  /\ Consistent(d) /\ d.sequences = c.sequences
         /\ \A t \in Range(c.sequences) : d.pages[t] = c.pages[t]
<1>1. CASE d = c
  BY <1>1
<1>2. CASE \E S \in SUBSET c.staging : d = RemoveStaged(c, S)
  <2>1. PICK S \in SUBSET c.staging : d = RemoveStaged(c, S)
    BY <1>2
  <2>2. /\ Consistent(d) /\ d.sequences = c.sequences
        /\ \A s \in SeqId \ S : d.pages[s] = c.pages[s]
    BY <2>1, RemoveStagedConsistent
  <2>3. Range(c.sequences) \subseteq SeqId \ S
    BY DEF Consistent, CacheType, Range
  <2> QED
    BY <2>2, <2>3
<1> QED
  BY <1>1, <1>2 DEF EnsureAvailable

\* allocAppendPages takes its pages from the free ones.
LEMMA AllocAppendConsistent ==
  ASSUME NEW c, Consistent(c), NEW s \in Range(c.sequences), NEW n \in Nat,
         NEW d \in AllocAppend(c, s, n)
  PROVE  /\ Consistent(d) /\ d.sequences = c.sequences
         /\ \A t \in SeqId \ {s} : d.pages[t] = c.pages[t]
<1>1. c \in CacheType
  BY DEF Consistent
<1>2. /\ s \in SeqId /\ s \in Live(c) /\ c.pages[s] \in Seq(Page)
      /\ c.pages \in [SeqId -> Seq(Page)] /\ c.allocLen[s] + n \in Nat
  BY <1>1 DEF CacheType, Live, Range
<1>3. CeilDiv(c.allocLen[s] + n) \in Nat
  BY <1>2, CeilDivFacts
<1>4. /\ PagesNeeded(c, s, n) \in Nat
      /\ CeilDiv(c.allocLen[s] + n) <= Len(c.pages[s]) + PagesNeeded(c, s, n)
  <2>1. Len(c.pages[s]) \in Nat
    BY <1>2
  <2> QED
    BY <2>1, <1>3 DEF PagesNeeded
<1>5. PICK f \in FreshPages(c, PagesNeeded(c, s, n)) :
        d = PushPages(c, s, f, c.allocLen[s] + n)
  BY DEF AllocAppend
<1>6. f \in [1..PagesNeeded(c, s, n) -> c.available] /\ IsInjective(f)
  BY <1>5 DEF FreshPages
<1>7. /\ f \in Seq(Page) /\ Len(f) = PagesNeeded(c, s, n) /\ Range(f) \subseteq c.available
  <2>1. c.available \subseteq Page
    BY <1>1 DEF CacheType
  <2> QED
    BY <2>1, <1>4, <1>6 DEF Range
<1>8. Range(f) \cap Range(c.pages[s]) = {}
  BY <1>2, <1>7, FreePagesFree
<1>9. Consistent(d)
  BY <1>2, <1>4, <1>5, <1>6, <1>7, <1>8, PushPagesConsistent
<1> QED
  BY <1>2, <1>5, <1>9 DEF PushPages, Repaged, Updated

\* ... also when page pressure had to evict staged Sequences first.
LEMMA AppendConsistent ==
  ASSUME NEW c, Consistent(c), NEW s \in Range(c.sequences), NEW n \in Nat,
         NEW d \in Append_(c, s, n)
  PROVE  /\ Consistent(d) /\ d.sequences = c.sequences
         /\ \A t \in Range(c.sequences) \ {s} : d.pages[t] = c.pages[t]
<1>1. PICK e \in EnsureAvailable(c, PagesNeeded(c, s, n)) : d = e \/ d \in AllocAppend(e, s, n)
  BY DEF Append_
<1>2. /\ Consistent(e) /\ e.sequences = c.sequences
      /\ \A t \in Range(c.sequences) : e.pages[t] = c.pages[t]
  BY <1>1, EnsureAvailableConsistent
<1>3. CASE d = e
  BY <1>2, <1>3
<1>4. CASE d \in AllocAppend(e, s, n)
  <2>1. /\ Consistent(d) /\ d.sequences = e.sequences
        /\ \A t \in SeqId \ {s} : d.pages[t] = e.pages[t]
    BY <1>2, <1>4, AllocAppendConsistent
  <2>2. Range(c.sequences) \subseteq SeqId
    BY DEF Consistent, CacheType, Range
  <2> QED
    BY <1>2, <2>1, <2>2
<1> QED
  BY <1>1, <1>3, <1>4

\* The reported length is a number of tokens.
LEMMA ReportedType ==
  ASSUME NEW c, c \in CacheType, NEW s \in SeqId
  PROVE  Reported(c, s) \in Nat
<1> DEFINE rows == (DOMAIN c.pages[s]) \X (1..PageSize)
           full == {row \in rows : row[2] <= Len(c.tokenIds[c.pages[s][row[1]]])}
<1>1. DOMAIN c.pages[s] = 1..Len(c.pages[s]) /\ Len(c.pages[s]) \in Nat
  BY DEF CacheType
<1>2. IsFiniteSet(DOMAIN c.pages[s]) /\ IsFiniteSet(1..PageSize)
  <2>1. IsFiniteSet(1..PageSize)
    BY PageSizeAssumption, FS_Interval
  <2> DEFINE len == Len(c.pages[s])
  <2>2. len \in Int /\ DOMAIN c.pages[s] = 1..len
    BY <1>1
  <2> HIDE DEF len
  <2>3. IsFiniteSet(1..len)
    BY <2>2, FS_Interval
  <2> QED
    BY <2>1, <2>2, <2>3
<1>3. IsFiniteSet(rows)
  BY <1>2, FS_Product
<1>4. full \in SUBSET rows /\ Reported(c, s) = Cardinality(full)
  BY DEF Reported
<1> HIDE DEF rows, full
<1>5. Cardinality(full) \in Nat
  BY <1>3, <1>4, FS_Subset, FS_CardinalityType
<1> QED
  BY <1>4, <1>5

\* Reporting tokens writes pages and moves none.
LEMMA ReportTokensConsistent ==
  ASSUME NEW c, Consistent(c), NEW s \in SeqId,
         NEW tokens \in Seq(Token), NEW t \in Token \cup {None}
  PROVE  Consistent(ReportTokens(c, s, tokens, t))
<1> DEFINE start    == Reported(c, s)
           from(k)  == IF (k - 1) * PageSize <= start THEN 1 ELSE (k - 1) * PageSize - start + 1
           to(k)    == IF k * PageSize - start <= Len(tokens) THEN k * PageSize - start ELSE Len(tokens)
           index(p) == CHOOSE k \in DOMAIN c.pages[s] : c.pages[s][k] = p
           tokenIds == [p \in Page |->
                          IF p \in Range(c.pages[s])
                          THEN c.tokenIds[p] \o SubSeq(tokens, from(index(p)), to(index(p)))
                          ELSE c.tokenIds[p]]
<1>1. c \in CacheType /\ start \in Nat
  BY ReportedType DEF Consistent
<1>2. ASSUME NEW p \in Page, p \in Range(c.pages[s])
      PROVE  SubSeq(tokens, from(index(p)), to(index(p))) \in Seq(Token)
  <2>1. \E k \in DOMAIN c.pages[s] : c.pages[s][k] = p
    BY <1>2 DEF Range
  <2>2. index(p) \in DOMAIN c.pages[s]
    BY <2>1
  <2>3. index(p) \in Nat
    BY <2>2, <1>1 DEF CacheType
  <2> HIDE DEF index, start
  <2>4. ASSUME NEW k \in Nat
        PROVE  from(k) \in Int /\ from(k) >= 1 /\ to(k) \in Int /\ to(k) <= Len(tokens)
    <3> DEFINE first == (k - 1) * PageSize
               end   == k * PageSize
    <3>1. first \in Int /\ end \in Int
      BY PageSizeAssumption
    <3> HIDE DEF first, end
    <3>2. Len(tokens) \in Nat
      OBVIOUS
    <3>3. /\ from(k) = IF first <= start THEN 1 ELSE first - start + 1
          /\ to(k) = IF end - start <= Len(tokens) THEN end - start ELSE Len(tokens)
      BY DEF first, end
    <3> HIDE DEF from, to
    <3> QED
      BY <1>1, <3>1, <3>2, <3>3
  <2>5. from(index(p)) \in Int /\ from(index(p)) >= 1 /\ to(index(p)) \in Int /\ to(index(p)) <= Len(tokens)
    BY <2>3, <2>4
  <2> HIDE DEF from, to
  <2> QED
    BY <2>5
<1>3. tokenIds \in [Page -> Seq(Token)]
  <2> HIDE DEF from, to, index
  <2>1. \A p \in Page : c.tokenIds[p] \in Seq(Token)
    BY <1>1 DEF CacheType
  <2> QED
    BY <1>2, <2>1
<1>4. ReportTokens(c, s, tokens, t) = SetTarget([c EXCEPT !.tokenIds = tokenIds], s, t)
  BY DEF ReportTokens
<1> HIDE DEF tokenIds
<1>5. Consistent([c EXCEPT !.tokenIds = tokenIds])
  BY <1>3, RewrittenConsistent
<1> QED
  BY <1>4, <1>5, SetTargetConsistent

\* The token after a cut is one that was recorded, or none.
LEMMA TokenAfterType ==
  ASSUME NEW c, c \in CacheType, NEW s \in SeqId, NEW n \in Nat
  PROVE  TokenAfter(c, s, n) \in Token \cup {None}
<1> DEFINE k   == n \div PageSize + 1
           row == (n % PageSize) + 1
<1>1. k \in Nat /\ k >= 1 /\ row \in Nat /\ row >= 1
  BY PageSizeAssumption, DivMonotone
<1>2. c.pages[s] \in Seq(Page) /\ c.target[s] \in Token \cup {None}
  BY DEF CacheType
<1> HIDE DEF k, row
<1>3. ASSUME k <= Len(c.pages[s]), row <= Len(c.tokenIds[c.pages[s][k]])
      PROVE  c.tokenIds[c.pages[s][k]][row] \in Token
  <2>1. c.pages[s][k] \in Page
    BY <1>1, <1>2, <1>3
  <2>2. c.tokenIds[c.pages[s][k]] \in Seq(Token)
    BY <2>1 DEF CacheType
  <2> QED
    BY <1>1, <1>3, <2>2
<1> QED
  BY <1>2, <1>3 DEF TokenAfter, k, row

\* truncate up to its copy-on-write: whole pages go, the reservation shrinks.
LEMMA CutToConsistent ==
  ASSUME NEW c, Consistent(c), NEW s \in Live(c), NEW n \in Nat, n < c.allocLen[s]
  PROVE  /\ Consistent(CutTo(c, s, n))
         /\ CutTo(c, s, n).sequences = c.sequences
         /\ Len(CutTo(c, s, n).pages[s]) = CeilDiv(n)
         /\ CutTo(c, s, n).allocLen[s] = n
<1> DEFINE m == CeilDiv(n)
           d == PopTo(c, s, m)
           e == [d EXCEPT !.allocLen = Updated(d.allocLen, s, n)]
<1>1. /\ c \in CacheType /\ s \in SeqId
      /\ CeilDiv(c.allocLen[s]) <= Len(c.pages[s])
      /\ c.pages[s] \in Seq(Page) /\ c.allocLen[s] \in Nat
  BY DEF Consistent, CacheType, Live, Range
<1>2. m \in 0..Len(c.pages[s])
  <2>1. m \in Nat /\ CeilDiv(c.allocLen[s]) \in Nat
    BY <1>1, CeilDivFacts
  <2>2. m <= CeilDiv(c.allocLen[s])
    BY <1>1, CeilDivMonotone
  <2>3. Len(c.pages[s]) \in Nat
    BY <1>1
  <2> HIDE DEF m
  <2> QED
    BY <1>1, <2>1, <2>2, <2>3
<1> HIDE DEF m
<1>3. /\ Consistent(d) /\ d.sequences = c.sequences
      /\ d.pages = Updated(c.pages, s, SubSeq(c.pages[s], 1, m))
  BY <1>2, PopToConsistent
<1>4. Len(d.pages[s]) = m
  BY <1>1, <1>2, <1>3 DEF CacheType, Updated
<1> HIDE DEF d
<1>5. d \in CacheType
  BY <1>3 DEF Consistent
<1>6. Consistent(e)
  <2>1. m \in Nat /\ CeilDiv(n) <= Len(d.pages[s])
    BY <1>2, <1>4 DEF m
  <2> QED
    BY <1>1, <1>3, <2>1, ReservedConsistent
<1>7. e.sequences = d.sequences /\ e.pages = d.pages /\ e.allocLen[s] = n
  BY <1>1, <1>5 DEF CacheType, Updated
<1>8. CutTo(c, s, n) = SetTarget(e, s, TokenAfter(c, s, n))
  BY DEF CutTo, d, m
<1> HIDE DEF e
<1>9. Consistent(CutTo(c, s, n))
  BY <1>1, <1>6, <1>8, TokenAfterType, SetTargetConsistent
<1>10. e \in CacheType
  BY <1>6 DEF Consistent
<1>11. /\ CutTo(c, s, n).sequences = e.sequences
       /\ CutTo(c, s, n).pages = e.pages
       /\ CutTo(c, s, n).allocLen = e.allocLen
  BY <1>8, <1>10 DEF SetTarget, CacheType
<1> QED
  BY <1>3, <1>4, <1>7, <1>9, <1>11 DEF m

\* Cutting the tokens of a page moves no page.
LEMMA TrimConsistent ==
  ASSUME NEW c, Consistent(c), NEW p \in Page, NEW n \in Nat
  PROVE  Consistent(Trim(c, p, n))
<1>1. c \in CacheType /\ c.tokenIds[p] \in Seq(Token)
  BY DEF Consistent, CacheType
<1>2. n % PageSize \in Nat
  BY PageSizeAssumption
<1>3. TrimmedTokens(c, p, n) \in Seq(Token)
  <2> DEFINE kept == IF n % PageSize < Len(c.tokenIds[p]) THEN n % PageSize ELSE Len(c.tokenIds[p])
  <2>1. kept \in Nat /\ kept <= Len(c.tokenIds[p])
    BY <1>1, <1>2
  <2>2. TrimmedTokens(c, p, n) = SubSeq(c.tokenIds[p], 1, kept)
    BY DEF TrimmedTokens
  <2> HIDE DEF kept
  <2> QED
    BY <1>1, <2>1, <2>2
<1> DEFINE tokenIds == Updated(c.tokenIds, p, TrimmedTokens(c, p, n))
<1>4. tokenIds \in [Page -> Seq(Token)]
  BY <1>1, <1>3 DEF CacheType, Updated
<1>5. Trim(c, p, n) = [c EXCEPT !.tokenIds = tokenIds]
  BY DEF Trim
<1> HIDE DEF tokenIds
<1> QED
  BY <1>4, <1>5, RewrittenConsistent

\* The copy takes the place of the shared page: q gains the reference of s, the
\* page it copies loses it, whoever else holds that page.
LEMMA CopyOnWriteConsistent ==
  ASSUME NEW c, Consistent(c), NEW s \in Live(c), c.pages[s] # <<>>, NEW q \in c.available
  PROVE  Consistent(CopyOnWrite(c, s, q))
<1> DEFINE u         == c.pages[s]
           old       == BoundaryPage(c, s)
           r         == [u EXCEPT ![Len(u)] = q]
           refs      == [p \in Page |-> IF p = q THEN 1 ELSE IF p = old THEN c.refs[p] - 1 ELSE c.refs[p]]
           tokenIds  == Updated(c.tokenIds, q, c.tokenIds[old])
           available == c.available \ {q}
<1>1. c \in CacheType /\ Owned(c.pages, c.refs, c.available)
  BY DEF Consistent
<1>2. s \in SeqId /\ u \in Seq(Page) /\ c.allocLen[s] \in Nat /\ CeilDiv(c.allocLen[s]) <= Len(u)
  BY <1>1 DEF CacheType, Live, Range, Consistent
<1>3. IsInjective(u)
  BY <1>1, <1>2 DEF Owned
<1>4. q \in Page /\ c.refs[q] = 0 /\ q \notin Range(u)
  BY <1>2, FreePagesFree
<1>5. Len(u) \in Nat /\ Len(u) >= 1 /\ DOMAIN u = 1..Len(u) /\ old = u[Len(u)]
  BY <1>2 DEF BoundaryPage, Last
<1>6. old \in Range(u)
  BY <1>5 DEF Range
<1>7. old \in Page /\ c.refs[old] >= 1 /\ c.refs[old] \in Nat
  BY <1>2, <1>6, HeldPagesCounted
<1> HIDE DEF old
<1>8. /\ r \in Seq(Page) /\ Len(r) = Len(u) /\ DOMAIN r = 1..Len(u)
      /\ r[Len(u)] = q /\ \A k \in 1..Len(u) : k # Len(u) => r[k] = u[k]
  BY <1>2, <1>4, <1>5
<1>9. \A k \in 1..Len(u) : u[k] \in Range(u)
  BY <1>5 DEF Range
<1> HIDE DEF u, r
<1>10. IsInjective(r)
  <2>1. SUFFICES ASSUME NEW j \in 1..Len(u), NEW k \in 1..Len(u), r[j] = r[k] PROVE j = k
    BY <1>8 DEF IsInjective
  <2>2. u[j] # q /\ u[k] # q
    BY <1>4, <1>9
  <2>3. CASE j = Len(u) \/ k = Len(u)
    BY <2>1, <2>2, <2>3, <1>8
  <2>4. CASE j # Len(u) /\ k # Len(u)
    <3>1. r[j] = u[j] /\ r[k] = u[k]
      BY <2>4, <1>8
    <3>2. j \in DOMAIN u /\ k \in DOMAIN u
      BY <1>5
    <3> QED
      BY <3>1, <3>2, <2>1, <1>3 DEF IsInjective
  <2> QED
    BY <2>3, <2>4
<1>11. \A p : p \in Range(r) <=> p = q \/ (p \in Range(u) /\ p # old)
  <2>1. ASSUME NEW p \in Range(r) PROVE p = q \/ (p \in Range(u) /\ p # old)
    <3>1. PICK k \in 1..Len(u) : p = r[k]
      BY <1>8 DEF Range
    <3>2. CASE k = Len(u)
      BY <3>1, <3>2, <1>8
    <3>3. CASE k # Len(u)
      <4>1. p = u[k] /\ p \in Range(u)
        BY <3>1, <3>3, <1>8, <1>9
      <4>2. Len(u) \in DOMAIN u /\ k \in DOMAIN u
        BY <3>1, <1>5
      <4> QED
        BY <4>1, <4>2, <3>3, <1>3, <1>5 DEF IsInjective
    <3> QED
      BY <3>2, <3>3
  <2>2. q \in Range(r)
    <3>1. Len(u) \in DOMAIN r
      <4>1. Len(u) \in 1..Len(u)
        BY <1>5
      <4> QED
        BY <4>1, <1>8
    <3> QED
      BY <3>1, <1>8 DEF Range
  <2>3. ASSUME NEW p \in Range(u), p # old PROVE p \in Range(r)
    <3>1. PICK k \in 1..Len(u) : p = u[k]
      BY <1>5 DEF Range
    <3>2. k # Len(u)
      BY <3>1, <2>3, <1>5
    <3>3. k \in DOMAIN r /\ r[k] = p
      BY <3>1, <3>2, <1>8
    <3> QED
      BY <3>3 DEF Range
  <2> QED
    BY <2>1, <2>2, <2>3
<1>12. q # old
  BY <1>4, <1>6
<1>13. \A p \in Page : refs[p] = c.refs[p] + Share(r, p) - Share(u, p)
  BY <1>1, <1>4, <1>6, <1>7, <1>11, <1>12 DEF Share, CacheType
<1>14. /\ refs \in [Page -> Nat] /\ available \in SUBSET Page
       /\ tokenIds \in [Page -> Seq(Token)]
  BY <1>1, <1>4, <1>7 DEF CacheType, Updated
<1>15. \A p \in available : refs[p] = 0
  <2>1. old \notin c.available
    BY <1>2, <1>6, FreePagesFree DEF u
  <2> QED
    BY <2>1, <1>1 DEF Owned, CacheType
<1> HIDE DEF refs, tokenIds, available
<1>16. Consistent(Repaged(c, Updated(c.pages, s, r), Updated(c.allocLen, s, c.allocLen[s]),
                          refs, tokenIds, available))
  BY <1>2, <1>8, <1>10, <1>13, <1>14, <1>15, RepagedOneConsistent DEF u
<1>17. Updated(c.allocLen, s, c.allocLen[s]) = c.allocLen
  BY <1>1 DEF CacheType, Updated
<1>18. CopyOnWrite(c, s, q)
         = Repaged(c, Updated(c.pages, s, r), c.allocLen, refs, tokenIds, available)
  BY DEF CopyOnWrite, u, r, refs, tokenIds, available, old
<1> QED
  BY <1>16, <1>17, <1>18

\* reset frees every page that no staged Sequence holds; it may only be called
\* when no dropped row shares one with a staged Sequence.
LEMMA ResetConsistent ==
  ASSUME NEW c, Consistent(c), ResetAllowed(c),
         NEW rows \in Seq(SeqId), IsInjective(rows), Range(rows) \cap c.staging = {}
  PROVE  Consistent(Reset(c, rows))
<1> DEFINE d == Reset(c, rows)
           pages == [s \in SeqId |-> IF s \in c.staging THEN c.pages[s] ELSE <<>>]
           held  == UNION {PagesOf(c, s) : s \in c.staging}
           refs  == [p \in Page |-> IF p \in held THEN c.refs[p] ELSE 0]
<1>1. c \in CacheType /\ Owned(c.pages, c.refs, c.available) /\ c.staging \subseteq SeqId
  BY DEF Consistent, CacheType
<1>2. d \in CacheType
  BY <1>1 DEF Reset, CacheType
<1>3. /\ d.sequences = rows /\ d.staging = c.staging /\ d.pages = pages
      /\ d.refs = refs /\ d.available = Page \ held
      /\ d.allocLen = [s \in SeqId |-> IF s \in c.staging THEN c.allocLen[s] ELSE 0]
  BY DEF Reset
<1>4. \A s \in SeqId : IsInjective(pages[s])
  <2>1. IsInjective(<<>>)
    BY DEF IsInjective
  <2> QED
    BY <2>1, <1>1 DEF Owned
<1>5. \A s \in SeqId : Range(pages[s]) = IF s \in c.staging THEN Range(c.pages[s]) ELSE {}
  <2>1. Range(<<>>) = {}
    BY DEF Range
  <2> QED
    BY <2>1
<1>6. \A s \in SeqId : c.staging # {} /\ s \notin c.staging => c.pages[s] = <<>>
  BY DEF ResetAllowed, Consistent, Live, Range
<1> HIDE DEF pages, d
<1>7. ASSUME NEW p \in Page PROVE refs[p] = Cardinality(HoldersIn(pages, p))
  <2>1. CASE p \in held
    <3>1. HoldersIn(pages, p) = HoldersIn(c.pages, p)
      <4>1. Range(<<>>) = {}
        BY DEF Range
      <4> QED
        BY <4>1, <2>1, <1>5, <1>6 DEF HoldersIn
    <3>2. c.refs[p] = Cardinality(HoldersIn(c.pages, p))
      BY <1>1 DEF Owned, HoldersIn
    <3> QED
      BY <2>1, <3>1, <3>2
  <2>2. CASE p \notin held
    <3>1. HoldersIn(pages, p) = {}
      BY <2>2, <1>5 DEF HoldersIn, PagesOf
    <3> QED
      BY <2>2, <3>1, FS_EmptySet
  <2> QED
    BY <2>1, <2>2
<1>8. Owned(d.pages, d.refs, d.available)
  BY <1>3, <1>4, <1>7 DEF Owned, HoldersIn
<1>9. \A s \in SeqId : CeilDiv(d.allocLen[s]) <= Len(d.pages[s])
  <2>1. CeilDiv(0) = 0 /\ Len(<<>>) = 0
    BY CeilDivFacts
  <2>2. \A s \in SeqId : CeilDiv(c.allocLen[s]) <= Len(c.pages[s])
    BY DEF Consistent
  <2> QED
    BY <1>3, <2>1, <2>2 DEF pages
<1>10. \A s \in SeqId \ Live(d) : d.pages[s] = <<>>
  BY <1>3 DEF Live, pages
<1> QED
  BY <1>2, <1>3, <1>8, <1>9, <1>10 DEF Consistent, d

-----------------------------------------------------------------------------
(* Prefix matching                                                       *)

\* A resumed Sequence leaves staging for the row, which gives its own up.
LEMMA TakeOverConsistent ==
  ASSUME NEW c, Consistent(c), NEW i \in DOMAIN c.sequences,
         NEW donor \in Live(c), donor # c.sequences[i]
  PROVE  /\ Consistent(TakeOver(c, i, donor))
         /\ DOMAIN TakeOver(c, i, donor).sequences = DOMAIN c.sequences
<1> DEFINE old  == c.sequences[i]
           rows == [j \in DOMAIN c.sequences |->
                      IF j = i THEN donor
                      ELSE IF c.sequences[j] = donor THEN old ELSE c.sequences[j]]
           d    == ClearAll(c, {old})
           staging == c.staging \ {donor}
<1>1. /\ c.sequences \in Seq(SeqId) /\ c.staging \in SUBSET SeqId
      /\ IsInjective(c.sequences) /\ Range(c.sequences) \cap c.staging = {}
      /\ \A t \in SeqId \ Live(c) : c.pages[t] = <<>>
  BY DEF Consistent, CacheType
<1>2. old \in SeqId /\ donor \in SeqId
  BY <1>1 DEF Live, Range
<1>3. /\ Consistent(d)
      /\ d.pages = [t \in SeqId |-> IF t \in {old} THEN <<>> ELSE c.pages[t]]
  BY <1>2, ClearAllConsistent
<1>4. DOMAIN c.sequences = 1..Len(c.sequences) /\ Len(c.sequences) \in Nat
  BY <1>1
<1>5. \A j \in DOMAIN c.sequences : c.sequences[j] \in SeqId /\ c.sequences[j] \in Range(c.sequences)
  BY <1>1 DEF Range
<1>6. rows \in Seq(SeqId) /\ DOMAIN rows = DOMAIN c.sequences
  BY <1>2, <1>4, <1>5
<1>7. \A j \in DOMAIN c.sequences :
        rows[j] = IF j = i THEN donor ELSE IF c.sequences[j] = donor THEN old ELSE c.sequences[j]
  OBVIOUS
<1> HIDE DEF rows, d
<1>8. IsInjective(rows)
  BY <1>1, <1>6, <1>7 DEF IsInjective
<1>9. \A t \in Range(c.sequences) : t # old => t \in Range(rows) \/ t = donor
  BY <1>6, <1>7 DEF Range
<1>10. donor \in Range(rows) /\ Range(rows) \subseteq Range(c.sequences) \cup {donor}
  BY <1>5, <1>6, <1>7 DEF Range
<1>11. Range(rows) \cap staging = {}
  BY <1>1, <1>10
<1>12. \A t \in SeqId \ (Range(rows) \cup staging) : d.pages[t] = <<>>
  BY <1>1, <1>3, <1>9, <1>10 DEF Live
<1> HIDE DEF staging
<1>13. staging \in SUBSET SeqId
  BY <1>1 DEF staging
<1>14. Consistent(Rehomed(d, rows, staging))
  BY <1>3, <1>6, <1>8, <1>11, <1>12, <1>13, RehomedConsistent
<1>15. TakeOver(c, i, donor) = Rehomed(d, rows, staging)
  BY DEF TakeOver, Clear, d, rows, staging
<1> QED
  BY <1>6, <1>14, <1>15 DEF Rehomed

\* Sharing a prefix takes one reference to each of its pages.
LEMMA SharePagesConsistent ==
  ASSUME NEW c, Consistent(c), NEW i \in DOMAIN c.sequences,
         NEW donor \in SeqId, donor # c.sequences[i],
         NEW n \in 0..Len(c.pages[donor])
  PROVE  /\ Consistent(SharePages(c, i, donor, n))
         /\ SharePages(c, i, donor, n).sequences = c.sequences
         /\ \A t \in SeqId \ {c.sequences[i]} : SharePages(c, i, donor, n).pages[t] = c.pages[t]
<1> DEFINE s  == c.sequences[i]
           d  == ClearAll(c, {s})
           ps == SubSeq(c.pages[donor], 1, n)
<1>1. c \in CacheType /\ Owned(c.pages, c.refs, c.available)
  BY DEF Consistent
<1>2. s \in SeqId /\ s \in Range(c.sequences) /\ c.pages[donor] \in Seq(Page) /\ n \in Nat
  BY <1>1 DEF CacheType, Range
<1>3. /\ Consistent(d) /\ d.sequences = c.sequences
      /\ d.pages = [t \in SeqId |-> IF t \in {s} THEN <<>> ELSE c.pages[t]]
  BY <1>2, ClearAllConsistent
<1>4. IsInjective(c.pages[donor])
  BY <1>1 DEF Owned
<1>5. ps \in Seq(Page) /\ IsInjective(ps) /\ Len(ps) = n
  BY <1>2, <1>4, PrefixFacts
<1>6. s \in Live(d) /\ d.pages[s] = <<>>
  BY <1>2, <1>3 DEF Live
<1>7. Range(ps) \cap Range(d.pages[s]) = {}
  <2>1. Range(<<>>) = {}
    BY DEF Range
  <2> QED
    BY <1>6, <2>1
<1>8. n * PageSize \in Nat /\ CeilDiv(n * PageSize) <= Len(d.pages[s]) + Len(ps)
  BY <1>2, <1>5, <1>6, CeilDivFacts
<1> HIDE DEF s, d, ps
<1>9. Consistent(PushPages(d, s, ps, n * PageSize))
  BY <1>3, <1>5, <1>6, <1>7, <1>8, PushPagesConsistent
<1>10. SharePages(c, i, donor, n) = PushPages(d, s, ps, n * PageSize)
  BY DEF SharePages, Clear, s, d, ps
<1>11. \A t \in SeqId \ {s} : PushPages(d, s, ps, n * PageSize).pages[t] = c.pages[t]
  BY <1>3, <1>2 DEF PushPages, Repaged, Updated
<1>12. PushPages(d, s, ps, n * PageSize).sequences = c.sequences
  BY <1>3 DEF PushPages, Repaged
<1> QED
  BY <1>9, <1>10, <1>11, <1>12 DEF s

\* A candidate cannot match more than it holds.
LEMMA CommonTokensBound ==
  ASSUME NEW c, c \in CacheType, NEW s \in SeqId, NEW input \in Seq(Token)
  PROVE  CommonTokens(c, s, input) \in Nat /\ CommonTokens(c, s, input) <= c.allocLen[s]
<1> DEFINE history == TokensOf(c, s)
           lens    == {n \in 1..Len(input) : n <= Len(history) /\ \A k \in 1..n : history[k] = input[k]}
<1>1. IsFiniteSet(1..Len(input))
  <2>1. Len(input) \in Int
    OBVIOUS
  <2> QED
    BY <2>1, FS_Interval
<1>2. lens \in SUBSET (1..Len(input)) /\ CommonPrefixLen(history, input) = Cardinality(lens)
  BY DEF CommonPrefixLen
<1> HIDE DEF lens, history
<1>3. CommonPrefixLen(history, input) \in Nat
  BY <1>1, <1>2, FS_Subset, FS_CardinalityType
<1>4. c.allocLen[s] \in Nat
  BY DEF CacheType
<1> QED
  BY <1>3, <1>4 DEF CommonTokens, history

\* Whole pages of tokens divide back into pages.
LEMMA ProductDiv ==
  ASSUME NEW k \in Nat
  PROVE  PageSize * k \in Nat /\ (PageSize * k) \div PageSize = k
  BY PageSizeAssumption

\* A match never claims more than the donor holds.
LEMMA MatchFacts ==
  ASSUME NEW c, Consistent(c), NEW input \in Seq(Token), NEW maxPages \in Nat, NEW allowed,
         NEW m \in BestMatches(c, input, maxPages, allowed)
  PROVE  /\ m.donor \in Live(c) /\ m.donor \in SeqId
         /\ m.len \in Nat
         /\ m.len \div PageSize \in 0..Len(c.pages[m.donor])
         /\ m.resume => m.donor \in allowed /\ m.len < Len(input)
         /\ ~m.resume => m.len <= PageSize * maxPages
<1>1. PICK s \in Candidates(c) : m = Match(c, s, input, maxPages, allowed)
  BY DEF BestMatches
<1>2. c \in CacheType /\ s \in Live(c) /\ s \in SeqId
  BY <1>1 DEF Candidates, Live, Range, Consistent, CacheType
<1> DEFINE common == CommonTokens(c, s, input)
           full   == common \div PageSize
           kept   == IF full < maxPages THEN full ELSE maxPages
           resume == Resumable(c, s, input, allowed)
<1>3. /\ m.donor = s /\ m.resume = resume
      /\ m.len = IF resume THEN common ELSE PageSize * kept
  BY <1>1 DEF Match
<1>4. common \in Nat /\ common <= c.allocLen[s] /\ c.allocLen[s] \in Nat
  BY <1>2, CommonTokensBound DEF CacheType
<1> HIDE DEF common
<1>5. full \in Nat /\ full <= Len(c.pages[s])
  <2>1. full \in Nat /\ full <= c.allocLen[s] \div PageSize /\ c.allocLen[s] \div PageSize \in Nat
    BY <1>4, DivMonotone
  <2>2. c.allocLen[s] \div PageSize <= CeilDiv(c.allocLen[s]) /\ CeilDiv(c.allocLen[s]) \in Nat
    BY <1>4, CeilDivFacts
  <2>3. CeilDiv(c.allocLen[s]) <= Len(c.pages[s]) /\ Len(c.pages[s]) \in Nat
    BY <1>2 DEF Consistent, CacheType
  <2> HIDE DEF full
  <2> QED
    BY <2>1, <2>2, <2>3
<1>6. Len(c.pages[s]) \in Nat
  BY <1>2 DEF CacheType
<1>7. CASE resume
  <2>1. s \in allowed /\ common < Len(input)
    BY <1>7 DEF Resumable, common
  <2> QED
    BY <1>2, <1>3, <1>4, <1>5, <1>6, <1>7, <2>1
<1>8. CASE ~resume
  <2> HIDE DEF full
  <2>1. kept \in Nat /\ kept <= full /\ kept <= maxPages
    BY <1>5
  <2> HIDE DEF kept
  <2>2. PageSize * kept \in Nat /\ (PageSize * kept) \div PageSize = kept
    BY <2>1, ProductDiv
  <2>3. PageSize * kept <= PageSize * maxPages
    BY <2>1, PageSizeAssumption
  <2> QED
    BY <1>2, <1>3, <1>5, <1>6, <1>8, <2>1, <2>2, <2>3
<1> QED
  BY <1>7, <1>8

\* The token at a position of the prompt, or the one given instead.
LEMMA TokenAtType ==
  ASSUME NEW input \in Seq(Token), NEW n \in Nat, NEW otherwise \in Token \cup {None}
  PROVE  TokenAt(input, n, otherwise) \in Token \cup {None}
  BY DEF TokenAt

\* Whatever matchPrefix does to a row, the cache stays consistent.
LEMMA MatchPrefixConsistent ==
  ASSUME NEW c, Consistent(c), NEW i \in DOMAIN c.sequences, NEW input \in Seq(Token),
         NEW maxPages \in Nat, NEW allowed, NEW r \in MatchPrefix(c, i, input, maxPages, allowed)
  PROVE  /\ Consistent(r.cache)
         /\ DOMAIN r.cache.sequences = DOMAIN c.sequences
         /\ r.matched \in Nat
         /\ allowed = {} => r.matched <= PageSize * maxPages
<1> DEFINE s        == c.sequences[i]
           best     == BestMatches(c, input, maxPages, allowed)
           keep(m)  == m.len \div PageSize
           next(m)  == TokenAt(input, m.len, c.target[m.donor])
           base(m)  == IF m.donor = s THEN PopTo(c, s, keep(m)) ELSE SharePages(c, i, m.donor, keep(m))
           taken(m) == IF m.donor = s THEN c ELSE TakeOver(c, i, m.donor)
<1>1. c \in CacheType /\ s \in SeqId /\ s \in Live(c)
  BY DEF Consistent, CacheType, Live, Range
<1>2. CASE best = {}
  <2> DEFINE d == ClearAll(c, {s})
  <2>1. r = [cache |-> SetTarget(d, s, TokenAt(input, 0, None)), matched |-> 0]
    BY <1>2 DEF MatchPrefix, Clear
  <2>2. Consistent(d) /\ d.sequences = c.sequences
    BY <1>1, ClearAllConsistent
  <2>3. TokenAt(input, 0, None) \in Token \cup {None}
    BY TokenAtType
  <2> HIDE DEF d, s
  <2>4. /\ Consistent(SetTarget(d, s, TokenAt(input, 0, None)))
        /\ SetTarget(d, s, TokenAt(input, 0, None)).sequences = d.sequences
    BY <1>1, <2>2, <2>3, SetTargetConsistent
  <2>5. PageSize * maxPages \in Nat
    BY ProductDiv
  <2> QED
    BY <2>1, <2>2, <2>4, <2>5
<1>3. CASE best # {}
  <2>1. PICK m \in best :
          r = [cache   |-> IF m.resume THEN SetTarget(taken(m), m.donor, input[m.len + 1])
                                       ELSE SetTarget(base(m), s, next(m)),
               matched |-> m.len]
    BY <1>3 DEF MatchPrefix
  <2>2. /\ m.donor \in Live(c) /\ m.donor \in SeqId
        /\ m.len \in Nat
        /\ keep(m) \in 0..Len(c.pages[m.donor])
        /\ m.resume => m.donor \in allowed /\ m.len < Len(input)
        /\ ~m.resume => m.len <= PageSize * maxPages
    BY <2>1, MatchFacts
  <2>3. CASE m.resume
    <3>1. Consistent(taken(m)) /\ DOMAIN taken(m).sequences = DOMAIN c.sequences
      BY <2>2, TakeOverConsistent
    <3>2. input[m.len + 1] \in Token
      BY <2>2, <2>3
    <3> HIDE DEF taken
    <3>3. /\ Consistent(SetTarget(taken(m), m.donor, input[m.len + 1]))
          /\ SetTarget(taken(m), m.donor, input[m.len + 1]).sequences = taken(m).sequences
      BY <2>2, <3>1, <3>2, SetTargetConsistent
    <3> QED
      BY <2>1, <2>2, <2>3, <3>1, <3>3
  <2>4. CASE ~m.resume
    <3>1. next(m) \in Token \cup {None}
      BY <1>1, <2>2, TokenAtType DEF CacheType
    <3>2. Consistent(base(m)) /\ base(m).sequences = c.sequences
      <4>1. CASE m.donor = s
        <5>1. keep(m) \in 0..Len(c.pages[s])
          BY <2>2, <4>1
        <5> HIDE DEF keep, s
        <5>2. Consistent(PopTo(c, s, keep(m))) /\ PopTo(c, s, keep(m)).sequences = c.sequences
          BY <1>1, <5>1, PopToConsistent
        <5> QED
          BY <4>1, <5>2
      <4>2. CASE m.donor # s
        <5>1. /\ Consistent(SharePages(c, i, m.donor, keep(m)))
              /\ SharePages(c, i, m.donor, keep(m)).sequences = c.sequences
          BY <2>2, <4>2, SharePagesConsistent
        <5> HIDE DEF keep, s
        <5> QED
          BY <4>2, <5>1
      <4> QED
        BY <4>1, <4>2
    <3> HIDE DEF base, next, s
    <3>3. /\ Consistent(SetTarget(base(m), s, next(m)))
          /\ SetTarget(base(m), s, next(m)).sequences = base(m).sequences
      BY <1>1, <3>1, <3>2, SetTargetConsistent
    <3> QED
      BY <2>1, <2>2, <2>4, <3>2, <3>3
  <2> QED
    BY <2>3, <2>4
<1> QED
  BY <1>2, <1>3

-----------------------------------------------------------------------------
(* Every operation preserves the invariant                               *)

\* What a step on a row of the batch starts from.
LEMMA RowFacts ==
  ASSUME Consistent(cache), NEW i \in Rows
  PROVE  /\ cache \in CacheType
         /\ Row(i) \in SeqId /\ Row(i) \in Range(cache.sequences) /\ Row(i) \in Live(cache)
         /\ cache.pages[Row(i)] \in Seq(Page)
         /\ AllocLen(Row(i)) \in Nat
         /\ CeilDiv(AllocLen(Row(i))) <= Len(cache.pages[Row(i)])
<1>1. cache \in CacheType
  BY DEF Consistent
<1>2. Row(i) \in SeqId /\ Row(i) \in Range(cache.sequences)
  BY <1>1 DEF Rows, Row, CacheType, Range
<1> QED
  BY <1>1, <1>2 DEF Consistent, CacheType, Live, AllocLen

\* reset keeps the invariant.
LEMMA ResetPreserves ==
  ASSUME Inv, NEW n \in 0..MaxBatch, Reset_(n)
  PROVE  Inv'
<1>1. PICK rows \in [1..n -> SeqId \ cache.staging] : IsInjective(rows) /\ cache' = Reset(cache, rows)
  BY DEF Reset_
<1>2. ResetAllowed(cache) /\ Consistent(cache) /\ failed' = FALSE
  BY DEF Reset_, Inv
<1>3. rows \in Seq(SeqId) /\ Range(rows) \cap cache.staging = {}
  <2>1. n \in Nat
    BY MaxBatchAssumption
  <2> QED
    BY <1>1, <2>1 DEF Range
<1>4. Consistent(Reset(cache, rows))
  BY <1>1, <1>2, <1>3, ResetConsistent
<1> QED
  BY <1>1, <1>2, <1>4 DEF Inv

\* prefixMatch keeps the invariant.
LEMMA PrefixMatchPreserves ==
  ASSUME Inv, NEW i \in Rows, NEW input \in Prompts, NEW allowed, PrefixMatch_(i, input, allowed)
  PROVE  Inv'
<1>1. PICK m \in PrefixMatch(cache, i, input, allowed) : cache' = m.cache
  BY DEF PrefixMatch_
<1>2. input \in Seq(Token) /\ input # <<>>
  BY InputAssumption
<1>3. PromptPages(input) \in Nat
  <2>1. Len(input) - 1 \in Nat
    BY <1>2
  <2> QED
    BY <1>2, <2>1, DivMonotone DEF PromptPages
<1>4. m \in MatchPrefix(cache, i, input, PromptPages(input), allowed)
  BY <1>1 DEF PrefixMatch
<1>5. Consistent(m.cache)
  BY <1>2, <1>3, <1>4, MatchPrefixConsistent DEF Inv, Rows
<1> QED
  BY <1>1, <1>5 DEF PrefixMatch_, Inv

\* copyPrefixFrom keeps the invariant, also when it throws half way.
LEMMA CopyPrefixFromPreserves ==
  ASSUME Inv, NEW i \in Rows, NEW history \in Foreign, NEW target \in Pending,
         NEW maxPages \in 0..CeilDiv(MaxLen), CopyPrefixFrom(i, history, target, maxPages)
  PROVE  Inv'
<1> DEFINE whole == Len(history) \div PageSize
           full  == IF whole < maxPages THEN whole ELSE maxPages
<1>1. history \in Seq(Token) /\ target \in Token \cup {None}
  BY InputAssumption
<1>2. maxPages \in Nat /\ whole \in Nat
  <2>1. Len(history) \in Nat
    BY <1>1
  <2> QED
    BY <2>1, DivMonotone, MaxLenAssumption, CeilDivFacts
<1>3. /\ full \in Nat /\ PageSize * full \in Nat
      /\ full * PageSize = PageSize * full /\ full * PageSize <= Len(history)
  <2>1. Len(history) \in Nat
    BY <1>1
  <2>2. PageSize * whole <= Len(history)
    BY <2>1, PageSizeAssumption
  <2>3. full \in Nat /\ full <= whole
    BY <1>2
  <2> HIDE DEF full, whole
  <2>4. PageSize * full \in Nat /\ PageSize * full <= PageSize * whole /\ full * PageSize = PageSize * full
    BY <1>2, <2>3, PageSizeAssumption
  <2>5. PageSize * whole \in Nat
    BY <1>2, PageSizeAssumption
  <2> QED
    BY <2>1, <2>2, <2>3, <2>4, <2>5
<1>4. PICK m \in MatchPrefix(cache, i, history, full, {}) :
        \E c \in Append_(m.cache, m.cache.sequences[i], full * PageSize - m.matched) :
          cache' = IF c.allocLen[m.cache.sequences[i]] = full * PageSize
                   THEN ReportTokens(c, m.cache.sequences[i],
                                     SubSeq(history, m.matched + 1, full * PageSize),
                                     TokenAt(history, full * PageSize, target))
                   ELSE c
  BY DEF CopyPrefixFrom
<1> DEFINE s     == m.cache.sequences[i]
           fresh == full * PageSize - m.matched
           piece == SubSeq(history, m.matched + 1, full * PageSize)
           next  == TokenAt(history, full * PageSize, target)
<1> HIDE DEF full
<1>5. /\ Consistent(m.cache) /\ DOMAIN m.cache.sequences = Rows
      /\ m.matched \in Nat /\ m.matched <= PageSize * full
  BY <1>1, <1>3, <1>4, MatchPrefixConsistent DEF Inv, Rows
<1>6. s \in Range(m.cache.sequences) /\ s \in SeqId
  BY <1>5 DEF Range, Consistent, CacheType
<1>7. fresh \in Nat
  BY <1>3, <1>5
<1>8. piece \in Seq(Token)
  BY <1>1, <1>3, <1>5
<1>9. next \in Token \cup {None}
  BY <1>1, <1>3, TokenAtType
<1>10. PICK c \in Append_(m.cache, s, fresh) :
         cache' = IF c.allocLen[s] = full * PageSize THEN ReportTokens(c, s, piece, next) ELSE c
  BY <1>4
<1> HIDE DEF s, fresh, piece, next
<1>11. Consistent(c)
  BY <1>5, <1>6, <1>7, <1>10, AppendConsistent
<1>12. Consistent(ReportTokens(c, s, piece, next))
  BY <1>6, <1>8, <1>9, <1>11, ReportTokensConsistent
<1> QED
  BY <1>10, <1>11, <1>12 DEF CopyPrefixFrom, Inv

\* copySequence keeps the invariant.
LEMMA CopySequencePreserves ==
  ASSUME Inv, NEW d \in Rows, NEW i \in Rows, CopySequence(d, i)
  PROVE  Inv'
<1> DEFINE src  == Row(i)
           dst  == Row(d)
           len  == AllocLen(src)
           keep == len \div PageSize
           c0   == IF keep = 0 THEN Clear(cache, dst) ELSE SharePages(cache, d, src, keep)
           fill(c) == Repaged(c, c.pages, Updated(c.allocLen, dst, len), c.refs,
                              Updated(c.tokenIds, BoundaryPage(c, dst), c.tokenIds[c.pages[src][keep + 1]]),
                              c.available)
<1>1. /\ Consistent(cache) /\ cache \in CacheType
      /\ src \in SeqId /\ src \in Range(cache.sequences)
      /\ dst \in SeqId /\ dst \in Range(cache.sequences)
      /\ cache.pages[src] \in Seq(Page) /\ len \in Nat /\ CeilDiv(len) <= Len(cache.pages[src])
  BY RowFacts DEF Inv
<1>2. src # dst
  <2>1. d # i
    BY DEF CopySequence
  <2> QED
    BY <2>1, <1>1 DEF Consistent, IsInjective, Rows, Row
<1>3. keep \in Nat /\ keep <= CeilDiv(len) /\ keep \in 0..Len(cache.pages[src])
  <2>1. keep \in Nat
    BY <1>1, DivMonotone
  <2>2. keep <= CeilDiv(len) /\ CeilDiv(len) \in Nat
    BY <1>1, CeilDivFacts
  <2>3. Len(cache.pages[src]) \in Nat
    BY <1>1
  <2> HIDE DEF keep, len, src
  <2> QED
    BY <1>1, <2>1, <2>2, <2>3
<1>4. /\ Consistent(c0) /\ c0.sequences = cache.sequences
      /\ c0.pages[src] = cache.pages[src]
  <2>1. CASE keep = 0
    <3>1. /\ Consistent(ClearAll(cache, {dst}))
          /\ ClearAll(cache, {dst}).sequences = cache.sequences
          /\ ClearAll(cache, {dst}).pages
               = [t \in SeqId |-> IF t \in {dst} THEN <<>> ELSE cache.pages[t]]
      BY <1>1, ClearAllConsistent
    <3> QED
      BY <1>1, <1>2, <2>1, <3>1 DEF Clear
  <2>2. CASE keep # 0
    <3> HIDE DEF keep, src
    <3>1. /\ Consistent(SharePages(cache, d, src, keep))
          /\ SharePages(cache, d, src, keep).sequences = cache.sequences
          /\ \A t \in SeqId \ {cache.sequences[d]} :
               SharePages(cache, d, src, keep).pages[t] = cache.pages[t]
      BY <1>1, <1>2, <1>3, SharePagesConsistent DEF Rows, Row
    <3> QED
      BY <1>1, <1>2, <2>2, <3>1 DEF Row
  <2> QED
    BY <2>1, <2>2
<1>5. /\ CeilDiv(len) \in Nat /\ Len(cache.pages[src]) \in Nat
      /\ CeilDiv(len) <= keep + 1
      /\ len % PageSize # 0 => keep + 1 <= CeilDiv(len)
  <2>1. CeilDiv(len) \in Nat /\ CeilDiv(len) <= keep + 1
    BY <1>1, CeilDivFacts, CeilDivNext
  <2>2. len % PageSize # 0 => keep + 1 <= CeilDiv(len)
    BY <1>1, CeilDivPartial
  <2> QED
    BY <1>1, <2>1, <2>2
<1> HIDE DEF c0, src, dst, len, keep
<1>6. CASE len % PageSize = 0
  <2>1. cache' = SetTarget(c0, dst, cache.target[src])
    BY <1>6 DEF CopySequence, c0, src, dst, len, keep
  <2>2. cache.target[src] \in Token \cup {None}
    BY <1>1 DEF CacheType
  <2>3. Consistent(SetTarget(c0, dst, cache.target[src]))
    BY <1>1, <1>4, <2>2, SetTargetConsistent
  <2> QED
    BY <2>1, <2>3 DEF CopySequence, Inv
<1>7. CASE len % PageSize # 0
  <2>1. PICK c \in Append_(c0, dst, PageSize) :
          cache' = IF Len(c.pages[dst]) > keep
                   THEN SetTarget(fill(c), dst, cache.target[src]) ELSE c
    BY <1>7 DEF CopySequence, c0, src, dst, len, keep
  <2>2. /\ Consistent(c) /\ c.sequences = cache.sequences
        /\ c.pages[src] = cache.pages[src]
    BY <1>1, <1>2, <1>4, <2>1, PageSizeAssumption, AppendConsistent
  <2>3. CASE ~(Len(c.pages[dst]) > keep)
    BY <2>1, <2>2, <2>3 DEF CopySequence, Inv
  <2>4. CASE Len(c.pages[dst]) > keep
    <3>1. c \in CacheType /\ Owned(c.pages, c.refs, c.available)
      BY <2>2 DEF Consistent
    <3> DEFINE allocLen == Updated(c.allocLen, dst, len)
               copied   == c.tokenIds[c.pages[src][keep + 1]]
               tokenIds == Updated(c.tokenIds, BoundaryPage(c, dst), copied)
    <3>3. copied \in Seq(Token)
      <4>1. keep + 1 \in 1..Len(c.pages[src]) /\ c.pages[src] \in Seq(Page)
        BY <1>1, <1>3, <1>5, <1>7, <2>2
      <4>2. c.pages[src][keep + 1] \in Page
        BY <4>1
      <4> QED
        BY <4>2, <3>1 DEF CacheType
    <3> HIDE DEF copied
    <3>4. /\ tokenIds \in [Page -> Seq(Token)] /\ allocLen \in [SeqId -> Nat]
          /\ c.pages \in [SeqId -> Seq(Page)] /\ c.refs \in [Page -> Nat]
          /\ c.available \in SUBSET Page
      BY <1>1, <3>1, <3>3 DEF CacheType, Updated
    <3>5. \A t \in SeqId : CeilDiv(allocLen[t]) <= Len(c.pages[t])
      <4>1. \A t \in SeqId : allocLen[t] = IF t = dst THEN len ELSE c.allocLen[t]
        BY <3>1 DEF CacheType, Updated
      <4>2. Len(c.pages[dst]) \in Nat
        BY <1>1, <3>1 DEF CacheType
      <4>3. CeilDiv(len) <= Len(c.pages[dst])
        BY <1>3, <1>5, <2>4, <4>2
      <4>4. \A t \in SeqId : CeilDiv(c.allocLen[t]) <= Len(c.pages[t])
        BY <2>2 DEF Consistent
      <4> HIDE DEF allocLen
      <4> QED
        BY <4>1, <4>3, <4>4
    <3>6. \A t \in SeqId \ Live(c) : c.pages[t] = <<>>
      BY <2>2 DEF Consistent
    <3> HIDE DEF allocLen, tokenIds
    <3>7. Consistent(Repaged(c, c.pages, allocLen, c.refs, tokenIds, c.available))
      BY <2>2, <3>1, <3>4, <3>5, <3>6, RepagedConsistent
    <3>8. Consistent(fill(c))
      BY <3>7 DEF allocLen, tokenIds, copied
    <3>9. cache.target[src] \in Token \cup {None}
      BY <1>1 DEF CacheType
    <3> HIDE DEF fill
    <3>10. Consistent(SetTarget(fill(c), dst, cache.target[src]))
      BY <1>1, <3>8, <3>9, SetTargetConsistent
    <3> QED
      BY <2>1, <2>4, <3>10 DEF CopySequence, Inv
  <2> QED
    BY <2>3, <2>4
<1> QED
  BY <1>6, <1>7

\* truncate keeps the invariant, also when its copy-on-write evicts or throws.
LEMMA TruncatePreserves ==
  ASSUME Inv, NEW i \in Rows, NEW n \in Nat, Truncate(i, n)
  PROVE  Inv'
<1> DEFINE s   == Row(i)
           c1  == CutTo(cache, s, n)
           old == BoundaryPage(c1, s)
<1>1. /\ Consistent(cache) /\ s \in Live(cache) /\ s \in SeqId /\ s \in Range(cache.sequences)
      /\ n < cache.allocLen[s]
  BY RowFacts DEF Inv, Truncate, AllocLen
<1>2. /\ Consistent(c1) /\ c1.sequences = cache.sequences
      /\ Len(c1.pages[s]) = CeilDiv(n)
  BY <1>1, CutToConsistent
<1>3. failed' \in BOOLEAN
  BY DEF Truncate, Inv
<1>4. CASE n % PageSize = 0
  BY <1>2, <1>3, <1>4 DEF Truncate, Inv
<1>5. CASE n % PageSize # 0
  <2>1. CeilDiv(n) >= 1
    <3>1. n \div PageSize \in Nat /\ n \div PageSize + 1 <= CeilDiv(n) /\ CeilDiv(n) \in Nat
      BY <1>5, DivMonotone, CeilDivPartial, CeilDivFacts
    <3> QED
      BY <3>1
  <2> DEFINE u == c1.pages[s]
  <2>2. u \in Seq(Page) /\ Len(u) >= 1
    BY <1>1, <1>2, <2>1 DEF Consistent, CacheType
  <2>3. u # <<>> /\ u[Len(u)] \in Page
    <3> HIDE DEF u
    <3> QED BY <2>2
  <2>4. old \in Page
    BY <2>3 DEF BoundaryPage, Last
  <2> HIDE DEF c1, s
  <2>5. CASE c1.refs[old] <= 1
    <3>1. cache' = Trim(c1, old, n)
      BY <1>5, <2>5 DEF Truncate, c1, s
    <3>2. Consistent(Trim(c1, old, n))
      BY <1>2, <2>4, TrimConsistent
    <3> QED
      BY <1>3, <3>1, <3>2 DEF Inv
  <2>6. CASE ~(c1.refs[old] <= 1)
    <3>1. PICK c2 \in EnsureAvailable(c1, 1) :
            \/ cache' = c2
            \/ \E q \in c2.available : cache' = Trim(CopyOnWrite(c2, s, q), q, n)
      BY <1>5, <2>6 DEF Truncate, c1, s
    <3>2. /\ Consistent(c2) /\ c2.sequences = cache.sequences
          /\ c2.pages[s] = c1.pages[s]
      BY <1>1, <1>2, <3>1, EnsureAvailableConsistent
    <3>3. ASSUME NEW q \in c2.available
          PROVE  Consistent(Trim(CopyOnWrite(c2, s, q), q, n))
      <4>1. s \in Live(c2) /\ c2.pages[s] # <<>>
        BY <1>1, <2>3, <3>2 DEF Live
      <4>2. Consistent(CopyOnWrite(c2, s, q))
        BY <3>2, <4>1, CopyOnWriteConsistent
      <4>3. q \in Page
        BY <3>2 DEF Consistent, CacheType
      <4> QED
        BY <4>2, <4>3, TrimConsistent
    <3> QED
      BY <1>3, <3>1, <3>2, <3>3 DEF Inv
  <2> QED
    BY <2>5, <2>6
<1> QED
  BY <1>4, <1>5

\* Rewinding a speculative reservation keeps the invariant.
LEMMA RewindPreserves ==
  ASSUME Inv, NEW i \in Rows, RewindReservation(i)
  PROVE  Inv'
<1> DEFINE s == Row(i)
           n == Reported(cache, s)
<1>1. /\ Consistent(cache) /\ cache \in CacheType /\ s \in SeqId
      /\ AllocLen(s) \in Nat /\ CeilDiv(AllocLen(s)) <= Len(cache.pages[s])
      /\ cache.pages[s] \in Seq(Page)
  BY RowFacts DEF Inv
<1>2. n \in Nat /\ n <= AllocLen(s)
  BY <1>1, ReportedType DEF RewindReservation
<1> HIDE DEF n, s
<1>3. CeilDiv(n) <= Len(cache.pages[s])
  <2> DEFINE len == AllocLen(s)
             u   == cache.pages[s]
  <2>1. len \in Nat /\ n <= len /\ u \in Seq(Page) /\ CeilDiv(len) <= Len(u)
    BY <1>1, <1>2
  <2> HIDE DEF len, u
  <2>2. CeilDiv(n) <= CeilDiv(len)
    BY <1>2, <2>1, CeilDivMonotone
  <2>3. CeilDiv(n) \in Nat /\ CeilDiv(len) \in Nat
    BY <1>2, <2>1, CeilDivFacts
  <2>4. CeilDiv(n) <= Len(u)
    BY <2>1, <2>2, <2>3
  <2> QED
    BY <2>4 DEF u
<1>4. Consistent([cache EXCEPT !.allocLen = Updated(cache.allocLen, s, n)])
  BY <1>1, <1>2, <1>3, ReservedConsistent
<1>5. cache' = [cache EXCEPT !.allocLen = Updated(cache.allocLen, s, n)] /\ failed' = failed
  BY DEF RewindReservation, s, n
<1> QED
  BY <1>4, <1>5 DEF Inv

\* An operation on a row of the batch.
RowStep(i) ==
  \/ StageSequence(i)
  \/ RemoveRow(i)
  \/ \E input \in Prompts, allowed \in Permissions : PrefixMatch_(i, input, allowed)
  \/ \E history \in Foreign, target \in Pending, maxPages \in 0..CeilDiv(MaxLen) :
       CopyPrefixFrom(i, history, target, maxPages)
  \/ \E d \in Rows : CopySequence(d, i)
  \/ \E n \in 1..MaxLen : AllocAppendPages(i, n) \/ Truncate(i, MaxLen - n)
  \/ \E tokens \in Chunks, target \in Pending : ReportTokens_(i, tokens, target)
  \/ RewindReservation(i)

\* Every operation on a row keeps the invariant.
LEMMA RowStepPreserves ==
  ASSUME Inv, NEW i \in Rows, RowStep(i)
  PROVE  Inv'
<1>1. Consistent(cache) /\ i \in DOMAIN cache.sequences
  BY DEF Inv, Rows
<1>2. CASE StageSequence(i)
  BY <1>1, <1>2, StageConsistent DEF StageSequence, Inv
<1>3. CASE RemoveRow(i)
  BY <1>1, <1>3, RemoveSequenceConsistent DEF RemoveRow, Inv
<1>4. CASE \E input \in Prompts, allowed \in Permissions : PrefixMatch_(i, input, allowed)
  BY <1>4, PrefixMatchPreserves
<1>5. CASE \E history \in Foreign, target \in Pending, maxPages \in 0..CeilDiv(MaxLen) :
             CopyPrefixFrom(i, history, target, maxPages)
  BY <1>5, CopyPrefixFromPreserves
<1>6. CASE \E d \in Rows : CopySequence(d, i)
  BY <1>6, CopySequencePreserves
<1>7. ASSUME NEW n \in 1..MaxLen, AllocAppendPages(i, n) PROVE Inv'
  <2>1. n \in Nat /\ Row(i) \in Range(cache.sequences)
    BY <1>1, RowFacts, MaxLenAssumption
  <2> QED
    BY <1>1, <1>7, <2>1, AppendConsistent DEF AllocAppendPages, Inv
<1>8. ASSUME NEW n \in 1..MaxLen, Truncate(i, MaxLen - n) PROVE Inv'
  <2>1. MaxLen - n \in Nat
    BY MaxLenAssumption
  <2> QED
    BY <1>8, <2>1, TruncatePreserves
<1>9. ASSUME NEW tokens \in Chunks, NEW target \in Pending, ReportTokens_(i, tokens, target) PROVE Inv'
  <2>1. tokens \in Seq(Token) /\ target \in Token \cup {None} /\ Row(i) \in SeqId
    BY <1>1, RowFacts, InputAssumption
  <2> QED
    BY <1>1, <1>9, <2>1, ReportTokensConsistent DEF ReportTokens_, Inv
<1>10. CASE RewindReservation(i)
  BY <1>10, RewindPreserves
<1> QED
  BY <1>2, <1>3, <1>4, <1>5, <1>6, <1>7, <1>8, <1>9, <1>10 DEF RowStep

\* The empty cache satisfies the invariant.
LEMMA InitEstablishes == Init => Inv
<1> SUFFICES ASSUME Init PROVE Inv
  OBVIOUS
<1>1. cache = EmptyCache /\ failed = FALSE
  BY DEF Init
<1>2. EmptyCache \in CacheType
  BY DEF EmptyCache, CacheType
<1>3. /\ EmptyCache.pages = [s \in SeqId |-> <<>>] /\ EmptyCache.sequences = <<>>
      /\ EmptyCache.staging = {} /\ EmptyCache.refs = [p \in Page |-> 0]
      /\ EmptyCache.available = Page /\ EmptyCache.allocLen = [s \in SeqId |-> 0]
  BY DEF EmptyCache
<1>4. IsInjective(<<>>) /\ Range(<<>>) = {}
  BY DEF IsInjective, Range
<1> HIDE DEF EmptyCache
<1>5. Owned(EmptyCache.pages, EmptyCache.refs, EmptyCache.available)
  <2>1. \A p : {s \in SeqId : p \in Range([t \in SeqId |-> <<>>][s])} = {}
    BY <1>4
  <2> QED
    BY <1>3, <1>4, <2>1, FS_EmptySet DEF Owned
<1>6. \A s \in SeqId : CeilDiv(EmptyCache.allocLen[s]) <= Len(EmptyCache.pages[s])
  <2>1. CeilDiv(0) = 0 /\ Len(<<>>) = 0
    BY CeilDivFacts
  <2> QED
    BY <1>3, <2>1
<1>7. Consistent(EmptyCache)
  BY <1>2, <1>3, <1>4, <1>5, <1>6 DEF Consistent
<1> QED
  BY <1>1, <1>7 DEF Inv

\* Every operation of the cache keeps the invariant.
LEMMA NextPreserves == Inv /\ [Next]_vars => Inv'
<1> SUFFICES ASSUME Inv, [Next]_vars PROVE Inv'
  OBVIOUS
<1>1. CASE UNCHANGED vars
  BY <1>1 DEF vars, Inv
<1>2. ASSUME NEW n \in 0..MaxBatch, Reset_(n) PROVE Inv'
  BY <1>2, ResetPreserves
<1>3. CASE ClearStaging
  BY <1>3, RemoveStagedConsistent DEF ClearStaging, Inv
<1>4. ASSUME NEW s \in cache.staging, UnstageSequence(s) PROVE Inv'
  BY <1>4, UnstageConsistent DEF UnstageSequence, Inv
<1>5. ASSUME NEW s \in cache.staging, RemoveStagedSequence(s) PROVE Inv'
  BY <1>5, RemoveStagedConsistent DEF RemoveStagedSequence, Inv
<1>6. ASSUME NEW i \in Rows, RowStep(i) PROVE Inv'
  BY <1>6, RowStepPreserves
<1> QED
  BY <1>1, <1>2, <1>3, <1>4, <1>5, <1>6 DEF Next, RowStep

\* Inv is inductive: whatever sequence of operations the callers choose, the
\* cache stays consistent.
THEOREM Consistency == Spec => []Inv
<1>1. Init => Inv
  BY InitEstablishes
<1>2. Inv /\ [Next]_vars => Inv'
  BY NextPreserves
<1> QED
  BY <1>1, <1>2, PTL DEF Spec

\* The fields of the cache keep their types, and no counter goes below zero.
THEOREM TypeCorrectness == Spec => []TypeOK
<1>1. Inv => TypeOK
  BY DEF Inv, Consistent, TypeOK
<1> QED
  BY <1>1, Consistency, PTL

\* A Sequence is reachable from one row or from staging, never from two places,
\* so clearing it there cannot pull pages from under a second owner.
THEOREM OneHomeHolds == Spec => []OneHome
<1>1. Inv => OneHome
  BY DEF Inv, Consistent, OneHome
<1> QED
  BY <1>1, Consistency, PTL

\* Only rows and staged Sequences hold pages.
LEMMA HoldersAreLive ==
  ASSUME Consistent(cache), NEW p \in Page
  PROVE  Holders(cache, p) = HoldersIn(cache.pages, p)
<1>1. Live(cache) \subseteq SeqId
  BY DEF Consistent, CacheType, Live, Range
<1>2. \A s \in SeqId \ Live(cache) : Range(cache.pages[s]) = {}
  <2>1. Range(<<>>) = {}
    BY DEF Range
  <2> QED
    BY <2>1 DEF Consistent
<1> QED
  BY <1>1, <1>2 DEF Holders, HoldersIn, PagesOf

\* Page.refs is the number of reachable Sequences that hold the page, for any
\* number of rows, pages and tokens, and with or without page pressure.
THEOREM RefsExactHolds == Spec => []RefsExact
<1>1. Inv => RefsExact
  BY HoldersAreLive DEF Inv, Consistent, Owned, RefsExact, HoldersIn
<1> QED
  BY <1>1, Consistency, PTL

\* availablePages never offers a page that some Sequence still reads.
THEOREM FreePagesUnheldHolds == Spec => []FreePagesUnheld
<1>1. Inv => FreePagesUnheld
  <2> SUFFICES ASSUME Inv, NEW p \in cache.available PROVE Holders(cache, p) = {}
    BY DEF FreePagesUnheld
  <2>1. Consistent(cache) /\ p \in Page
    BY DEF Inv, Consistent, CacheType
  <2>2. \A s \in SeqId : p \notin Range(cache.pages[s])
    BY <2>1, FreePagesFree
  <2> QED
    BY <2>1, <2>2, HoldersAreLive DEF HoldersIn
<1> QED
  BY <1>1, Consistency, PTL

(***************************************************************************)
(* The layout of the paged KV cache: where the pages of a Sequence may be  *)
(* shared, what their tokens say, and what every operation leaves of both. *)
(*                                                                         *)
(* Shape is what holds of every cache state: a page two Sequences hold has *)
(* the same index in both, with the same pages before it, and is full; a   *)
(* page nobody holds is blank.  Settled(c, s) is what the history of one   *)
(* Sequence adds: its pages are full but for the last that holds tokens.   *)
(* LayoutInv is the induction: every Sequence is settled, but for the one  *)
(* row an aborted operation may leave behind (failed).  Each operation is  *)
(* shown to keep Shape, to settle the Sequence it works on and to leave    *)
(* every other one as it was (Frame).  From LayoutInv follow the safety    *)
(* properties of sharing and matching, and from the reference counts the   *)
(* one way in which a page is lost.                                        *)
(***************************************************************************)

\* Part(n, k): how many of n tokens are on the k-th page.
Part(n, k) == IF n <= (k - 1) * PageSize THEN 0
              ELSE IF n >= k * PageSize THEN PageSize
              ELSE n - (k - 1) * PageSize

\* A set of naturals that is not empty has a least member.
LEMMA LeastMember ==
  ASSUME NEW T \in SUBSET Nat, T # {}
  PROVE  \E m \in T : \A n \in T : m <= n
<1>1. PICK m \in T : \A n \in T : ~(<<n, m>> \in OpToRel(<, Nat))
  BY NatLessThanWellFounded, WFMin
<1>2. \A n \in T : ~(n < m)
  <2> SUFFICES ASSUME NEW n \in T, n < m PROVE FALSE
    OBVIOUS
  <2>1. <<n, m>> \in Nat \X Nat /\ n < m
    OBVIOUS
  <2>2. <<n, m>> \in OpToRel(<, Nat)
    BY <2>1 DEF OpToRel
  <2> QED
    BY <1>1, <2>2
<1> QED
  BY <1>2

\* Two functions on 1..n that agree on 1 and agree on each i > 1 when they
\* agree on i - 1 are equal: flatten is what FlattenSeq's equation says.
LEMMA FlattenIs ==
  ASSUME NEW S, NEW u \in Seq(S), u # <<>>,
         NEW f, f = [i \in 1..Len(u) |-> IF i = 1 THEN u[i] ELSE f[i - 1] \o u[i]]
  PROVE  FlattenSeq(u) = f[Len(u)]
<1> DEFINE n == Len(u)
           Rec(g) == [i \in 1..n |-> IF i = 1 THEN u[i] ELSE g[i - 1] \o u[i]]
           flatten == CHOOSE g : g = Rec(g)
<1>1. n \in Nat /\ n >= 1
  OBVIOUS
<1>2. flatten = Rec(flatten)
  <2>1. f = Rec(f)
    OBVIOUS
  <2> HIDE DEF Rec
  <2> QED
    BY <2>1
<1>3. \A i \in 1..n : flatten[i] = IF i = 1 THEN u[i] ELSE flatten[i - 1] \o u[i]
  <2> HIDE DEF flatten
  <2> QED BY <1>2
<1>4. \A i \in 1..n : f[i] = IF i = 1 THEN u[i] ELSE f[i - 1] \o u[i]
  OBVIOUS
<1>5. FlattenSeq(u) = flatten[n]
  BY <1>1 DEF FlattenSeq
<1> HIDE DEF flatten
<1>6. \A i \in 1..n : flatten[i] = f[i]
  <2> DEFINE T == {i \in 1..n : flatten[i] # f[i]}
  <2> SUFFICES ASSUME T # {} PROVE FALSE
    OBVIOUS
  <2>1. T \in SUBSET Nat
    BY <1>1
  <2>2. PICK m \in T : \A i \in T : m <= i
    BY <2>1, LeastMember
  <2>3. m \in 1..n /\ flatten[m] # f[m]
    OBVIOUS
  <2>4. CASE m = 1
    BY <2>3, <2>4, <1>3, <1>4
  <2>5. CASE m # 1
    <3>1. m - 1 \in 1..n /\ ~(m <= m - 1)
      BY <2>3, <2>5, <1>1
    <3>2. flatten[m - 1] = f[m - 1]
      BY <2>2, <3>1
    <3> QED
      BY <2>3, <2>5, <3>2, <1>3, <1>4
  <2> QED
    BY <2>4, <2>5
<1>7. n \in 1..n
  BY <1>1
<1>8. flatten[n] = f[n]
  BY <1>6, <1>7
<1> QED
  BY <1>5, <1>8

-----------------------------------------------------------------------------
(* Positions on pages                                                    *)

\* The position x (from 0) is on one row of one page.
LEMMA PositionRow ==
  ASSUME NEW x \in Nat
  PROVE  \E k \in Nat, r \in 0..(PageSize - 1) :
           k = x \div PageSize /\ r = x % PageSize /\ x = k * PageSize + r
<1>1. x \in Int /\ PageSize \in Int /\ PageSize > 0
  BY PageSizeAssumption
<1>2. PICK k \in Nat : k = x \div PageSize
  BY DivMonotone
<1>3. PICK r \in 0..(PageSize - 1) : r = x % PageSize
  BY <1>1
<1>4. x % PageSize = x - PageSize * (x \div PageSize)
  BY <1>1
<1>5. r = x - PageSize * k
  BY <1>2, <1>3, <1>4, Zenon
<1>6. PageSize * k = k * PageSize /\ k * PageSize \in Int
  BY <1>1
<1>7. x = k * PageSize + r
  BY <1>1, <1>5, <1>6
<1> QED
  BY <1>2, <1>3, <1>7, Zenon

\* A later page starts at or after the end of an earlier one.
LEMMA PagesOrdered ==
  ASSUME NEW j \in Int, NEW k \in Int, j < k
  PROVE  /\ j * PageSize \in Int /\ k * PageSize \in Int
         /\ j * PageSize + PageSize <= k * PageSize
<1>1. PageSize \in Nat /\ k - j - 1 \in Nat
  BY PageSizeAssumption
<1>2. (k - j - 1) * PageSize >= 0
  BY <1>1
<1>3. k * PageSize - j * PageSize - PageSize = (k - j - 1) * PageSize
  BY <1>1
<1>4. j * PageSize \in Int /\ k * PageSize \in Int
  BY <1>1
<1> QED
  BY <1>1, <1>2, <1>3, <1>4

\* Two rows with the same position are one row.
LEMMA RowsApart ==
  ASSUME NEW j \in Int, NEW k \in Int, NEW q \in 1..PageSize, NEW r \in 1..PageSize,
         j * PageSize + q = k * PageSize + r
  PROVE  j = k /\ q = r
<1>1. PageSize \in Nat /\ q \in Int /\ r \in Int /\ q >= 1 /\ r >= 1 /\ q <= PageSize /\ r <= PageSize
      /\ j * PageSize \in Int /\ k * PageSize \in Int
  BY PageSizeAssumption
<1>2. CASE j < k
  <2>1. j * PageSize + PageSize <= k * PageSize
    BY <1>2, PagesOrdered
  <2> QED
    BY <2>1, <1>1
<1>3. CASE k < j
  <2>1. k * PageSize + PageSize <= j * PageSize
    BY <1>3, PagesOrdered
  <2> QED
    BY <2>1, <1>1
<1>4. CASE j = k
  BY <1>4, <1>1
<1> QED
  BY <1>2, <1>3, <1>4

\* The pages before and up to the k-th.
LEMMA PageBounds ==
  ASSUME NEW k \in Nat \ {0}
  PROVE  /\ (k - 1) * PageSize \in Nat /\ k * PageSize \in Nat
         /\ k * PageSize = (k - 1) * PageSize + PageSize
         /\ PageSize \in Nat /\ PageSize >= 1
  BY PageSizeAssumption

\* The tokens of n on the k-th page are those whose position is below n.
LEMMA PartFacts ==
  ASSUME NEW n \in Nat, NEW k \in Nat \ {0}
  PROVE  /\ Part(n, k) \in 0..PageSize
         /\ \A r \in 1..PageSize : r <= Part(n, k) <=> (k - 1) * PageSize + r <= n
         /\ Part(0, k) = 0
<1> DEFINE a == (k - 1) * PageSize
           b == k * PageSize
<1>1. a \in Nat /\ b \in Nat /\ b = a + PageSize /\ PageSize \in Nat
  BY PageBounds
<1>2. \A m \in Nat : Part(m, k) = IF m <= a THEN 0 ELSE IF m >= b THEN PageSize ELSE m - a
  BY DEF Part
<1> HIDE DEF a, b
<1>3. Part(n, k) \in 0..PageSize /\ \A r \in 1..PageSize : r <= Part(n, k) <=> a + r <= n
  BY <1>1, <1>2
<1>4. Part(0, k) = 0
  BY <1>1, <1>2
<1> QED
  BY <1>3, <1>4 DEF a

\* The pages of s hold n tokens: full ones, then at most one in part, then none.
Filled(c, s, n) ==
  /\ n <= Len(c.pages[s]) * PageSize
  /\ \A k \in DOMAIN c.pages[s] : Len(c.tokenIds[c.pages[s][k]]) = Part(n, k)

\* The position before x on the pages of s.
Written(c, s, x) == c.tokenIds[c.pages[s][(x - 1) \div PageSize + 1]][((x - 1) % PageSize) + 1]

\* A position before n is on a page of s, on a row that is written.
LEMMA WrittenFacts ==
  ASSUME NEW c, c \in CacheType, NEW s \in SeqId, NEW n \in Nat, Filled(c, s, n), NEW x \in 1..n
  PROVE  LET k == (x - 1) \div PageSize + 1
             r == ((x - 1) % PageSize) + 1
         IN /\ k \in DOMAIN c.pages[s] /\ k \in Nat \ {0} /\ r \in 1..PageSize
            /\ (k - 1) * PageSize + r = x
            /\ r <= Len(c.tokenIds[c.pages[s][k]])
            /\ Written(c, s, x) \in Token
<1> DEFINE k == (x - 1) \div PageSize + 1
           r == ((x - 1) % PageSize) + 1
           w == (x - 1) \div PageSize
           v == (x - 1) % PageSize
<1>1. x \in Nat /\ x - 1 \in Nat /\ x <= n
  OBVIOUS
<1>2. /\ w \in Nat /\ v \in 0..(PageSize - 1) /\ x - 1 = w * PageSize + v
  <2>1. PICK i \in Nat, j \in 0..(PageSize - 1) :
          i = (x - 1) \div PageSize /\ j = (x - 1) % PageSize /\ x - 1 = i * PageSize + j
    BY <1>1, PositionRow, Zenon
  <2> QED
    BY <2>1, Zenon
<1>3. w * PageSize \in Nat /\ PageSize \in Nat
  BY <1>2, PageSizeAssumption
<1> HIDE DEF w, v
<1>4. k = w + 1 /\ r = v + 1
  BY DEF w, v
<1> HIDE DEF k, r
<1>5. k \in Nat \ {0} /\ k - 1 = w /\ r \in 1..PageSize /\ (k - 1) * PageSize + r = x
  BY <1>1, <1>2, <1>3, <1>4
<1>6. c.pages[s] \in Seq(Page) /\ Len(c.pages[s]) \in Nat /\ DOMAIN c.pages[s] = 1..Len(c.pages[s])
  BY DEF CacheType
<1>7. k <= Len(c.pages[s])
  <2> DEFINE len == Len(c.pages[s])
  <2>1. n <= len * PageSize /\ len \in Nat
    BY <1>6 DEF Filled
  <2> HIDE DEF len
  <2>2. CASE len < k
    <3>1. len <= w /\ len * PageSize \in Int
      BY <2>1, <2>2, <1>4, <1>2, <1>3
    <3>2. len * PageSize <= w * PageSize
      <4>1. CASE len = w
        BY <4>1, <1>3
      <4>2. CASE len < w
        BY <4>2, <2>1, <1>2, <1>3, PagesOrdered
      <4> QED
        BY <4>1, <4>2, <3>1, <2>1, <1>2
    <3> QED
      BY <3>1, <3>2, <2>1, <1>1, <1>2, <1>3
  <2> QED
    BY <2>1, <2>2, <1>5 DEF len
<1>8. k \in DOMAIN c.pages[s]
  BY <1>5, <1>6, <1>7
<1>9. Len(c.tokenIds[c.pages[s][k]]) = Part(n, k)
  BY <1>8 DEF Filled
<1>10. r <= Part(n, k)
  BY <1>1, <1>5, PartFacts
<1>11. c.tokenIds[c.pages[s][k]] \in Seq(Token)
  BY <1>6, <1>8 DEF CacheType
<1>12. c.tokenIds[c.pages[s][k]][r] \in Token
  <2> DEFINE u == c.tokenIds[c.pages[s][k]]
  <2>1. u \in Seq(Token) /\ r \in 1..Len(u)
    BY <1>5, <1>9, <1>10, <1>11
  <2> HIDE DEF u
  <2>2. u[r] \in Token
    BY <2>1
  <2> QED
    BY <2>2 DEF u
<1> QED
  BY <1>5, <1>8, <1>9, <1>10, <1>12 DEF Written, k, r

\* reportedTokenCount counts them.
LEMMA ReportedIs ==
  ASSUME NEW c, c \in CacheType, NEW s \in SeqId, NEW n \in Nat, Filled(c, s, n)
  PROVE  Reported(c, s) = n
<1> DEFINE pages == c.pages[s]
           rows == {row \in (DOMAIN pages) \X (1..PageSize) : row[2] <= Len(c.tokenIds[pages[row[1]]])}
           at == [row \in rows |-> (row[1] - 1) * PageSize + row[2]]
<1>1. DOMAIN pages = 1..Len(pages) /\ Len(pages) \in Nat /\ PageSize \in Nat
  BY PageSizeAssumption DEF CacheType
<1>2. ASSUME NEW row \in rows
      PROVE  /\ row = <<row[1], row[2]>> /\ row[1] \in Nat \ {0} /\ row[2] \in 1..PageSize
             /\ at[row] = (row[1] - 1) * PageSize + row[2]
             /\ at[row] \in 1..n
  <2>1. row[1] \in DOMAIN pages /\ row[2] \in 1..PageSize /\ row = <<row[1], row[2]>>
    OBVIOUS
  <2>2. row[1] \in Nat \ {0}
    BY <2>1, <1>1
  <2>3. row[2] <= Part(n, row[1])
    BY <2>1 DEF Filled
  <2>4. (row[1] - 1) * PageSize + row[2] <= n
    BY <2>1, <2>2, <2>3, PartFacts
  <2>5. (row[1] - 1) * PageSize \in Nat
    BY <2>2, PageBounds
  <2> QED
    BY <2>1, <2>2, <2>4, <2>5, <1>1
<1>3. ASSUME NEW q \in rows, NEW row \in rows, at[q] = at[row]
      PROVE  q = row
  <2> DEFINE qk == q[1]
             k  == row[1]
  <2> HIDE DEF rows, at
  <2>1. /\ qk \in Nat \ {0} /\ k \in Nat \ {0} /\ q[2] \in 1..PageSize /\ row[2] \in 1..PageSize
        /\ q = <<qk, q[2]>> /\ row = <<k, row[2]>>
        /\ (qk - 1) * PageSize + q[2] = (k - 1) * PageSize + row[2]
    BY <1>2, <1>3
  <2> HIDE DEF qk, k
  <2>2. qk - 1 \in Int /\ k - 1 \in Int
    BY <2>1
  <2>3. qk - 1 = k - 1 /\ q[2] = row[2]
    BY <2>1, <2>2, RowsApart
  <2>4. qk = k
    BY <2>1, <2>3
  <2> QED
    BY <2>1, <2>3, <2>4
<1>4. ASSUME NEW x \in 1..n
      PROVE  \E row \in rows : at[row] = x
  <2> DEFINE k == (x - 1) \div PageSize + 1
             r == ((x - 1) % PageSize) + 1
  <2>1. /\ k \in DOMAIN pages /\ r \in 1..PageSize
        /\ (k - 1) * PageSize + r = x
        /\ r <= Len(c.tokenIds[pages[k]])
    BY WrittenFacts
  <2> HIDE DEF k, r
  <2>2. <<k, r>> \in rows /\ at[<<k, r>>] = x
    BY <2>1
  <2> QED
    BY <2>2
<1>5. at \in Bijection(rows, 1..n)
  <2> HIDE DEF rows, at
  <2>1. at \in [rows -> 1..n]
    BY <1>2 DEF at
  <2> QED
    BY <2>1, <1>3, <1>4 DEF Bijection, Injection, Surjection, IsInjective
<1>6. IsFiniteSet(1..n) /\ Cardinality(1..n) = n
  <2>1. IsFiniteSet(1..n) /\ Cardinality(1..n) = IF 1 > n THEN 0 ELSE n - 1 + 1
    BY FS_Interval
  <2> QED
    BY <2>1
<1> HIDE DEF rows, at
<1>7. at \in Injection(rows, 1..n) /\ at \in Surjection(rows, 1..n)
  BY <1>5 DEF Bijection
<1>8. IsFiniteSet(rows) /\ Cardinality(rows) = Cardinality(1..n)
  BY <1>6, <1>7, FS_Injection
<1> QED
  BY <1>6, <1>8 DEF Reported, rows, pages

\* Sequences of one length with the same elements are one sequence.
LEMMA SameSequence ==
  ASSUME NEW S, NEW u \in Seq(S), NEW v \in Seq(S), Len(u) = Len(v),
         \A x \in 1..Len(u) : u[x] = v[x]
  PROVE  u = v
<1>1. DOMAIN u = 1..Len(u) /\ DOMAIN v = 1..Len(v)
  OBVIOUS
<1>2. u = [x \in 1..Len(u) |-> u[x]] /\ v = [x \in 1..Len(v) |-> v[x]]
  OBVIOUS
<1> QED
  BY <1>2

\* The row and the page of a position.
LEMMA PositionIs ==
  ASSUME NEW k \in Nat, NEW r \in 1..PageSize, NEW x, x = k * PageSize + r
  PROVE  (x - 1) \div PageSize + 1 = k + 1 /\ ((x - 1) % PageSize) + 1 = r
<1>1. PICK y \in Nat : y = x - 1
  <2>1. k * PageSize \in Nat
    BY PageSizeAssumption
  <2> QED
    BY <2>1
<1>2. PICK q \in Nat, j \in 0..(PageSize - 1) :
        q = y \div PageSize /\ j = y % PageSize /\ y = q * PageSize + j
  BY PositionRow, Zenon
<1>3. q * PageSize + (j + 1) = k * PageSize + r
  <2>1. q * PageSize \in Int /\ k * PageSize \in Int /\ j \in Int
    BY PageSizeAssumption
  <2> QED
    BY <1>1, <1>2, <2>1
<1>4. j + 1 \in 1..PageSize /\ q \in Int /\ k \in Int
  BY PageSizeAssumption
<1>5. q = k /\ j + 1 = r
  BY <1>3, <1>4, RowsApart
<1>6. y \div PageSize = k /\ (y % PageSize) + 1 = r
  BY <1>2, <1>5, Zenon
<1>7. (x - 1) \div PageSize = k /\ ((x - 1) % PageSize) + 1 = r
  BY <1>1, <1>6, Zenon
<1> QED
  BY <1>7, Zenon

\* getTokenIds reads the pages from the first to the last.
LEMMA TokensIs ==
  ASSUME NEW c, c \in CacheType, NEW s \in SeqId, NEW n \in Nat, Filled(c, s, n)
  PROVE  /\ TokensOf(c, s) = [x \in 1..n |-> Written(c, s, x)]
         /\ TokensOf(c, s) \in Seq(Token) /\ Len(TokensOf(c, s)) = n
<1> DEFINE pages   == c.pages[s]
           len     == Len(pages)
           u       == [k \in 1..len |-> c.tokenIds[pages[k]]]
           upTo(i) == IF n <= i * PageSize THEN n ELSE i * PageSize
           f       == [i \in 1..len |-> [x \in 1..upTo(i) |-> Written(c, s, x)]]
           whole   == [x \in 1..n |-> Written(c, s, x)]
<1>1. len \in Nat /\ DOMAIN pages = 1..len /\ pages \in Seq(Page)
  BY DEF CacheType
<1>2. \A x \in 1..n : Written(c, s, x) \in Token
  BY WrittenFacts
<1>3. whole \in Seq(Token) /\ Len(whole) = n
  BY <1>2
<1>4. u \in Seq(Seq(Token)) /\ Len(u) = len /\ \A k \in 1..len : u[k] = c.tokenIds[pages[k]] /\ u[k] \in Seq(Token)
  <2>1. \A k \in 1..len : pages[k] \in Page
    BY <1>1
  <2>2. \A k \in 1..len : c.tokenIds[pages[k]] \in Seq(Token)
    BY <2>1 DEF CacheType
  <2> HIDE DEF len, pages
  <2> QED
    BY <1>1, <2>2
<1>5. TokensOf(c, s) = FlattenSeq(u)
  BY DEF TokensOf
<1>6. n <= len * PageSize
  BY DEF Filled
<1> HIDE DEF u, len
<1>7. CASE len = 0
  <2>1. n = 0
    <3>1. 0 * PageSize = 0
      BY PageSizeAssumption
    <3> QED
      BY <1>6, <1>7, <3>1
  <2>2. u = <<>> /\ FlattenSeq(<<>>) = <<>>
    BY <1>4, <1>7 DEF FlattenSeq
  <2>3. whole = <<>>
    BY <1>3, <2>1
  <2> QED
    BY <1>3, <1>5, <2>2, <2>3
<1>8. CASE len # 0
  <2>1. ASSUME NEW i \in 1..len
        PROVE  /\ upTo(i) \in 0..n
               /\ f[i] \in Seq(Token) /\ Len(f[i]) = upTo(i)
               /\ \A x \in 1..upTo(i) : f[i][x] = Written(c, s, x)
    <3>1. i \in Nat \ {0}
      BY <1>1
    <3>2. upTo(i) \in 0..n
      BY <3>1, PageBounds
    <3> HIDE DEF upTo
    <3>3. f[i] = [x \in 1..upTo(i) |-> Written(c, s, x)]
      OBVIOUS
    <3> HIDE DEF f
    <3>4. f[i] \in Seq(Token) /\ Len(f[i]) = upTo(i)
      BY <1>2, <3>2, <3>3
    <3> QED
      BY <3>2, <3>3, <3>4
  <2>2. ASSUME NEW i \in 1..len
        PROVE  f[i] = IF i = 1 THEN u[i] ELSE f[i - 1] \o u[i]
    <3> DEFINE a == (i - 1) * PageSize
               b == i * PageSize
               m == IF n <= a THEN n ELSE a
    <3>1. i \in Nat \ {0} /\ i \in Nat /\ i - 1 \in Nat
      BY <1>1
    <3>2. a \in Nat /\ b \in Nat /\ b = a + PageSize /\ PageSize \in Nat /\ PageSize >= 1
      BY <3>1, PageBounds
    <3>3. Len(u[i]) = Part(n, i) /\ u[i] \in Seq(Token)
      BY <1>1, <1>4 DEF Filled
    <3>4. Part(n, i) = IF n <= a THEN 0 ELSE IF n >= b THEN PageSize ELSE n - a
      BY DEF Part
    <3>5. upTo(i) = IF n <= b THEN n ELSE b
      OBVIOUS
    <3> HIDE DEF upTo
    <3>6. i - 1 = 0 => a = 0
      BY <3>1, PageSizeAssumption
    <3> HIDE DEF a, b
    <3>7. Part(n, i) \in Nat /\ m \in Nat /\ m + Part(n, i) = upTo(i) /\ m <= upTo(i) /\ upTo(i) \in Nat
      BY <3>2, <3>4, <3>5
    <3>8. ASSUME NEW r \in 1..Part(n, i)
          PROVE  u[i][r] = Written(c, s, m + r) /\ m + r \in 1..upTo(i)
      <4>1. m = a /\ r \in 1..PageSize /\ a + r = (i - 1) * PageSize + r
        BY <3>2, <3>4, <3>8 DEF a
      <4> DEFINE x == m + r
      <4>2. x = (i - 1) * PageSize + r /\ i - 1 \in Nat
        BY <4>1, <3>1
      <4> HIDE DEF x
      <4>3. (x - 1) \div PageSize + 1 = (i - 1) + 1 /\ ((x - 1) % PageSize) + 1 = r
        <5>1. i - 1 \in Nat /\ r \in 1..PageSize /\ x = (i - 1) * PageSize + r
          BY <4>1, <4>2
        <5> QED
          BY <5>1, PositionIs
      <4>4. (i - 1) + 1 = i
        BY <3>1
      <4>5. Written(c, s, x) = c.tokenIds[pages[i]][r]
        BY <4>3, <4>4, Zenon DEF Written
      <4>6. u[i][r] = c.tokenIds[pages[i]][r]
        BY <1>4
      <4>7. m + r \in 1..upTo(i)
        <5> HIDE DEF m, upTo
        <5> QED
          BY <3>7, <3>8
      <4> QED
        BY <4>5, <4>6, <4>7 DEF x
    <3> HIDE DEF m
    <3>9. /\ f[i] \in Seq(Token) /\ Len(f[i]) = upTo(i)
          /\ \A x \in 1..upTo(i) : f[i][x] = Written(c, s, x)
      BY <2>1
    <3> HIDE DEF f
    <3>10. CASE i = 1
      <4>1. m = 0
        BY <3>2, <3>6, <3>10 DEF m
      <4>2. Part(n, i) = upTo(i)
        BY <3>3, <3>7, <4>1
      <4>3. ASSUME NEW x \in 1..upTo(i) PROVE u[i][x] = f[i][x]
        <5>1. x \in 1..Part(n, i) /\ m + x = x
          BY <3>7, <4>1, <4>2
        <5>2. u[i][x] = Written(c, s, m + x)
          BY <3>8, <5>1
        <5> QED
          BY <3>9, <5>1, <5>2
      <4> HIDE DEF upTo
      <4>4. Len(u[i]) = Len(f[i]) /\ \A x \in 1..Len(u[i]) : u[i][x] = f[i][x]
        BY <3>3, <3>9, <4>2, <4>3
      <4>5. u[i] = f[i]
        BY <3>3, <3>9, <4>4, SameSequence
      <4> QED
        BY <3>10, <4>5
    <3>11. CASE i # 1
      <4>1. i - 1 \in 1..len
        BY <1>1, <3>1, <3>11
      <4>2. /\ f[i - 1] \in Seq(Token) /\ Len(f[i - 1]) = upTo(i - 1)
            /\ \A x \in 1..upTo(i - 1) : f[i - 1][x] = Written(c, s, x)
        BY <4>1, <2>1
      <4>3. upTo(i - 1) = m
        BY DEF upTo, m, a
      <4> DEFINE v == f[i - 1]
                 w == u[i]
      <4>4. v \in Seq(Token) /\ Len(v) = m /\ w \in Seq(Token) /\ Len(w) = Part(n, i)
        BY <3>3, <4>2, <4>3
      <4>5. \A x \in 1..m : v[x] = Written(c, s, x)
        BY <4>2, <4>3
      <4>6. \A r \in 1..Part(n, i) : w[r] = Written(c, s, m + r)
        BY <3>8
      <4> HIDE DEF v, w
      <4>7. v \o w \in Seq(Token) /\ Len(v \o w) = upTo(i)
        BY <3>7, <4>4
      <4>8. ASSUME NEW x \in 1..upTo(i) PROVE (v \o w)[x] = f[i][x]
        <5>1. CASE x <= m
          <6>1. x \in 1..m /\ (v \o w)[x] = v[x]
            BY <5>1, <3>7, <4>4
          <6> QED
            BY <6>1, <4>5, <3>9
        <5>2. CASE x > m
          <6>1. x - m \in 1..Part(n, i) /\ (v \o w)[x] = w[x - m] /\ m + (x - m) = x
            BY <5>2, <3>7, <4>4
          <6> QED
            BY <6>1, <4>6, <3>9
        <5>3. x <= m \/ x > m
          BY <3>7
        <5> QED
          BY <5>1, <5>2, <5>3
      <4>9. v \o w = f[i]
        <5> HIDE DEF upTo
        <5>1. Len(v \o w) = Len(f[i]) /\ \A x \in 1..Len(v \o w) : (v \o w)[x] = f[i][x]
          BY <3>9, <4>7, <4>8
        <5> QED
          BY <3>9, <4>7, <5>1, SameSequence
      <4> QED
        BY <3>11, <4>9 DEF v, w
    <3> QED
      BY <3>10, <3>11
  <2>3. f = [i \in 1..len |-> IF i = 1 THEN u[i] ELSE f[i - 1] \o u[i]]
    <3>1. f = [i \in 1..len |-> f[i]]
      OBVIOUS
    <3> HIDE DEF f
    <3> QED
      BY <2>2, <3>1
  <2>4. f[len] = whole
    <3>1. len \in 1..len
      BY <1>1, <1>8
    <3>2. upTo(len) = n
      BY <1>6
    <3> HIDE DEF upTo
    <3> QED
      BY <3>1, <3>2
  <2> HIDE DEF f
  <2>5. FlattenSeq(u) = f[len]
    <3>1. u # <<>>
      BY <1>1, <1>4, <1>8
    <3>2. f = [i \in 1..Len(u) |-> IF i = 1 THEN u[i] ELSE f[i - 1] \o u[i]]
      BY <1>4, <2>3
    <3>3. FlattenSeq(u) = f[Len(u)]
      BY <1>4, <3>1, <3>2, FlattenIs
    <3> QED
      BY <1>4, <3>3
  <2> QED
    BY <1>3, <1>5, <2>4, <2>5
<1> QED
  BY <1>7, <1>8

-----------------------------------------------------------------------------
(* The layout, and what a step leaves alone                              *)

\* A page held twice is at one index, after the same pages.
Aligned(pages) ==
  \A s, t \in SeqId : \A j \in DOMAIN pages[s], k \in DOMAIN pages[t] :
    pages[s][j] = pages[t][k] => j = k /\ \A m \in 1..j : pages[s][m] = pages[t][m]

\* Free pages hold no tokens.
Blank(c) == \A p \in c.available : c.tokenIds[p] = <<>>

\* A page held twice is full.
SharedFull(c) ==
  \A s, t \in SeqId : \A p \in Range(c.pages[s]) \cap Range(c.pages[t]) :
    s # t => Len(c.tokenIds[p]) = PageSize

\* What holds of every cache, in the middle of an operation too.
Shape(c) == Consistent(c) /\ Aligned(c.pages) /\ Blank(c) /\ SharedFull(c)

\* The history of s is on its first pages and within its reservation.
Settled(c, s) == \E n \in 0..c.allocLen[s] : Filled(c, s, n)

\* u has in d what it had in c.
SameAt(c, d, u) ==
  /\ d.pages[u] = c.pages[u]
  /\ d.allocLen[u] = c.allocLen[u]
  /\ \A p \in Range(c.pages[u]) : d.tokenIds[p] = c.tokenIds[p]

\* Between c and d every Sequence outside S is left alone or emptied.
Frame(c, d, S) == \A u \in SeqId \ S : d.pages[u] = <<>> \/ SameAt(c, d, u)

\* Nobody else holds the j-th page of s.
Alone(d, s, j) == \A u \in SeqId \ {s} : d.pages[s][j] \notin Range(d.pages[u])

\* The first j pages of s in d are those of a Sequence of c.
Follows(c, d, s, j) ==
  \E t \in SeqId : j \in DOMAIN c.pages[t] /\ \A m \in 1..j : d.pages[s][m] = c.pages[t][m]

\* The types of a consistent cache.
LEMMA ConsistentFacts ==
  ASSUME NEW c, Consistent(c)
  PROVE  /\ c \in CacheType
         /\ \A s \in SeqId : /\ c.pages[s] \in Seq(Page) /\ Len(c.pages[s]) \in Nat
                             /\ DOMAIN c.pages[s] = 1..Len(c.pages[s])
                             /\ Range(c.pages[s]) = {c.pages[s][k] : k \in 1..Len(c.pages[s])}
                             /\ Range(c.pages[s]) \subseteq Page
                             /\ IsInjective(c.pages[s]) /\ c.allocLen[s] \in Nat
                             /\ CeilDiv(c.allocLen[s]) <= Len(c.pages[s])
         /\ \A p \in Page : /\ c.tokenIds[p] \in Seq(Token) /\ c.refs[p] \in Nat
                            /\ c.refs[p] = Cardinality(HoldersIn(c.pages, p))
         /\ c.available \subseteq Page
<1>1. c \in CacheType /\ Owned(c.pages, c.refs, c.available)
  BY DEF Consistent
<1>2. ASSUME NEW s \in SeqId
      PROVE  /\ c.pages[s] \in Seq(Page) /\ Len(c.pages[s]) \in Nat
             /\ DOMAIN c.pages[s] = 1..Len(c.pages[s])
             /\ Range(c.pages[s]) = {c.pages[s][k] : k \in 1..Len(c.pages[s])}
             /\ Range(c.pages[s]) \subseteq Page
             /\ IsInjective(c.pages[s]) /\ c.allocLen[s] \in Nat
             /\ CeilDiv(c.allocLen[s]) <= Len(c.pages[s])
  <2>1. c.pages[s] \in Seq(Page) /\ c.allocLen[s] \in Nat
    BY <1>1 DEF CacheType
  <2>2. IsInjective(c.pages[s]) /\ CeilDiv(c.allocLen[s]) <= Len(c.pages[s])
    BY <1>1 DEF Owned, Consistent
  <2> QED
    BY <2>1, <2>2 DEF Range
<1>3. \A p \in Page : c.tokenIds[p] \in Seq(Token) /\ c.refs[p] \in Nat
  BY <1>1 DEF CacheType
<1>4. \A p \in Page : c.refs[p] = Cardinality(HoldersIn(c.pages, p))
  BY <1>1 DEF Owned, HoldersIn
<1>5. c.available \subseteq Page
  BY <1>1 DEF CacheType
<1> QED
  BY <1>1, <1>2, <1>3, <1>4, <1>5

\* What a step after a step leaves alone, both leave alone.
LEMMA FrameTwice ==
  ASSUME NEW b, NEW c, NEW d, NEW S, Frame(b, c, S), Frame(c, d, S)
  PROVE  Frame(b, d, S)
<1> SUFFICES ASSUME NEW u \in SeqId \ S, d.pages[u] # <<>>
             PROVE  SameAt(b, d, u)
  BY DEF Frame
<1>1. SameAt(c, d, u)
  BY DEF Frame
<1>2. c.pages[u] # <<>>
  BY <1>1 DEF SameAt
<1>3. SameAt(b, c, u)
  BY <1>2 DEF Frame
<1> QED
  BY <1>1, <1>3 DEF SameAt

\* Leaving all others alone when S is left alone too.
LEMMA FrameWider ==
  ASSUME NEW c, NEW d, NEW S, NEW T, S \subseteq T, Frame(c, d, S)
  PROVE  Frame(c, d, T)
  BY DEF Frame

\* An empty Sequence is settled.
LEMMA EmptySettled ==
  ASSUME NEW c, Consistent(c), NEW s \in SeqId, c.pages[s] = <<>>
  PROVE  Settled(c, s) /\ Filled(c, s, 0)
<1>1. Len(<<>>) = 0 /\ DOMAIN <<>> = {} /\ 0 * PageSize = 0 /\ 0 <= 0
  BY PageSizeAssumption
<1>2. Filled(c, s, 0)
  BY <1>1 DEF Filled
<1>3. 0 \in 0..c.allocLen[s]
  BY ConsistentFacts
<1> QED
  BY <1>2, <1>3 DEF Settled

\* A Sequence that is left alone stays settled.
LEMMA FrameSettled ==
  ASSUME NEW c, Consistent(c), NEW d, Consistent(d), NEW S, Frame(c, d, S),
         NEW u \in SeqId \ S, Settled(c, u)
  PROVE  Settled(d, u)
<1>1. CASE d.pages[u] = <<>>
  BY <1>1, EmptySettled
<1>2. CASE SameAt(c, d, u)
  <2>1. PICK n \in 0..c.allocLen[u] : Filled(c, u, n)
    BY DEF Settled
  <2>2. \A k \in DOMAIN c.pages[u] : c.pages[u][k] \in Range(c.pages[u])
    BY DEF Range
  <2>3. Filled(d, u, n)
    BY <1>2, <2>1, <2>2 DEF Filled, SameAt
  <2> QED
    BY <1>2, <2>1, <2>3 DEF Settled, SameAt
<1> QED
  BY <1>1, <1>2 DEF Frame

\* A Sequence that is left alone has the same tokens.
LEMMA FrameTokens ==
  ASSUME NEW c, NEW d, NEW S, Frame(c, d, S), NEW u \in SeqId \ S
  PROVE  TokensOf(d, u) = TokensOf(c, u) \/ TokensOf(d, u) = <<>>
<1>1. CASE d.pages[u] = <<>>
  <2>1. [k \in 1..Len(d.pages[u]) |-> d.tokenIds[d.pages[u][k]]] = <<>>
    BY <1>1
  <2>2. FlattenSeq(<<>>) = <<>>
    BY DEF FlattenSeq
  <2> QED
    BY <2>1, <2>2 DEF TokensOf
<1>2. CASE SameAt(c, d, u)
  <2>1. [k \in 1..Len(d.pages[u]) |-> d.tokenIds[d.pages[u][k]]]
          = [k \in 1..Len(c.pages[u]) |-> c.tokenIds[c.pages[u][k]]]
    BY <1>2 DEF SameAt, Range
  <2> QED
    BY <2>1 DEF TokensOf
<1> QED
  BY <1>1, <1>2 DEF Frame

\* A page that s keeps with its tokens is still its own or full.
LEMMA KeptPage ==
  ASSUME NEW c, Shape(c), NEW d, NEW s \in SeqId, Frame(c, d, {s}),
         NEW j, d.pages[s][j] \in Range(c.pages[s]),
         d.tokenIds[d.pages[s][j]] = c.tokenIds[d.pages[s][j]]
  PROVE  Alone(d, s, j) \/ Len(d.tokenIds[d.pages[s][j]]) = PageSize
<1> SUFFICES ASSUME NEW u \in SeqId \ {s}, d.pages[s][j] \in Range(d.pages[u])
             PROVE  Len(d.tokenIds[d.pages[s][j]]) = PageSize
  BY DEF Alone
<1>1. d.pages[u] # <<>>
  BY DEF Range
<1>2. d.pages[u] = c.pages[u]
  BY <1>1 DEF Frame, SameAt
<1> QED
  BY <1>2 DEF Shape, SharedFull

\* The layout survives a step that leaves all but S alone and gives those in S
\* pages of their own, or full pages another Sequence begins with.
LEMMA ShapeKept ==
  ASSUME NEW c, Shape(c), NEW d, Consistent(d), NEW S \in SUBSET SeqId, Frame(c, d, S), Blank(d),
         \A s \in S : \A j \in DOMAIN d.pages[s] :
           \/ Alone(d, s, j)
           \/ Follows(c, d, s, j) /\ Len(d.tokenIds[d.pages[s][j]]) = PageSize
  PROVE  Shape(d)
<1>1. Consistent(c) /\ Aligned(c.pages) /\ SharedFull(c)
  BY DEF Shape
<1>2. ASSUME NEW s \in SeqId, NEW j \in DOMAIN d.pages[s]
      PROVE  Alone(d, s, j) \/ Follows(c, d, s, j)
  <2>1. CASE s \in S
    BY <2>1
  <2>2. CASE s \notin S
    <3>1. d.pages[s] = c.pages[s]
      <4>1. d.pages[s] # <<>>
        OBVIOUS
      <4> QED
        BY <2>2, <4>1 DEF Frame, SameAt
    <3> QED
      BY <3>1 DEF Follows
  <2> QED
    BY <2>1, <2>2
<1>3. Aligned(d.pages)
  <2> SUFFICES ASSUME NEW s \in SeqId, NEW t \in SeqId, s # t,
                      NEW j \in DOMAIN d.pages[s], NEW k \in DOMAIN d.pages[t],
                      d.pages[s][j] = d.pages[t][k]
               PROVE  j = k /\ \A m \in 1..j : d.pages[s][m] = d.pages[t][m]
    <3>1. \A s \in SeqId : IsInjective(d.pages[s])
      BY ConsistentFacts
    <3> QED
      BY <3>1 DEF Aligned, IsInjective
  <2>1. ~Alone(d, s, j) /\ ~Alone(d, t, k)
    BY DEF Alone, Range
  <2>2. PICK v \in SeqId : j \in DOMAIN c.pages[v] /\ \A m \in 1..j : d.pages[s][m] = c.pages[v][m]
    BY <1>2, <2>1 DEF Follows
  <2>3. PICK w \in SeqId : k \in DOMAIN c.pages[w] /\ \A m \in 1..k : d.pages[t][m] = c.pages[w][m]
    BY <1>2, <2>1 DEF Follows
  <2>4. j \in 1..j /\ k \in 1..k
    BY ConsistentFacts
  <2>5. c.pages[v][j] = c.pages[w][k]
    BY <2>2, <2>3, <2>4
  <2>6. j = k /\ \A m \in 1..j : c.pages[v][m] = c.pages[w][m]
    BY <1>1, <2>2, <2>3, <2>5 DEF Aligned
  <2> QED
    BY <2>2, <2>3, <2>6
<1>4. SharedFull(d)
  <2> SUFFICES ASSUME NEW s \in SeqId, NEW t \in SeqId, s # t,
                      NEW p \in Range(d.pages[s]) \cap Range(d.pages[t])
               PROVE  Len(d.tokenIds[p]) = PageSize
    BY DEF SharedFull
  <2>1. PICK j \in DOMAIN d.pages[s], k \in DOMAIN d.pages[t] : p = d.pages[s][j] /\ p = d.pages[t][k]
    BY DEF Range
  <2>2. ~Alone(d, s, j) /\ ~Alone(d, t, k)
    BY <2>1 DEF Alone
  <2>3. CASE s \in S
    BY <2>1, <2>2, <2>3
  <2>4. CASE t \in S
    BY <2>1, <2>2, <2>4
  <2>5. CASE s \notin S /\ t \notin S
    <3>1. d.pages[s] # <<>> /\ d.pages[t] # <<>>
      BY DEF Range
    <3>2. SameAt(c, d, s) /\ SameAt(c, d, t)
      BY <2>5, <3>1 DEF Frame
    <3> QED
      BY <1>1, <3>2 DEF SharedFull, SameAt
  <2> QED
    BY <2>3, <2>4, <2>5
<1> QED
  BY <1>3, <1>4 DEF Shape

\* The layout is about pages, tokens and free pages only.
LEMMA ShapeSame ==
  ASSUME NEW c, Shape(c), NEW d, Consistent(d),
         d.pages = c.pages, d.tokenIds = c.tokenIds, d.available = c.available
  PROVE  Shape(d)
  BY DEF Shape, Aligned, Blank, SharedFull

\* The tokens too.
LEMMA FilledSame ==
  ASSUME NEW c, NEW d, d.pages = c.pages, d.tokenIds = c.tokenIds, NEW s, NEW n, Filled(c, s, n)
  PROVE  Filled(d, s, n)
  BY DEF Filled

\* Nothing changes between a cache and itself.
LEMMA FrameSame ==
  ASSUME NEW c, NEW d, d.pages = c.pages, d.tokenIds = c.tokenIds, d.allocLen = c.allocLen, NEW S
  PROVE  Frame(c, d, S)
  BY DEF Frame, SameAt

\* The smaller of two numbers.
Least(m, n) == IF m <= n THEN m ELSE n

\* Cut to k pages, n tokens keep their places; more pages hold none of them.
LEMMA PartCut ==
  ASSUME NEW n \in Nat, NEW k \in Nat
  PROVE  /\ k * PageSize \in Nat
         /\ \A j \in 1..k : Part(Least(n, k * PageSize), j) = Part(n, j)
         /\ n <= k * PageSize => \A j \in Nat \ {0} : j > k => Part(n, j) = 0
         /\ k * PageSize <= n => \A j \in 1..k : Part(n, j) = PageSize
         /\ n <= k * PageSize => Least(n, k * PageSize) = n
         /\ k * PageSize <= n => Least(n, k * PageSize) = k * PageSize
<1> DEFINE z == k * PageSize
<1>1. z \in Nat /\ PageSize \in Nat
  BY PageSizeAssumption
<1>2. ASSUME NEW j \in 1..k
      PROVE  /\ Part(Least(n, z), j) = Part(n, j)
             /\ z <= n => Part(n, j) = PageSize
  <2> DEFINE a == (j - 1) * PageSize
             b == j * PageSize
  <2>1. j \in Nat \ {0}
    OBVIOUS
  <2>2. a \in Nat /\ b \in Nat /\ b = a + PageSize /\ PageSize >= 1
    BY <2>1, PageBounds
  <2>3. b <= z
    <3>1. CASE j = k
      BY <3>1, <2>2
    <3>2. CASE j < k
      <4>1. b + PageSize <= z
        BY <3>2, PagesOrdered
      <4> QED
        BY <4>1, <2>2, <1>1
    <3> QED
      BY <3>1, <3>2
  <2>4. \A m \in Nat : Part(m, j) = IF m <= a THEN 0 ELSE IF m >= b THEN PageSize ELSE m - a
    BY DEF Part
  <2> HIDE DEF a, b, z
  <2> QED
    BY <1>1, <2>2, <2>3, <2>4 DEF Least
<1>3. ASSUME n <= z, NEW j \in Nat \ {0}, j > k
      PROVE  Part(n, j) = 0
  <2> DEFINE a == (j - 1) * PageSize
  <2>1. z <= a
    <3>1. CASE k = j - 1
      BY <3>1, <1>1
    <3>2. CASE k < j - 1
      <4>1. z + PageSize <= a /\ a \in Int
        BY <3>2, PagesOrdered
      <4> QED
        BY <4>1, <1>1
    <3> QED
      BY <3>1, <3>2, <1>3
  <2>2. a \in Nat
    BY PageBounds
  <2>3. n <= a
    <3> HIDE DEF a, z
    <3> QED
      BY <1>1, <1>3, <2>1, <2>2
  <2> QED
    BY <2>3 DEF Part
<1>4. (n <= z => Least(n, z) = n) /\ (z <= n => Least(n, z) = z)
  <2> HIDE DEF z
  <2> QED
    BY <1>1 DEF Least
<1> QED
  BY <1>1, <1>2, <1>3, <1>4

\* n tokens on pages that are cut to n positions.
LEMMA PartTrim ==
  ASSUME NEW n \in Nat, NEW m \in Nat, NEW k \in Nat, n % PageSize # 0, k = n \div PageSize
  PROVE  /\ \A j \in 1..k : Part(Least(m, n), j) = Part(m, j)
         /\ Part(Least(m, n), k + 1) = Least(Part(m, k + 1), n % PageSize)
         /\ k * PageSize <= n /\ n < (k + 1) * PageSize
         /\ n % PageSize \in 1..PageSize
<1>1. PICK q \in Nat, r \in 0..(PageSize - 1) :
        q = n \div PageSize /\ r = n % PageSize /\ n = q * PageSize + r
  BY PositionRow, Zenon
<1>2. q = k /\ r # 0 /\ n = k * PageSize + r
  BY <1>1, Zenon
<1> DEFINE a == k * PageSize
           b == (k + 1) * PageSize
<1>3. a \in Nat /\ b \in Nat /\ b = a + PageSize /\ PageSize \in Nat
  BY PageSizeAssumption
<1>4. r \in Nat /\ r >= 1 /\ r < PageSize /\ n = a + r
  BY <1>2, PageSizeAssumption
<1>5. ASSUME NEW j \in 1..k PROVE Part(Least(m, n), j) = Part(m, j)
  <2> DEFINE d == (j - 1) * PageSize
             e == j * PageSize
  <2>1. d \in Nat /\ e \in Nat /\ e = d + PageSize /\ PageSize >= 1
    BY PageBounds
  <2>2. e <= a
    <3>1. CASE j = k
      BY <3>1, <2>1
    <3>2. CASE j < k
      <4>1. e + PageSize <= a
        BY <3>2, PagesOrdered
      <4> QED
        BY <4>1, <2>1, <1>3
    <3> QED
      BY <3>1, <3>2
  <2>3. \A i \in Nat : Part(i, j) = IF i <= d THEN 0 ELSE IF i >= e THEN PageSize ELSE i - d
    BY DEF Part
  <2> HIDE DEF a, d, e
  <2> QED
    BY <1>3, <1>4, <2>1, <2>2, <2>3 DEF Least
<1>6. Part(Least(m, n), k + 1) = Least(Part(m, k + 1), r)
  <2>1. \A i \in Nat : Part(i, k + 1) = IF i <= a THEN 0 ELSE IF i >= b THEN PageSize ELSE i - a
    <3>1. (k + 1) - 1 = k
      OBVIOUS
    <3> QED
      BY <3>1 DEF Part
  <2> HIDE DEF a, b
  <2> QED
    BY <1>3, <1>4, <2>1 DEF Least
<1>7. a <= n /\ n < b
  <2> HIDE DEF a, b
  <2> QED
    BY <1>3, <1>4
<1>8. n % PageSize = r
  BY <1>1
<1>9. r \in 1..PageSize
  BY <1>4, <1>3
<1> QED
  BY <1>5, <1>6, <1>7, <1>8, <1>9

\* Positions that need k pages or fewer fit on k pages.
LEMMA CeilDivCovers ==
  ASSUME NEW n \in Nat, NEW k \in Nat, CeilDiv(n) <= k
  PROVE  n <= k * PageSize
<1>1. CASE n % PageSize # 0
  <2>1. PICK q \in Nat : q = n \div PageSize
    BY DivMonotone
  <2>2. q + 1 <= k
    <3>1. q + 1 <= CeilDiv(n) /\ CeilDiv(n) \in Nat
      BY <1>1, <2>1, CeilDivPartial, CeilDivFacts
    <3> QED
      BY <3>1
  <2>3. n < (q + 1) * PageSize
    BY <1>1, <2>1, PartTrim
  <2>4. (q + 1) * PageSize <= k * PageSize /\ (q + 1) * PageSize \in Int /\ k * PageSize \in Int
    <3>1. CASE q + 1 = k
      BY <3>1, PageSizeAssumption
    <3>2. CASE q + 1 < k
      <4>1. (q + 1) * PageSize + PageSize <= k * PageSize /\ (q + 1) * PageSize \in Int /\ k * PageSize \in Int
        BY <3>2, PagesOrdered
      <4> QED
        BY <4>1, PageSizeAssumption
    <3> QED
      BY <3>1, <3>2, <2>2
  <2> QED
    BY <2>3, <2>4
<1>2. CASE n % PageSize = 0
  <2>1. PICK q \in Nat, r \in 0..(PageSize - 1) :
          q = n \div PageSize /\ r = n % PageSize /\ n = q * PageSize + r
    BY PositionRow, Zenon
  <2>2. r = 0
    BY <2>1, <1>2, Zenon
  <2>3. n = q * PageSize
    BY <2>1, <2>2, PageSizeAssumption
  <2>4. CeilDiv(n) = q
    BY <2>3, CeilDivFacts
  <2>5. q <= k
    BY <2>4
  <2> HIDE <2>1
  <2>6. CASE q = k
    BY <2>3, <2>6, PageSizeAssumption
  <2>7. CASE q < k
    <3>1. q * PageSize + PageSize <= k * PageSize /\ q * PageSize \in Int /\ k * PageSize \in Int
      BY <2>7, PagesOrdered
    <3> QED
      BY <3>1, <2>3, PageSizeAssumption
  <2> QED
    BY <2>5, <2>6, <2>7
<1> QED
  BY <1>1, <1>2

\* A page held twice is counted twice.
LEMMA HeldTwice ==
  ASSUME NEW c, Consistent(c), NEW s \in SeqId, NEW t \in SeqId, s # t,
         NEW p \in Range(c.pages[s]) \cap Range(c.pages[t])
  PROVE  p \in Page /\ c.refs[p] \in Nat /\ c.refs[p] >= 2
<1>1. p \in Page
  BY ConsistentFacts
<1>2. {s, t} \subseteq HoldersIn(c.pages, p)
  BY DEF HoldersIn
<1>3. Cardinality({s, t}) = 2
  <2>1. t \notin {s} /\ IsFiniteSet({s}) /\ Cardinality({s}) = 1
    BY FS_Singleton
  <2>2. Cardinality({s} \cup {t}) = 1 + 1
    BY <2>1, FS_AddElement
  <2>3. {s} \cup {t} = {s, t}
    OBVIOUS
  <2> QED
    BY <2>2, <2>3
<1>4. Cardinality({s, t}) <= Cardinality(HoldersIn(c.pages, p)) /\ Cardinality(HoldersIn(c.pages, p)) \in Nat
  BY <1>2, HoldersFinite, FS_Subset
<1> QED
  BY <1>1, <1>3, <1>4, ConsistentFacts

-----------------------------------------------------------------------------
(* Taking and giving up pages                                            *)

\* clear takes nothing from the Sequences it does not clear.
LEMMA ClearAllShape ==
  ASSUME NEW c, Shape(c), NEW S \in SUBSET SeqId
  PROVE  /\ Shape(ClearAll(c, S))
         /\ Frame(c, ClearAll(c, S), {})
         /\ \A s \in S : ClearAll(c, S).pages[s] = <<>> /\ ClearAll(c, S).allocLen[s] = 0
         /\ \A s \in SeqId \ S : SameAt(c, ClearAll(c, S), s)
<1> DEFINE d == ClearAll(c, S)
           gone(p) == {s \in S : p \in PagesOf(c, s)}
           left(p) == c.refs[p] - Cardinality(gone(p))
           freed == {p \in Page : c.refs[p] > 0 /\ left(p) = 0}
<1>1. Consistent(c) /\ Blank(c)
  BY DEF Shape
<1>2. Consistent(d) /\ d.pages = [s \in SeqId |-> IF s \in S THEN <<>> ELSE c.pages[s]]
  BY <1>1, ClearAllConsistent
<1>3. /\ d.allocLen = [s \in SeqId |-> IF s \in S THEN 0 ELSE c.allocLen[s]]
      /\ d.tokenIds = [p \in Page |-> IF p \in freed THEN <<>> ELSE c.tokenIds[p]]
      /\ d.available = c.available \cup freed
  BY DEF ClearAll, Repaged
<1> HIDE DEF d
<1>4. ASSUME NEW s \in SeqId \ S, NEW p \in Range(c.pages[s])
      PROVE  p \in Page /\ p \notin freed
  <2>1. p \in Page /\ c.refs[p] = Cardinality(HoldersIn(c.pages, p))
    BY <1>1, ConsistentFacts
  <2>2. gone(p) \subseteq HoldersIn(c.pages, p) /\ s \in HoldersIn(c.pages, p) /\ s \notin gone(p)
    BY DEF HoldersIn, PagesOf
  <2> HIDE DEF gone
  <2>3. IsFiniteSet(HoldersIn(c.pages, p)) /\ gone(p) # HoldersIn(c.pages, p)
    BY <2>2, HoldersFinite
  <2>4. Cardinality(gone(p)) < Cardinality(HoldersIn(c.pages, p))
        /\ Cardinality(gone(p)) \in Nat /\ Cardinality(HoldersIn(c.pages, p)) \in Nat
    BY <2>2, <2>3, FS_Subset, FS_CardinalityType
  <2>5. left(p) # 0
    BY <2>1, <2>4
  <2> QED
    BY <2>1, <2>5
<1> HIDE DEF freed
<1>5. \A s \in S : d.pages[s] = <<>> /\ d.allocLen[s] = 0
  BY <1>2, <1>3
<1>6. \A s \in SeqId \ S : SameAt(c, d, s)
  BY <1>2, <1>3, <1>4 DEF SameAt
<1>7. Frame(c, d, {})
  BY <1>5, <1>6 DEF Frame
<1>8. Blank(d)
  <2>1. freed \subseteq Page
    BY DEF freed
  <2> HIDE DEF gone, left
  <2> QED
    BY <1>1, <1>3, <2>1, ConsistentFacts DEF Blank
<1>9. Shape(d)
  BY <1>2, <1>7, <1>8, ShapeKept
<1> QED
  BY <1>5, <1>6, <1>7, <1>9 DEF d

\* The pages of s in d are the first ones of t in c, with their tokens.
Begins(c, d, s, t) ==
  \A k \in DOMAIN d.pages[s] :
    /\ k \in DOMAIN c.pages[t] /\ d.pages[s][k] = c.pages[t][k]
    /\ d.tokenIds[c.pages[t][k]] = c.tokenIds[c.pages[t][k]]

\* popPage takes pages from one Sequence, from the end.
LEMMA PopToShape ==
  ASSUME NEW c, Shape(c), NEW s \in Live(c), NEW n \in 0..Len(c.pages[s]), NEW x \in Nat, Filled(c, s, x)
  PROVE  /\ Shape(PopTo(c, s, n))
         /\ Frame(c, PopTo(c, s, n), {s})
         /\ Filled(PopTo(c, s, n), s, Least(x, n * PageSize))
         /\ PopTo(c, s, n).allocLen[s] = Least(c.allocLen[s], n * PageSize)
         /\ Len(PopTo(c, s, n).pages[s]) = n
         /\ \A k \in 1..n : PopTo(c, s, n).pages[s][k] = c.pages[s][k]
         /\ Begins(c, PopTo(c, s, n), s, s)
<1> DEFINE d      == PopTo(c, s, n)
           u      == c.pages[s]
           popped == {c.pages[s][k] : k \in (n + 1)..Len(c.pages[s])}
           freed  == {p \in popped : c.refs[p] = 1}
<1>1. Consistent(c) /\ Blank(c) /\ s \in SeqId
  BY DEF Shape, Live, Consistent, CacheType, Range
<1>2. /\ Consistent(d)
      /\ d.pages = Updated(c.pages, s, SubSeq(c.pages[s], 1, n))
  BY <1>1, PopToConsistent
<1>3. /\ d.allocLen = Updated(c.allocLen, s, Least(c.allocLen[s], n * PageSize))
      /\ d.tokenIds = [p \in Page |-> IF p \in freed THEN <<>> ELSE c.tokenIds[p]]
      /\ d.available = c.available \cup freed
  <2>1. (IF c.allocLen[s] < n * PageSize THEN c.allocLen[s] ELSE n * PageSize) = Least(c.allocLen[s], n * PageSize)
    <3>1. c.allocLen[s] \in Nat /\ n * PageSize \in Nat
      BY <1>1, ConsistentFacts, PartCut
    <3> DEFINE z == n * PageSize
    <3> HIDE DEF z
    <3> QED
      BY <3>1 DEF Least, z
  <2> QED
    BY <2>1 DEF PopTo, Repaged
<1> HIDE DEF d
<1>4. c.pages \in [SeqId -> Seq(Page)] /\ c.allocLen \in [SeqId -> Nat]
  BY <1>1, ConsistentFacts DEF CacheType
<1>5. u \in Seq(Page) /\ IsInjective(u) /\ Len(u) \in Nat /\ DOMAIN u = 1..Len(u) /\ Range(u) \subseteq Page
  BY <1>1, ConsistentFacts
<1>6. /\ d.pages[s] = SubSeq(u, 1, n) /\ Len(d.pages[s]) = n /\ DOMAIN d.pages[s] = 1..n
      /\ \A k \in 1..n : d.pages[s][k] = u[k] /\ k \in DOMAIN u
  BY <1>1, <1>2, <1>4, <1>5 DEF Updated
<1>7. \A t \in SeqId \ {s} : d.pages[t] = c.pages[t] /\ d.allocLen[t] = c.allocLen[t]
  BY <1>2, <1>3, <1>4 DEF Updated
<1>8. ASSUME NEW p \in popped PROVE p \in Range(u) /\ p \in Page /\ \A k \in 1..n : u[k] # p
  BY <1>5 DEF Range, IsInjective
<1>9. ASSUME NEW t \in SeqId \ {s}, NEW p \in Range(c.pages[t])
      PROVE  d.tokenIds[p] = c.tokenIds[p]
  <2>1. p \in Page
    BY <1>1, ConsistentFacts
  <2>2. p \notin freed
    <3> SUFFICES ASSUME p \in freed PROVE FALSE
      OBVIOUS
    <3>1. p \in Range(u) /\ c.refs[p] = 1
      BY <1>8
    <3> QED
      BY <1>1, <3>1, HeldTwice
  <2> QED
    BY <1>3, <2>1, <2>2
<1>10. Frame(c, d, {s})
  BY <1>7, <1>9 DEF Frame, SameAt
<1>11. ASSUME NEW k \in 1..n PROVE d.tokenIds[u[k]] = c.tokenIds[u[k]] /\ u[k] \in Range(u)
  <2>1. u[k] \in Range(u) /\ u[k] \in Page
    BY <1>5, <1>6 DEF Range
  <2>2. u[k] \notin freed
    BY <1>8
  <2> QED
    BY <1>3, <2>1, <2>2
<1> HIDE DEF freed, popped
<1>12. Blank(d)
  <2>1. \A p \in freed : p \in Page
    BY <1>8 DEF freed
  <2> QED
    BY <1>1, <1>3, <2>1, ConsistentFacts DEF Blank
<1>13. Shape(d)
  <2> SUFFICES ASSUME NEW j \in DOMAIN d.pages[s]
               PROVE  \/ Alone(d, s, j)
                      \/ Follows(c, d, s, j) /\ Len(d.tokenIds[d.pages[s][j]]) = PageSize
    BY <1>1, <1>2, <1>10, <1>12, ShapeKept
  <2>1. Alone(d, s, j) \/ Len(d.tokenIds[d.pages[s][j]]) = PageSize
    <3>1. j \in 1..n /\ d.pages[s][j] = u[j]
      BY <1>6
    <3>2. d.pages[s][j] \in Range(c.pages[s]) /\ d.tokenIds[d.pages[s][j]] = c.tokenIds[d.pages[s][j]]
      BY <3>1, <1>11
    <3> QED
      BY <1>1, <1>10, <3>2, KeptPage
  <2>2. Follows(c, d, s, j)
    BY <1>1, <1>6 DEF Follows
  <2> QED
    BY <2>1, <2>2
<1>14. Filled(d, s, Least(x, n * PageSize))
  <2>1. /\ n * PageSize \in Nat
        /\ \A k \in 1..n : Part(Least(x, n * PageSize), k) = Part(x, k)
    BY PartCut
  <2>2. Least(x, n * PageSize) <= n * PageSize
    BY <2>1 DEF Least
  <2>3. \A k \in 1..n : Len(d.tokenIds[d.pages[s][k]]) = Part(x, k)
    BY <1>6, <1>11 DEF Filled
  <2> QED
    BY <1>6, <2>1, <2>2, <2>3 DEF Filled
<1>15. d.allocLen[s] = Least(c.allocLen[s], n * PageSize)
  BY <1>1, <1>3, <1>4 DEF Updated
<1>16. Begins(c, d, s, s)
  BY <1>6, <1>11 DEF Begins
<1> QED
  BY <1>6, <1>10, <1>13, <1>14, <1>15, <1>16 DEF d

\* More pages have no fewer rows.
LEMMA RowsGrow ==
  ASSUME NEW j \in Nat, NEW k \in Nat, j <= k
  PROVE  j * PageSize \in Nat /\ k * PageSize \in Nat /\ j * PageSize <= k * PageSize
<1>0. PageSize \in Nat /\ j * PageSize \in Nat /\ k * PageSize \in Nat
  BY PageSizeAssumption
<1>1. CASE j = k
  BY <1>0, <1>1
<1>2. CASE j < k
  <2>1. j * PageSize + PageSize <= k * PageSize
    BY <1>2, PagesOrdered
  <2> QED
    BY <1>0, <2>1
<1> QED
  BY <1>1, <1>2

\* Live Sequences are Sequences.
LEMMA LiveFacts ==
  ASSUME NEW c, Consistent(c)
  PROVE  /\ Live(c) \subseteq SeqId /\ Range(c.sequences) \subseteq Live(c)
         /\ c.staging \subseteq SeqId /\ Range(c.sequences) \cap c.staging = {}
         /\ c.pages \in [SeqId -> Seq(Page)] /\ c.allocLen \in [SeqId -> Nat]
         /\ c.tokenIds \in [Page -> Seq(Token)]
         /\ \A s \in SeqId \ Live(c) : c.pages[s] = <<>>
  BY DEF Consistent, CacheType, Live, Range

\* d is c with room for n more positions of s, behind the pages it had.
Extended(c, d, s, n) ==
  /\ d.sequences = c.sequences
  /\ d.allocLen[s] = c.allocLen[s] + n
  /\ Len(d.pages[s]) = Len(c.pages[s]) + PagesNeeded(c, s, n)
  /\ \A k \in DOMAIN c.pages[s] : d.pages[s][k] = c.pages[s][k]
  /\ d.tokenIds = c.tokenIds
  /\ \A k \in 1..Len(d.pages[s]) : k > Len(c.pages[s]) => Alone(d, s, k)

\* d is c after allocAppendPages for n positions of s, done or refused.
Appended(c, d, s, n) ==
  /\ d.sequences = c.sequences
  /\ \A t \in Range(c.sequences) \ {s} : SameAt(c, d, t)
  /\ \A k \in DOMAIN c.pages[s] : d.pages[s][k] = c.pages[s][k]
  /\ \A k \in 1..Len(d.pages[s]) : k > Len(c.pages[s]) => Alone(d, s, k)
  /\ \/ d.allocLen[s] = c.allocLen[s] /\ d.pages[s] = c.pages[s]
     \/ /\ d.allocLen[s] = c.allocLen[s] + n
        /\ Len(d.pages[s]) = Len(c.pages[s]) + PagesNeeded(c, s, n)

\* allocAppendPages: the new pages are free ones, behind the old.
LEMMA AllocAppendShape ==
  ASSUME NEW c, Shape(c), NEW s \in Range(c.sequences), NEW n \in Nat,
         NEW x \in Nat, Filled(c, s, x), NEW d \in AllocAppend(c, s, n)
  PROVE  Shape(d) /\ Frame(c, d, {s}) /\ Filled(d, s, x) /\ Extended(c, d, s, n)
<1> DEFINE u == c.pages[s]
           v == d.pages[s]
<1>1. Consistent(c) /\ Blank(c) /\ Consistent(d) /\ d.sequences = c.sequences
  BY AllocAppendConsistent DEF Shape
<1>2. s \in SeqId /\ c.pages \in [SeqId -> Seq(Page)] /\ c.allocLen \in [SeqId -> Nat]
  BY <1>1, LiveFacts
<1>3. /\ u \in Seq(Page) /\ Len(u) \in Nat /\ DOMAIN u = 1..Len(u) /\ c.allocLen[s] \in Nat
      /\ \A k \in 1..Len(u) : u[k] \in Range(u)
  BY <1>1, <1>2, ConsistentFacts DEF Range
<1>4. PagesNeeded(c, s, n) \in Nat
  <2>1. CeilDiv(c.allocLen[s] + n) \in Nat
    <3>1. c.allocLen[s] + n \in Nat
      BY <1>3
    <3> QED
      BY <3>1, CeilDivFacts
  <2> QED
    BY <1>3, <2>1 DEF PagesNeeded
<1>5. PICK f \in FreshPages(c, PagesNeeded(c, s, n)) :
        d = PushPages(c, s, f, c.allocLen[s] + n)
  BY DEF AllocAppend
<1>6. f \in [1..PagesNeeded(c, s, n) -> c.available]
  BY <1>5 DEF FreshPages
<1>7. f \in Seq(Page) /\ Len(f) = PagesNeeded(c, s, n) /\ \A k \in 1..Len(f) : f[k] \in c.available
  <2>1. c.available \subseteq Page
    BY <1>1, ConsistentFacts
  <2> QED
    BY <2>1, <1>4, <1>6
<1>8. /\ d.pages = Updated(c.pages, s, u \o f)
      /\ d.allocLen = Updated(c.allocLen, s, c.allocLen[s] + n)
      /\ d.tokenIds = c.tokenIds
      /\ d.available = c.available \ Range(f)
  BY <1>5 DEF PushPages, Repaged
<1>9. v = u \o f /\ d.allocLen[s] = c.allocLen[s] + n
  BY <1>2, <1>8 DEF Updated
<1>10. \A t \in SeqId \ {s} : d.pages[t] = c.pages[t] /\ d.allocLen[t] = c.allocLen[t]
  BY <1>2, <1>8 DEF Updated
<1> HIDE DEF u, v
<1>11. /\ Len(v) = Len(u) + Len(f) /\ DOMAIN v = 1..Len(v) /\ Len(v) \in Nat
       /\ \A k \in 1..Len(u) : v[k] = u[k]
       /\ \A k \in 1..Len(v) : k > Len(u) => v[k] \in c.available
  <2>1. Len(v) = Len(u) + Len(f) /\ DOMAIN v = 1..Len(v) /\ Len(v) \in Nat
        /\ \A k \in 1..Len(u) : v[k] = u[k]
    <3>1. u \in Seq(Page) /\ f \in Seq(Page) /\ Len(u) \in Nat /\ Len(f) \in Nat
      BY <1>3, <1>7, <1>4
    <3>2. v \in Seq(Page) /\ Len(v) = Len(u) + Len(f)
      BY <3>1, <1>9
    <3>3. \A k \in 1..Len(u) : v[k] = u[k]
      BY <3>1, <1>9
    <3> QED
      BY <3>1, <3>2, <3>3
  <2>2. ASSUME NEW k \in 1..Len(v), k > Len(u) PROVE v[k] \in c.available
    <3>1. k - Len(u) \in 1..Len(f) /\ v[k] = f[k - Len(u)]
      BY <1>3, <1>7, <1>9, <2>1, <2>2
    <3> QED
      BY <3>1, <1>7
  <2> QED
    BY <2>1, <2>2
<1>12. Frame(c, d, {s})
  BY <1>8, <1>10 DEF Frame, SameAt
<1>13. Blank(d)
  BY <1>1, <1>8 DEF Blank
<1>14. Shape(d)
  <2> SUFFICES ASSUME NEW j \in 1..Len(v)
               PROVE  \/ Alone(d, s, j)
                      \/ Follows(c, d, s, j) /\ Len(d.tokenIds[v[j]]) = PageSize
    BY <1>1, <1>2, <1>11, <1>12, <1>13, ShapeKept DEF v
  <2>1. CASE j <= Len(u)
    <3>1. j \in 1..Len(u) /\ v[j] = u[j]
      BY <2>1, <1>3, <1>11
    <3>2. v[j] \in Range(u) /\ d.tokenIds[v[j]] = c.tokenIds[v[j]]
      BY <3>1, <1>3, <1>8
    <3>3. Alone(d, s, j) \/ Len(d.tokenIds[v[j]]) = PageSize
      BY <1>2, <1>12, <3>2, KeptPage DEF u, v
    <3>4. Follows(c, d, s, j)
      BY <1>2, <1>3, <1>11, <3>1 DEF Follows, u, v
    <3> QED
      BY <3>3, <3>4
  <2>2. CASE j > Len(u)
    <3>1. v[j] \in c.available
      BY <2>2, <1>11
    <3>2. Alone(d, s, j)
      BY <1>1, <1>10, <3>1, FreePagesFree DEF Alone, v
    <3> QED
      BY <3>2
  <2> QED
    BY <2>1, <2>2, <1>3
<1>15. Filled(d, s, x)
  <2>1. x <= Len(u) * PageSize /\ \A k \in 1..Len(u) : Len(c.tokenIds[u[k]]) = Part(x, k)
    BY <1>3 DEF Filled, u
  <2>2. x <= Len(v) * PageSize
    <3>1. Len(u) * PageSize \in Nat /\ Len(v) * PageSize \in Nat /\ Len(u) * PageSize <= Len(v) * PageSize
      <4>1. Len(u) <= Len(v)
        BY <1>3, <1>7, <1>11
      <4> QED
        BY <4>1, <1>3, <1>11, RowsGrow
    <3> DEFINE y == Len(u) * PageSize
               z == Len(v) * PageSize
    <3> HIDE DEF y, z
    <3> QED
      BY <2>1, <3>1 DEF y, z
  <2>3. ASSUME NEW k \in 1..Len(v) PROVE Len(d.tokenIds[v[k]]) = Part(x, k)
    <3>1. CASE k <= Len(u)
      BY <3>1, <2>1, <1>3, <1>8, <1>11
    <3>2. CASE k > Len(u)
      <4>1. v[k] \in c.available
        BY <3>2, <1>11
      <4>2. Len(d.tokenIds[v[k]]) = 0
        BY <1>1, <1>8, <4>1 DEF Blank
      <4>3. Part(x, k) = 0
        <5>1. k \in Nat \ {0}
          OBVIOUS
        <5> QED
          BY <2>1, <3>2, <1>3, <5>1, PartCut
      <4> QED
        BY <4>2, <4>3
    <3> QED
      BY <3>1, <3>2, <1>3
  <2> QED
    BY <2>2, <2>3, <1>11 DEF Filled, v
<1>16. Len(v) = Len(u) + PagesNeeded(c, s, n)
  BY <1>7, <1>11
<1>17. \A k \in 1..Len(v) : k > Len(u) => Alone(d, s, k)
  <2> SUFFICES ASSUME NEW k \in 1..Len(v), k > Len(u) PROVE Alone(d, s, k)
    OBVIOUS
  <2>1. v[k] \in c.available
    BY <1>11
  <2> QED
    BY <1>1, <1>10, <2>1, FreePagesFree DEF Alone, v
<1> QED
  BY <1>1, <1>3, <1>8, <1>9, <1>11, <1>12, <1>14, <1>15, <1>16, <1>17 DEF Extended, u, v

\* Dropping staged Sequences leaves the rows alone.
LEMMA RemoveStagedShape ==
  ASSUME NEW c, Shape(c), NEW S \in SUBSET c.staging
  PROVE  /\ Shape(RemoveStaged(c, S)) /\ RemoveStaged(c, S).sequences = c.sequences
         /\ Frame(c, RemoveStaged(c, S), {})
         /\ \A t \in Range(c.sequences) : SameAt(c, RemoveStaged(c, S), t)
<1> DEFINE d == ClearAll(c, S)
           e == RemoveStaged(c, S)
<1>1. Consistent(c) /\ S \in SUBSET SeqId
  BY LiveFacts DEF Shape
<1>2. /\ Shape(d) /\ Frame(c, d, {})
      /\ \A s \in SeqId \ S : SameAt(c, d, s)
  BY <1>1, ClearAllShape
<1>3. Consistent(e) /\ e.sequences = c.sequences
  BY <1>1, RemoveStagedConsistent
<1> HIDE DEF d
<1>4. e.pages = d.pages /\ e.allocLen = d.allocLen /\ e.tokenIds = d.tokenIds /\ e.available = d.available
  BY DEF RemoveStaged, Rehomed, d
<1> HIDE DEF e
<1>5. Shape(e)
  BY <1>2, <1>3, <1>4, ShapeSame
<1>6. Frame(c, e, {}) /\ \A s \in SeqId \ S : SameAt(c, e, s)
  BY <1>2, <1>4 DEF Frame, SameAt
<1>7. Range(c.sequences) \subseteq SeqId \ S
  BY <1>1, LiveFacts
<1> QED
  BY <1>3, <1>5, <1>6, <1>7 DEF e

\* So does the callback of ensureAvailablePages.
LEMMA EnsureAvailableShape ==
  ASSUME NEW c, Shape(c), NEW n, NEW d \in EnsureAvailable(c, n)
  PROVE  /\ Shape(d) /\ d.sequences = c.sequences
         /\ Frame(c, d, {})
         /\ \A t \in Range(c.sequences) : SameAt(c, d, t)
<1>1. CASE d = c
  BY <1>1 DEF Frame, SameAt
<1>2. CASE \E S \in SUBSET c.staging : d = RemoveStaged(c, S)
  BY <1>2, RemoveStagedShape
<1> QED
  BY <1>1, <1>2 DEF EnsureAvailable

\* A Sequence that is left alone is filled as before.
LEMMA SameFilled ==
  ASSUME NEW c, NEW d, NEW s, SameAt(c, d, s), NEW x, Filled(c, s, x)
  PROVE  Filled(d, s, x)
<1>1. \A k \in DOMAIN c.pages[s] : c.pages[s][k] \in Range(c.pages[s])
  BY DEF Range
<1> QED
  BY <1>1 DEF Filled, SameAt

\* allocAppendPages, with the callback and the refusal.
LEMMA AppendShape ==
  ASSUME NEW c, Shape(c), NEW s \in Range(c.sequences), NEW n \in Nat,
         NEW x \in Nat, Filled(c, s, x), NEW d \in Append_(c, s, n)
  PROVE  Shape(d) /\ Frame(c, d, {s}) /\ Filled(d, s, x) /\ Appended(c, d, s, n)
<1>1. PICK e \in EnsureAvailable(c, PagesNeeded(c, s, n)) : d = e \/ d \in AllocAppend(e, s, n)
  BY DEF Append_
<1>2. /\ Shape(e) /\ e.sequences = c.sequences /\ Frame(c, e, {})
      /\ \A t \in Range(c.sequences) : SameAt(c, e, t)
  BY <1>1, EnsureAvailableShape
<1>3. Frame(c, e, {s}) /\ Filled(e, s, x) /\ SameAt(c, e, s)
  BY <1>2, FrameWider, SameFilled
<1>4. CASE d = e
  <2>1. \A k \in 1..Len(d.pages[s]) : ~(k > Len(c.pages[s]))
    <3>1. d.pages[s] = c.pages[s] /\ Len(c.pages[s]) \in Nat
      <4>1. Consistent(c) /\ s \in SeqId
        BY LiveFacts DEF Shape
      <4> QED
        BY <4>1, <1>3, <1>4, ConsistentFacts DEF SameAt
    <3> QED
      BY <3>1
  <2> QED
    BY <1>2, <1>3, <1>4, <2>1 DEF SameAt, Appended
<1>5. CASE d \in AllocAppend(e, s, n)
  <2>1. /\ Shape(d) /\ d.sequences = e.sequences
        /\ Frame(e, d, {s})
        /\ Filled(d, s, x)
        /\ d.allocLen[s] = e.allocLen[s] + n
        /\ Len(d.pages[s]) = Len(e.pages[s]) + PagesNeeded(e, s, n)
        /\ \A k \in DOMAIN e.pages[s] : d.pages[s][k] = e.pages[s][k]
        /\ d.tokenIds = e.tokenIds
        /\ \A k \in 1..Len(d.pages[s]) : k > Len(e.pages[s]) => Alone(d, s, k)
    <3>1. s \in Range(e.sequences) /\ Shape(e) /\ Filled(e, s, x) /\ d \in AllocAppend(e, s, n)
      BY <1>2, <1>3, <1>5
    <3> HIDE <1>5
    <3>2. Shape(d) /\ Frame(e, d, {s}) /\ Filled(d, s, x) /\ Extended(e, d, s, n)
      BY <3>1, AllocAppendShape
    <3> QED
      BY <3>2 DEF Extended
  <2>2. Frame(c, d, {s})
    BY <1>3, <2>1, FrameTwice
  <2>3. \A t \in Range(c.sequences) \ {s} : SameAt(c, d, t)
    <3>1. Consistent(e) /\ Consistent(c)
      BY <1>2 DEF Shape
    <3>2. \A t \in SeqId \ {s} : d.pages[t] = e.pages[t] /\ d.allocLen[t] = e.allocLen[t]
      <4>1. PICK f \in FreshPages(e, PagesNeeded(e, s, n)) : d = PushPages(e, s, f, e.allocLen[s] + n)
        BY <1>5 DEF AllocAppend
      <4>2. d.pages = Updated(e.pages, s, e.pages[s] \o f) /\ d.allocLen = Updated(e.allocLen, s, e.allocLen[s] + n)
        BY <4>1 DEF PushPages, Repaged
      <4>3. e.pages \in [SeqId -> Seq(Page)] /\ e.allocLen \in [SeqId -> Nat]
        BY <3>1, LiveFacts
      <4> QED
        BY <4>2, <4>3 DEF Updated
    <3>3. Range(c.sequences) \subseteq SeqId
      BY <3>1, LiveFacts
    <3> QED
      BY <1>2, <2>1, <3>2, <3>3 DEF SameAt
  <2>4. PagesNeeded(e, s, n) = PagesNeeded(c, s, n)
    BY <1>3 DEF PagesNeeded, SameAt
  <2> QED
    BY <1>2, <1>3, <2>1, <2>2, <2>3, <2>4 DEF SameAt, Appended
<1> QED
  BY <1>1, <1>4, <1>5

\* The row of donor's first n pages.
LEMMA SharePagesShape ==
  ASSUME NEW c, Shape(c), NEW i \in DOMAIN c.sequences,
         NEW donor \in SeqId, donor # c.sequences[i],
         NEW x \in Nat, Filled(c, donor, x),
         NEW n \in 0..Len(c.pages[donor]), n * PageSize <= x
  PROVE  /\ Shape(SharePages(c, i, donor, n))
         /\ Frame(c, SharePages(c, i, donor, n), {c.sequences[i]})
         /\ Filled(SharePages(c, i, donor, n), c.sequences[i], n * PageSize)
         /\ SharePages(c, i, donor, n).allocLen[c.sequences[i]] = n * PageSize
         /\ Len(SharePages(c, i, donor, n).pages[c.sequences[i]]) = n
         /\ SharePages(c, i, donor, n).sequences = c.sequences
         /\ \A t \in SeqId \ {c.sequences[i]} : SameAt(c, SharePages(c, i, donor, n), t)
         /\ Begins(c, SharePages(c, i, donor, n), c.sequences[i], donor)
<1> DEFINE s  == c.sequences[i]
           b  == Clear(c, s)
           d  == SharePages(c, i, donor, n)
           w  == c.pages[donor]
           ps == SubSeq(w, 1, n)
<1>1. Consistent(c) /\ Consistent(d) /\ d.sequences = c.sequences
  BY SharePagesConsistent DEF Shape
<1>2. s \in SeqId
  BY <1>1, LiveFacts DEF Range
<1>3. /\ Shape(b) /\ b.pages[s] = <<>>
      /\ \A t \in SeqId \ {s} : SameAt(c, b, t)
  <2>1. {s} \in SUBSET SeqId /\ s \in {s} /\ b = ClearAll(c, {s})
    BY <1>2 DEF Clear
  <2> HIDE DEF b, s
  <2> QED
    BY <2>1, ClearAllShape
<1>4. Consistent(b) /\ Blank(b) /\ b.pages \in [SeqId -> Seq(Page)] /\ b.allocLen \in [SeqId -> Nat]
  BY <1>3, LiveFacts DEF Shape
<1>5. d = PushPages(b, s, ps, n * PageSize)
  BY DEF SharePages
<1>6. w \in Seq(Page) /\ Len(w) \in Nat /\ DOMAIN w = 1..Len(w) /\ n \in Nat
  BY <1>1, ConsistentFacts
<1>7. ps \in Seq(Page) /\ Len(ps) = n /\ DOMAIN ps = 1..n /\ \A k \in 1..n : ps[k] = w[k] /\ k \in DOMAIN w
  BY <1>6
<1> HIDE DEF s, b, d
<1>8. /\ d.pages = Updated(b.pages, s, b.pages[s] \o ps)
      /\ d.allocLen = Updated(b.allocLen, s, n * PageSize)
      /\ d.tokenIds = b.tokenIds
      /\ d.available = b.available \ Range(ps)
  BY <1>5 DEF PushPages, Repaged
<1>9. d.pages[s] = <<>> \o ps /\ d.allocLen[s] = n * PageSize
  BY <1>2, <1>3, <1>4, <1>8 DEF Updated
<1>10. d.pages[s] = ps
  <2> HIDE DEF ps
  <2> QED
    BY <1>7, <1>9
<1>11. \A t \in SeqId \ {s} : d.pages[t] = b.pages[t] /\ d.allocLen[t] = b.allocLen[t]
  BY <1>4, <1>8 DEF Updated
<1>12. \A t \in SeqId \ {s} : SameAt(c, d, t)
  BY <1>3, <1>8, <1>11 DEF SameAt
<1>13. Frame(c, d, {s})
  BY <1>12 DEF Frame
<1>14. Blank(d)
  BY <1>4, <1>8 DEF Blank
<1>15. SameAt(c, d, donor) /\ donor # s
  BY <1>12 DEF s
<1>16. ASSUME NEW k \in 1..n PROVE Len(d.tokenIds[ps[k]]) = PageSize
  <2>1. Part(x, k) = PageSize
    BY <1>6, PartCut
  <2>2. Len(c.tokenIds[w[k]]) = PageSize /\ w[k] \in Range(w)
    BY <1>7, <2>1 DEF Filled, Range
  <2> QED
    BY <1>7, <1>15, <2>2 DEF SameAt
<1>17. Shape(d)
  <2> SUFFICES ASSUME NEW j \in 1..n PROVE Follows(c, d, s, j) /\ Len(d.tokenIds[d.pages[s][j]]) = PageSize
    BY <1>1, <1>2, <1>7, <1>10, <1>13, <1>14, ShapeKept
  <2> QED
    BY <1>7, <1>10, <1>16 DEF Follows
<1>18. Filled(d, s, n * PageSize)
  <2>1. /\ n * PageSize \in Nat /\ Least(n * PageSize, n * PageSize) = n * PageSize
        /\ \A k \in 1..n : Part(n * PageSize, k) = PageSize
    <3>1. n * PageSize \in Nat
      BY <1>6, PartCut
    <3> DEFINE z == n * PageSize
    <3>2. z <= z /\ z \in Nat
      BY <3>1
    <3>3. \A k \in 1..n : Part(z, k) = PageSize
      BY <1>6, <3>2, PartCut
    <3> QED
      BY <3>1, <3>3 DEF Least
  <2>2. DOMAIN d.pages[s] = 1..n /\ Len(d.pages[s]) * PageSize = n * PageSize
    BY <1>7, <1>10
  <2>3. \A k \in 1..n : Len(d.tokenIds[d.pages[s][k]]) = PageSize
    BY <1>10, <1>16
  <2> DEFINE z == n * PageSize
  <2> HIDE DEF ps, z
  <2>4. z \in Nat /\ z <= Len(d.pages[s]) * PageSize
    BY <2>1, <2>2 DEF z
  <2>5. \A k \in DOMAIN d.pages[s] : Len(d.tokenIds[d.pages[s][k]]) = Part(z, k)
    BY <2>1, <2>2, <2>3 DEF z
  <2> QED
    BY <2>4, <2>5 DEF Filled, z
<1>19. Begins(c, d, s, donor)
  <2>1. \A k \in 1..n : w[k] \in Range(c.pages[donor])
    BY <1>7 DEF Range
  <2> QED
    BY <2>1, <1>7, <1>10, <1>15 DEF Begins, SameAt
<1> QED
  BY <1>1, <1>7, <1>9, <1>10, <1>12, <1>13, <1>17, <1>18, <1>19 DEF d, s

\* truncate gives up the pages behind position n, and keeps the page n is on.
Cut(c, d, s, n) ==
  /\ d.sequences = c.sequences /\ d.staging = c.staging
  /\ d.allocLen[s] = n
  /\ Len(d.pages[s]) = CeilDiv(n) /\ CeilDiv(n) <= Len(c.pages[s])
  /\ \A k \in 1..CeilDiv(n) : d.pages[s][k] = c.pages[s][k]

\* Cutting a Sequence keeps the shape and settles it.
LEMMA CutToShape ==
  ASSUME NEW c, Shape(c), NEW s \in Live(c), NEW n \in Nat, n < c.allocLen[s],
         NEW x \in Nat, Filled(c, s, x)
  PROVE  /\ Shape(CutTo(c, s, n))
         /\ Frame(c, CutTo(c, s, n), {s})
         /\ Filled(CutTo(c, s, n), s, Least(x, CeilDiv(n) * PageSize))
         /\ Cut(c, CutTo(c, s, n), s, n)
<1> DEFINE m == CeilDiv(n)
           d == PopTo(c, s, m)
           e == [d EXCEPT !.allocLen = Updated(d.allocLen, s, n)]
           f == CutTo(c, s, n)
<1>1. Consistent(c) /\ s \in SeqId
  BY LiveFacts DEF Shape
<1>2. /\ CeilDiv(c.allocLen[s]) <= Len(c.pages[s])
      /\ Len(c.pages[s]) \in Nat /\ c.allocLen[s] \in Nat
  BY <1>1, ConsistentFacts
<1>3. m \in 0..Len(c.pages[s])
  <2>1. m \in Nat /\ CeilDiv(c.allocLen[s]) \in Nat
    BY <1>2, CeilDivFacts
  <2>2. m <= CeilDiv(c.allocLen[s])
    BY <1>2, CeilDivMonotone
  <2> HIDE DEF m
  <2> QED
    BY <1>2, <2>1, <2>2
<1> HIDE DEF m
<1>4. /\ Shape(d) /\ Frame(c, d, {s}) /\ Filled(d, s, Least(x, m * PageSize))
      /\ Len(d.pages[s]) = m /\ \A k \in 1..m : d.pages[s][k] = c.pages[s][k]
  BY <1>3, PopToShape
<1>5. d.sequences = c.sequences /\ d.staging = c.staging
  BY <1>1, <1>3, PopToConsistent
<1>6. Consistent(f) /\ f.allocLen[s] = n
  BY <1>1, CutToConsistent
<1> HIDE DEF d
<1>7. f = SetTarget(e, s, TokenAfter(c, s, n))
  BY DEF CutTo, d, m
<1>8. d \in CacheType /\ d.allocLen \in [SeqId -> Nat]
  BY <1>4 DEF Shape, Consistent, CacheType
<1>9. /\ f.pages = d.pages /\ f.tokenIds = d.tokenIds /\ f.available = d.available
      /\ f.sequences = d.sequences /\ f.staging = d.staging
      /\ f.allocLen = Updated(d.allocLen, s, n)
  BY <1>7, <1>8 DEF SetTarget, CacheType
<1> HIDE DEF e, f
<1>10. Shape(f)
  BY <1>4, <1>6, <1>9, ShapeSame
<1>11. \A t \in SeqId \ {s} : f.allocLen[t] = d.allocLen[t]
  BY <1>8, <1>9 DEF Updated
<1>12. Frame(c, f, {s})
  BY <1>4, <1>9, <1>11 DEF Frame, SameAt
<1>13. Filled(f, s, Least(x, m * PageSize))
  BY <1>4, <1>9, FilledSame
<1>14. Cut(c, f, s, n)
  BY <1>3, <1>4, <1>5, <1>6, <1>9 DEF Cut, m
<1> QED
  BY <1>10, <1>12, <1>13, <1>14 DEF f, m

\* The tokens behind position n of a page that s has to itself.
LEMMA TrimShape ==
  ASSUME NEW c, Shape(c), NEW s \in SeqId, NEW n \in Nat, n % PageSize # 0,
         Len(c.pages[s]) = CeilDiv(n), Alone(c, s, Len(c.pages[s])),
         NEW x \in Nat, Filled(c, s, x)
  PROVE  LET d == Trim(c, BoundaryPage(c, s), n)
         IN /\ Shape(d) /\ Frame(c, d, {s}) /\ Filled(d, s, Least(x, n))
            /\ d.allocLen = c.allocLen /\ d.pages = c.pages
            /\ d.sequences = c.sequences /\ d.staging = c.staging /\ d.available = c.available
<1> DEFINE u == c.pages[s]
           p == BoundaryPage(c, s)
           d == Trim(c, p, n)
           k == n \div PageSize
<1>1. Consistent(c) /\ Blank(c)
  BY DEF Shape
<1>2. /\ u \in Seq(Page) /\ Len(u) \in Nat /\ DOMAIN u = 1..Len(u) /\ IsInjective(u)
      /\ \A j \in 1..Len(u) : u[j] \in Range(u) /\ u[j] \in Page
  BY <1>1, ConsistentFacts DEF Range
<1>3. k \in Nat
  BY DivMonotone
<1>4. Len(u) = k + 1
  <2>1. k + 1 <= CeilDiv(n) /\ CeilDiv(n) <= k + 1
    BY CeilDivPartial, CeilDivNext
  <2> HIDE DEF k
  <2> QED
    BY <1>2, <1>3, <2>1
<1>5. /\ \A j \in 1..k : Part(Least(x, n), j) = Part(x, j)
      /\ Part(Least(x, n), k + 1) = Least(Part(x, k + 1), n % PageSize)
      /\ k * PageSize <= n /\ n < (k + 1) * PageSize
      /\ n % PageSize \in 1..PageSize
  BY <1>3, PartTrim
<1> DEFINE r == n % PageSize
           z == (k + 1) * PageSize
<1> HIDE DEF k
<1>6. p = u[k + 1] /\ k + 1 \in 1..Len(u)
  BY <1>2, <1>3, <1>4 DEF BoundaryPage, Last
<1>7. p \in Page /\ p \in Range(u)
  BY <1>2, <1>6
<1> HIDE DEF p
<1>8. /\ d.pages = c.pages /\ d.allocLen = c.allocLen /\ d.sequences = c.sequences
      /\ d.staging = c.staging /\ d.available = c.available
      /\ d.tokenIds = Updated(c.tokenIds, p, TrimmedTokens(c, p, n))
  <2>1. c \in CacheType
    BY <1>1, ConsistentFacts
  <2> QED
    BY <2>1 DEF Trim, CacheType
<1>9. Consistent(d)
  BY <1>1, <1>7, TrimConsistent
<1>10. c.tokenIds \in [Page -> Seq(Token)]
  BY <1>1, LiveFacts
<1> HIDE DEF d, u
<1>11. \A q \in Page : q # p => d.tokenIds[q] = c.tokenIds[q]
  BY <1>8, <1>10 DEF Updated
<1>12. Len(d.tokenIds[p]) = Least(Len(c.tokenIds[p]), r)
  <2>1. c.tokenIds[p] \in Seq(Token) /\ Len(c.tokenIds[p]) \in Nat /\ r \in Nat
    BY <1>7, <1>10, <1>5
  <2>2. d.tokenIds[p] = SubSeq(c.tokenIds[p], 1, IF r < Len(c.tokenIds[p]) THEN r ELSE Len(c.tokenIds[p]))
    BY <1>7, <1>8, <1>10 DEF Updated, TrimmedTokens
  <2> HIDE DEF r
  <2> QED
    BY <2>1, <2>2 DEF Least
<1>13. ASSUME NEW t \in SeqId \ {s}
       PROVE  p \notin Range(c.pages[t])
  BY <1>4, <1>6 DEF Alone, u
<1>14. ASSUME NEW t \in SeqId \ {s}, NEW q \in Range(c.pages[t])
       PROVE  d.tokenIds[q] = c.tokenIds[q]
  <2>1. q \in Page
    BY <1>1, ConsistentFacts
  <2> QED
    BY <2>1, <1>11, <1>13
<1>15. Frame(c, d, {s})
  BY <1>8, <1>14 DEF Frame, SameAt
<1>16. Blank(d)
  <2>1. p \notin c.available
    BY <1>1, <1>7, FreePagesFree DEF u
  <2>2. c.available \subseteq Page
    BY <1>1, ConsistentFacts
  <2> QED
    BY <1>1, <1>8, <1>11, <2>1, <2>2 DEF Blank
<1>17. \A j \in 1..k : j \in 1..Len(u) /\ u[j] # p
  <2> SUFFICES ASSUME NEW j \in 1..k, u[j] = p PROVE FALSE
    BY <1>3, <1>4
  <2>1. j \in DOMAIN u /\ k + 1 \in DOMAIN u /\ j # k + 1
    BY <1>2, <1>3, <1>4
  <2> QED
    BY <1>2, <1>6, <2>1 DEF IsInjective
<1>18. Shape(d)
  <2> SUFFICES ASSUME NEW j \in 1..Len(u)
               PROVE  \/ Alone(d, s, j)
                      \/ Follows(c, d, s, j) /\ Len(d.tokenIds[d.pages[s][j]]) = PageSize
    BY <1>2, <1>8, <1>9, <1>15, <1>16, ShapeKept DEF u
  <2>1. CASE j = k + 1
    BY <1>4, <1>6, <1>8, <1>13, <2>1 DEF Alone, u
  <2>2. CASE j # k + 1
    <3>1. j \in 1..k
      BY <1>3, <1>4, <2>2
    <3>2. u[j] \in Range(u) /\ d.tokenIds[u[j]] = c.tokenIds[u[j]]
      BY <1>2, <1>11, <1>17, <3>1
    <3>3. Alone(d, s, j) \/ Len(d.tokenIds[d.pages[s][j]]) = PageSize
      BY <1>8, <1>15, <3>2, KeptPage DEF u
    <3>4. Follows(c, d, s, j)
      BY <1>2, <1>8 DEF Follows, u
    <3> QED
      BY <3>3, <3>4
  <2> QED
    BY <2>1, <2>2
<1>19. Filled(d, s, Least(x, n))
  <2>1. \A j \in 1..Len(u) : Len(c.tokenIds[u[j]]) = Part(x, j)
    BY <1>2 DEF Filled, u
  <2>2. ASSUME NEW j \in 1..Len(u) PROVE Len(d.tokenIds[u[j]]) = Part(Least(x, n), j)
    <3>1. CASE j = k + 1
      <4>1. Len(d.tokenIds[u[j]]) = Least(Part(x, j), r)
        BY <2>1, <3>1, <1>6, <1>12
      <4> QED
        BY <4>1, <3>1, <1>5
    <3>2. CASE j # k + 1
      <4>1. j \in 1..k
        BY <1>3, <1>4, <3>2
      <4> QED
        BY <2>1, <4>1, <1>2, <1>5, <1>11, <1>17
    <3> QED
      BY <3>1, <3>2
  <2>3. Least(x, n) <= Len(u) * PageSize
    <3>1. z \in Nat /\ n < z /\ z = Len(u) * PageSize
      BY <1>3, <1>4, <1>5, PageSizeAssumption
    <3> HIDE DEF z
    <3>2. Least(x, n) <= z
      BY <3>1 DEF Least
    <3> QED
      BY <3>1, <3>2
  <2> QED
    BY <2>2, <2>3, <1>2, <1>8 DEF Filled, u
<1> QED
  BY <1>8, <1>15, <1>18, <1>19 DEF d, p

\* d is c with the last page of s, p, replaced by a copy of it in q.
Copied(c, d, s, p, q) ==
  /\ d.allocLen = c.allocLen /\ d.sequences = c.sequences /\ d.staging = c.staging
  /\ Len(d.pages[s]) = Len(c.pages[s]) /\ Len(c.pages[s]) >= 1
  /\ p = c.pages[s][Len(c.pages[s])] /\ BoundaryPage(d, s) = q /\ q # p
  /\ \A k \in 1..Len(c.pages[s]) : k # Len(c.pages[s]) => d.pages[s][k] = c.pages[s][k]
  /\ \A t \in SeqId \ {s} : d.pages[t] = c.pages[t]
  /\ d.available = c.available \ {q}

\* truncate's copy-on-write gives s a page of its own.
LEMMA CopyOnWriteShape ==
  ASSUME NEW c, Shape(c), NEW s \in Live(c), c.pages[s] # <<>>, NEW q \in c.available,
         NEW x \in Nat, Filled(c, s, x)
  PROVE  /\ Shape(CopyOnWrite(c, s, q)) /\ Frame(c, CopyOnWrite(c, s, q), {s})
         /\ Filled(CopyOnWrite(c, s, q), s, x)
         /\ Copied(c, CopyOnWrite(c, s, q), s, BoundaryPage(c, s), q)
         /\ Alone(CopyOnWrite(c, s, q), s, Len(c.pages[s]))
<1> DEFINE u   == c.pages[s]
           old == BoundaryPage(c, s)
           d   == CopyOnWrite(c, s, q)
           v   == d.pages[s]
           n   == Len(u)
<1>1. Consistent(c) /\ Blank(c) /\ Consistent(d) /\ s \in SeqId
  BY LiveFacts, CopyOnWriteConsistent DEF Shape
<1>2. /\ u \in Seq(Page) /\ Len(u) \in Nat /\ DOMAIN u = 1..Len(u) /\ IsInjective(u)
      /\ \A j \in 1..Len(u) : u[j] \in Range(u) /\ u[j] \in Page
      /\ c.pages \in [SeqId -> Seq(Page)] /\ c.tokenIds \in [Page -> Seq(Token)]
  BY <1>1, ConsistentFacts, LiveFacts DEF Range
<1>3. q \in Page /\ \A t \in SeqId : q \notin Range(c.pages[t])
  BY <1>1, ConsistentFacts, FreePagesFree
<1>4. Len(u) >= 1 /\ old = u[n]
  BY <1>2 DEF BoundaryPage, Last
<1> HIDE DEF old
<1>5. /\ d.pages = Updated(c.pages, s, [u EXCEPT ![n] = q])
      /\ d.tokenIds = Updated(c.tokenIds, q, c.tokenIds[old])
      /\ d.allocLen = c.allocLen /\ d.sequences = c.sequences /\ d.staging = c.staging
      /\ d.available = c.available \ {q}
  BY DEF CopyOnWrite, Repaged, old
<1> HIDE DEF d
<1>6. v = [u EXCEPT ![n] = q]
  BY <1>1, <1>2, <1>5 DEF Updated
<1>7. \A t \in SeqId \ {s} : d.pages[t] = c.pages[t]
  BY <1>2, <1>5 DEF Updated
<1> HIDE DEF u, v
<1>8. /\ v \in Seq(Page) /\ Len(v) = n /\ DOMAIN v = 1..n /\ n \in Nat /\ n >= 1
      /\ v[n] = q /\ \A k \in 1..n : k # n => v[k] = u[k]
  BY <1>2, <1>3, <1>4, <1>6
<1> HIDE DEF n
<1>9. old \in Page /\ old \in Range(u) /\ n \in 1..n /\ q # old
  BY <1>1, <1>2, <1>3, <1>4, <1>8 DEF n, u
<1>10. d.tokenIds[q] = c.tokenIds[old] /\ \A p \in Page : p # q => d.tokenIds[p] = c.tokenIds[p]
  BY <1>2, <1>3, <1>5 DEF Updated
<1>11. ASSUME NEW t \in SeqId, NEW p \in Range(c.pages[t]) PROVE p \in Page /\ d.tokenIds[p] = c.tokenIds[p]
  <2>1. p \in Page
    BY <1>1, ConsistentFacts
  <2> QED
    BY <2>1, <1>3, <1>10
<1>12. Frame(c, d, {s})
  BY <1>5, <1>7, <1>11 DEF Frame, SameAt
<1>13. Blank(d)
  <2>1. c.available \subseteq Page
    BY <1>1, ConsistentFacts
  <2> QED
    BY <1>1, <1>5, <1>10, <2>1 DEF Blank
<1>14. Alone(d, s, n)
  BY <1>3, <1>7, <1>8 DEF Alone, v
<1>15. Shape(d)
  <2> SUFFICES ASSUME NEW j \in 1..n
               PROVE  \/ Alone(d, s, j)
                      \/ Follows(c, d, s, j) /\ Len(d.tokenIds[v[j]]) = PageSize
    BY <1>1, <1>8, <1>12, <1>13, ShapeKept DEF v
  <2>1. CASE j = n
    BY <1>14, <2>1
  <2>2. CASE j # n
    <3>1. v[j] = u[j] /\ u[j] \in Range(u)
      BY <1>2, <1>8, <2>2 DEF n
    <3>2. d.tokenIds[v[j]] = c.tokenIds[v[j]]
      BY <1>1, <1>11, <3>1 DEF u
    <3>3. Alone(d, s, j) \/ Len(d.tokenIds[v[j]]) = PageSize
      BY <1>1, <1>12, <3>1, <3>2, KeptPage DEF u, v
    <3>4. Follows(c, d, s, j)
      <4>1. j \in DOMAIN u /\ \A m \in 1..j : v[m] = u[m]
        BY <1>2, <1>8, <2>2 DEF n
      <4> QED
        BY <1>1, <4>1 DEF Follows, u, v
    <3> QED
      BY <3>3, <3>4
  <2> QED
    BY <2>1, <2>2
<1>16. Filled(d, s, x)
  <2>1. x <= Len(u) * PageSize /\ \A j \in 1..n : Len(c.tokenIds[u[j]]) = Part(x, j)
    BY <1>2 DEF Filled, u, n
  <2>2. ASSUME NEW j \in 1..n PROVE Len(d.tokenIds[v[j]]) = Part(x, j)
    <3>1. CASE j = n
      BY <3>1, <2>1, <1>4, <1>8, <1>10
    <3>2. CASE j # n
      BY <3>2, <2>1, <1>1, <1>2, <1>8, <1>11 DEF u, n
    <3> QED
      BY <3>1, <3>2
  <2> QED
    BY <2>1, <2>2, <1>8 DEF Filled, v, n
<1>17. BoundaryPage(d, s) = q
  BY <1>8 DEF BoundaryPage, Last, v
<1>18. Copied(c, d, s, old, q)
  BY <1>4, <1>5, <1>7, <1>8, <1>9, <1>17 DEF Copied, u, v, n
<1> QED
  BY <1>12, <1>14, <1>15, <1>16, <1>18 DEF d, old, n, u

\* The tokens of n more that fall on a page are those that fill it up.
LEMMA PartMore ==
  ASSUME NEW x \in Nat, NEW n \in Nat, NEW k \in Nat \ {0}
  PROVE  LET from == IF (k - 1) * PageSize <= x THEN 1 ELSE (k - 1) * PageSize - x + 1
             to   == IF k * PageSize - x <= n THEN k * PageSize - x ELSE n
         IN /\ from \in Nat \ {0} /\ to \in Int /\ to <= n
            /\ Part(x, k) + (IF from <= to THEN to - from + 1 ELSE 0) = Part(x + n, k)
            /\ Part(x, k) = PageSize => to < from
<1> DEFINE a == (k - 1) * PageSize
           b == k * PageSize
<1>1. a \in Nat /\ b \in Nat /\ b = a + PageSize /\ PageSize \in Nat /\ PageSize >= 1
  BY PageBounds
<1>2. Part(x, k) = IF x <= a THEN 0 ELSE IF x >= b THEN PageSize ELSE x - a
  BY DEF Part
<1> DEFINE y == x + n
<1> HIDE DEF y
<1>3. Part(y, k) = IF y <= a THEN 0 ELSE IF y >= b THEN PageSize ELSE y - a
  BY DEF Part
<1> HIDE DEF a, b
<1> DEFINE from == IF a <= x THEN 1 ELSE a - x + 1
           to   == IF b - x <= n THEN b - x ELSE n
<1>4. /\ from \in Nat \ {0} /\ to \in Int /\ to <= n
      /\ Part(x, k) + (IF from <= to THEN to - from + 1 ELSE 0) = Part(x + n, k)
      /\ Part(x, k) = PageSize => to < from
  BY <1>1, <1>2, <1>3 DEF y
<1> QED
  BY <1>4 DEF a, b

\* Tokens that fall on no row of the page are none.
LEMMA SliceLength ==
  ASSUME NEW tokens \in Seq(Token), NEW i \in Nat \ {0}, NEW j \in Int, j <= Len(tokens)
  PROVE  /\ SubSeq(tokens, i, j) \in Seq(Token)
         /\ Len(SubSeq(tokens, i, j)) = IF i <= j THEN j - i + 1 ELSE 0
  OBVIOUS

\* d is c with x tokens of s reported and a pending token.
LEMMA ReportTokensShape ==
  ASSUME NEW c, Shape(c), NEW s \in SeqId, NEW tokens \in Seq(Token), NEW t \in Token \cup {None},
         NEW x \in Nat, Filled(c, s, x), x + Len(tokens) <= Len(c.pages[s]) * PageSize
  PROVE  LET d == ReportTokens(c, s, tokens, t)
         IN /\ Shape(d) /\ Frame(c, d, {s})
            /\ Filled(d, s, x + Len(tokens))
            /\ d.allocLen = c.allocLen /\ d.pages = c.pages
            /\ d.sequences = c.sequences /\ d.staging = c.staging /\ d.available = c.available
            /\ \A u \in SeqId \ {s} : SameAt(c, d, u)
<1> DEFINE pages    == c.pages[s]
           start    == Reported(c, s)
           from(k)  == IF (k - 1) * PageSize <= start THEN 1 ELSE (k - 1) * PageSize - start + 1
           to(k)    == IF k * PageSize - start <= Len(tokens) THEN k * PageSize - start ELSE Len(tokens)
           index(p) == CHOOSE k \in DOMAIN pages : pages[k] = p
           tokenIds == [p \in Page |->
                          IF p \in Range(pages)
                          THEN c.tokenIds[p] \o SubSeq(tokens, from(index(p)), to(index(p)))
                          ELSE c.tokenIds[p]]
           d        == ReportTokens(c, s, tokens, t)
<1>1. Consistent(c) /\ Blank(c) /\ Consistent(d)
  BY ReportTokensConsistent DEF Shape
<1>2. /\ pages \in Seq(Page) /\ Len(pages) \in Nat /\ DOMAIN pages = 1..Len(pages) /\ IsInjective(pages)
      /\ \A j \in 1..Len(pages) : pages[j] \in Range(pages) /\ pages[j] \in Page
      /\ c.tokenIds \in [Page -> Seq(Token)] /\ c \in CacheType
  BY <1>1, ConsistentFacts, LiveFacts DEF Range
<1>3. start = x
  BY <1>2, ReportedIs
<1>4. d = SetTarget([c EXCEPT !.tokenIds = tokenIds], s, t)
  BY DEF ReportTokens
<1> HIDE DEF tokenIds, d
<1>5. /\ d.pages = c.pages /\ d.allocLen = c.allocLen /\ d.sequences = c.sequences
      /\ d.staging = c.staging /\ d.available = c.available /\ d.tokenIds = tokenIds
  BY <1>2, <1>4 DEF SetTarget, CacheType
<1>6. Len(tokens) \in Nat
  OBVIOUS
<1>7. ASSUME NEW k \in 1..Len(pages)
      PROVE  /\ Len(tokenIds[pages[k]]) = Part(x + Len(tokens), k)
             /\ Len(c.tokenIds[pages[k]]) = PageSize => tokenIds[pages[k]] = c.tokenIds[pages[k]]
  <2> DEFINE slice == SubSeq(tokens, from(k), to(k))
  <2>1. index(pages[k]) = k
    <3>1. \A j \in DOMAIN pages : pages[j] = pages[k] => j = k
      BY <1>2 DEF IsInjective
    <3> QED
      BY <1>2, <3>1
  <2>2. tokenIds[pages[k]] = c.tokenIds[pages[k]] \o slice
    <3> HIDE DEF from, to, index
    <3> QED
      BY <1>2, <2>1 DEF tokenIds
  <2>3. k \in Nat \ {0}
    OBVIOUS
  <2>4. /\ from(k) \in Nat \ {0} /\ to(k) \in Int /\ to(k) <= Len(tokens)
        /\ Part(x, k) + (IF from(k) <= to(k) THEN to(k) - from(k) + 1 ELSE 0) = Part(x + Len(tokens), k)
        /\ Part(x, k) = PageSize => to(k) < from(k)
    BY <1>3, <1>6, <2>3, PartMore
  <2>5. Len(c.tokenIds[pages[k]]) = Part(x, k) /\ c.tokenIds[pages[k]] \in Seq(Token)
    BY <1>2 DEF Filled
  <2> HIDE DEF from, to
  <2>6. slice \in Seq(Token) /\ Len(slice) = IF from(k) <= to(k) THEN to(k) - from(k) + 1 ELSE 0
    BY <2>4, SliceLength
  <2> HIDE DEF slice
  <2>7. Len(tokenIds[pages[k]]) = Part(x + Len(tokens), k)
    <3>1. Len(tokenIds[pages[k]]) = Len(c.tokenIds[pages[k]]) + Len(slice)
      <4> DEFINE v == c.tokenIds[pages[k]]
      <4>1. v \in Seq(Token) /\ slice \in Seq(Token) /\ tokenIds[pages[k]] = v \o slice
        BY <2>2, <2>5, <2>6
      <4> HIDE DEF v
      <4>2. Len(tokenIds[pages[k]]) = Len(v) + Len(slice)
        BY <4>1
      <4> QED
        BY <4>2 DEF v
    <3> QED
      BY <3>1, <2>4, <2>5, <2>6
  <2>8. ASSUME Len(c.tokenIds[pages[k]]) = PageSize PROVE tokenIds[pages[k]] = c.tokenIds[pages[k]]
    <3>1. to(k) < from(k)
      BY <2>4, <2>5, <2>8
    <3>2. Len(slice) = 0
      BY <3>1, <2>4, <2>6
    <3>3. slice = <<>>
      BY <3>2, <2>6
    <3> QED
      BY <3>3, <2>2, <2>5
  <2> QED
    BY <2>7, <2>8
<1> HIDE DEF from, to, index, start
<1>8. \A p \in Page : p \notin Range(pages) => tokenIds[p] = c.tokenIds[p]
  BY DEF tokenIds
<1>9. ASSUME NEW u \in SeqId \ {s}, NEW p \in Range(c.pages[u])
      PROVE  tokenIds[p] = c.tokenIds[p]
  <2>1. p \in Page
    BY <1>1, ConsistentFacts
  <2>2. CASE p \notin Range(pages)
    BY <2>1, <2>2, <1>8
  <2>3. CASE p \in Range(pages)
    <3>1. PICK k \in 1..Len(pages) : p = pages[k]
      BY <2>3, <1>2 DEF Range
    <3>2. Len(c.tokenIds[p]) = PageSize
      BY <2>3 DEF Shape, SharedFull
    <3> QED
      BY <3>1, <3>2, <1>7
  <2> QED
    BY <2>2, <2>3
<1>10. \A u \in SeqId \ {s} : SameAt(c, d, u)
  BY <1>5, <1>9 DEF SameAt
<1>11. Frame(c, d, {s})
  BY <1>10 DEF Frame
<1>12. Blank(d)
  <2>1. \A p \in c.available : p \in Page /\ p \notin Range(pages)
    BY <1>1, FreePagesFree
  <2> QED
    BY <1>1, <1>5, <1>8, <2>1 DEF Blank
<1> HIDE DEF pages
<1>13. Shape(d)
  <2>1. Aligned(d.pages)
    BY <1>5 DEF Shape
  <2>2. SharedFull(d)
    <3> SUFFICES ASSUME NEW u \in SeqId, NEW v \in SeqId, u # v,
                        NEW p \in Range(c.pages[u]) \cap Range(c.pages[v])
                 PROVE  Len(tokenIds[p]) = PageSize
      BY <1>5 DEF SharedFull
    <3>1. Len(c.tokenIds[p]) = PageSize
      BY DEF Shape, SharedFull
    <3>2. u # s \/ v # s
      OBVIOUS
    <3> QED
      BY <1>9, <3>1, <3>2
  <2> QED
    BY <1>1, <1>12, <2>1, <2>2 DEF Shape
<1>14. Filled(d, s, x + Len(tokens))
  BY <1>2, <1>5, <1>7 DEF Filled, pages
<1> QED
  BY <1>5, <1>10, <1>11, <1>13, <1>14 DEF d

-----------------------------------------------------------------------------
(* Prefix matching                                                       *)

\* A bounded set of naturals that is not empty has a greatest member.
LEMMA GreatestMember ==
  ASSUME NEW n \in Nat, NEW T \in SUBSET (0..n), T # {}
  PROVE  \E m \in T : \A k \in T : k <= m
<1> DEFINE D == {n - k : k \in T}
<1>1. D \in SUBSET Nat /\ D # {}
  <2>1. \A k \in T : k \in 0..n /\ n - k \in Nat
    OBVIOUS
  <2> QED
    BY <2>1
<1>2. PICK e \in D : \A j \in D : e <= j
  BY <1>1, LeastMember
<1>3. PICK m \in T : e = n - m
  OBVIOUS
<1>4. ASSUME NEW k \in T PROVE k <= m
  <2>1. k \in Int /\ m \in Int /\ n \in Int
    OBVIOUS
  <2>2. n - m <= n - k
    BY <1>2, <1>3
  <2> HIDE DEF D
  <2> QED
    BY <2>1, <2>2
<1> QED
  BY <1>4

\* longestPrefix counts the tokens up to the first that differs.
LEMMA CommonPrefixIs ==
  ASSUME NEW S, NEW a \in Seq(S), NEW b \in Seq(S)
  PROVE  LET n == CommonPrefixLen(a, b)
         IN /\ n \in Nat /\ n <= Len(a) /\ n <= Len(b)
            /\ \A k \in 1..n : a[k] = b[k]
            /\ \A m \in Nat : m <= Len(a) /\ m <= Len(b) /\ (\A k \in 1..m : a[k] = b[k]) => m <= n
<1> DEFINE Same(m) == m <= Len(a) /\ \A k \in 1..m : a[k] = b[k]
           T    == {m \in 0..Len(b) : Same(m)}
           lens == {m \in 1..Len(b) : Same(m)}
<1>1. Len(a) \in Nat /\ Len(b) \in Nat
  OBVIOUS
<1>2. 0 \in T
  BY <1>1
<1>3. PICK n \in T : \A m \in T : m <= n
  BY <1>1, <1>2, GreatestMember
<1>4. n \in 0..Len(b) /\ Same(n)
  OBVIOUS
<1>5. ASSUME NEW m \in 1..n PROVE m \in lens
  BY <1>1, <1>4, <1>5
<1>6. ASSUME NEW m \in lens PROVE m \in 1..n
  <2>1. m \in T /\ m \in 1..Len(b)
    BY <1>1
  <2> HIDE DEF T, lens
  <2> QED
    BY <1>1, <1>3, <1>4, <2>1
<1> HIDE DEF T
<1>7. lens = 1..n
  <2> HIDE DEF lens
  <2> QED
    BY <1>5, <1>6
<1>8. CommonPrefixLen(a, b) = Cardinality(lens)
  BY DEF CommonPrefixLen
<1> HIDE DEF lens
<1>9. Cardinality(1..n) = n
  <2>1. Cardinality(1..n) = IF 1 > n THEN 0 ELSE n - 1 + 1
    BY <1>4, FS_Interval
  <2> QED
    BY <1>4, <2>1
<1>10. CommonPrefixLen(a, b) = n
  BY <1>7, <1>8, <1>9
<1>11. ASSUME NEW m \in Nat, m <= Len(a), m <= Len(b), \A k \in 1..m : a[k] = b[k]
       PROVE  m <= n
  <2>1. m \in T
    BY <1>1, <1>11 DEF T
  <2> QED
    BY <1>3, <2>1
<1>12. \A m \in Nat : m <= Len(a) /\ m <= Len(b) /\ (\A k \in 1..m : a[k] = b[k]) => m <= n
  BY <1>11
<1>13. n \in Nat /\ n <= Len(a) /\ n <= Len(b) /\ \A k \in 1..n : a[k] = b[k]
  BY <1>1, <1>4
<1> HIDE DEF T
<1> QED
  BY <1>10, <1>12, <1>13, Zenon

\* commonTokens of a Sequence whose history is within its reservation.
LEMMA CommonTokensIs ==
  ASSUME NEW c, Consistent(c), NEW s \in SeqId, NEW x \in 0..c.allocLen[s], Filled(c, s, x),
         NEW input \in Seq(Token)
  PROVE  /\ CommonTokens(c, s, input) = CommonPrefixLen(TokensOf(c, s), input)
         /\ CommonTokens(c, s, input) \in 0..x
<1>1. c \in CacheType /\ c.allocLen[s] \in Nat /\ x \in Nat
  BY ConsistentFacts
<1>2. TokensOf(c, s) \in Seq(Token) /\ Len(TokensOf(c, s)) = x
  BY <1>1, TokensIs
<1> DEFINE n == CommonPrefixLen(TokensOf(c, s), input)
<1>3. n \in Nat /\ n <= x
  BY <1>2, CommonPrefixIs
<1>4. CommonTokens(c, s, input) = IF n < c.allocLen[s] THEN n ELSE c.allocLen[s]
  BY DEF CommonTokens
<1> HIDE DEF n
<1>5. CommonTokens(c, s, input) = n
  BY <1>1, <1>3, <1>4
<1> QED
  BY <1>3, <1>5 DEF n

\* Whole pages of n tokens hold no more than n.
LEMMA WholePages ==
  ASSUME NEW n \in Nat, NEW k \in Nat, k <= n \div PageSize
  PROVE  k * PageSize \in Nat /\ k * PageSize <= n /\ PageSize * k = k * PageSize
<1>1. PICK q \in Nat, r \in 0..(PageSize - 1) :
        q = n \div PageSize /\ r = n % PageSize /\ n = q * PageSize + r
  BY PositionRow, Zenon
<1>2. k <= q
  <2>1. k <= n \div PageSize
    OBVIOUS
  <2> QED
    BY <1>1, <2>1, Zenon
<1>3. n = q * PageSize + r
  BY <1>1
<1> HIDE <1>1
<1>4. k * PageSize <= q * PageSize /\ k * PageSize \in Nat /\ q * PageSize \in Nat
  BY <1>2, RowsGrow
<1>5. r \in Nat
  BY PageSizeAssumption
<1>6. k * PageSize <= n
  <2> DEFINE y == k * PageSize
             z == q * PageSize
  <2>1. y <= z /\ y \in Nat /\ z \in Nat /\ n = z + r
    BY <1>3, <1>4
  <2> HIDE DEF y, z
  <2> QED
    BY <1>5, <2>1 DEF y
<1> QED
  BY <1>4, <1>6, PageSizeAssumption

\* What the match of a Sequence holds: whole pages of tokens that it has, or
\* all of it.
MatchHolds(c, m, input) ==
  /\ m.donor \in Live(c) /\ m.donor \in SeqId /\ m.len \in Nat
  /\ m.len \div PageSize \in 0..Len(c.pages[m.donor])
  /\ m.resume => Filled(c, m.donor, m.len) /\ c.allocLen[m.donor] = m.len
  /\ ~m.resume => m.len = (m.len \div PageSize) * PageSize
  /\ \E x \in 0..c.allocLen[m.donor] : Filled(c, m.donor, x) /\ m.len <= x
  /\ m.len <= CommonPrefixLen(TokensOf(c, m.donor), input)

\* What the recursive match finds, at each page.
LEMMA MatchIs ==
  ASSUME NEW c, Consistent(c), \A s \in SeqId : Settled(c, s),
         NEW input \in Seq(Token), NEW maxPages \in Nat, NEW allowed,
         NEW m \in BestMatches(c, input, maxPages, allowed)
  PROVE  MatchHolds(c, m, input)
<1>1. PICK s \in Candidates(c) : m = Match(c, s, input, maxPages, allowed)
  BY DEF BestMatches
<1>2. s \in SeqId
  BY LiveFacts DEF Candidates
<1>3. PICK x \in 0..c.allocLen[s] : Filled(c, s, x)
  BY <1>2 DEF Settled
<1>4. x \in Nat /\ c.allocLen[s] \in Nat /\ c \in CacheType
  BY <1>2, ConsistentFacts
<1> DEFINE common == CommonTokens(c, s, input)
           full   == common \div PageSize
           kept   == IF full < maxPages THEN full ELSE maxPages
           resume == Resumable(c, s, input, allowed)
<1>5. common \in 0..x /\ common = CommonPrefixLen(TokensOf(c, s), input)
  BY <1>2, <1>3, CommonTokensIs
<1>6. m.donor = s /\ m.resume = resume /\ m.len = IF resume THEN common ELSE PageSize * kept
  BY <1>1 DEF Match
<1>7. /\ m.donor \in Live(c) /\ m.donor \in SeqId /\ m.len \in Nat
      /\ m.len \div PageSize \in 0..Len(c.pages[m.donor])
  BY MatchFacts
<1>8. CASE resume
  <2>1. common = c.allocLen[s] /\ Reported(c, s) = c.allocLen[s]
    BY <1>8 DEF Resumable, Committed, common
  <2>2. Reported(c, s) = x
    BY <1>2, <1>3, <1>4, ReportedIs
  <2> HIDE DEF common, resume
  <2>3. m.resume /\ m.len = x /\ m.len = c.allocLen[s] /\ m.len = common
    BY <1>6, <1>8, <2>1, <2>2
  <2> QED
    BY <1>3, <1>4, <1>5, <1>6, <1>7, <2>3 DEF MatchHolds
<1>9. CASE ~resume
  <2>1. full \in Nat
    BY <1>5, DivMonotone
  <2>2. kept \in Nat /\ kept <= full
    <3> HIDE DEF full
    <3> QED
      BY <2>1
  <2> HIDE DEF kept
  <2>3. kept * PageSize \in Nat /\ kept * PageSize <= common /\ PageSize * kept = kept * PageSize
    BY <1>5, <2>2, WholePages
  <2>4. (PageSize * kept) \div PageSize = kept
    BY <2>2, ProductDiv
  <2> HIDE DEF full, common, resume
  <2>5. m.len = kept * PageSize /\ m.len \div PageSize = kept /\ ~m.resume
    BY <1>6, <1>9, <2>3, <2>4, Zenon
  <2>6. m.len = (m.len \div PageSize) * PageSize
    BY <2>5, Zenon
  <2>7. m.len <= common /\ m.len <= x
    <3> DEFINE z == kept * PageSize
    <3>1. z <= common /\ z \in Nat /\ m.len = z
      BY <2>3, <2>5
    <3> HIDE DEF z
    <3> QED
      BY <1>4, <1>5, <3>1
  <2> QED
    BY <1>3, <1>5, <1>6, <1>7, <2>5, <2>6, <2>7, Zenon DEF MatchHolds
<1> QED
  BY <1>8, <1>9

\* Every page in its place and every Sequence of S settled.
LaidOut(c, S) == Shape(c) /\ \A s \in S : Settled(c, s)

\* A step that changes one Sequence has only that one to settle.
LEMMA LaidOutKept ==
  ASSUME NEW c, LaidOut(c, SeqId), NEW d, Shape(d), NEW s \in SeqId, Frame(c, d, {s}), Settled(d, s)
  PROVE  LaidOut(d, SeqId)
<1> SUFFICES ASSUME NEW t \in SeqId, t # s PROVE Settled(d, t)
  BY DEF LaidOut
<1> QED
  BY FrameSettled DEF LaidOut, Shape

\* The pending token is not in the layout.
LEMMA SetTargetShape ==
  ASSUME NEW c, Shape(c), NEW s \in SeqId, NEW t \in Token \cup {None}
  PROVE  LET d == SetTarget(c, s, t)
         IN /\ Shape(d) /\ \A S : Frame(c, d, S)
            /\ d.pages = c.pages /\ d.tokenIds = c.tokenIds /\ d.allocLen = c.allocLen
            /\ d.sequences = c.sequences /\ d.staging = c.staging /\ d.available = c.available
            /\ d.target[s] = t
<1> DEFINE d == SetTarget(c, s, t)
<1>1. Consistent(c) /\ c \in CacheType
  BY DEF Shape, Consistent
<1>2. Consistent(d)
  BY <1>1, SetTargetConsistent
<1>3. /\ d.pages = c.pages /\ d.tokenIds = c.tokenIds /\ d.allocLen = c.allocLen
      /\ d.sequences = c.sequences /\ d.staging = c.staging /\ d.available = c.available
      /\ d.target[s] = t
  BY <1>1 DEF SetTarget, CacheType, Updated
<1> HIDE DEF d
<1>4. Shape(d)
  BY <1>2, <1>3, ShapeSame
<1>5. \A S : Frame(c, d, S)
  BY <1>3, FrameSame
<1> QED
  BY <1>3, <1>4, <1>5 DEF d

\* TakeOver moves the donor to the row; its pages stay.
LEMMA TakeOverShape ==
  ASSUME NEW c, Shape(c), NEW i \in DOMAIN c.sequences,
         NEW donor \in Live(c), donor # c.sequences[i]
  PROVE  LET d == TakeOver(c, i, donor)
         IN /\ Shape(d) /\ Frame(c, d, {}) /\ SameAt(c, d, donor)
            /\ d.sequences[i] = donor /\ i \in DOMAIN d.sequences
            /\ d.pages[c.sequences[i]] = <<>>
            /\ \A t \in SeqId \ {c.sequences[i]} : SameAt(c, d, t)
            /\ Live(c) \ {c.sequences[i]} \subseteq Live(d)
<1> DEFINE s == c.sequences[i]
           b == ClearAll(c, {s})
           d == TakeOver(c, i, donor)
<1>1. Consistent(c) /\ Consistent(d) /\ DOMAIN d.sequences = DOMAIN c.sequences
  BY TakeOverConsistent DEF Shape
<1>2. s \in SeqId /\ donor \in SeqId
  BY <1>1, LiveFacts DEF Range
<1>3. {s} \in SUBSET SeqId /\ s \in {s}
  BY <1>2
<1>4. /\ Shape(b) /\ Frame(c, b, {}) /\ b.pages[s] = <<>>
      /\ \A t \in SeqId \ {s} : SameAt(c, b, t)
  <2> HIDE DEF b, s
  <2> QED
    BY <1>3, ClearAllShape DEF b
<1>5. /\ d.pages = b.pages /\ d.allocLen = b.allocLen /\ d.tokenIds = b.tokenIds
      /\ d.available = b.available
      /\ d.sequences = [j \in DOMAIN c.sequences |-> IF j = i THEN donor
                                           ELSE IF c.sequences[j] = donor THEN s
                                           ELSE c.sequences[j]]
      /\ d.staging = c.staging \ {donor}
  BY DEF TakeOver, Clear, Rehomed
<1> HIDE DEF b, d
<1>6. Shape(d)
  BY <1>1, <1>4, <1>5, ShapeSame
<1>7. Frame(c, d, {}) /\ \A t \in SeqId \ {s} : SameAt(c, d, t)
  BY <1>4, <1>5 DEF Frame, SameAt
<1>8. d.sequences[i] = donor
  BY <1>5
<1>9. ASSUME NEW t \in Live(c) \ {s} PROVE t \in Live(d)
  <2>1. CASE t = donor
    BY <2>1, <1>1, <1>8 DEF Live, Range
  <2>2. CASE t # donor /\ t \in c.staging
    BY <2>2, <1>5 DEF Live
  <2>3. CASE t # donor /\ t \in Range(c.sequences)
    <3>1. PICK j \in DOMAIN c.sequences : t = c.sequences[j]
      BY <2>3 DEF Range
    <3>2. d.sequences[j] = t /\ j \in DOMAIN d.sequences
      BY <3>1, <2>3, <1>1, <1>5
    <3> QED
      BY <3>2 DEF Live, Range
  <2> QED
    BY <2>1, <2>2, <2>3 DEF Live
<1> QED
  BY <1>1, <1>2, <1>4, <1>5, <1>6, <1>7, <1>8, <1>9 DEF d, s

\* What matchPrefix leaves in row i: a Sequence with just the matched tokens,
\* on the pages of the donor when any matched.
MatchedRow(c, r, i, input) ==
  LET d   == r.cache
      row == d.sequences[i]
  IN /\ i \in DOMAIN d.sequences /\ row \in SeqId
     /\ Filled(d, row, r.matched) /\ d.allocLen[row] = r.matched
     /\ row = c.sequences[i] => d.sequences = c.sequences
     /\ \A t \in SeqId \ {c.sequences[i]} : SameAt(c, d, t)
     /\ Live(c) \ {c.sequences[i]} \subseteq Live(d)
     /\ \/ d.pages[row] = <<>> /\ r.matched = 0
           /\ d.target[row] = TokenAt(input, 0, None)
        \/ \E donor \in Live(c) : /\ Begins(c, d, row, donor)
                                 /\ r.matched <= CommonPrefixLen(TokensOf(c, donor), input)
                                 /\ \E x \in 0..c.allocLen[donor] : Filled(c, donor, x) /\ r.matched <= x
                                 /\ d.target[row] = TokenAt(input, r.matched, c.target[donor])

\* A match shares full pages only: the shape stays.
LEMMA MatchPrefixShape ==
  ASSUME NEW c, LaidOut(c, SeqId), NEW i \in DOMAIN c.sequences, NEW input \in Seq(Token),
         NEW maxPages \in Nat, NEW allowed, NEW r \in MatchPrefix(c, i, input, maxPages, allowed)
  PROVE  /\ LaidOut(r.cache, SeqId) /\ Frame(c, r.cache, {c.sequences[i]})
         /\ MatchedRow(c, r, i, input)
         /\ r.cache.sequences = c.sequences \/ allowed # {}
<1> DEFINE s        == c.sequences[i]
           best     == BestMatches(c, input, maxPages, allowed)
           keep(m)  == m.len \div PageSize
           next(m)  == TokenAt(input, m.len, c.target[m.donor])
           base(m)  == IF m.donor = s THEN PopTo(c, s, keep(m)) ELSE SharePages(c, i, m.donor, keep(m))
           taken(m) == IF m.donor = s THEN c ELSE TakeOver(c, i, m.donor)
           d        == r.cache
<1>1. Shape(c) /\ Consistent(c) /\ c \in CacheType /\ \A t \in SeqId : Settled(c, t)
  BY DEF LaidOut, Shape, Consistent
<1>2. s \in SeqId /\ s \in Live(c) /\ s \in Range(c.sequences)
  BY <1>1, LiveFacts DEF Range
<1>3. CASE best = {}
  <2> DEFINE b == ClearAll(c, {s})
             t0 == TokenAt(input, 0, None)
  <2>1. d = SetTarget(b, s, t0) /\ r.matched = 0
    BY <1>3 DEF MatchPrefix, Clear
  <2>2. t0 \in Token \cup {None}
    BY TokenAtType
  <2>3. /\ Shape(b) /\ Frame(c, b, {}) /\ b.pages[s] = <<>> /\ b.allocLen[s] = 0
        /\ \A t \in SeqId \ {s} : SameAt(c, b, t)
    <3>1. {s} \in SUBSET SeqId /\ s \in {s}
      BY <1>2
    <3> HIDE DEF b, s
    <3> QED
      BY <1>1, <3>1, ClearAllShape DEF b
  <2>4. b.sequences = c.sequences /\ b.staging = c.staging
    BY <1>1, <1>2, ClearAllConsistent
  <2> HIDE DEF b, t0, d, s
  <2>5. /\ Shape(d) /\ Frame(b, d, {s}) /\ d.pages = b.pages /\ d.sequences = b.sequences
        /\ d.allocLen = b.allocLen /\ d.staging = b.staging /\ d.tokenIds = b.tokenIds
        /\ d.target[s] = t0
    BY <1>2, <2>1, <2>2, <2>3, SetTargetShape
  <2>6. Frame(c, d, {s})
    <3>1. Frame(c, b, {s})
      BY <2>3, FrameWider
    <3> QED
      BY <2>5, <3>1, FrameTwice
  <2>7. Settled(d, s) /\ Filled(d, s, 0)
    BY <1>2, <2>3, <2>5, EmptySettled DEF Shape
  <2>8. LaidOut(d, SeqId)
    BY <1>2, <2>5, <2>6, <2>7, LaidOutKept
  <2>9. \A t \in SeqId \ {s} : SameAt(c, d, t)
    BY <2>3, <2>5 DEF SameAt
  <2>10. MatchedRow(c, r, i, input)
    BY <1>2, <2>1, <2>3, <2>4, <2>5, <2>7, <2>9 DEF MatchedRow, Live, t0, d, s
  <2> QED
    BY <2>4, <2>5, <2>6, <2>8, <2>10 DEF d, s
<1>4. CASE best # {}
  <2>1. PICK m \in best :
          r = [cache   |-> IF m.resume THEN SetTarget(taken(m), m.donor, input[m.len + 1])
                                       ELSE SetTarget(base(m), s, next(m)),
               matched |-> m.len]
    BY <1>4 DEF MatchPrefix
  <2>2. MatchHolds(c, m, input)
    BY <1>1, <2>1, MatchIs
  <2>3. /\ m.donor \in Live(c) /\ m.donor \in SeqId /\ m.len \in Nat
        /\ keep(m) \in 0..Len(c.pages[m.donor]) /\ r.matched = m.len
        /\ m.len <= CommonPrefixLen(TokensOf(c, m.donor), input)
    BY <2>1, <2>2 DEF MatchHolds
  <2>4. PICK x \in 0..c.allocLen[m.donor] : Filled(c, m.donor, x) /\ m.len <= x
    BY <2>2 DEF MatchHolds
  <2>5. c.allocLen[m.donor] \in Nat /\ x \in Nat /\ x <= c.allocLen[m.donor]
    BY <1>1, <2>3, ConsistentFacts
  <2>6. m.resume => m.donor \in allowed /\ m.len < Len(input)
    BY <1>1, <2>1, MatchFacts
  <2>7. CASE m.resume
    <3> DEFINE e == taken(m)
               t0 == input[m.len + 1]
    <3>1. d = SetTarget(e, m.donor, t0)
      BY <2>1, <2>7
    <3>2. Filled(c, m.donor, m.len) /\ c.allocLen[m.donor] = m.len
      BY <2>2, <2>7 DEF MatchHolds
    <3>3. /\ Shape(e) /\ Frame(c, e, {s}) /\ SameAt(c, e, m.donor)
          /\ e.sequences[i] = m.donor /\ i \in DOMAIN e.sequences
          /\ \A t \in SeqId \ {s} : SameAt(c, e, t)
          /\ Live(c) \ {s} \subseteq Live(e)
          /\ m.donor = s => e.sequences = c.sequences
          /\ Settled(e, s)
      <4>1. CASE m.donor = s
        BY <4>1, <1>1, <1>2 DEF Frame, SameAt
      <4>2. CASE m.donor # s
        <5> DEFINE f == TakeOver(c, i, m.donor)
        <5>1. /\ Shape(f) /\ Frame(c, f, {}) /\ SameAt(c, f, m.donor)
              /\ f.sequences[i] = m.donor /\ i \in DOMAIN f.sequences
              /\ f.pages[s] = <<>>
              /\ \A t \in SeqId \ {s} : SameAt(c, f, t)
              /\ Live(c) \ {s} \subseteq Live(f)
          BY <1>1, <2>3, <4>2, TakeOverShape
        <5>2. e = f
          BY <4>2
        <5> HIDE DEF f, e
        <5>3. Frame(c, f, {s})
          BY <5>1, FrameWider
        <5>4. Settled(f, s)
          BY <1>2, <5>1, EmptySettled DEF Shape
        <5> QED
          BY <4>2, <5>1, <5>2, <5>3, <5>4
      <4> QED
        BY <4>1, <4>2
    <3>4. t0 \in Token /\ t0 = TokenAt(input, m.len, c.target[m.donor])
      BY <2>3, <2>6, <2>7 DEF TokenAt
    <3> HIDE DEF e, d, t0, keep, next, base, taken, best
    <3>5. /\ Shape(d) /\ Frame(e, d, {s}) /\ d.pages = e.pages /\ d.sequences = e.sequences
          /\ d.allocLen = e.allocLen /\ d.staging = e.staging /\ d.tokenIds = e.tokenIds
          /\ d.target[m.donor] = t0
      BY <2>3, <3>1, <3>3, <3>4, SetTargetShape
    <3>6. Frame(c, d, {s})
      BY <3>3, <3>5, FrameTwice
    <3>7. Settled(d, s)
      BY <3>3, <3>5 DEF Settled, Filled
    <3>8. LaidOut(d, SeqId)
      BY <1>2, <3>5, <3>6, <3>7, LaidOutKept
    <3>9. (\A t \in SeqId \ {s} : SameAt(c, d, t)) /\ SameAt(c, d, m.donor)
      BY <3>3, <3>5 DEF SameAt
    <3>10. Filled(d, m.donor, m.len) /\ d.allocLen[m.donor] = m.len
      BY <3>2, <3>9, SameFilled DEF SameAt
    <3>11. Begins(c, d, m.donor, m.donor)
      BY <3>9 DEF Begins, SameAt, Range
    <3>12. MatchedRow(c, r, i, input)
      BY <2>3, <2>4, <3>3, <3>4, <3>5, <3>9, <3>10, <3>11 DEF MatchedRow, Live, d, s
    <3> QED
      BY <2>6, <2>7, <3>6, <3>8, <3>12 DEF d, s
  <2>8. CASE ~m.resume
    <3> DEFINE e == base(m)
               k == keep(m)
               z == k * PageSize
    <3>1. d = SetTarget(e, s, next(m))
      BY <2>1, <2>8
    <3>2. next(m) \in Token \cup {None}
      BY <1>1, <2>3, TokenAtType DEF CacheType
    <3>3. m.len = z /\ k \in Nat
      BY <2>2, <2>3, <2>8 DEF MatchHolds
    <3>4. /\ Shape(e) /\ Frame(c, e, {s}) /\ Filled(e, s, z) /\ e.allocLen[s] = z
          /\ Begins(c, e, s, m.donor) /\ e.sequences = c.sequences
          /\ \A t \in SeqId \ {s} : SameAt(c, e, t)
      <4>1. CASE m.donor = s
        <5> DEFINE f == PopTo(c, s, k)
        <5>1. k \in 0..Len(c.pages[s])
          BY <2>3, <4>1
        <5>2. /\ Filled(c, s, x) /\ z <= x /\ x \in Nat /\ z \in Nat
              /\ c.allocLen[s] \in Nat /\ z <= c.allocLen[s]
          <6> HIDE DEF z, k
          <6> QED
            BY <2>3, <2>4, <2>5, <3>3, <4>1
        <5> HIDE DEF k, s
        <5>3. /\ Shape(f) /\ Frame(c, f, {s}) /\ Filled(f, s, Least(x, k * PageSize))
              /\ f.allocLen[s] = Least(c.allocLen[s], k * PageSize) /\ Begins(c, f, s, s)
          BY <1>1, <1>2, <5>1, <5>2, PopToShape
        <5>4. f.sequences = c.sequences
          BY <1>1, <1>2, <5>1, PopToConsistent
        <5>5. Least(x, z) = z /\ Least(c.allocLen[s], z) = z
          <6> HIDE DEF z
          <6> QED
            BY <5>2 DEF Least
        <5>6. e = f
          BY <4>1 DEF k
        <5>7. \A t \in SeqId \ {s} : SameAt(c, f, t)
          <6> SUFFICES ASSUME NEW t \in SeqId \ {s}, f.pages[t] = <<>> PROVE SameAt(c, f, t)
            BY <5>3 DEF Frame
          <6>1. f.pages[t] = c.pages[t] /\ f.allocLen[t] = c.allocLen[t]
            <7>1. f.pages = Updated(c.pages, s, SubSeq(c.pages[s], 1, k))
              BY DEF PopTo, Repaged
            <7>2. \E n \in Nat : f.allocLen = Updated(c.allocLen, s, n)
              BY <5>2 DEF PopTo, Repaged
            <7> HIDE DEF f
            <7> QED
              BY <1>1, <7>1, <7>2, LiveFacts DEF Updated
          <6>2. Range(<<>>) = {}
            BY DEF Range
          <6> QED
            BY <6>1, <6>2 DEF SameAt
        <5> HIDE DEF f, e, z
        <5> QED
          BY <4>1, <5>3, <5>4, <5>5, <5>6, <5>7 DEF z
      <4>2. CASE m.donor # s
        <5> DEFINE f == SharePages(c, i, m.donor, k)
        <5>1. /\ Filled(c, m.donor, x) /\ k * PageSize <= x /\ x \in Nat
              /\ k \in 0..Len(c.pages[m.donor])
          <6> HIDE DEF k
          <6> QED
            BY <2>3, <2>4, <2>5, <3>3 DEF k
        <5> HIDE DEF k
        <5>2. /\ Shape(f) /\ Frame(c, f, {s}) /\ Filled(f, s, z) /\ f.allocLen[s] = z
              /\ f.sequences = c.sequences /\ Begins(c, f, s, m.donor)
              /\ \A t \in SeqId \ {s} : SameAt(c, f, t)
          <6> DEFINE donor == m.donor
          <6>1. /\ Shape(c) /\ i \in DOMAIN c.sequences /\ donor \in SeqId /\ donor # c.sequences[i]
                /\ Filled(c, donor, x) /\ k * PageSize <= x /\ x \in Nat
                /\ k \in 0..Len(c.pages[donor])
            BY <1>1, <2>3, <4>2, <5>1
          <6> HIDE DEF donor
          <6>2. /\ Shape(SharePages(c, i, donor, k))
                /\ Frame(c, SharePages(c, i, donor, k), {c.sequences[i]})
                /\ Filled(SharePages(c, i, donor, k), c.sequences[i], k * PageSize)
                /\ SharePages(c, i, donor, k).allocLen[c.sequences[i]] = k * PageSize
                /\ SharePages(c, i, donor, k).sequences = c.sequences
                /\ \A t \in SeqId \ {c.sequences[i]} : SameAt(c, SharePages(c, i, donor, k), t)
                /\ Begins(c, SharePages(c, i, donor, k), c.sequences[i], donor)
            BY <6>1, SharePagesShape
          <6> QED
            BY <6>2 DEF donor
        <5>3. e = f
          BY <4>2 DEF k
        <5> HIDE DEF f, e, z
        <5> QED
          BY <5>2, <5>3
      <4> QED
        BY <4>1, <4>2
    <3>5. z \in Nat /\ z = m.len
      BY <2>3, <3>3
    <3> DEFINE t0 == next(m)
    <3>6. t0 = TokenAt(input, m.len, c.target[m.donor])
      OBVIOUS
    <3> HIDE DEF e, d, t0, z, k, keep, next, base, taken, best, s
    <3>7. /\ Shape(d) /\ Frame(e, d, {s}) /\ d.pages = e.pages /\ d.sequences = e.sequences
          /\ d.allocLen = e.allocLen /\ d.staging = e.staging /\ d.tokenIds = e.tokenIds
          /\ d.target[s] = t0
      BY <1>2, <3>1, <3>2, <3>4, SetTargetShape DEF t0
    <3>8. Frame(c, d, {s})
      BY <3>4, <3>7, FrameTwice
    <3>9. Filled(d, s, z) /\ d.allocLen[s] = z /\ Begins(c, d, s, m.donor)
      BY <3>4, <3>7 DEF Filled, Begins
    <3>10. Settled(d, s)
      <4>1. z \in 0..z
        BY <3>5
      <4> QED
        BY <3>9, <4>1 DEF Settled
    <3>11. LaidOut(d, SeqId)
      BY <1>2, <3>7, <3>8, <3>10, LaidOutKept
    <3>12. \A t \in SeqId \ {s} : SameAt(c, d, t)
      BY <3>4, <3>7 DEF SameAt
    <3>13. d.staging = c.staging
      <4>1. e.staging = c.staging
        BY DEF e, base, PopTo, SharePages, PushPages, Clear, ClearAll, Repaged
      <4> QED
        BY <3>7, <4>1
    <3>14. Live(d) = Live(c)
      BY <3>4, <3>7, <3>13 DEF Live
    <3>15. MatchedRow(c, r, i, input)
      BY <1>2, <2>3, <2>4, <3>4, <3>5, <3>6, <3>7, <3>9, <3>12, <3>14 DEF MatchedRow, d, s
    <3> QED
      BY <3>4, <3>7, <3>8, <3>11, <3>15 DEF d, s
  <2> QED
    BY <2>7, <2>8
<1> QED
  BY <1>3, <1>4

-----------------------------------------------------------------------------
(* Every operation keeps the layout                                      *)

\* The cache is laid out; after a truncate that threw half way, all but the row
\* that it was cutting.
Calm == LaidOut(cache, SeqId) /\ failed \in BOOLEAN

\* The induction.
LayoutInv ==
  \/ Calm
  \/ /\ failed = TRUE
     /\ \E i \in Rows : LaidOut(cache, SeqId \ {Row(i)}) /\ cache.pages[Row(i)] # <<>>

\* A step writes or cuts the history of one Sequence at most.
Touches(c, d) == Frame(c, d, {}) \/ \E s \in SeqId : Frame(c, d, {s})

\* What a step of the cache leaves.
Leaves == LayoutInv' /\ Touches(cache, cache')

\* A step that changes no history settles what was settled.
LEMMA LaidOutSame ==
  ASSUME NEW c, NEW S \in SUBSET SeqId, LaidOut(c, S), NEW d, Shape(d), Frame(c, d, {})
  PROVE  LaidOut(d, S)
<1> SUFFICES ASSUME NEW t \in S PROVE Settled(d, t)
  BY DEF LaidOut
<1>1. t \in SeqId \ {}
  OBVIOUS
<1> QED
  BY <1>1, FrameSettled DEF LaidOut, Shape

\* From a calm cache, a step that leaves a calm one.
LEMMA CalmStep ==
  ASSUME LaidOut(cache', SeqId), failed' \in BOOLEAN,
         Frame(cache, cache', {}) \/ \E s \in SeqId : Frame(cache, cache', {s})
  PROVE  Leaves
<1>1. Calm'
  BY DEF Calm
<1>2. LayoutInv'
  BY <1>1 DEF LayoutInv
<1>3. Touches(cache, cache')
  BY DEF Touches
<1> QED
  BY <1>2, <1>3 DEF Leaves

\* Before an operation other than reset and clearStaging the cache is calm.
LEMMA CalmFacts ==
  ASSUME LayoutInv, ~failed
  PROVE  /\ Calm /\ LaidOut(cache, SeqId) /\ Shape(cache) /\ Consistent(cache)
         /\ cache \in CacheType /\ \A s \in SeqId : Settled(cache, s)
<1>1. Calm
  BY DEF LayoutInv
<1> QED
  BY <1>1 DEF Calm, LaidOut, Shape, Consistent

\* A row of a calm cache.
LEMMA CalmRow ==
  ASSUME LayoutInv, ~failed, NEW i \in Rows
  PROVE  /\ Row(i) \in SeqId /\ Row(i) \in Range(cache.sequences) /\ Row(i) \in Live(cache)
         /\ Row(i) = cache.sequences[i] /\ i \in DOMAIN cache.sequences
         /\ AllocLen(Row(i)) \in Nat /\ AllocLen(Row(i)) = cache.allocLen[Row(i)]
         /\ \E x \in 0..cache.allocLen[Row(i)] : Filled(cache, Row(i), x)
<1>1. Consistent(cache) /\ \A s \in SeqId : Settled(cache, s)
  BY CalmFacts
<1> QED
  BY <1>1, RowFacts DEF Settled, Rows, Row, AllocLen

\* reset empties the rows and keeps the staged Sequences as they are.
LEMMA ResetShape ==
  ASSUME NEW c, Shape(c), ResetAllowed(c),
         NEW rows \in Seq(SeqId), IsInjective(rows), Range(rows) \cap c.staging = {}
  PROVE  /\ Shape(Reset(c, rows)) /\ Frame(c, Reset(c, rows), {})
         /\ \A s \in SeqId \ c.staging : Reset(c, rows).pages[s] = <<>>
<1> DEFINE held == UNION {PagesOf(c, s) : s \in c.staging}
           d    == Reset(c, rows)
<1>1. Consistent(c)
  BY DEF Shape
<1>2. Consistent(d)
  BY <1>1, ResetConsistent
<1>3. /\ \A s \in SeqId : d.pages[s] = IF s \in c.staging THEN c.pages[s] ELSE <<>>
      /\ \A s \in c.staging : s \in SeqId => d.allocLen[s] = c.allocLen[s]
      /\ \A p \in Page : d.tokenIds[p] = IF p \in held THEN c.tokenIds[p] ELSE <<>>
      /\ d.available = Page \ held
  BY DEF Reset
<1> HIDE DEF d
<1>4. ASSUME NEW u \in SeqId, u \in c.staging PROVE SameAt(c, d, u)
  <2>1. \A p \in Range(c.pages[u]) : p \in Page /\ p \in held
    BY <1>1, <1>4, ConsistentFacts DEF PagesOf
  <2> HIDE DEF held
  <2> QED
    BY <1>3, <1>4, <2>1 DEF SameAt
<1>5. Frame(c, d, {})
  BY <1>3, <1>4 DEF Frame
<1>6. Blank(d)
  <2> HIDE DEF held
  <2> QED
    BY <1>3 DEF Blank
<1>7. Shape(d)
  <2>1. {} \in SUBSET SeqId
    OBVIOUS
  <2> QED
    BY <1>2, <1>5, <1>6, <2>1, ShapeKept
<1> QED
  BY <1>3, <1>5, <1>7 DEF d

\* reset keeps the layout, and restores it after a truncate that threw.
LEMMA ResetLeaves ==
  ASSUME LayoutInv, NEW n \in 0..MaxBatch, Reset_(n)
  PROVE  Leaves
<1>1. PICK rows \in [1..n -> SeqId \ cache.staging] : IsInjective(rows) /\ cache' = Reset(cache, rows)
  BY DEF Reset_
<1>2. ResetAllowed(cache) /\ failed' = FALSE
  BY DEF Reset_
<1>3. rows \in Seq(SeqId) /\ Range(rows) \cap cache.staging = {}
  <2>1. n \in Nat
    BY MaxBatchAssumption
  <2> QED
    BY <1>1, <2>1 DEF Range
<1>4. Shape(cache)
  BY DEF LayoutInv, Calm, LaidOut
<1>5. /\ Shape(cache') /\ Frame(cache, cache', {})
      /\ \A s \in SeqId \ cache.staging : cache'.pages[s] = <<>>
  BY <1>1, <1>2, <1>3, <1>4, ResetShape
<1>6. CASE Calm
  <2>1. LaidOut(cache', SeqId)
    BY <1>5, <1>6, LaidOutSame DEF Calm
  <2> QED
    BY <1>2, <1>5, <2>1, CalmStep
<1>7. CASE ~Calm
  <2>1. PICK i \in Rows : cache.pages[Row(i)] # <<>>
    BY <1>7 DEF LayoutInv
  <2>2. cache.staging = {}
    BY <1>2, <2>1 DEF ResetAllowed, Rows, Row
  <2>3. \A s \in SeqId : Settled(cache', s)
    BY <1>5, <2>2, EmptySettled DEF Shape
  <2>4. LaidOut(cache', SeqId)
    BY <1>5, <2>3 DEF LaidOut
  <2> QED
    BY <1>2, <1>5, <2>4, CalmStep
<1> QED
  BY <1>6, <1>7

\* Moving a Sequence between rows and staging moves no page.
LEMMA RehomedLeaves ==
  ASSUME LayoutInv, ~failed, NEW sequences, NEW staging,
         cache' = Rehomed(cache, sequences, staging), Consistent(cache'), failed' = failed
  PROVE  Leaves
<1>1. LaidOut(cache, SeqId) /\ Shape(cache) /\ failed \in BOOLEAN
  BY CalmFacts DEF Calm
<1>2. /\ cache'.pages = cache.pages /\ cache'.tokenIds = cache.tokenIds
      /\ cache'.available = cache.available /\ cache'.allocLen = cache.allocLen
  BY DEF Rehomed
<1>3. Shape(cache') /\ Frame(cache, cache', {})
  BY <1>1, <1>2, ShapeSame, FrameSame
<1>4. LaidOut(cache', SeqId)
  BY <1>1, <1>3, LaidOutSame
<1> QED
  BY <1>1, <1>3, <1>4, CalmStep

\* removeStagedSequence keeps the layout; clearStaging also after a throw.
LEMMA RemoveStagedLeaves ==
  ASSUME LayoutInv, NEW S \in SUBSET cache.staging,
         cache' = RemoveStaged(cache, S), failed' = failed
  PROVE  Leaves
<1>1. Shape(cache)
  BY DEF LayoutInv, Calm, LaidOut
<1>2. /\ Shape(cache') /\ cache'.sequences = cache.sequences /\ Frame(cache, cache', {})
      /\ \A t \in Range(cache.sequences) : SameAt(cache, cache', t)
  BY <1>1, RemoveStagedShape
<1>3. CASE Calm
  <2>1. LaidOut(cache', SeqId)
    BY <1>2, <1>3, LaidOutSame DEF Calm
  <2>2. failed' \in BOOLEAN
    BY <1>3 DEF Calm
  <2> QED
    BY <1>2, <2>1, <2>2, CalmStep
<1>4. CASE ~Calm
  <2>1. failed' = TRUE
    BY <1>4 DEF LayoutInv
  <2>2. PICK i \in Rows : LaidOut(cache, SeqId \ {Row(i)}) /\ cache.pages[Row(i)] # <<>>
    BY <1>4 DEF LayoutInv
  <2>3. LaidOut(cache', SeqId \ {Row(i)})
    BY <1>2, <2>2, LaidOutSame
  <2>4. cache'.sequences[i] = cache.sequences[i] /\ i \in DOMAIN cache'.sequences
    BY <1>2 DEF Rows
  <2>5. cache'.pages[cache'.sequences[i]] # <<>>
    BY <1>2, <2>2, <2>4 DEF SameAt, Row, Rows, Range
  <2>6. LayoutInv'
    BY <2>1, <2>3, <2>4, <2>5 DEF LayoutInv, Rows, Row
  <2> QED
    BY <1>2, <2>6 DEF Leaves, Touches
<1> QED
  BY <1>3, <1>4

\* Leaving the batch takes pages from nobody else.
LEMMA RemoveRowLeaves ==
  ASSUME LayoutInv, NEW i \in Rows, RemoveRow(i)
  PROVE  Leaves
<1> DEFINE s == Row(i)
           b == ClearAll(cache, {s})
<1>1. ~failed /\ cache' = RemoveSequence(cache, i) /\ failed' = failed
  BY DEF RemoveRow
<1>2. LaidOut(cache, SeqId) /\ Shape(cache) /\ Consistent(cache) /\ failed \in BOOLEAN
  BY <1>1, CalmFacts DEF Calm
<1>3. s \in SeqId /\ i \in DOMAIN cache.sequences
  BY <1>1, CalmRow
<1>4. cache' = Rehomed(b, RemoveAt(cache.sequences, i), cache.staging)
  BY <1>1 DEF RemoveSequence, Clear, Row
<1> HIDE DEF b, s
<1>5. Shape(b) /\ Frame(cache, b, {})
  BY <1>2, <1>3, ClearAllShape DEF b
<1>6. Consistent(cache')
  BY <1>1, <1>2, <1>3, RemoveSequenceConsistent
<1>7. /\ cache'.pages = b.pages /\ cache'.tokenIds = b.tokenIds
      /\ cache'.available = b.available /\ cache'.allocLen = b.allocLen
  BY <1>4 DEF Rehomed
<1>8. Shape(cache') /\ Frame(b, cache', {})
  BY <1>5, <1>6, <1>7, ShapeSame, FrameSame
<1>9. Frame(cache, cache', {})
  BY <1>5, <1>8, FrameTwice
<1>10. LaidOut(cache', SeqId)
  BY <1>2, <1>8, <1>9, LaidOutSame
<1> QED
  BY <1>1, <1>2, <1>9, <1>10, CalmStep

\* prefixMatch rebuilds one row.
LEMMA PrefixMatchLeaves ==
  ASSUME LayoutInv, NEW i \in Rows, NEW input \in Prompts, NEW allowed, PrefixMatch_(i, input, allowed)
  PROVE  Leaves
<1>1. PICK m \in PrefixMatch(cache, i, input, allowed) : cache' = m.cache
  BY DEF PrefixMatch_
<1>2. ~failed /\ failed' = failed
  BY DEF PrefixMatch_
<1>3. input \in Seq(Token) /\ input # <<>>
  BY InputAssumption
<1>4. PromptPages(input) \in Nat
  <2>1. Len(input) - 1 \in Nat
    BY <1>3
  <2> QED
    BY <1>3, <2>1, DivMonotone DEF PromptPages
<1>5. m \in MatchPrefix(cache, i, input, PromptPages(input), allowed)
  BY <1>1 DEF PrefixMatch
<1>6. LaidOut(cache, SeqId) /\ failed \in BOOLEAN
  BY <1>2, CalmFacts DEF Calm
<1>7. i \in DOMAIN cache.sequences /\ cache.sequences[i] \in SeqId
  BY <1>2, CalmRow
<1>8. LaidOut(m.cache, SeqId) /\ Frame(cache, m.cache, {cache.sequences[i]})
  BY <1>3, <1>4, <1>5, <1>6, <1>7, MatchPrefixShape
<1> QED
  BY <1>1, <1>2, <1>6, <1>7, <1>8, CalmStep

\* Reserving positions writes nothing.
LEMMA AllocAppendLeaves ==
  ASSUME LayoutInv, NEW i \in Rows, NEW n \in Nat, AllocAppendPages(i, n)
  PROVE  Leaves
<1> DEFINE s == Row(i)
<1>1. ~failed /\ cache' \in Append_(cache, s, n) /\ failed' = failed
  BY DEF AllocAppendPages
<1>2. LaidOut(cache, SeqId) /\ Shape(cache) /\ failed \in BOOLEAN
  BY <1>1, CalmFacts DEF Calm
<1>3. s \in SeqId /\ s \in Range(cache.sequences)
  BY <1>1, CalmRow
<1>4. PICK x \in 0..cache.allocLen[s] : Filled(cache, s, x)
  BY <1>1, CalmRow
<1>5. cache.allocLen[s] \in Nat /\ x \in Nat
  <2>1. cache.allocLen[s] \in Nat
    BY <1>1, CalmRow
  <2> QED
    BY <2>1
<1> HIDE DEF s
<1>6. /\ Shape(cache') /\ Frame(cache, cache', {s}) /\ Filled(cache', s, x)
      /\ cache'.allocLen[s] = cache.allocLen[s] \/ cache'.allocLen[s] = cache.allocLen[s] + n
  <2> DEFINE d == cache'
  <2>1. /\ d \in Append_(cache, s, n) /\ Shape(cache) /\ s \in Range(cache.sequences)
        /\ n \in Nat /\ x \in Nat /\ Filled(cache, s, x)
    BY <1>1, <1>2, <1>3, <1>4, <1>5
  <2> HIDE DEF d
  <2>2. Shape(d) /\ Frame(cache, d, {s}) /\ Filled(d, s, x) /\ Appended(cache, d, s, n)
    BY <2>1, AppendShape
  <2> QED
    BY <2>2 DEF d, Appended
<1>7. x \in 0..cache'.allocLen[s]
  BY <1>4, <1>5, <1>6
<1>8. Settled(cache', s)
  BY <1>6, <1>7 DEF Settled
<1>9. LaidOut(cache', SeqId)
  BY <1>2, <1>3, <1>6, <1>8, LaidOutKept
<1> QED
  BY <1>1, <1>2, <1>3, <1>6, <1>9, CalmStep

\* Reporting tokens writes them where the reservation has room.
LEMMA ReportTokensLeaves ==
  ASSUME LayoutInv, NEW i \in Rows, NEW tokens \in Seq(Token), NEW target \in Token \cup {None},
         ReportTokens_(i, tokens, target)
  PROVE  Leaves
<1> DEFINE s == Row(i)
           n == cache.allocLen[s]
<1>1. /\ ~failed /\ cache' = ReportTokens(cache, s, tokens, target) /\ failed' = failed
      /\ Reported(cache, s) + Len(tokens) <= AllocLen(s)
  BY DEF ReportTokens_
<1>2. LaidOut(cache, SeqId) /\ Shape(cache) /\ Consistent(cache) /\ cache \in CacheType /\ failed \in BOOLEAN
  BY <1>1, CalmFacts DEF Calm
<1>3. s \in SeqId /\ AllocLen(s) = n /\ n \in Nat
  BY <1>1, CalmRow
<1>4. PICK x \in 0..n : Filled(cache, s, x)
  BY <1>1, CalmRow
<1>5. x \in Nat /\ Len(tokens) \in Nat
  BY <1>3, <1>4
<1> HIDE DEF n, s
<1>6. Reported(cache, s) = x
  BY <1>2, <1>3, <1>4, <1>5, ReportedIs
<1> DEFINE y == x + Len(tokens)
           room == Len(cache.pages[s]) * PageSize
<1>7. y \in Nat /\ y <= n
  BY <1>1, <1>3, <1>5, <1>6
<1>8. n <= room /\ room \in Nat
  <2>1. CeilDiv(n) <= Len(cache.pages[s]) /\ Len(cache.pages[s]) \in Nat
    BY <1>2, <1>3, ConsistentFacts DEF n
  <2> QED
    BY <1>3, <2>1, CeilDivCovers, RowsGrow
<1>9. y <= room
  <2> HIDE DEF y, room
  <2> QED
    BY <1>3, <1>7, <1>8
<1>10. /\ Shape(cache') /\ Frame(cache, cache', {s}) /\ Filled(cache', s, y)
       /\ cache'.allocLen = cache.allocLen
  <2>1. x + Len(tokens) <= Len(cache.pages[s]) * PageSize
    BY <1>9
  <2> HIDE DEF room
  <2> QED
    BY <1>1, <1>2, <1>3, <1>4, <1>5, <2>1, ReportTokensShape
<1> HIDE DEF y, room
<1>11. Settled(cache', s)
  <2>1. y \in 0..cache'.allocLen[s]
    BY <1>3, <1>7, <1>10 DEF n
  <2> QED
    BY <1>10, <2>1 DEF Settled
<1>12. LaidOut(cache', SeqId)
  BY <1>2, <1>3, <1>10, <1>11, LaidOutKept
<1> QED
  BY <1>1, <1>2, <1>3, <1>10, <1>12, CalmStep

\* The draft positions go, their pages stay.
LEMMA RewindLeaves ==
  ASSUME LayoutInv, NEW i \in Rows, RewindReservation(i)
  PROVE  Leaves
<1> DEFINE s == Row(i)
           n == Reported(cache, s)
<1>1. /\ ~failed /\ failed' = failed
      /\ cache' = [cache EXCEPT !.allocLen = Updated(cache.allocLen, s, n)]
  BY DEF RewindReservation
<1>2. LaidOut(cache, SeqId) /\ Shape(cache) /\ Consistent(cache) /\ cache \in CacheType /\ failed \in BOOLEAN
  BY <1>1, CalmFacts DEF Calm
<1>3. s \in SeqId
  BY <1>1, CalmRow
<1>4. PICK x \in 0..cache.allocLen[s] : Filled(cache, s, x)
  BY <1>1, CalmRow
<1>5. x \in Nat
  <2>1. cache.allocLen[s] \in Nat
    BY <1>2, <1>3, ConsistentFacts
  <2> QED
    BY <2>1
<1>6. Inv
  BY <1>2 DEF Inv
<1>7. Consistent(cache')
  <2>1. Inv'
    BY <1>6, RewindPreserves
  <2> QED
    BY <2>1 DEF Inv
<1> HIDE DEF n, s
<1>8. n = x
  BY <1>2, <1>3, <1>4, <1>5, ReportedIs DEF n
<1>9. /\ cache'.pages = cache.pages /\ cache'.tokenIds = cache.tokenIds
      /\ cache'.available = cache.available
      /\ cache'.allocLen[s] = x /\ \A t \in SeqId \ {s} : cache'.allocLen[t] = cache.allocLen[t]
  BY <1>1, <1>2, <1>3, <1>8 DEF Updated, CacheType
<1>10. Shape(cache')
  BY <1>2, <1>7, <1>9, ShapeSame
<1>11. Frame(cache, cache', {s})
  BY <1>9 DEF Frame, SameAt
<1>12. Settled(cache', s)
  <2>1. Filled(cache', s, x)
    BY <1>4, <1>9, FilledSame
  <2> QED
    BY <1>5, <1>9, <2>1 DEF Settled
<1>13. LaidOut(cache', SeqId)
  BY <1>2, <1>3, <1>10, <1>11, <1>12, LaidOutKept
<1> QED
  BY <1>1, <1>2, <1>3, <1>11, <1>13, CalmStep

\* A whole number of pages.
LEMMA WholeIs ==
  ASSUME NEW n \in Nat, n % PageSize = 0
  PROVE  /\ CeilDiv(n) * PageSize = n /\ (n \div PageSize) * PageSize = n
         /\ n \div PageSize \in Nat
<1> DEFINE k == n \div PageSize
<1>1. k \in Nat /\ n = k * PageSize
  <2>1. PICK q \in Nat, r \in 0..(PageSize - 1) : q = n \div PageSize /\ r = n % PageSize /\ n = q * PageSize + r
    BY PositionRow
  <2>2. q * PageSize \in Nat
    BY PageSizeAssumption
  <2>3. r = 0
    BY <2>1
  <2> DEFINE z == q * PageSize
  <2> HIDE DEF z
  <2>4. n = z
    BY <2>1, <2>2, <2>3 DEF z
  <2> QED
    BY <2>1, <2>4 DEF z
<1> HIDE DEF k
<1>2. CeilDiv(k * PageSize) = k
  BY <1>1, CeilDivFacts
<1> QED
  BY <1>1, <1>2 DEF k

\* The least of two naturals.
LEMMA LeastIs ==
  ASSUME NEW m \in Nat, NEW n \in Nat
  PROVE  Least(m, n) \in Nat /\ Least(m, n) <= m /\ Least(m, n) <= n /\ Least(m, n) \in 0..n
  BY DEF Least

\* What is left to do of a truncate once the last page is the row's own.
LEMMA TrimLeaves ==
  ASSUME NEW b, LaidOut(b, SeqId), NEW c, Shape(c), NEW s \in SeqId, Frame(b, c, {s}),
         NEW n \in Nat, n % PageSize # 0, c.allocLen[s] = n,
         Len(c.pages[s]) = CeilDiv(n), Alone(c, s, Len(c.pages[s])),
         NEW x \in Nat, Filled(c, s, x), NEW p, p = BoundaryPage(c, s)
  PROVE  LaidOut(Trim(c, p, n), SeqId) /\ Frame(b, Trim(c, p, n), {s})
<1> DEFINE d == Trim(c, p, n)
<1>1. Shape(d) /\ Frame(c, d, {s}) /\ Filled(d, s, Least(x, n)) /\ d.allocLen = c.allocLen
  BY TrimShape
<1> HIDE DEF d
<1>2. Frame(b, d, {s})
  BY <1>1, FrameTwice
<1>3. Settled(d, s)
  <2>1. Least(x, n) \in 0..d.allocLen[s]
    BY <1>1, LeastIs
  <2> QED
    BY <1>1, <2>1 DEF Settled
<1>4. LaidOut(d, SeqId)
  BY <1>1, <1>2, <1>3, LaidOutKept
<1> QED
  BY <1>2, <1>4 DEF d

\* truncate keeps the layout: in place, through a copy, or thrown half way.
LEMMA TruncateLeaves ==
  ASSUME LayoutInv, NEW i \in Rows, NEW n \in Nat, Truncate(i, n)
  PROVE  Leaves
<1> DEFINE s   == Row(i)
           c1  == CutTo(cache, s, n)
           old == BoundaryPage(c1, s)
<1>1. ~failed /\ n < cache.allocLen[s]
  BY DEF Truncate, AllocLen
<1>2. LaidOut(cache, SeqId) /\ Shape(cache) /\ Consistent(cache) /\ failed \in BOOLEAN
  BY <1>1, CalmFacts DEF Calm
<1>3. s \in SeqId /\ s \in Live(cache) /\ s \in Range(cache.sequences) /\ i \in DOMAIN cache.sequences
  BY <1>1, CalmRow
<1>4. PICK x \in 0..cache.allocLen[s] : Filled(cache, s, x)
  BY <1>1, CalmRow
<1>5. x \in Nat /\ CeilDiv(n) \in Nat /\ CeilDiv(n) * PageSize \in Nat
  <2>1. cache.allocLen[s] \in Nat
    BY <1>2, <1>3, ConsistentFacts
  <2>2. CeilDiv(n) \in Nat
    BY CeilDivFacts
  <2> QED
    BY <2>1, <2>2, CeilDivFacts
<1> DEFINE y == Least(x, CeilDiv(n) * PageSize)
<1>6. /\ Shape(c1) /\ Frame(cache, c1, {s}) /\ Filled(c1, s, y) /\ Cut(cache, c1, s, n)
  <2> HIDE DEF s
  <2> QED
    BY <1>1, <1>2, <1>3, <1>4, <1>5, CutToShape
<1>7. y \in Nat /\ y <= CeilDiv(n) * PageSize
  <2> HIDE DEF s
  <2> QED
    BY <1>5, LeastIs
<1>8. /\ c1.sequences = cache.sequences /\ c1.staging = cache.staging /\ c1.allocLen[s] = n
      /\ Len(c1.pages[s]) = CeilDiv(n) /\ Consistent(c1)
  BY <1>6 DEF Cut, Shape
<1>9. s \in Range(c1.sequences) /\ s \in Live(c1)
  BY <1>3, <1>8 DEF Live
<1> HIDE DEF y
<1>10. CASE n % PageSize = 0
  <2>1. cache' = c1 /\ failed' = failed
    BY <1>10 DEF Truncate
  <2>2. CeilDiv(n) * PageSize = n
    BY <1>10, WholeIs
  <2> HIDE DEF c1, s
  <2>3. y \in 0..c1.allocLen[s]
    BY <1>7, <1>8, <2>2
  <2>4. Settled(c1, s)
    BY <1>6, <2>3 DEF Settled
  <2>5. LaidOut(c1, SeqId)
    BY <1>2, <1>3, <1>6, <2>4, LaidOutKept
  <2> QED
    BY <1>2, <1>3, <1>6, <2>1, <2>5, CalmStep
<1>11. CASE n % PageSize # 0
  <2>1. CeilDiv(n) >= 1
    <3>1. n \div PageSize \in Nat /\ n \div PageSize + 1 <= CeilDiv(n)
      BY <1>11, DivMonotone, CeilDivPartial
    <3> QED
      BY <3>1, <1>5
  <2>2. /\ c1.pages[s] # <<>> /\ old = c1.pages[s][Len(c1.pages[s])]
        /\ old \in Range(c1.pages[s]) /\ old \in Page
    <3> DEFINE u == c1.pages[s]
    <3>1. u \in Seq(Page) /\ Len(u) >= 1
      BY <1>3, <1>8, <2>1, ConsistentFacts
    <3>2. old = u[Len(u)]
      BY DEF BoundaryPage, Last
    <3> HIDE DEF u, old
    <3>3. u # <<>> /\ u[Len(u)] \in Range(u) /\ u[Len(u)] \in Page
      <4>1. Len(u) \in DOMAIN u /\ Len(u) \in 1..Len(u)
        BY <3>1
      <4> QED
        BY <3>1, <4>1 DEF Range
    <3> QED
      BY <3>2, <3>3 DEF u
  <2> HIDE DEF old
  <2>3. CASE c1.refs[old] <= 1
    <3>1. cache' = Trim(c1, old, n) /\ failed' = failed
      BY <1>11, <2>3 DEF Truncate, old
    <3>2. Alone(c1, s, Len(c1.pages[s]))
      <4> SUFFICES ASSUME NEW t \in SeqId \ {s}, old \in Range(c1.pages[t]) PROVE FALSE
        BY <2>2 DEF Alone
      <4> HIDE DEF c1, s
      <4>1. c1.refs[old] >= 2 /\ c1.refs[old] \in Nat
        BY <1>3, <1>8, <2>2, HeldTwice
      <4> QED
        BY <2>3, <4>1
    <3>3. old = BoundaryPage(c1, s)
      BY DEF old
    <3> HIDE DEF c1, s
    <3>4. LaidOut(Trim(c1, old, n), SeqId) /\ Frame(cache, Trim(c1, old, n), {s})
      BY <1>2, <1>3, <1>6, <1>7, <1>8, <1>11, <3>2, <3>3, TrimLeaves
    <3> QED
      BY <1>2, <1>3, <3>1, <3>4, CalmStep
  <2>4. CASE ~(c1.refs[old] <= 1)
    <3>1. PICK c2 \in EnsureAvailable(c1, 1) :
            \/ cache' = c2 /\ failed' = TRUE
            \/ \E q \in c2.available : /\ cache' = Trim(CopyOnWrite(c2, s, q), q, n)
                                       /\ failed' = failed
      BY <1>11, <2>4 DEF Truncate, old
    <3> HIDE DEF c1, s
    <3>2. /\ Shape(c2) /\ c2.sequences = c1.sequences /\ Frame(c1, c2, {}) /\ SameAt(c1, c2, s)
      BY <1>6, <1>9, <3>1, EnsureAvailableShape
    <3>3. Frame(cache, c2, {s})
      BY <1>6, <3>2, FrameWider, FrameTwice
    <3>4. c2.pages[s] = c1.pages[s] /\ c2.allocLen[s] = n /\ Filled(c2, s, y) /\ s \in Live(c2)
      BY <1>6, <1>8, <1>9, <3>2, SameFilled DEF SameAt, Live
    <3>5. CASE cache' = c2 /\ failed' = TRUE
      <4>1. LaidOut(c2, SeqId \ {s})
        <5> SUFFICES ASSUME NEW t \in SeqId \ {s} PROVE Settled(c2, t)
          BY <3>2 DEF LaidOut
        <5> QED
          BY <1>2, <3>2, <3>3, FrameSettled DEF LaidOut, Shape
      <4>2. c2.sequences[i] = s /\ i \in DOMAIN c2.sequences
        BY <1>3, <1>8, <3>2 DEF s, Row
      <4>3. c2.pages[s] # <<>>
        BY <2>2, <3>4
      <4>4. LayoutInv'
        BY <3>5, <4>1, <4>2, <4>3 DEF LayoutInv, Rows, Row
      <4> QED
        BY <1>3, <3>3, <3>5, <4>4 DEF Leaves, Touches
    <3>6. ASSUME NEW q \in c2.available, cache' = Trim(CopyOnWrite(c2, s, q), q, n), failed' = failed
          PROVE  Leaves
      <4> DEFINE c3 == CopyOnWrite(c2, s, q)
      <4>1. /\ Shape(c3) /\ Frame(c2, c3, {s}) /\ Filled(c3, s, y)
            /\ Copied(c2, c3, s, BoundaryPage(c2, s), q) /\ Alone(c3, s, Len(c2.pages[s]))
        <5>1. c2.pages[s] # <<>>
          BY <2>2, <3>4
        <5> QED
          BY <1>7, <3>2, <3>4, <5>1, CopyOnWriteShape
      <4> HIDE DEF c3
      <4>2. /\ c3.allocLen[s] = n /\ Len(c3.pages[s]) = CeilDiv(n) /\ Len(c3.pages[s]) = Len(c2.pages[s])
            /\ BoundaryPage(c3, s) = q
        BY <1>8, <3>4, <4>1 DEF Copied
      <4>3. Frame(cache, c3, {s})
        BY <3>3, <4>1, FrameTwice
      <4>4. Alone(c3, s, Len(c3.pages[s]))
        BY <4>1, <4>2
      <4>5. LaidOut(Trim(c3, q, n), SeqId) /\ Frame(cache, Trim(c3, q, n), {s})
        BY <1>2, <1>3, <1>7, <1>11, <4>1, <4>2, <4>3, <4>4, TrimLeaves
      <4>6. cache' = Trim(c3, q, n)
        BY <3>6 DEF c3
      <4> QED
        BY <1>2, <1>3, <3>6, <4>5, <4>6, CalmStep
    <3> QED
      BY <3>1, <3>5, <3>6
  <2> QED
    BY <2>3, <2>4
<1> QED
  BY <1>10, <1>11

\* Without a permission to resume, the row keeps its Sequence.
LEMMA MatchKeepsRows ==
  ASSUME NEW c, LaidOut(c, SeqId), NEW i \in DOMAIN c.sequences, NEW input \in Seq(Token),
         NEW maxPages \in Nat, NEW r \in MatchPrefix(c, i, input, maxPages, {})
  PROVE  r.cache.sequences = c.sequences
<1> DEFINE allowed == {}
<1>1. allowed = {} /\ r \in MatchPrefix(c, i, input, maxPages, allowed)
  OBVIOUS
<1> HIDE DEF allowed
<1>2. r.cache.sequences = c.sequences \/ allowed # {}
  BY <1>1, MatchPrefixShape
<1> QED
  BY <1>1, <1>2

\* copyPrefixFrom, done or thrown after the match.
LEMMA CopyPrefixFromLeaves ==
  ASSUME LayoutInv, NEW i \in Rows, NEW history \in Foreign, NEW target \in Pending,
         NEW maxPages \in 0..CeilDiv(MaxLen), CopyPrefixFrom(i, history, target, maxPages)
  PROVE  Leaves
<1> DEFINE whole == Len(history) \div PageSize
           full  == IF whole < maxPages THEN whole ELSE maxPages
           z     == full * PageSize
<1>1. history \in Seq(Token) /\ target \in Token \cup {None}
  BY InputAssumption
<1>2. maxPages \in Nat /\ whole \in Nat
  <2>1. Len(history) \in Nat
    BY <1>1
  <2> QED
    BY <2>1, DivMonotone, MaxLenAssumption, CeilDivFacts
<1>3. full \in Nat /\ z \in Nat /\ z = PageSize * full /\ z <= Len(history)
  <2>1. Len(history) \in Nat
    BY <1>1
  <2>2. full \in Nat /\ full <= whole
    BY <1>2
  <2> HIDE DEF full
  <2> QED
    BY <2>1, <2>2, WholePages
<1>4. PICK m \in MatchPrefix(cache, i, history, full, {}) :
        \E c \in Append_(m.cache, m.cache.sequences[i], z - m.matched) :
          cache' = IF c.allocLen[m.cache.sequences[i]] = z
                   THEN ReportTokens(c, m.cache.sequences[i],
                                     SubSeq(history, m.matched + 1, z),
                                     TokenAt(history, z, target))
                   ELSE c
  BY DEF CopyPrefixFrom
<1> HIDE DEF full
<1> DEFINE b     == m.cache
           s     == b.sequences[i]
           x     == m.matched
           fresh == z - x
           piece == SubSeq(history, x + 1, z)
           next  == TokenAt(history, z, target)
<1>5. ~failed /\ failed' = failed
  BY DEF CopyPrefixFrom
<1>6. LaidOut(cache, SeqId) /\ Consistent(cache) /\ failed \in BOOLEAN /\ i \in DOMAIN cache.sequences
  BY <1>5, CalmFacts, CalmRow DEF Calm
<1>7. x \in Nat /\ x <= z
  BY <1>1, <1>3, <1>4, <1>6, MatchPrefixConsistent
<1>8. /\ LaidOut(b, SeqId) /\ Frame(cache, b, {cache.sequences[i]})
      /\ MatchedRow(cache, m, i, history) /\ b.sequences = cache.sequences
  <2> DEFINE none == {}
  <2>1. /\ m \in MatchPrefix(cache, i, history, full, none) /\ none = {}
        /\ LaidOut(cache, SeqId) /\ i \in DOMAIN cache.sequences /\ history \in Seq(Token) /\ full \in Nat
    BY <1>1, <1>3, <1>4, <1>6
  <2> HIDE DEF none
  <2>2. LaidOut(m.cache, SeqId) /\ Frame(cache, m.cache, {cache.sequences[i]})
    BY <2>1, MatchPrefixShape
  <2>3. MatchedRow(cache, m, i, history)
    BY <2>1, MatchPrefixShape
  <2>4. m.cache.sequences = cache.sequences
    BY <2>1, MatchKeepsRows DEF none
  <2> QED
    BY <2>1, <2>2, <2>3, <2>4
<1>9. /\ Filled(b, s, x) /\ b.allocLen[s] = x /\ s = cache.sequences[i]
      /\ s \in SeqId /\ s \in Range(b.sequences)
  BY <1>6, <1>8 DEF MatchedRow, Range
<1>10. fresh \in Nat /\ x + fresh = z
  <2> HIDE DEF z, x
  <2> QED
    BY <1>3, <1>7
<1>11. piece \in Seq(Token) /\ Len(piece) = fresh
  <2> HIDE DEF z, x
  <2>1. x + 1 \in Nat \ {0} /\ z \in Int
    BY <1>3, <1>7
  <2>2. piece \in Seq(Token) /\ Len(piece) = IF x + 1 <= z THEN z - (x + 1) + 1 ELSE 0
    BY <1>1, <1>3, <2>1, SliceLength
  <2> HIDE DEF piece
  <2> QED
    BY <1>3, <1>7, <2>2
<1>12. next \in Token \cup {None}
  BY <1>1, <1>3, TokenAtType
<1>13. PICK c \in Append_(b, s, fresh) :
         cache' = IF c.allocLen[s] = z THEN ReportTokens(c, s, piece, next) ELSE c
  BY <1>4
<1> HIDE DEF z, fresh, piece, next, x, s, b
<1>14. Shape(c) /\ Frame(b, c, {s}) /\ Filled(c, s, x) /\ Appended(b, c, s, fresh)
  <2>1. Shape(b)
    BY <1>8 DEF LaidOut
  <2> QED
    BY <1>7, <1>9, <1>10, <1>13, <2>1, AppendShape
<1>15. Frame(cache, c, {s})
  BY <1>8, <1>9, <1>14, FrameTwice
<1>16. CASE c.allocLen[s] = z
  <2>1. cache' = ReportTokens(c, s, piece, next)
    BY <1>13, <1>16
  <2> DEFINE room == Len(c.pages[s]) * PageSize
             e    == ReportTokens(c, s, piece, next)
  <2>2. z <= room
    <3>1. CeilDiv(z) <= Len(c.pages[s]) /\ Len(c.pages[s]) \in Nat
      BY <1>9, <1>14, <1>16, ConsistentFacts DEF Shape
    <3> QED
      BY <1>3, <3>1, CeilDivCovers
  <2>3. x + Len(piece) = z /\ x + Len(piece) <= Len(c.pages[s]) * PageSize
    BY <1>10, <1>11, <2>2
  <2> HIDE DEF room
  <2>4. Shape(e) /\ Frame(c, e, {s}) /\ Filled(e, s, z) /\ e.allocLen = c.allocLen
    <3>1. Shape(e) /\ Frame(c, e, {s}) /\ Filled(e, s, x + Len(piece)) /\ e.allocLen = c.allocLen
      BY <1>7, <1>9, <1>11, <1>12, <1>14, <2>3, ReportTokensShape
    <3> HIDE DEF e
    <3> QED
      BY <2>3, <3>1
  <2> HIDE DEF e
  <2>5. Frame(cache, e, {s})
    BY <1>15, <2>4, FrameTwice
  <2>6. Settled(e, s)
    <3>1. z \in 0..e.allocLen[s]
      BY <1>3, <1>16, <2>4
    <3> QED
      BY <2>4, <3>1 DEF Settled
  <2>7. LaidOut(e, SeqId)
    BY <1>6, <1>9, <2>4, <2>5, <2>6, LaidOutKept
  <2>8. cache' = e
    BY <2>1 DEF e
  <2> QED
    BY <1>5, <1>6, <1>9, <2>5, <2>7, <2>8, CalmStep
<1>17. CASE c.allocLen[s] # z
  <2>1. cache' = c
    BY <1>13, <1>17
  <2>2. Settled(c, s)
    <3>1. c.allocLen[s] = x \/ c.allocLen[s] = x + fresh
      BY <1>9, <1>14 DEF Appended
    <3>2. x \in 0..c.allocLen[s]
      BY <1>7, <1>10, <3>1
    <3> QED
      BY <1>14, <3>2 DEF Settled
  <2>3. LaidOut(c, SeqId)
    BY <1>6, <1>9, <1>14, <1>15, <2>2, LaidOutKept
  <2> QED
    BY <1>5, <1>6, <1>9, <1>15, <2>1, <2>3, CalmStep
<1> QED
  BY <1>16, <1>17

\* d is c with the tokens of page k of src in that page of dst.
Imaged(c, d, dst, src, k) ==
  /\ d.pages = c.pages /\ d.available = c.available
  /\ \A t \in SeqId \ {dst} : d.allocLen[t] = c.allocLen[t]
  /\ d.tokenIds = Updated(c.tokenIds, c.pages[dst][k + 1], c.tokenIds[c.pages[src][k + 1]])

\* The layout survives a step on s that keeps its first pages and their tokens
\* and gives it others of its own.
LEMMA ShapeKeptOne ==
  ASSUME NEW c, Shape(c), NEW d, Consistent(d), NEW s \in SeqId, Frame(c, d, {s}), Blank(d),
         \A j \in DOMAIN d.pages[s] :
           \/ Alone(d, s, j)
           \/ /\ j \in DOMAIN c.pages[s] /\ \A m \in 1..j : d.pages[s][m] = c.pages[s][m]
              /\ d.tokenIds[d.pages[s][j]] = c.tokenIds[d.pages[s][j]]
  PROVE  Shape(d)
<1>1. ASSUME NEW j \in DOMAIN d.pages[s]
      PROVE  \/ Alone(d, s, j)
             \/ Follows(c, d, s, j) /\ Len(d.tokenIds[d.pages[s][j]]) = PageSize
  <2>1. CASE Alone(d, s, j)
    BY <2>1
  <2>2. CASE ~Alone(d, s, j)
    <3>1. /\ j \in DOMAIN c.pages[s] /\ \A m \in 1..j : d.pages[s][m] = c.pages[s][m]
          /\ d.tokenIds[d.pages[s][j]] = c.tokenIds[d.pages[s][j]]
      BY <2>2
    <3>2. j \in 1..j
      <4>1. DOMAIN d.pages[s] = 1..Len(d.pages[s]) /\ Len(d.pages[s]) \in Nat
        BY ConsistentFacts
      <4> QED
        BY <4>1
    <3>3. d.pages[s][j] \in Range(c.pages[s])
      BY <3>1, <3>2 DEF Range
    <3>4. Len(d.tokenIds[d.pages[s][j]]) = PageSize
      <4> DEFINE p == d.pages[s][j]
      <4>1. PICK u \in SeqId \ {s} : p \in Range(d.pages[u])
        BY <2>2 DEF Alone
      <4>2. d.pages[u] # <<>>
        BY <4>1 DEF Range
      <4>3. d.pages[u] = c.pages[u]
        BY <4>2 DEF Frame, SameAt
      <4> HIDE DEF p
      <4>4. p \in Range(c.pages[s]) \cap Range(c.pages[u]) /\ SharedFull(c)
        BY <3>3, <4>1, <4>3 DEF p, Shape
      <4>5. Len(c.tokenIds[p]) = PageSize
        BY <4>4 DEF SharedFull
      <4> QED
        BY <3>1, <4>5 DEF p
    <3>5. Follows(c, d, s, j)
      BY <3>1 DEF Follows
    <3> QED
      BY <3>4, <3>5
  <2> QED
    BY <2>1, <2>2
<1> DEFINE S == {s}
<1>2. S \in SUBSET SeqId /\ Frame(c, d, S)
  OBVIOUS
<1>3. \A t \in S : \A j \in DOMAIN d.pages[t] :
        \/ Alone(d, t, j)
        \/ Follows(c, d, t, j) /\ Len(d.tokenIds[d.pages[t][j]]) = PageSize
  BY <1>1
<1> HIDE DEF S
<1> QED
  BY <1>2, <1>3, ShapeKept

\* copySequence's copy of the partial page, in a page that is the row's own.
LEMMA FillShape ==
  ASSUME NEW c, Shape(c), NEW dst \in SeqId, NEW src \in SeqId, src # dst,
         NEW len \in Nat, len % PageSize # 0, NEW k \in Nat, k = len \div PageSize,
         Len(c.pages[dst]) = k + 1, Filled(c, dst, k * PageSize), Alone(c, dst, k + 1),
         Filled(c, src, len),
         NEW d, Consistent(d), Imaged(c, d, dst, src, k)
  PROVE  Shape(d) /\ Frame(c, d, {dst}) /\ Filled(d, dst, len)
<1> DEFINE u == c.pages[dst]
           p == u[k + 1]
           z == k * PageSize
<1>1. Consistent(c) /\ Blank(c)
  BY DEF Shape
<1>2. /\ u \in Seq(Page) /\ Len(u) = k + 1 /\ DOMAIN u = 1..(k + 1) /\ IsInjective(u)
      /\ \A j \in 1..(k + 1) : u[j] \in Range(u) /\ u[j] \in Page
  BY <1>1, ConsistentFacts DEF Range
<1>3. p \in Page /\ p \in Range(u) /\ k + 1 \in 1..(k + 1)
  BY <1>2
<1>4. /\ c.tokenIds \in [Page -> Seq(Token)]
      /\ d.tokenIds[p] = c.tokenIds[c.pages[src][k + 1]]
      /\ \A q \in Page : q # p => d.tokenIds[q] = c.tokenIds[q]
  <2>1. c.tokenIds \in [Page -> Seq(Token)]
    BY <1>1, LiveFacts
  <2> QED
    BY <1>3, <2>1 DEF Updated, Imaged
<1>5. /\ z <= len /\ len < (k + 1) * PageSize /\ len % PageSize \in 1..PageSize
      /\ z \in Nat /\ (k + 1) * PageSize \in Nat
  BY PartTrim, PageSizeAssumption
<1>6. k + 1 \in DOMAIN c.pages[src] /\ Len(c.tokenIds[c.pages[src][k + 1]]) = Part(len, k + 1)
  <2> DEFINE v == c.pages[src]
  <2>1. len <= Len(v) * PageSize /\ \A j \in DOMAIN v : Len(c.tokenIds[v[j]]) = Part(len, j)
    BY DEF Filled
  <2>2. Len(v) \in Nat /\ DOMAIN v = 1..Len(v)
    BY <1>1, ConsistentFacts
  <2> HIDE DEF v
  <2>3. ~(Len(v) <= k)
    <3> SUFFICES ASSUME Len(v) <= k PROVE FALSE
      OBVIOUS
    <3> DEFINE y == Len(v) * PageSize
    <3>1. y \in Nat /\ y <= z
      BY <2>2, RowsGrow
    <3>2. len <= y
      BY <2>1
    <3>3. len % PageSize = 0
      <4> HIDE DEF y, z
      <4>1. len = z
        BY <1>5, <3>1, <3>2
      <4>2. CeilDiv(z) = k
        BY CeilDivFacts DEF z
      <4>3. len % PageSize # 0 => k + 1 <= CeilDiv(len)
        BY CeilDivPartial
      <4>4. ~(k + 1 <= k)
        OBVIOUS
      <4> QED
        BY <4>1, <4>2, <4>3, <4>4
    <3> QED
      BY <3>3
  <2>4. k + 1 \in DOMAIN v
    BY <2>2, <2>3
  <2> QED
    BY <2>1, <2>4 DEF v
<1>7. Frame(c, d, {dst})
  <2> SUFFICES ASSUME NEW t \in SeqId \ {dst} PROVE SameAt(c, d, t)
    BY DEF Frame
  <2>1. p \notin Range(c.pages[t])
    BY DEF Alone
  <2>2. Range(c.pages[t]) \subseteq Page
    BY <1>1, ConsistentFacts
  <2> HIDE DEF p
  <2> QED
    BY <1>4, <2>1, <2>2 DEF SameAt, Imaged
<1>8. Blank(d)
  <2>1. \A q \in c.available : q \in Page /\ q # p
    BY <1>1, <1>3, FreePagesFree
  <2> HIDE DEF p
  <2> QED
    BY <1>1, <1>4, <2>1 DEF Blank, Imaged
<1>9. \A j \in 1..k : u[j] # p /\ d.tokenIds[u[j]] = c.tokenIds[u[j]] /\ j \in 1..(k + 1)
  <2> SUFFICES ASSUME NEW j \in 1..k PROVE u[j] # p /\ d.tokenIds[u[j]] = c.tokenIds[u[j]] /\ j \in 1..(k + 1)
    OBVIOUS
  <2>1. j \in 1..(k + 1) /\ j # k + 1
    OBVIOUS
  <2>2. u[j] # p
    BY <1>2, <1>3, <2>1 DEF IsInjective
  <2> HIDE DEF p, u
  <2> QED
    BY <1>2, <1>4, <2>1, <2>2
<1>10. Shape(d)
  <2> HIDE DEF p, z
  <2>1. d.pages[dst] = u /\ DOMAIN d.pages[dst] = 1..(k + 1) /\ \A t \in SeqId : d.pages[t] = c.pages[t]
    BY <1>2 DEF Imaged
  <2>2. Alone(d, dst, k + 1)
    BY <2>1 DEF Alone
  <2>3. \A j \in DOMAIN d.pages[dst] :
          \/ Alone(d, dst, j)
          \/ /\ j \in DOMAIN c.pages[dst] /\ \A m \in 1..j : d.pages[dst][m] = c.pages[dst][m]
             /\ d.tokenIds[d.pages[dst][j]] = c.tokenIds[d.pages[dst][j]]
    <3> SUFFICES ASSUME NEW j \in 1..(k + 1), j # k + 1
                 PROVE  d.tokenIds[u[j]] = c.tokenIds[u[j]]
      BY <1>2, <2>1, <2>2
    <3>1. j \in 1..k
      OBVIOUS
    <3> QED
      BY <1>9, <3>1
  <2> HIDE DEF u
  <2> QED
    BY <1>7, <1>8, <2>3, ShapeKeptOne
<1>11. Filled(d, dst, len)
  <2>1. \A j \in 1..(k + 1) : Len(c.tokenIds[u[j]]) = Part(z, j)
    BY <1>2 DEF Filled
  <2>2. \A j \in 1..k : Part(z, j) = PageSize /\ Part(len, j) = PageSize
    <3>1. z <= z
      BY <1>5
    <3> QED
      BY <1>5, <3>1, PartCut
  <2>3. \A j \in 1..k : Len(d.tokenIds[u[j]]) = Part(len, j)
    BY <1>9, <2>1, <2>2
  <2>4. Len(d.tokenIds[p]) = Part(len, k + 1)
    BY <1>4, <1>6
  <2>5. \A j \in 1..(k + 1) : Len(d.tokenIds[u[j]]) = Part(len, j)
    <3> SUFFICES ASSUME NEW j \in 1..(k + 1) PROVE Len(d.tokenIds[u[j]]) = Part(len, j)
      OBVIOUS
    <3>1. CASE j = k + 1
      BY <2>4, <3>1
    <3>2. CASE j # k + 1
      <4>1. j \in 1..k
        BY <3>2
      <4> QED
        BY <2>3, <4>1
    <3> QED
      BY <3>1, <3>2
  <2>6. len <= Len(u) * PageSize
    <3> DEFINE y == (k + 1) * PageSize
    <3>1. y = Len(u) * PageSize
      BY <1>2
    <3> HIDE DEF y
    <3> QED
      BY <1>5, <3>1 DEF y
  <2> QED
    BY <1>2, <2>5, <2>6 DEF Filled, Imaged
<1> QED
  BY <1>7, <1>10, <1>11

\* One more page behind k whole ones.
LEMMA OneMorePage ==
  ASSUME NEW k \in Nat
  PROVE  CeilDiv(k * PageSize + PageSize) = k + 1 /\ k * PageSize + PageSize \in Nat
<1>1. k + 1 \in Nat
  OBVIOUS
<1>2. CeilDiv((k + 1) * PageSize) = k + 1 /\ (k + 1) * PageSize \in Nat
  BY <1>1, CeilDivFacts
<1>3. (k + 1) * PageSize = k * PageSize + PageSize
  BY PageSizeAssumption
<1> QED
  BY <1>2, <1>3

\* What copySequence starts the row with: the whole pages of the source.
Shared(c, d, dst, src, k) ==
  /\ Frame(c, d, {dst}) /\ Filled(d, dst, k * PageSize) /\ d.allocLen[dst] = k * PageSize
  /\ Len(d.pages[dst]) = k /\ d.sequences = c.sequences
  /\ SameAt(c, d, src)

\* Sharing pages with an empty Sequence keeps the shape.
LEMMA SharedShape ==
  ASSUME NEW c, Shape(c), NEW d \in DOMAIN c.sequences, NEW src \in SeqId, src # c.sequences[d],
         NEW len \in Nat, Filled(c, src, len), NEW k \in 0..Len(c.pages[src]), k * PageSize <= len
  PROVE  LET c0 == IF k = 0 THEN Clear(c, c.sequences[d]) ELSE SharePages(c, d, src, k)
         IN Shape(c0) /\ Shared(c, c0, c.sequences[d], src, k)
<1> DEFINE dst == c.sequences[d]
           c0  == IF k = 0 THEN Clear(c, dst) ELSE SharePages(c, d, src, k)
<1>1. Consistent(c) /\ dst \in SeqId
  BY LiveFacts DEF Shape, Range
<1>2. CASE k = 0
  <2> DEFINE b == ClearAll(c, {dst})
  <2>1. {dst} \in SUBSET SeqId /\ dst \in {dst} /\ src \in SeqId \ {dst}
    BY <1>1
  <2>2. /\ Shape(b) /\ Frame(c, b, {}) /\ b.pages[dst] = <<>> /\ b.allocLen[dst] = 0
        /\ SameAt(c, b, src)
    <3> HIDE DEF b, dst
    <3> QED
      BY <2>1, ClearAllShape DEF b
  <2>3. b.sequences = c.sequences
    BY <1>1, <2>1, ClearAllConsistent
  <2>4. c0 = b
    BY <1>2 DEF Clear
  <2> HIDE DEF b, c0, dst
  <2>5. Filled(b, dst, 0)
    BY <1>1, <2>2, EmptySettled DEF Shape
  <2>6. Frame(c, b, {dst})
    BY <2>2, FrameWider
  <2>7. 0 * PageSize = 0 /\ Len(<<>>) = 0
    BY PageSizeAssumption
  <2> QED
    BY <1>2, <2>2, <2>3, <2>4, <2>5, <2>6, <2>7 DEF Shared, dst, c0
<1>3. CASE k # 0
  <2> DEFINE f == SharePages(c, d, src, k)
  <2>1. /\ Shape(f) /\ Frame(c, f, {c.sequences[d]}) /\ Filled(f, c.sequences[d], k * PageSize)
        /\ f.allocLen[c.sequences[d]] = k * PageSize /\ Len(f.pages[c.sequences[d]]) = k
        /\ f.sequences = c.sequences
        /\ \A t \in SeqId \ {c.sequences[d]} : SameAt(c, f, t)
    BY SharePagesShape
  <2>2. c0 = f
    BY <1>3
  <2> HIDE DEF f, c0
  <2>3. SameAt(c, f, src)
    BY <2>1
  <2> QED
    BY <2>1, <2>2, <2>3 DEF Shared, c0
<1> QED
  BY <1>2, <1>3

\* copySequence shares the whole pages and copies the partial one.
LEMMA CopySequenceLeaves ==
  ASSUME LayoutInv, NEW d \in Rows, NEW i \in Rows, CopySequence(d, i)
  PROVE  Leaves
<1> DEFINE src  == Row(i)
           dst  == Row(d)
           len  == AllocLen(src)
           keep == len \div PageSize
           c0   == IF keep = 0 THEN Clear(cache, dst) ELSE SharePages(cache, d, src, keep)
           fill(c) == Repaged(c, c.pages, Updated(c.allocLen, dst, len), c.refs,
                              Updated(c.tokenIds, BoundaryPage(c, dst), c.tokenIds[c.pages[src][keep + 1]]),
                              c.available)
           z == keep * PageSize
           t0 == cache.target[src]
<1>1. ~failed /\ failed' = failed /\ d # i /\ Committed(cache, src)
  BY DEF CopySequence
<1>2. /\ LaidOut(cache, SeqId) /\ Shape(cache) /\ Consistent(cache) /\ cache \in CacheType
      /\ failed \in BOOLEAN
  BY <1>1, CalmFacts DEF Calm
<1>3. /\ src \in SeqId /\ src \in Range(cache.sequences) /\ dst \in SeqId /\ dst \in Range(cache.sequences)
      /\ len \in Nat /\ len = cache.allocLen[src] /\ d \in DOMAIN cache.sequences /\ dst = cache.sequences[d]
  BY <1>1, CalmRow
<1>4. src # dst
  BY <1>1, <1>2 DEF Consistent, IsInjective, Rows, Row
<1>5. Filled(cache, src, len)
  <2>1. PICK x \in 0..cache.allocLen[src] : Filled(cache, src, x)
    BY <1>1, CalmRow
  <2>2. x \in Nat
    BY <1>3, <2>1
  <2> HIDE DEF src, len
  <2>3. Reported(cache, src) = x
    BY <1>2, <1>3, <2>1, <2>2, ReportedIs
  <2> QED
    BY <1>1, <1>3, <2>1, <2>3 DEF Committed
<1>6. keep \in Nat /\ z \in Nat /\ z <= len
  <2>1. keep \in Nat /\ keep <= keep
    BY <1>3, DivMonotone
  <2> HIDE DEF len, keep
  <2> QED
    BY <1>3, <2>1, WholePages DEF keep
<1>7. /\ Len(cache.pages[src]) \in Nat /\ keep \in 0..Len(cache.pages[src])
      /\ len % PageSize # 0 => keep + 1 <= CeilDiv(len)
  <2>1. /\ keep <= CeilDiv(len) /\ CeilDiv(len) \in Nat
        /\ len % PageSize # 0 => keep + 1 <= CeilDiv(len)
    BY <1>3, CeilDivFacts, CeilDivPartial
  <2>2. Len(cache.pages[src]) \in Nat /\ CeilDiv(len) <= Len(cache.pages[src])
    BY <1>2, <1>3, ConsistentFacts
  <2> HIDE DEF keep, len, src
  <2> QED
    BY <1>6, <2>1, <2>2
<1>8. t0 \in Token \cup {None}
  BY <1>2, <1>3 DEF CacheType
<1> HIDE DEF len, keep, src, dst
<1>9. Shape(c0) /\ Shared(cache, c0, dst, src, keep)
  BY <1>2, <1>3, <1>4, <1>5, <1>6, <1>7, SharedShape
<1>10. Inv
  BY <1>2 DEF Inv
<1>11. Consistent(cache')
  <2>1. Inv'
    BY <1>10, CopySequencePreserves
  <2> QED
    BY <2>1 DEF Inv
<1> HIDE DEF c0, z, t0
<1>12. /\ Frame(cache, c0, {dst}) /\ Filled(c0, dst, z) /\ c0.allocLen[dst] = z
       /\ Len(c0.pages[dst]) = keep /\ c0.sequences = cache.sequences
       /\ SameAt(cache, c0, src)
  BY <1>9 DEF Shared, z
<1>13. CASE len % PageSize = 0
  <2>1. cache' = SetTarget(c0, dst, t0)
    BY <1>13 DEF CopySequence, c0, src, dst, len, keep, t0
  <2>2. /\ Shape(cache') /\ Frame(c0, cache', {dst}) /\ cache'.allocLen = c0.allocLen
        /\ cache'.pages = c0.pages /\ cache'.tokenIds = c0.tokenIds
    BY <1>3, <1>8, <1>9, <2>1, SetTargetShape
  <2>3. Frame(cache, cache', {dst})
    BY <1>12, <2>2, FrameTwice
  <2>4. Settled(cache', dst)
    <3>1. Filled(cache', dst, z) /\ z \in 0..cache'.allocLen[dst]
      BY <1>6, <1>12, <2>2, FilledSame
    <3> QED
      BY <3>1 DEF Settled
  <2>5. LaidOut(cache', SeqId)
    BY <1>2, <1>3, <2>2, <2>3, <2>4, LaidOutKept
  <2> QED
    BY <1>1, <1>2, <1>3, <2>3, <2>5, CalmStep
<1>14. CASE len % PageSize # 0
  <2>1. PICK c \in Append_(c0, dst, PageSize) :
          cache' = IF Len(c.pages[dst]) > keep THEN SetTarget(fill(c), dst, t0) ELSE c
    BY <1>14 DEF CopySequence, c0, src, dst, len, keep, t0
  <2> DEFINE p == PageSize
  <2>2. p \in Nat /\ c \in Append_(c0, dst, p) /\ dst \in Range(c0.sequences)
    BY <1>3, <1>12, <2>1, PageSizeAssumption
  <2> HIDE DEF p
  <2>3. Shape(c) /\ Frame(c0, c, {dst}) /\ Filled(c, dst, z) /\ Appended(c0, c, dst, p)
    BY <1>6, <1>9, <1>12, <2>2, AppendShape
  <2>4. Frame(cache, c, {dst})
    BY <1>12, <2>3, FrameTwice
  <2>5. Filled(c, src, len)
    <3>1. SameAt(c0, c, src)
      BY <1>3, <1>4, <1>12, <2>3 DEF Appended
    <3> QED
      BY <1>5, <1>12, <3>1, SameFilled
  <2>6. CASE Len(c.pages[dst]) > keep
    <3>1. cache' = SetTarget(fill(c), dst, t0)
      BY <2>1, <2>6
    <3>2. Len(c.pages[dst]) = keep + 1
      <4>1. CASE c.allocLen[dst] = c0.allocLen[dst] /\ c.pages[dst] = c0.pages[dst]
        BY <1>6, <1>12, <2>6, <4>1
      <4>2. CASE Len(c.pages[dst]) = Len(c0.pages[dst]) + PagesNeeded(c0, dst, p)
        <5>1. CeilDiv(c0.allocLen[dst] + p) = keep + 1
          BY <1>6, <1>12, OneMorePage DEF p, z
        <5>2. PagesNeeded(c0, dst, p) = 1
          BY <1>6, <1>12, <5>1 DEF PagesNeeded
        <5> QED
          BY <1>12, <4>2, <5>2
      <4> QED
        BY <2>3, <4>1, <4>2 DEF Appended
    <3>3. Alone(c, dst, keep + 1)
      <4>1. keep + 1 \in 1..Len(c.pages[dst]) /\ keep + 1 > Len(c0.pages[dst])
        BY <1>6, <1>12, <3>2
      <4> QED
        BY <2>3, <4>1 DEF Appended
    <3>4. BoundaryPage(c, dst) = c.pages[dst][keep + 1]
      BY <3>2 DEF BoundaryPage, Last
    <3> DEFINE e == fill(c)
    <3>5. /\ e.pages = c.pages /\ e.available = c.available
          /\ e.allocLen = Updated(c.allocLen, dst, len)
          /\ e.tokenIds = Updated(c.tokenIds, c.pages[dst][keep + 1], c.tokenIds[c.pages[src][keep + 1]])
      BY <3>4 DEF Repaged
    <3>6. /\ cache'.pages = e.pages /\ cache'.available = e.available
          /\ cache'.allocLen = e.allocLen /\ cache'.tokenIds = e.tokenIds
      BY <3>1 DEF SetTarget, Repaged
    <3> HIDE DEF e, fill
    <3>7. c.allocLen \in [SeqId -> Nat]
      BY <2>3, LiveFacts DEF Shape
    <3>8. /\ cache'.allocLen[dst] = len
          /\ \A t \in SeqId \ {dst} : cache'.allocLen[t] = c.allocLen[t]
      BY <1>3, <3>5, <3>6, <3>7 DEF Updated
    <3>9. Imaged(c, cache', dst, src, keep)
      BY <3>5, <3>6, <3>8 DEF Imaged
    <3>10. Shape(cache') /\ Frame(c, cache', {dst}) /\ Filled(cache', dst, len)
      <4>1. /\ Filled(c, dst, keep * PageSize) /\ keep = len \div PageSize
        BY <2>3 DEF z, keep
      <4> DEFINE g == cache'
      <4>2. Consistent(g) /\ Imaged(c, g, dst, src, keep)
        BY <1>11, <3>9
      <4> HIDE DEF g
      <4>3. Shape(g) /\ Frame(c, g, {dst}) /\ Filled(g, dst, len)
        BY <1>3, <1>4, <1>6, <1>14, <2>3, <2>5, <3>2, <3>3, <4>1, <4>2, FillShape
      <4> QED
        BY <4>3 DEF g
    <3>11. Frame(cache, cache', {dst})
      BY <2>4, <3>10, FrameTwice
    <3>12. Settled(cache', dst)
      <4>1. len \in 0..cache'.allocLen[dst]
        BY <1>3, <3>8
      <4> QED
        BY <3>10, <4>1 DEF Settled
    <3>13. LaidOut(cache', SeqId)
      BY <1>2, <1>3, <3>10, <3>11, <3>12, LaidOutKept
    <3> QED
      BY <1>1, <1>2, <1>3, <3>11, <3>13, CalmStep
  <2>7. CASE ~(Len(c.pages[dst]) > keep)
    <3>1. cache' = c
      BY <2>1, <2>7
    <3>2. Settled(c, dst)
      <4>1. c.allocLen[dst] = z \/ c.allocLen[dst] = z + p
        BY <1>12, <2>3 DEF Appended
      <4>2. z \in 0..c.allocLen[dst]
        BY <1>6, <2>2, <4>1
      <4> QED
        BY <2>3, <4>2 DEF Settled
    <3>3. LaidOut(c, SeqId)
      BY <1>2, <1>3, <2>3, <2>4, <3>2, LaidOutKept
    <3> QED
      BY <1>1, <1>2, <1>3, <2>4, <3>1, <3>3, CalmStep
  <2> QED
    BY <2>6, <2>7
<1> QED
  BY <1>13, <1>14

\* Every operation on a row keeps the layout.
LEMMA RowStepLeaves ==
  ASSUME LayoutInv, NEW i \in Rows, RowStep(i)
  PROVE  Leaves
<1>1. CASE StageSequence(i)
  <2>1. ~failed /\ cache' = Stage(cache, i) /\ failed' = failed
    BY <1>1 DEF StageSequence
  <2>2. Consistent(cache) /\ i \in DOMAIN cache.sequences
    BY <2>1, CalmFacts, CalmRow
  <2>3. Consistent(cache')
    BY <2>1, <2>2, StageConsistent
  <2> QED
    BY <2>1, <2>3, RehomedLeaves DEF Stage
<1>2. CASE RemoveRow(i)
  BY <1>2, RemoveRowLeaves
<1>3. CASE \E input \in Prompts, allowed \in Permissions : PrefixMatch_(i, input, allowed)
  BY <1>3, PrefixMatchLeaves
<1>4. CASE \E history \in Foreign, target \in Pending, maxPages \in 0..CeilDiv(MaxLen) :
             CopyPrefixFrom(i, history, target, maxPages)
  BY <1>4, CopyPrefixFromLeaves
<1>5. CASE \E d \in Rows : CopySequence(d, i)
  BY <1>5, CopySequenceLeaves
<1>6. ASSUME NEW n \in 1..MaxLen, AllocAppendPages(i, n) PROVE Leaves
  <2>1. n \in Nat
    BY MaxLenAssumption
  <2> QED
    BY <1>6, <2>1, AllocAppendLeaves
<1>7. ASSUME NEW n \in 1..MaxLen, Truncate(i, MaxLen - n) PROVE Leaves
  <2>1. MaxLen - n \in Nat
    BY MaxLenAssumption
  <2> QED
    BY <1>7, <2>1, TruncateLeaves
<1>8. ASSUME NEW tokens \in Chunks, NEW target \in Pending, ReportTokens_(i, tokens, target) PROVE Leaves
  <2>1. tokens \in Seq(Token) /\ target \in Token \cup {None}
    BY InputAssumption
  <2> QED
    BY <1>8, <2>1, ReportTokensLeaves
<1>9. CASE RewindReservation(i)
  BY <1>9, RewindLeaves
<1> QED
  BY <1>1, <1>2, <1>3, <1>4, <1>5, <1>6, <1>7, <1>8, <1>9 DEF RowStep

\* Every operation of the cache keeps the layout and touches one history.
LEMMA StepLeaves ==
  ASSUME LayoutInv, Next
  PROVE  Leaves
<1>1. ASSUME NEW n \in 0..MaxBatch, Reset_(n) PROVE Leaves
  BY <1>1, ResetLeaves
<1>2. CASE ClearStaging
  <2>1. cache.staging \in SUBSET cache.staging
    OBVIOUS
  <2> QED
    BY <1>2, <2>1, RemoveStagedLeaves DEF ClearStaging
<1>3. ASSUME NEW s \in cache.staging, UnstageSequence(s) PROVE Leaves
  <2>1. ~failed /\ cache' = Unstage(cache, s) /\ failed' = failed
    BY <1>3 DEF UnstageSequence
  <2>2. Consistent(cache)
    BY <2>1, CalmFacts
  <2>3. Consistent(cache')
    BY <2>1, <2>2, UnstageConsistent
  <2> QED
    BY <2>1, <2>3, RehomedLeaves DEF Unstage
<1>4. ASSUME NEW s \in cache.staging, RemoveStagedSequence(s) PROVE Leaves
  <2>1. {s} \in SUBSET cache.staging
    OBVIOUS
  <2> QED
    BY <1>4, <2>1, RemoveStagedLeaves DEF RemoveStagedSequence
<1>5. ASSUME NEW i \in Rows, RowStep(i) PROVE Leaves
  BY <1>5, RowStepLeaves
<1> QED
  BY <1>1, <1>2, <1>3, <1>4, <1>5 DEF Next, RowStep

\* The layout holds of the empty cache.
LEMMA InitLaidOut == Init => LayoutInv
<1> SUFFICES ASSUME Init PROVE LayoutInv
  OBVIOUS
<1>1. Consistent(cache) /\ failed \in BOOLEAN
  BY InitEstablishes DEF Inv
<1>2. (\A s \in SeqId : cache.pages[s] = <<>>) /\ \A p \in Page : cache.tokenIds[p] = <<>>
  BY DEF Init, EmptyCache
<1>3. Range(<<>>) = {} /\ DOMAIN <<>> = {}
  BY DEF Range
<1>4. Aligned(cache.pages) /\ SharedFull(cache)
  BY <1>2, <1>3 DEF Aligned, SharedFull
<1>5. Blank(cache)
  BY <1>1, <1>2, ConsistentFacts DEF Blank
<1>6. \A s \in SeqId : Settled(cache, s)
  BY <1>1, <1>2, EmptySettled
<1> QED
  BY <1>1, <1>4, <1>5, <1>6 DEF LayoutInv, Calm, LaidOut, Shape

\* LayoutInv is inductive: between operations the pages of every Sequence are
\* laid out as its neighbours assume, whatever the callers choose to do.
THEOREM Layout == Spec => []LayoutInv
<1>1. LayoutInv /\ [Next]_vars => LayoutInv'
  <2> SUFFICES ASSUME LayoutInv, [Next]_vars PROVE LayoutInv'
    OBVIOUS
  <2>1. CASE Next
    BY <2>1, StepLeaves DEF Leaves
  <2>2. CASE UNCHANGED vars
    BY <2>2 DEF vars, LayoutInv, Calm, Rows, Row
  <2> QED
    BY <2>1, <2>2
<1> QED
  BY <1>1, InitLaidOut, PTL DEF Spec

-----------------------------------------------------------------------------
(* What the layout gives                                                 *)

\* The layout of the pages survives even a truncate that threw.
LEMMA ShapeAlways ==
  ASSUME LayoutInv
  PROVE  Shape(cache) /\ Consistent(cache) /\ Aligned(cache.pages) /\ SharedFull(cache)
  BY DEF LayoutInv, Calm, LaidOut, Shape

\* Sequences that share a page share every page before it, so the KV rows of a
\* shared page were computed after the same tokens for every reader.
THEOREM SharingIsPrefixHolds == Spec => []SharingIsPrefix
<1>1. ASSUME LayoutInv PROVE SharingIsPrefix
  <2>1. Consistent(cache) /\ Aligned(cache.pages)
    BY <1>1, ShapeAlways
  <2> SUFFICES ASSUME NEW s \in Live(cache), NEW t \in Live(cache),
                      NEW j \in DOMAIN cache.pages[s], NEW k \in DOMAIN cache.pages[t],
                      cache.pages[s][j] = cache.pages[t][k]
               PROVE  j = k /\ SubSeq(cache.pages[s], 1, j) = SubSeq(cache.pages[t], 1, k)
    BY DEF SharingIsPrefix
  <2>2. s \in SeqId /\ t \in SeqId
    BY <2>1, LiveFacts
  <2>3. j = k /\ \A m \in 1..j : cache.pages[s][m] = cache.pages[t][m]
    BY <2>1, <2>2 DEF Aligned
  <2> DEFINE u == cache.pages[s]
             v == cache.pages[t]
  <2>4. u \in Seq(Page) /\ v \in Seq(Page) /\ j \in 1..Len(u) /\ j \in 1..Len(v)
    BY <2>1, <2>2, <2>3, ConsistentFacts
  <2>5. j = k /\ \A m \in 1..j : u[m] = v[m]
    BY <2>3
  <2> HIDE DEF u, v
  <2> DEFINE a == SubSeq(u, 1, j)
             b == SubSeq(v, 1, j)
  <2>6. /\ a \in Seq(Page) /\ Len(a) = j /\ \A x \in 1..j : a[x] = u[x]
        /\ b \in Seq(Page) /\ Len(b) = j /\ \A x \in 1..j : b[x] = v[x]
    BY <2>4
  <2> HIDE DEF a, b
  <2>7. a = b
    BY <2>5, <2>6, SameSequence
  <2> QED
    BY <2>5, <2>7 DEF a, b, u, v
<1> QED
  BY <1>1, Layout, PTL

\* More than one of a finite set are two.
LEMMA TwoOfMany ==
  ASSUME NEW T, IsFiniteSet(T), Cardinality(T) > 1
  PROVE  \E s \in T : \E t \in T : s # t
<1> SUFFICES ASSUME \A s \in T : \A t \in T : s = t PROVE FALSE
  OBVIOUS
<1>1. CASE T = {}
  BY <1>1, FS_EmptySet
<1>2. CASE T # {}
  <2>1. PICK s : s \in T
    BY <1>2
  <2>2. T = {s}
    BY <2>1
  <2> QED
    BY <2>2, FS_Singleton
<1> QED
  BY <1>1, <1>2

\* A page after one that is not full holds nothing.
LEMMA PartsInOrder ==
  ASSUME NEW n \in Nat, NEW k \in Nat, k >= 2, Part(n, k) > 0
  PROVE  Part(n, k - 1) = PageSize
<1> DEFINE j == k - 1
           y == (j - 1) * PageSize
           z == j * PageSize
<1>1. j \in Nat \ {0} /\ k \in Nat \ {0} /\ k - 1 = j
  OBVIOUS
<1>2. y \in Nat /\ z \in Nat /\ z = y + PageSize /\ PageSize \in Nat /\ PageSize >= 1
  <2> HIDE DEF j
  <2> QED
    BY <1>1, PageBounds
<1>3. Part(n, k) \in 0..PageSize /\ \A r \in 1..PageSize : r <= Part(n, k) <=> z + r <= n
  BY <1>1, PartFacts
<1>4. Part(n, j) \in 0..PageSize /\ \A r \in 1..PageSize : r <= Part(n, j) <=> y + r <= n
  <2> HIDE DEF j
  <2> QED
    BY <1>1, PartFacts
<1> HIDE DEF j, y, z
<1>5. z + 1 <= n
  BY <1>2, <1>3
<1>6. PageSize <= Part(n, j)
  BY <1>2, <1>4, <1>5
<1> QED
  BY <1>2, <1>4, <1>6 DEF j

\* Unless a truncate threw: only full pages are shared, and the pages of every
\* Sequence are full ones, at most one partial one, then empty ones that only
\* its reservation uses.
THEOREM LayoutSoundHolds == Spec => []LayoutSound
<1>1. ASSUME LayoutInv, ~failed PROVE SharedPagesFull
  <2>1. Consistent(cache) /\ SharedFull(cache)
    BY <1>1, ShapeAlways
  <2> SUFFICES ASSUME NEW p \in Page, Cardinality(Holders(cache, p)) > 1
               PROVE  Len(cache.tokenIds[p]) = PageSize
    BY DEF SharedPagesFull
  <2>2. Holders(cache, p) = HoldersIn(cache.pages, p) /\ IsFiniteSet(HoldersIn(cache.pages, p))
    BY <2>1, HoldersAreLive, HoldersFinite
  <2>3. PICK s \in HoldersIn(cache.pages, p), t \in HoldersIn(cache.pages, p) : s # t
    BY <2>2, TwoOfMany
  <2> QED
    BY <2>1, <2>3 DEF SharedFull, HoldersIn
<1>2. ASSUME LayoutInv, ~failed PROVE PageLayout
  <2>1. Consistent(cache) /\ cache \in CacheType /\ \A s \in SeqId : Settled(cache, s)
    BY <1>2, CalmFacts
  <2> SUFFICES ASSUME NEW s \in Live(cache)
               PROVE  LET pages == cache.pages[s]
                          fill(k) == Len(cache.tokenIds[pages[k]])
                      IN /\ Reported(cache, s) <= AllocLen(s)
                         /\ AllocLen(s) <= Len(pages) * PageSize
                         /\ \A k \in DOMAIN pages : fill(k) <= PageSize
                         /\ \A k \in 2..Len(pages) : fill(k) > 0 => fill(k - 1) = PageSize
    BY DEF PageLayout
  <2> DEFINE pages == cache.pages[s]
             fill(k) == Len(cache.tokenIds[pages[k]])
             len == cache.allocLen[s]
  <2>2. s \in SeqId
    BY <2>1, LiveFacts
  <2>3. PICK n \in 0..len : Filled(cache, s, n)
    BY <2>1, <2>2 DEF Settled
  <2>4. /\ len \in Nat /\ n \in Nat /\ n <= len /\ Len(pages) \in Nat /\ DOMAIN pages = 1..Len(pages)
        /\ CeilDiv(len) <= Len(pages)
    BY <2>1, <2>2, <2>3, ConsistentFacts
  <2>5. Reported(cache, s) = n
    BY <2>1, <2>2, <2>3, <2>4, ReportedIs
  <2>6. len <= Len(pages) * PageSize
    <3> HIDE DEF len, pages
    <3> QED
      BY <2>4, CeilDivCovers
  <2>7. \A k \in 1..Len(pages) : fill(k) = Part(n, k)
    BY <2>3, <2>4 DEF Filled
  <2> HIDE DEF fill, pages, len
  <2>8. \A k \in 1..Len(pages) : fill(k) <= PageSize
    <3> SUFFICES ASSUME NEW k \in 1..Len(pages) PROVE fill(k) <= PageSize
      OBVIOUS
    <3>1. k \in Nat \ {0}
      BY <2>4
    <3>2. Part(n, k) \in 0..PageSize
      BY <2>4, <3>1, PartFacts
    <3> QED
      BY <2>7, <3>2, PageSizeAssumption
  <2>9. ASSUME NEW k \in 2..Len(pages), fill(k) > 0 PROVE fill(k - 1) = PageSize
    <3>1. k \in 1..Len(pages) /\ k - 1 \in 1..Len(pages) /\ k \in Nat /\ k >= 2
      BY <2>4
    <3>2. Part(n, k) > 0
      BY <2>7, <2>9, <3>1
    <3>3. Part(n, k - 1) = PageSize
      BY <2>4, <3>1, <3>2, PartsInOrder
    <3> QED
      BY <2>7, <3>1, <3>3
  <2>10. Reported(cache, s) <= AllocLen(s)
    BY <2>4, <2>5 DEF AllocLen, len
  <2>11. AllocLen(s) <= Len(pages) * PageSize
    BY <2>6 DEF AllocLen, len
  <2> QED
    BY <2>4, <2>8, <2>9, <2>10, <2>11 DEF fill, pages
<1>3. LayoutInv => LayoutSound
  <2>1. CASE failed
    BY <2>1 DEF LayoutSound, SharedPagesFull, PageLayout
  <2>2. CASE ~failed
    BY <1>1, <1>2, <2>2 DEF LayoutSound
  <2> QED
    BY <2>1, <2>2
<1> QED
  BY <1>3, Layout, PTL

\* One operation changes the history of one Sequence: of any two that are there
\* before and after it, one has the tokens it had, or none.
THEOREM OthersKeepHistoryHolds == Spec => OthersKeepHistory
<1> DEFINE A == \A s, t \in Live(cache) \cap Live(cache)' :
                  LET kept(u) == TokensOf(cache', u) \in {TokensOf(cache, u), <<>>}
                  IN s = t \/ kept(s) \/ kept(t)
<1>1. ASSUME LayoutInv, Next PROVE A
  <2>1. Touches(cache, cache')
    BY <1>1, StepLeaves DEF Leaves
  <2>2. PICK S : Frame(cache, cache', S) /\ \A s, t \in S : s = t
    <3>1. CASE Frame(cache, cache', {})
      BY <3>1
    <3>2. CASE \E s \in SeqId : Frame(cache, cache', {s})
      BY <3>2
    <3> QED
      BY <2>1, <3>1, <3>2 DEF Touches
  <2> SUFFICES ASSUME NEW s \in Live(cache), NEW t \in Live(cache), s # t
               PROVE  \/ TokensOf(cache', s) \in {TokensOf(cache, s), <<>>}
                      \/ TokensOf(cache', t) \in {TokensOf(cache, t), <<>>}
    OBVIOUS
  <2>3. s \in SeqId /\ t \in SeqId
    BY <1>1, ShapeAlways, LiveFacts
  <2>4. CASE s \notin S
    BY <2>2, <2>3, <2>4, FrameTokens
  <2>5. CASE t \notin S
    BY <2>2, <2>3, <2>5, FrameTokens
  <2> QED
    BY <2>2, <2>4, <2>5
<1>2. LayoutInv /\ [Next]_vars => [A]_vars
  BY <1>1
<1>3. Spec => [][A]_vars
  BY <1>2, Layout, PTL DEF Spec
<1> QED
  BY <1>3 DEF OthersKeepHistory

-----------------------------------------------------------------------------
(* What a match gives                                                    *)

\* Cut to whole pages, n tokens lose less than a page.
LEMMA WholePagesNear ==
  ASSUME NEW n \in Nat
  PROVE  /\ n \div PageSize \in Nat /\ PageSize * (n \div PageSize) \in Nat
         /\ PageSize * (n \div PageSize) <= n
         /\ n < PageSize * (n \div PageSize) + PageSize
<1>1. PICK k \in Nat, r \in 0..(PageSize - 1) : k = n \div PageSize /\ r = n % PageSize /\ n = k * PageSize + r
  BY PositionRow
<1>2. k * PageSize \in Nat /\ PageSize * k = k * PageSize /\ PageSize \in Nat
  BY PageSizeAssumption
<1> DEFINE z == k * PageSize
<1> HIDE DEF z
<1>3. n = z + r /\ z \in Nat /\ PageSize * k = z
  BY <1>1, <1>2 DEF z
<1>4. z <= n /\ n < z + PageSize
  BY <1>2, <1>3
<1> QED
  BY <1>1, <1>3, <1>4

\* A match leaves a token of the prompt to be prefilled.
LEMMA MatchLeavesOne ==
  ASSUME NEW c, Consistent(c), NEW input \in Seq(Token), input # <<>>, NEW allowed,
         NEW m \in BestMatches(c, input, PromptPages(input), allowed)
  PROVE  m.len \in Nat /\ m.len < Len(input)
<1> DEFINE k == PromptPages(input)
           l == Len(input) - 1
<1>1. Len(input) \in Nat /\ l \in Nat /\ l < Len(input)
  OBVIOUS
<1>2. k = l \div PageSize
  BY DEF PromptPages
<1> HIDE DEF l, k
<1>3. k \in Nat /\ PageSize * k <= l /\ PageSize * k \in Nat
  BY <1>1, <1>2, WholePagesNear
<1>4. /\ m.len \in Nat
      /\ m.resume => m.len < Len(input)
      /\ ~m.resume => m.len <= PageSize * k
  <2>1. m \in BestMatches(c, input, k, allowed)
    BY DEF k
  <2> QED
    BY <1>3, <2>1, MatchFacts
<1> DEFINE z == PageSize * k
<1> HIDE DEF z
<1>5. z \in Nat /\ z <= l /\ (~m.resume => m.len <= z)
  BY <1>3, <1>4 DEF z
<1>6. CASE m.resume
  BY <1>4, <1>6
<1>7. CASE ~m.resume
  <2>1. m.len \in Nat /\ m.len <= z
    BY <1>4, <1>5, <1>7
  <2> QED
    BY <1>1, <1>5, <2>1
<1> QED
  BY <1>6, <1>7

\* Of a bounded number of matches one is the longest.
LEMMA LongestMatch ==
  ASSUME NEW c, Consistent(c), NEW input \in Seq(Token), NEW maxPages \in Nat, NEW allowed,
         \A t \in SeqId : Settled(c, t),
         NEW s \in Candidates(c), Match(c, s, input, maxPages, allowed).len > 0
  PROVE  \E m \in BestMatches(c, input, maxPages, allowed) :
           Match(c, s, input, maxPages, allowed).len <= m.len
<1> DEFINE len  == [t \in Candidates(c) |-> Match(c, t, input, maxPages, allowed).len]
           lens == {len[t] : t \in Candidates(c)}
           n    == Len(input)
<1>1. n \in Nat
  OBVIOUS
<1>2. ASSUME NEW t \in Candidates(c) PROVE len[t] \in 0..n
  <2> DEFINE common == CommonTokens(c, t, input)
             full   == common \div PageSize
  <2>1. t \in SeqId /\ t \in Live(c)
    BY LiveFacts DEF Candidates
  <2>2. common \in Nat /\ common <= n
    <3>1. PICK x \in 0..c.allocLen[t] : Filled(c, t, x)
      BY <2>1 DEF Settled
    <3>2. x \in Nat
      <4>1. c.allocLen[t] \in Nat
        BY <2>1, ConsistentFacts
      <4> QED
        BY <4>1
    <3>3. common = CommonPrefixLen(TokensOf(c, t), input) /\ TokensOf(c, t) \in Seq(Token)
      BY <2>1, <3>1, <3>2, CommonTokensIs, TokensIs DEF Consistent
    <3> HIDE DEF common
    <3> QED
      BY <3>3, CommonPrefixIs
  <2>3. len[t] = IF Match(c, t, input, maxPages, allowed).resume THEN common
                 ELSE PageSize * (IF full < maxPages THEN full ELSE maxPages)
    BY DEF Match
  <2>4. full \in Nat
    <3> HIDE DEF common
    <3> QED
      BY <2>2, DivMonotone
  <2> DEFINE k == IF full < maxPages THEN full ELSE maxPages
  <2>5. k \in Nat /\ k <= full
    <3> HIDE DEF full
    <3> QED
      BY <2>4
  <2>6. PageSize * k \in Nat /\ PageSize * k <= common
    <3> HIDE DEF common, k
    <3> QED
      BY <2>2, <2>5, WholePages
  <2>7. len[t] = common \/ len[t] = PageSize * k
    BY <2>3
  <2> DEFINE y == PageSize * k
  <2> HIDE DEF y, k, common, len
  <2>8. y \in Nat /\ y <= common /\ (len[t] = common \/ len[t] = y)
    BY <2>6, <2>7 DEF y
  <2> HIDE DEF n
  <2> QED
    BY <1>1, <2>2, <2>8
<1> HIDE DEF len
<1>3. lens \in SUBSET (0..n) /\ lens # {}
  BY <1>2
<1>4. PICK l \in lens : \A k \in lens : k <= l
  <2> HIDE DEF lens, n
  <2> QED
    BY <1>1, <1>3, GreatestMember
<1>5. PICK t \in Candidates(c) : l = len[t]
  BY <1>4
<1>6. len[s] <= len[t]
  BY <1>4, <1>5
<1>7. len[s] \in Nat /\ len[t] \in Nat /\ len[s] > 0
  <2>1. len[s] > 0
    BY DEF len
  <2> QED
    BY <1>1, <1>2, <2>1
<1>8. len[t] > 0
  BY <1>6, <1>7
<1>9. \A u \in Candidates(c) : len[u] <= len[t]
  BY <1>4, <1>5
<1>10. Match(c, t, input, maxPages, allowed) \in BestMatches(c, input, maxPages, allowed)
  BY <1>8, <1>9 DEF BestMatches, len
<1> QED
  BY <1>6, <1>10 DEF len

\* What a Sequence shares with the prompt, but for less than a page, is in its match.
LEMMA MatchCovers ==
  ASSUME NEW c, Consistent(c), NEW input \in Seq(Token), input # <<>>, NEW allowed,
         \A t \in SeqId : Settled(c, t), NEW s \in SeqId
  PROVE  LET l == CommonPrefixLen(TokensOf(c, s), SubSeq(input, 1, Len(input) - 1))
         IN /\ l \in Nat
            /\ l < Match(c, s, input, PromptPages(input), allowed).len + PageSize
            /\ c.pages[s] = <<>> => l = 0
            /\ Match(c, s, input, PromptPages(input), allowed).len \in Nat
<1> DEFINE n    == Len(input) - 1
           head == SubSeq(input, 1, n)
           toks == TokensOf(c, s)
           l    == CommonPrefixLen(toks, head)
           common == CommonTokens(c, s, input)
           full   == common \div PageSize
           most   == PromptPages(input)
           m      == Match(c, s, input, most, allowed)
<1>1. n \in Nat /\ n <= Len(input) /\ Len(input) \in Nat
  OBVIOUS
<1>2. head \in Seq(Token) /\ Len(head) = n /\ \A k \in 1..n : head[k] = input[k]
  <2> HIDE DEF n
  <2> QED
    BY <1>1
<1>3. PICK x \in 0..c.allocLen[s] : Filled(c, s, x)
  BY DEF Settled
<1>4. x \in Nat /\ toks \in Seq(Token) /\ Len(toks) = x
  <2>1. c.allocLen[s] \in Nat /\ c \in CacheType
    BY ConsistentFacts
  <2>2. x \in Nat
    BY <2>1
  <2> QED
    BY <1>3, <2>1, <2>2, TokensIs
<1> HIDE DEF toks
<1>5. common = CommonPrefixLen(toks, input)
  BY <1>3, CommonTokensIs DEF toks
<1> HIDE DEF common, head, n
<1>6. l \in Nat /\ l <= n /\ l <= x /\ \A k \in 1..l : toks[k] = head[k]
  BY <1>2, <1>4, CommonPrefixIs
<1> HIDE DEF l
<1>7. common \in Nat /\ l <= common
  <2>1. common \in Nat
    BY <1>4, <1>5, CommonPrefixIs
  <2>2. l <= Len(toks) /\ l <= Len(input) /\ \A k \in 1..l : toks[k] = input[k]
    BY <1>1, <1>2, <1>4, <1>6
  <2> QED
    BY <1>4, <1>5, <1>6, <2>1, <2>2, CommonPrefixIs
<1>8. most = n \div PageSize
  BY DEF PromptPages, n
<1>9. /\ full \in Nat /\ PageSize * full \in Nat /\ common < PageSize * full + PageSize
      /\ most \in Nat /\ PageSize * most \in Nat /\ n < PageSize * most + PageSize
  <2> HIDE DEF most
  <2> QED
    BY <1>1, <1>7, <1>8, WholePagesNear
<1>10. m.len = common \/ m.len = PageSize * full \/ m.len = PageSize * most
  BY DEF Match, common
<1> DEFINE y == PageSize * full
           z == PageSize * most
<1> HIDE DEF y, z, m, full, most
<1>11. /\ y \in Nat /\ z \in Nat /\ common < y + PageSize /\ n < z + PageSize
       /\ PageSize \in Nat /\ PageSize >= 1
       /\ m.len = common \/ m.len = y \/ m.len = z
  BY <1>9, <1>10, PageSizeAssumption DEF y, z
<1>12. m.len \in Nat /\ l < m.len + PageSize
  BY <1>1, <1>6, <1>7, <1>11
<1>13. c.pages[s] = <<>> => l = 0
  <2> SUFFICES ASSUME c.pages[s] = <<>> PROVE l = 0
    OBVIOUS
  <2>1. x <= 0 * PageSize
    BY <1>3 DEF Filled
  <2>2. 0 * PageSize = 0
    BY PageSizeAssumption
  <2> QED
    BY <1>4, <1>6, <2>1, <2>2
<1> QED
  BY <1>6, <1>12, <1>13 DEF l, toks, head, n, m, most

\* No Sequence had a longer match than the one taken.
LEMMA MatchLongest ==
  ASSUME NEW c, LaidOut(c, SeqId), NEW i \in DOMAIN c.sequences, NEW input \in Seq(Token), input # <<>>,
         NEW allowed, NEW r \in PrefixMatch(c, i, input, allowed), NEW s \in Live(c)
  PROVE  /\ r.matched \in Nat /\ r.matched < Len(input)
         /\ CommonPrefixLen(TokensOf(c, s), SubSeq(input, 1, Len(input) - 1)) < r.matched + PageSize
<1> DEFINE most  == PromptPages(input)
           best  == BestMatches(c, input, most, allowed)
           match == Match(c, s, input, most, allowed)
           l     == CommonPrefixLen(TokensOf(c, s), SubSeq(input, 1, Len(input) - 1))
<1>1. Consistent(c) /\ \A t \in SeqId : Settled(c, t)
  BY DEF LaidOut, Shape
<1>2. s \in SeqId
  BY <1>1, LiveFacts
<1>3. most \in Nat
  <2>1. Len(input) - 1 \in Nat
    OBVIOUS
  <2> QED
    BY <2>1, DivMonotone DEF PromptPages
<1>4. /\ l \in Nat /\ l < match.len + PageSize /\ match.len \in Nat
      /\ c.pages[s] = <<>> => l = 0
  BY <1>1, <1>2, MatchCovers
<1>5. IF best = {} THEN r.matched = 0 ELSE \E m \in best : r.matched = m.len
  BY DEF PrefixMatch, MatchPrefix
<1>6. \A m \in best : m.len \in Nat /\ m.len < Len(input)
  BY <1>1, MatchLeavesOne
<1>7. r.matched \in Nat /\ r.matched < Len(input)
  <2>1. Len(input) \in Nat /\ 0 < Len(input)
    OBVIOUS
  <2> QED
    BY <1>5, <1>6, <2>1
<1>8. s \in Candidates(c) /\ match.len > 0 => \E m \in best : match.len <= m.len
  BY <1>1, <1>3, LongestMatch
<1>9. \A m \in best : s \in Candidates(c) => match.len <= m.len
  BY DEF BestMatches
<1> HIDE DEF l, match, best
<1>10. s \notin Candidates(c) => l = 0
  BY <1>4 DEF Candidates
<1>11. l < r.matched + PageSize
  <2>1. CASE s \notin Candidates(c)
    BY <1>7, <1>10, <2>1, PageSizeAssumption
  <2>2. CASE s \in Candidates(c) /\ best = {}
    <3>1. match.len = 0
      BY <1>4, <1>8, <2>2
    <3> QED
      BY <1>4, <1>5, <2>2, <3>1
  <2>3. CASE s \in Candidates(c) /\ best # {}
    <3>1. match.len <= r.matched
      BY <1>5, <1>9, <2>3
    <3> QED
      BY <1>4, <1>7, <3>1, PageSizeAssumption
  <2> QED
    BY <2>1, <2>2, <2>3
<1> QED
  BY <1>7, <1>11 DEF l

\* The tokens of the matched row are the first of the prompt.
LEMMA MatchedTokens ==
  ASSUME NEW c, LaidOut(c, SeqId), NEW r, LaidOut(r.cache, SeqId), NEW i, NEW input \in Seq(Token),
         MatchedRow(c, r, i, input), r.matched \in Nat, r.matched < Len(input)
  PROVE  LET row == r.cache.sequences[i]
             history == TokensOf(r.cache, row)
         IN IsPrefix(history, input) /\ Len(history) = r.matched
<1> DEFINE d   == r.cache
           row == d.sequences[i]
           n   == r.matched
           h   == TokensOf(d, row)
<1>1. d \in CacheType /\ c \in CacheType /\ Consistent(c)
  BY DEF LaidOut, Shape, Consistent
<1>2. row \in SeqId /\ Filled(d, row, n)
  BY DEF MatchedRow
<1>3. h = [x \in 1..n |-> Written(d, row, x)] /\ h \in Seq(Token) /\ Len(h) = n
  <2> HIDE DEF d, row, n
  <2>1. n \in Nat
    BY DEF n
  <2> QED
    BY <1>1, <1>2, <2>1, TokensIs
<1>4. ASSUME NEW x \in 1..n PROVE h[x] = input[x]
  <2>1. n # 0 /\ n \in Nat
    BY <1>4
  <2>2. PICK donor \in Live(c) : /\ Begins(c, d, row, donor)
                                /\ n <= CommonPrefixLen(TokensOf(c, donor), input)
                                /\ \E y \in 0..c.allocLen[donor] : Filled(c, donor, y) /\ n <= y
    BY <2>1 DEF MatchedRow
  <2>3. PICK y \in 0..c.allocLen[donor] : Filled(c, donor, y) /\ n <= y
    BY <2>2
  <2>4. donor \in SeqId
    BY <1>1, LiveFacts
  <2>5. y \in Nat
    <3>1. c.allocLen[donor] \in Nat
      BY <1>1, <2>4, ConsistentFacts
    <3> QED
      BY <3>1
  <2> HIDE DEF n, d, row, h
  <2>6. x \in 1..y /\ x \in 1..n
    BY <2>1, <2>3, <2>5
  <2> DEFINE toks == TokensOf(c, donor)
             l    == CommonPrefixLen(toks, input)
  <2>7. toks = [z \in 1..y |-> Written(c, donor, z)] /\ toks \in Seq(Token)
    BY <1>1, <2>3, <2>4, <2>5, TokensIs
  <2>8. toks[x] = Written(c, donor, x)
    BY <2>6, <2>7
  <2> HIDE DEF toks
  <2>9. l \in Nat /\ n <= l /\ \A k \in 1..l : toks[k] = input[k]
    BY <2>2, <2>7, CommonPrefixIs DEF toks
  <2>10. toks[x] = input[x]
    <3>1. x \in 1..l
      <4> HIDE DEF l
      <4> QED
        BY <2>1, <2>9
    <3> QED
      BY <2>9, <3>1
  <2> DEFINE k == (x - 1) \div PageSize + 1
             q == ((x - 1) % PageSize) + 1
  <2>11. k \in DOMAIN d.pages[row]
    BY <1>1, <1>2, <2>1, WrittenFacts
  <2>12. Written(d, row, x) = d.tokenIds[d.pages[row][k]][q] /\ Written(c, donor, x) = c.tokenIds[c.pages[donor][k]][q]
    BY DEF Written
  <2> HIDE DEF k, q
  <2>13. d.tokenIds[d.pages[row][k]] = c.tokenIds[c.pages[donor][k]]
    BY <2>2, <2>11 DEF Begins
  <2>14. Written(d, row, x) = Written(c, donor, x)
    BY <2>12, <2>13
  <2>15. h[x] = Written(d, row, x)
    BY <1>3, <1>4
  <2> QED
    BY <2>8, <2>10, <2>14, <2>15
<1> HIDE DEF h, d, row
<1>5. n \in Nat /\ n < Len(input) /\ Len(input) \in Nat
  OBVIOUS
<1> HIDE DEF n
<1> DEFINE u == SubSeq(h, 1, n)
           v == SubSeq(input, 1, n)
<1>6. /\ u \in Seq(Token) /\ Len(u) = n /\ \A x \in 1..n : u[x] = h[x]
      /\ v \in Seq(Token) /\ Len(v) = n /\ \A x \in 1..n : v[x] = input[x]
  BY <1>3, <1>5
<1> HIDE DEF u, v
<1>7. u = v
  BY <1>4, <1>6, SameSequence
<1>8. IsPrefix(h, input)
  BY <1>3, <1>5, <1>7 DEF IsPrefix, u, v
<1> QED
  BY <1>3, <1>8 DEF h, d, row, n

\* What admission gets, for any prompt, permission and state of the cache: a
\* proper prefix of the prompt, no shorter than any Sequence could give but for
\* less than a page, with the next prompt token pending; and what it costs the
\* other Sequences: nothing.
THEOREM MatchSoundHolds == Spec => []MatchSound
<1>1. ASSUME LayoutInv, ~failed PROVE MatchSound
  <2>1. LaidOut(cache, SeqId) /\ Consistent(cache)
    BY <1>1, CalmFacts
  <2> SUFFICES ASSUME NEW i \in Rows, NEW input \in Prompts, NEW allowed \in Permissions,
                      NEW m \in PrefixMatch(cache, i, input, allowed)
               PROVE  LET row == m.cache.sequences[i]
                          history == TokensOf(m.cache, row)
                      IN /\ IsPrefix(history, input)
                         /\ Len(history) = m.matched
                         /\ m.matched < Len(input)
                         /\ m.cache.allocLen[row] = m.matched
                         /\ m.cache.target[row] = input[m.matched + 1]
                         /\ \A s \in Live(cache) :
                              CommonPrefixLen(TokensOf(cache, s), SubSeq(input, 1, Len(input) - 1))
                                < m.matched + PageSize
                         /\ \A s \in Live(cache) \ {Row(i)} :
                              \/ s = row
                              \/ s \in Live(m.cache) /\ TokensOf(m.cache, s) = TokensOf(cache, s)
    BY DEF MatchSound
  <2>2. input \in Seq(Token) /\ input # <<>> /\ Len(input) \in Nat /\ 0 < Len(input)
    <3>1. input \in Seq(Token) /\ input # <<>>
      BY InputAssumption
    <3> QED
      BY <3>1
  <2>3. i \in DOMAIN cache.sequences /\ Row(i) = cache.sequences[i] /\ Row(i) \in SeqId
    BY <1>1, CalmRow
  <2>4. PromptPages(input) \in Nat
    <3>1. Len(input) - 1 \in Nat
      BY <2>2
    <3> QED
      BY <2>2, <3>1, DivMonotone DEF PromptPages
  <2>5. m \in MatchPrefix(cache, i, input, PromptPages(input), allowed)
    BY DEF PrefixMatch
  <2> DEFINE d   == m.cache
             row == d.sequences[i]
             history == TokensOf(d, row)
  <2>6. LaidOut(d, SeqId) /\ MatchedRow(cache, m, i, input)
    BY <2>1, <2>2, <2>3, <2>4, <2>5, MatchPrefixShape
  <2>7. \A s \in Live(cache) :
          /\ m.matched \in Nat /\ m.matched < Len(input)
          /\ CommonPrefixLen(TokensOf(cache, s), SubSeq(input, 1, Len(input) - 1)) < m.matched + PageSize
    BY <2>1, <2>2, <2>3, MatchLongest
  <2>8. m.matched \in Nat /\ m.matched < Len(input)
    <3>1. Row(i) \in Live(cache)
      BY <1>1, CalmRow
    <3> QED
      BY <2>7, <3>1
  <2>9. IsPrefix(history, input) /\ Len(history) = m.matched
    BY <2>1, <2>2, <2>6, <2>8, MatchedTokens
  <2>10. d.allocLen[row] = m.matched
    BY <2>6 DEF MatchedRow
  <2>11. d.target[row] = input[m.matched + 1]
    <3>1. \/ m.matched = 0 /\ d.target[row] = TokenAt(input, 0, None)
          \/ \E donor \in Live(cache) : d.target[row] = TokenAt(input, m.matched, cache.target[donor])
      BY <2>6 DEF MatchedRow
    <3>2. \A t : TokenAt(input, m.matched, t) = input[m.matched + 1]
      BY <2>8 DEF TokenAt
    <3> QED
      BY <3>1, <3>2
  <2>12. \A s \in Live(cache) \ {Row(i)} : s \in Live(d) /\ TokensOf(d, s) = TokensOf(cache, s)
    <3> SUFFICES ASSUME NEW s \in Live(cache), s # Row(i)
                 PROVE  s \in Live(d) /\ TokensOf(d, s) = TokensOf(cache, s)
      OBVIOUS
    <3>1. s \in SeqId
      BY <2>1, LiveFacts
    <3>2. SameAt(cache, d, s) /\ s \in Live(d)
      BY <2>3, <2>6, <3>1 DEF MatchedRow
    <3>3. [k \in 1..Len(d.pages[s]) |-> d.tokenIds[d.pages[s][k]]]
            = [k \in 1..Len(cache.pages[s]) |-> cache.tokenIds[cache.pages[s][k]]]
      BY <3>2 DEF SameAt, Range
    <3> QED
      BY <3>2, <3>3 DEF TokensOf
  <2> QED
    BY <2>7, <2>8, <2>9, <2>10, <2>11, <2>12
<1>2. LayoutInv => MatchSound
  <2>1. CASE failed
    BY <2>1 DEF MatchSound
  <2>2. CASE ~failed
    BY <1>1, <2>2
  <2> QED
    BY <2>1, <2>2
<1> QED
  BY <1>2, Layout, PTL

-----------------------------------------------------------------------------
(* Where pages get lost                                                  *)

\* No page is lost between c and d: one that is neither free nor counted in d
\* was so in c.
NoneLost(c, d) ==
  \A p \in Page : d.refs[p] = 0 /\ p \notin d.available => c.refs[p] = 0 /\ p \notin c.available

\* Not in one step after another.
LEMMA NoneLostTwice ==
  ASSUME NEW b, NEW c, NEW d, NoneLost(b, c), NoneLost(c, d)
  PROVE  NoneLost(b, d)
  BY DEF NoneLost

\* Not where counts and free pages stay.
LEMMA NoneLostSame ==
  ASSUME NEW c, NEW d, d.refs = c.refs, d.available = c.available
  PROVE  NoneLost(c, d)
  BY DEF NoneLost

\* The free pages hold, and the references count, what the Sequences hold.
LEMMA LostIs ==
  ASSUME NEW c, Consistent(c), NEW p \in Page
  PROVE  /\ Holders(c, p) = HoldersIn(c.pages, p)
         /\ Holders(c, p) = {} <=> c.refs[p] = 0
         /\ c.refs[p] \in Nat
<1>1. Live(c) \subseteq SeqId /\ \A s \in SeqId \ Live(c) : c.pages[s] = <<>>
  BY LiveFacts
<1>2. Range(<<>>) = {}
  BY DEF Range
<1>3. Holders(c, p) = HoldersIn(c.pages, p)
  BY <1>1, <1>2 DEF Holders, HoldersIn, PagesOf
<1>4. c.refs[p] = Cardinality(HoldersIn(c.pages, p)) /\ c.refs[p] \in Nat
  BY ConsistentFacts
<1>5. IsFiniteSet(HoldersIn(c.pages, p))
  BY HoldersFinite
<1>6. HoldersIn(c.pages, p) = {} <=> Cardinality(HoldersIn(c.pages, p)) = 0
  BY <1>5, FS_EmptySet
<1> QED
  BY <1>3, <1>4, <1>6

\* clear frees the pages whose last reference it takes.
LEMMA ClearAllNoneLost ==
  ASSUME NEW c, Consistent(c), NEW S
  PROVE  NoneLost(c, ClearAll(c, S))
<1> DEFINE d == ClearAll(c, S)
           left(p) == c.refs[p] - Cardinality({s \in S : p \in PagesOf(c, s)})
           freed == {p \in Page : c.refs[p] > 0 /\ left(p) = 0}
<1>1. d.refs = [p \in Page |-> left(p)] /\ d.available = c.available \cup freed
  BY DEF ClearAll, Repaged
<1> HIDE DEF d
<1> SUFFICES ASSUME NEW p \in Page, d.refs[p] = 0, p \notin d.available
             PROVE  c.refs[p] = 0 /\ p \notin c.available
  BY DEF NoneLost, d
<1>2. c.refs[p] \in Nat
  BY LostIs
<1>3. left(p) = 0
  BY <1>1
<1> HIDE DEF left
<1>4. ~(c.refs[p] > 0)
  BY <1>1, <1>3
<1> QED
  BY <1>1, <1>2, <1>4

\* So does popPage.
LEMMA PopToNoneLost ==
  ASSUME NEW c, Consistent(c), NEW s, NEW n
  PROVE  NoneLost(c, PopTo(c, s, n))
<1> DEFINE d == PopTo(c, s, n)
           popped == {c.pages[s][k] : k \in (n + 1)..Len(c.pages[s])}
           freed  == {p \in popped : c.refs[p] = 1}
<1>1. /\ d.refs = [p \in Page |-> IF p \in popped THEN c.refs[p] - 1 ELSE c.refs[p]]
      /\ d.available = c.available \cup freed
  BY DEF PopTo, Repaged
<1> HIDE DEF d, popped
<1> SUFFICES ASSUME NEW p \in Page, d.refs[p] = 0, p \notin d.available
             PROVE  c.refs[p] = 0 /\ p \notin c.available
  BY DEF NoneLost, d
<1>2. c.refs[p] \in Nat
  BY LostIs
<1> QED
  BY <1>1, <1>2

\* pushPage counts the page it takes from the free ones.
LEMMA PushPagesNoneLost ==
  ASSUME NEW c, Consistent(c), NEW s, NEW ps, NEW len
  PROVE  NoneLost(c, PushPages(c, s, ps, len))
<1> DEFINE d == PushPages(c, s, ps, len)
<1>1. /\ d.refs = [p \in Page |-> IF p \in Range(ps) THEN c.refs[p] + 1 ELSE c.refs[p]]
      /\ d.available = c.available \ Range(ps)
  BY DEF PushPages, Repaged
<1> HIDE DEF d
<1> SUFFICES ASSUME NEW p \in Page, d.refs[p] = 0, p \notin d.available
             PROVE  c.refs[p] = 0 /\ p \notin c.available
  BY DEF NoneLost, d
<1>2. c.refs[p] \in Nat
  BY LostIs
<1> QED
  BY <1>1, <1>2

\* The callback clears.
LEMMA EnsureAvailableNoneLost ==
  ASSUME NEW c, Consistent(c), NEW n, NEW d \in EnsureAvailable(c, n)
  PROVE  NoneLost(c, d)
<1>1. ASSUME NEW S, d = RemoveStaged(c, S) PROVE NoneLost(c, d)
  <2>1. NoneLost(c, ClearAll(c, S))
    BY ClearAllNoneLost
  <2>2. d.refs = ClearAll(c, S).refs /\ d.available = ClearAll(c, S).available
    BY <1>1 DEF RemoveStaged, Rehomed
  <2> QED
    BY <2>1, <2>2 DEF NoneLost
<1>2. CASE d = c
  BY <1>2 DEF NoneLost
<1> QED
  BY <1>1, <1>2 DEF EnsureAvailable

\* allocAppendPages pushes.
LEMMA AppendNoneLost ==
  ASSUME NEW c, Consistent(c), NEW s, NEW n, NEW d \in Append_(c, s, n)
  PROVE  NoneLost(c, d)
<1>1. PICK e \in EnsureAvailable(c, PagesNeeded(c, s, n)) : d = e \/ d \in AllocAppend(e, s, n)
  BY DEF Append_
<1>2. Consistent(e)
  BY <1>1, EnsureAvailableConsistent
<1>3. NoneLost(c, e)
  BY <1>1, EnsureAvailableNoneLost
<1>4. CASE d \in AllocAppend(e, s, n)
  <2>1. PICK f : d = PushPages(e, s, f, e.allocLen[s] + n)
    BY <1>4 DEF AllocAppend
  <2>2. NoneLost(e, d)
    BY <1>2, <2>1, PushPagesNoneLost
  <2> QED
    BY <1>3, <2>2, NoneLostTwice
<1> QED
  BY <1>1, <1>3, <1>4

\* The row of a donor's pages.
LEMMA SharePagesNoneLost ==
  ASSUME NEW c, Consistent(c), NEW i \in DOMAIN c.sequences, NEW donor, NEW n
  PROVE  NoneLost(c, SharePages(c, i, donor, n))
<1> DEFINE s == c.sequences[i]
           b == ClearAll(c, {s})
<1>1. s \in SeqId
  BY LiveFacts DEF Range
<1>2. {s} \in SUBSET SeqId
  BY <1>1
<1> HIDE DEF s
<1>3. Consistent(b) /\ NoneLost(c, b)
  BY <1>2, ClearAllConsistent, ClearAllNoneLost
<1> HIDE DEF b
<1>4. SharePages(c, i, donor, n) = PushPages(b, s, SubSeq(c.pages[donor], 1, n), n * PageSize)
  BY DEF SharePages, Clear, b, s
<1>5. NoneLost(b, SharePages(c, i, donor, n))
  BY <1>3, <1>4, PushPagesNoneLost
<1> QED
  BY <1>3, <1>5, NoneLostTwice

\* matchPrefix.
LEMMA MatchPrefixNoneLost ==
  ASSUME NEW c, Consistent(c), NEW i \in DOMAIN c.sequences, NEW input, NEW maxPages, NEW allowed,
         NEW r \in MatchPrefix(c, i, input, maxPages, allowed)
  PROVE  NoneLost(c, r.cache)
<1> DEFINE s == c.sequences[i]
           best == BestMatches(c, input, maxPages, allowed)
           d == r.cache
<1>1. ASSUME NEW e, NoneLost(c, e), NEW u, NEW t, d = SetTarget(e, u, t) PROVE NoneLost(c, d)
  <2>1. d.refs = e.refs /\ d.available = e.available
    BY <1>1 DEF SetTarget
  <2> QED
    BY <1>1, <2>1 DEF NoneLost
<1>2. CASE best = {}
  <2>1. d = SetTarget(ClearAll(c, {s}), s, TokenAt(input, 0, None))
    BY <1>2 DEF MatchPrefix, Clear
  <2> QED
    BY <1>1, <2>1, ClearAllNoneLost
<1>3. CASE best # {}
  <2>1. PICK m \in best :
          \E t : \/ d = SetTarget(c, m.donor, t)
                 \/ d = SetTarget(TakeOver(c, i, m.donor), m.donor, t)
                 \/ d = SetTarget(PopTo(c, s, m.len \div PageSize), s, t)
                 \/ d = SetTarget(SharePages(c, i, m.donor, m.len \div PageSize), s, t)
    BY <1>3 DEF MatchPrefix
  <2>2. NoneLost(c, c)
    BY DEF NoneLost
  <2>3. NoneLost(c, TakeOver(c, i, m.donor))
    <3>1. NoneLost(c, ClearAll(c, {s}))
      BY ClearAllNoneLost
    <3>2. /\ TakeOver(c, i, m.donor).refs = ClearAll(c, {s}).refs
          /\ TakeOver(c, i, m.donor).available = ClearAll(c, {s}).available
      BY DEF TakeOver, Rehomed, Clear
    <3> QED
      BY <3>1, <3>2 DEF NoneLost
  <2>4. NoneLost(c, PopTo(c, s, m.len \div PageSize))
    BY PopToNoneLost
  <2>5. NoneLost(c, SharePages(c, i, m.donor, m.len \div PageSize))
    BY SharePagesNoneLost
  <2> QED
    BY <1>1, <2>1, <2>2, <2>3, <2>4, <2>5
<1> QED
  BY <1>2, <1>3

\* reset counts again only what the staged Sequences hold, and frees the rest.
LEMMA ResetNoneLost ==
  ASSUME NEW c, Consistent(c), NEW rows
  PROVE  NoneLost(c, Reset(c, rows))
<1> DEFINE d == Reset(c, rows)
           held == UNION {PagesOf(c, s) : s \in c.staging}
<1>1. d.available = Page \ held /\ d.refs = [p \in Page |-> IF p \in held THEN c.refs[p] ELSE 0]
  BY DEF Reset
<1>2. ASSUME NEW p \in held PROVE c.refs[p] >= 1
  <2>1. PICK s \in c.staging : p \in Range(c.pages[s])
    BY DEF PagesOf
  <2>2. s \in SeqId
    BY LiveFacts
  <2> QED
    BY <2>1, <2>2, HeldPagesCounted
<1> HIDE DEF d, held
<1> SUFFICES ASSUME NEW p \in Page, d.refs[p] = 0, p \notin d.available
             PROVE  FALSE
  BY DEF NoneLost, d
<1>3. p \in held
  BY <1>1
<1>4. c.refs[p] = 0
  BY <1>1, <1>3
<1> QED
  BY <1>2, <1>3, <1>4

\* p was held by a staged Sequence that the step dropped, and by a row in which
\* the step put another page in its place.
Evicted(p) ==
  /\ \E s \in cache.staging \ cache'.staging : p \in PagesOf(cache, s)
  /\ \E i \in Rows : /\ Len(cache'.pages[Row(i)]) <= Len(cache.pages[Row(i)])
                    /\ \E k \in DOMAIN cache'.pages[Row(i)] :
                         cache.pages[Row(i)][k] = p /\ cache'.pages[Row(i)][k] # p

\* Reporting tokens to an appended Sequence touches neither counts nor free pages.
LEMMA ReportAfterAppend ==
  ASSUME NEW c, Consistent(c), NEW s, NEW n, NEW d \in Append_(c, s, n), NEW u, NEW tokens, NEW t
  PROVE  /\ ReportTokens(d, u, tokens, t).refs = d.refs
         /\ ReportTokens(d, u, tokens, t).available = d.available
<1>1. PICK e \in EnsureAvailable(c, PagesNeeded(c, s, n)) : d = e \/ d \in AllocAppend(e, s, n)
  BY DEF Append_
<1>2. CASE d = e
  <2>1. d \in CacheType
    BY <1>1, <1>2, EnsureAvailableConsistent DEF Consistent
  <2> QED
    BY <2>1 DEF CacheType, ReportTokens, SetTarget
<1>3. CASE d \in AllocAppend(e, s, n)
  <2>1. PICK f : d = PushPages(e, s, f, e.allocLen[s] + n)
    BY <1>3 DEF AllocAppend
  <2> QED
    BY <2>1 DEF PushPages, Repaged, ReportTokens, SetTarget
<1> QED
  BY <1>1, <1>2, <1>3

\* copyPrefixFrom loses no page.
LEMMA CopyPrefixFromNoneLost ==
  ASSUME Inv, NEW i \in Rows, NEW history \in Foreign, NEW target \in Pending,
         NEW maxPages \in 0..CeilDiv(MaxLen), CopyPrefixFrom(i, history, target, maxPages)
  PROVE  NoneLost(cache, cache')
<1> DEFINE whole == Len(history) \div PageSize
           full  == IF whole < maxPages THEN whole ELSE maxPages
<1>1. full \in Nat /\ history \in Seq(Token)
  <2>1. history \in Seq(Token) /\ Len(history) \in Nat
    BY InputAssumption
  <2>2. maxPages \in Nat /\ whole \in Nat
    BY <2>1, DivMonotone, MaxLenAssumption, CeilDivFacts
  <2> QED
    BY <2>1, <2>2
<1>2. PICK m \in MatchPrefix(cache, i, history, full, {}) :
        \E c \in Append_(m.cache, m.cache.sequences[i], full * PageSize - m.matched) :
          cache' = IF c.allocLen[m.cache.sequences[i]] = full * PageSize
                   THEN ReportTokens(c, m.cache.sequences[i],
                                     SubSeq(history, m.matched + 1, full * PageSize),
                                     TokenAt(history, full * PageSize, target))
                   ELSE c
  BY DEF CopyPrefixFrom
<1> HIDE DEF full
<1>3. Consistent(cache) /\ Consistent(m.cache) /\ i \in DOMAIN cache.sequences
  BY <1>1, <1>2, MatchPrefixConsistent DEF Inv, Rows
<1>4. NoneLost(cache, m.cache)
  BY <1>2, <1>3, MatchPrefixNoneLost
<1>5. PICK c \in Append_(m.cache, m.cache.sequences[i], full * PageSize - m.matched) :
        cache'.refs = c.refs /\ cache'.available = c.available
  <2> DEFINE grown == Append_(m.cache, m.cache.sequences[i], full * PageSize - m.matched)
  <2>1. PICK c \in grown :
          \/ cache' = c
          \/ cache' = ReportTokens(c, m.cache.sequences[i],
                                   SubSeq(history, m.matched + 1, full * PageSize),
                                   TokenAt(history, full * PageSize, target))
    BY <1>2
  <2>2. cache'.refs = c.refs /\ cache'.available = c.available
    BY <1>3, <2>1, ReportAfterAppend
  <2>3. \E e \in grown : cache'.refs = e.refs /\ cache'.available = e.available
    BY <2>2
  <2> QED
    BY <2>3 DEF grown
<1>6. NoneLost(m.cache, c)
  BY <1>3, AppendNoneLost
<1>7. NoneLost(c, cache')
  BY <1>5, NoneLostSame
<1> QED
  BY <1>4, <1>6, <1>7, NoneLostTwice

\* Nor does copySequence.
LEMMA CopySequenceNoneLost ==
  ASSUME LayoutInv, NEW d \in Rows, NEW i \in Rows, CopySequence(d, i)
  PROVE  NoneLost(cache, cache')
<1> DEFINE src  == Row(i)
           dst  == Row(d)
           len  == AllocLen(src)
           keep == len \div PageSize
           c0   == IF keep = 0 THEN Clear(cache, dst) ELSE SharePages(cache, d, src, keep)
           fill(c) == Repaged(c, c.pages, Updated(c.allocLen, dst, len), c.refs,
                              Updated(c.tokenIds, BoundaryPage(c, dst), c.tokenIds[c.pages[src][keep + 1]]),
                              c.available)
<1>1. ~failed /\ d # i
  BY DEF CopySequence
<1>2. Consistent(cache)
  BY <1>1, CalmFacts
<1>3. /\ src \in SeqId /\ dst \in SeqId /\ d \in DOMAIN cache.sequences /\ dst = cache.sequences[d]
      /\ len \in Nat /\ len = cache.allocLen[src]
  BY <1>1, CalmRow
<1>4. src # dst
  BY <1>1, <1>2 DEF Consistent, IsInjective, Rows, Row
<1>5. keep \in 0..Len(cache.pages[src])
  <2>1. /\ keep <= CeilDiv(len) /\ CeilDiv(len) \in Nat /\ keep \in Nat
    BY <1>3, CeilDivFacts, DivMonotone
  <2>2. Len(cache.pages[src]) \in Nat /\ CeilDiv(len) <= Len(cache.pages[src])
    BY <1>2, <1>3, ConsistentFacts
  <2> HIDE DEF keep, len, src
  <2> QED
    BY <2>1, <2>2
<1> HIDE DEF src, dst, len, keep
<1>6. Consistent(c0) /\ NoneLost(cache, c0)
  <2> DEFINE S == {dst}
             e == ClearAll(cache, S)
             f == SharePages(cache, d, src, keep)
  <2>1. Consistent(e) /\ NoneLost(cache, e)
    <3>1. S \in SUBSET SeqId
      BY <1>3
    <3> HIDE DEF S
    <3> QED
      BY <1>2, <3>1, ClearAllConsistent, ClearAllNoneLost
  <2>2. Consistent(f) /\ NoneLost(cache, f)
    BY <1>2, <1>3, <1>4, <1>5, SharePagesConsistent, SharePagesNoneLost
  <2>3. c0 = IF keep = 0 THEN e ELSE f
    BY DEF Clear
  <2> HIDE DEF c0, e, f
  <2> QED
    BY <2>1, <2>2, <2>3
<1>7. \/ cache'.refs = c0.refs /\ cache'.available = c0.available
      \/ \E c \in Append_(c0, dst, PageSize) : cache'.refs = c.refs /\ cache'.available = c.available
  <2>1. CASE len % PageSize = 0
    <3>1. cache' = SetTarget(c0, dst, cache.target[src])
      BY <2>1 DEF CopySequence, c0, src, dst, len, keep
    <3> HIDE DEF c0
    <3> QED
      BY <3>1 DEF SetTarget
  <2>2. CASE len % PageSize # 0
    <3>1. PICK c \in Append_(c0, dst, PageSize) :
            cache' = IF Len(c.pages[dst]) > keep
                     THEN SetTarget(fill(c), dst, cache.target[src])
                     ELSE c
      BY <2>2 DEF CopySequence, c0, src, dst, len, keep
    <3> HIDE DEF c0
    <3>2. cache'.refs = c.refs /\ cache'.available = c.available
      BY <3>1 DEF SetTarget, Repaged
    <3> QED
      BY <3>1, <3>2
  <2> QED
    BY <2>1, <2>2
<1> HIDE DEF c0
<1>8. CASE cache'.refs = c0.refs /\ cache'.available = c0.available
  BY <1>6, <1>8 DEF NoneLost
<1>9. ASSUME NEW c \in Append_(c0, dst, PageSize), cache'.refs = c.refs, cache'.available = c.available
      PROVE  NoneLost(cache, cache')
  <2>1. NoneLost(c0, c)
    BY <1>6, AppendNoneLost
  <2>2. NoneLost(c, cache')
    BY <1>9, NoneLostSame
  <2> QED
    BY <1>6, <2>1, <2>2, NoneLostTwice
<1> QED
  BY <1>7, <1>8, <1>9

\* truncate loses the page it replaces, when the callback dropped the reader
\* that it had counted.
LEMMA TruncateLoses ==
  ASSUME LayoutInv, NEW i \in Rows, NEW n \in Nat, Truncate(i, n)
  PROVE  NoneLost(cache, cache') \/ \E p \in Page : Evicted(p) /\
           \A q \in Page : q # p /\ cache'.refs[q] = 0 /\ q \notin cache'.available
                             => cache.refs[q] = 0 /\ q \notin cache.available
<1> DEFINE s   == Row(i)
           c1  == CutTo(cache, s, n)
           old == BoundaryPage(c1, s)
<1>1. ~failed /\ n < cache.allocLen[s]
  BY DEF Truncate, AllocLen
<1>2. Shape(cache) /\ Consistent(cache)
  BY <1>1, CalmFacts
<1>3. s \in SeqId /\ s \in Live(cache) /\ s \in Range(cache.sequences)
  BY <1>1, CalmRow
<1>4. PICK x \in 0..cache.allocLen[s] : Filled(cache, s, x)
  BY <1>1, CalmRow
<1>5. x \in Nat /\ CeilDiv(n) \in Nat
  <2>1. cache.allocLen[s] \in Nat
    BY <1>2, <1>3, ConsistentFacts
  <2> QED
    BY <2>1, CeilDivFacts
<1>6. Shape(c1) /\ Frame(cache, c1, {s}) /\ Cut(cache, c1, s, n)
  <2> HIDE DEF s
  <2> QED
    BY <1>1, <1>2, <1>3, <1>4, <1>5, CutToShape
<1>7. /\ c1.sequences = cache.sequences /\ c1.staging = cache.staging
      /\ Len(c1.pages[s]) = CeilDiv(n) /\ Consistent(c1) /\ CeilDiv(n) <= Len(cache.pages[s])
      /\ \A k \in 1..CeilDiv(n) : c1.pages[s][k] = cache.pages[s][k]
  BY <1>6 DEF Cut, Shape
<1>8. NoneLost(cache, c1)
  <2> DEFINE b == PopTo(cache, s, CeilDiv(n))
  <2>1. NoneLost(cache, b)
    BY <1>2, PopToNoneLost
  <2>2. c1.refs = b.refs /\ c1.available = b.available
    BY DEF CutTo, SetTarget
  <2> QED
    BY <2>1, <2>2 DEF NoneLost
<1>9. CASE n % PageSize = 0
  <2>1. cache' = c1
    BY <1>9 DEF Truncate
  <2> QED
    BY <1>8, <2>1
<1>10. CASE n % PageSize # 0
  <2>1. CeilDiv(n) >= 1
    <3>1. n \div PageSize \in Nat /\ n \div PageSize + 1 <= CeilDiv(n)
      BY <1>10, DivMonotone, CeilDivPartial
    <3> QED
      BY <3>1, <1>5
  <2> HIDE DEF old
  <2>2. CASE c1.refs[old] <= 1
    <3>1. cache' = Trim(c1, old, n)
      BY <1>10, <2>2 DEF Truncate, old
    <3>2. cache'.refs = c1.refs /\ cache'.available = c1.available
      BY <3>1 DEF Trim
    <3> QED
      BY <1>8, <3>2 DEF NoneLost
  <2>3. CASE ~(c1.refs[old] <= 1)
    <3>1. PICK c2 \in EnsureAvailable(c1, 1) :
            \/ cache' = c2
            \/ \E q \in c2.available : cache' = Trim(CopyOnWrite(c2, s, q), q, n)
      BY <1>10, <2>3 DEF Truncate, old
    <3> HIDE DEF c1
    <3>2. Consistent(c2) /\ SameAt(c1, c2, s) /\ Shape(c2)
      <4>1. s \in Range(c1.sequences)
        BY <1>3, <1>7
      <4> QED
        BY <1>6, <3>1, <4>1, EnsureAvailableShape DEF Shape
    <3>3. NoneLost(c1, c2)
      BY <1>7, <3>1, EnsureAvailableNoneLost
    <3>4. NoneLost(cache, c2)
      BY <1>8, <3>3, NoneLostTwice
    <3>5. c2.pages[s] = c1.pages[s] /\ BoundaryPage(c2, s) = old
      BY <3>2 DEF SameAt, BoundaryPage, old, c1
    <3>6. /\ c1.pages[s] # <<>> /\ old = c1.pages[s][CeilDiv(n)]
          /\ old \in Range(c1.pages[s]) /\ old \in Page
      <4> DEFINE u == c1.pages[s]
      <4>1. u \in Seq(Page) /\ Len(u) = CeilDiv(n) /\ DOMAIN u = 1..Len(u)
        BY <1>3, <1>7, ConsistentFacts
      <4>2. old = u[Len(u)]
        BY DEF old, BoundaryPage, Last, c1
      <4> HIDE DEF u
      <4>3. CeilDiv(n) \in 1..Len(u)
        BY <1>5, <2>1, <4>1
      <4>4. u[CeilDiv(n)] \in Range(u) /\ u[CeilDiv(n)] \in Page /\ u # <<>>
        BY <4>1, <4>3 DEF Range
      <4> QED
        BY <4>1, <4>2, <4>4 DEF u
    <3>7. ASSUME NEW q \in c2.available, cache' = Trim(CopyOnWrite(c2, s, q), q, n)
          PROVE  \/ NoneLost(cache, cache')
                 \/ Evicted(old) /\
                    \A p \in Page : p # old /\ cache'.refs[p] = 0 /\ p \notin cache'.available
                                      => cache.refs[p] = 0 /\ p \notin cache.available
      <4> DEFINE c3 == CopyOnWrite(c2, s, q)
      <4>1. /\ cache'.refs = c3.refs /\ cache'.available = c3.available /\ cache'.pages = c3.pages
            /\ cache'.staging = c3.staging /\ cache'.sequences = c3.sequences
        BY <3>7 DEF Trim
      <4>2. /\ c3.refs = [p \in Page |-> IF p = q THEN 1 ELSE IF p = old THEN c2.refs[p] - 1 ELSE c2.refs[p]]
            /\ c3.available = c2.available \ {q}
        BY <3>5 DEF CopyOnWrite, Repaged
      <4>3. ASSUME NEW p \in Page, p # old, c3.refs[p] = 0, p \notin c3.available
            PROVE  c2.refs[p] = 0 /\ p \notin c2.available
        BY <4>2, <4>3
      <4> HIDE DEF c3
      <4>4. \A p \in Page : p # old /\ cache'.refs[p] = 0 /\ p \notin cache'.available
                              => cache.refs[p] = 0 /\ p \notin cache.available
        BY <3>4, <4>1, <4>3 DEF NoneLost
      <4>5. CASE cache'.refs[old] # 0
        BY <4>4, <4>5 DEF NoneLost
      <4>6. CASE cache'.refs[old] = 0
        <5>1. old # q /\ c2.refs[old] \in Nat
          <6>1. c2.refs[q] = 0 /\ q \notin Range(c2.pages[s])
            BY <1>3, <3>2, FreePagesFree
          <6> QED
            BY <3>2, <3>5, <3>6, <6>1, LostIs
        <5>2. c2.refs[old] = 1
          BY <3>6, <4>1, <4>2, <4>6, <5>1
        <5>3. c1.refs[old] \in Nat /\ c1.refs[old] > 1 /\ c1.refs[old] = Cardinality(HoldersIn(c1.pages, old))
          BY <1>7, <2>3, <3>6, ConsistentFacts
        <5>4. PICK t \in SeqId \ {s} : old \in Range(c1.pages[t])
          <6>1. IsFiniteSet(HoldersIn(c1.pages, old))
            BY HoldersFinite
          <6>2. \E a, b \in HoldersIn(c1.pages, old) : a # b
            BY <5>3, <6>1, TwoOfMany
          <6> QED
            BY <6>2 DEF HoldersIn
        <5>5. old \notin Range(c2.pages[t])
          <6> SUFFICES ASSUME old \in Range(c2.pages[t]) PROVE FALSE
            OBVIOUS
          <6>1. old \in Range(c2.pages[s]) \cap Range(c2.pages[t])
            BY <3>5, <3>6
          <6>2. c2.refs[old] >= 2
            BY <1>3, <3>2, <6>1, HeldTwice
          <6> QED
            BY <5>2, <6>2
        <5>6. t \in c1.staging /\ t \notin c2.staging
          <6>1. PICK S \in SUBSET c1.staging : c2 = RemoveStaged(c1, S)
            BY <3>1, <5>4, <5>5 DEF EnsureAvailable
          <6>2. t \in S
            BY <1>7, <5>4, <5>5, <6>1, RemoveStagedConsistent
          <6>3. c2.staging = c1.staging \ S
            BY <6>1 DEF RemoveStaged, Rehomed
          <6> QED
            BY <6>1, <6>2, <6>3
        <5>7. old \in PagesOf(cache, t)
          <6>1. c1.pages[t] # <<>>
            BY <5>4 DEF Range
          <6>2. c1.pages[t] = cache.pages[t]
            BY <1>6, <6>1 DEF Frame, SameAt
          <6> QED
            BY <5>4, <6>2 DEF PagesOf
        <5>8. Copied(c2, c3, s, old, q)
          <6>1. c2.pages[s] # <<>> /\ s \in Live(c2)
            <7>1. c2.sequences = c1.sequences
              BY <1>6, <3>1, EnsureAvailableShape
            <7> QED
              BY <1>3, <1>7, <3>5, <3>6, <7>1 DEF Live
          <6>2. SameAt(c1, c2, s)
            BY <3>2
          <6>3. \E y \in Nat : Filled(c2, s, y)
            <7> DEFINE y == Least(x, CeilDiv(n) * PageSize)
            <7>1. CeilDiv(n) * PageSize \in Nat
              BY <1>5, CeilDivFacts
            <7>2. y \in Nat
              BY <1>5, <7>1, LeastIs
            <7>3. Filled(c1, s, y)
              <8> HIDE DEF s
              <8> QED
                BY <1>1, <1>2, <1>3, <1>4, <1>5, CutToShape DEF c1
            <7> HIDE DEF y
            <7> QED
              BY <6>2, <7>2, <7>3, SameFilled
          <6>4. Copied(c2, CopyOnWrite(c2, s, q), s, BoundaryPage(c2, s), q)
            BY <3>2, <6>1, <6>3, CopyOnWriteShape
          <6> QED
            BY <3>5, <6>4 DEF c3
        <5>9. /\ c3.staging = c2.staging /\ c3.sequences = c2.sequences
              /\ Len(c3.pages[s]) = CeilDiv(n) /\ c3.pages[s][CeilDiv(n)] = q
          <6>1. Len(c2.pages[s]) = CeilDiv(n)
            BY <1>7, <3>5
          <6>2. Len(c3.pages[s]) = CeilDiv(n) /\ BoundaryPage(c3, s) = q
            BY <5>8, <6>1 DEF Copied
          <6>3. c3.pages[s][CeilDiv(n)] = q
            BY <6>2 DEF BoundaryPage, Last
          <6> QED
            BY <5>8, <6>2, <6>3 DEF Copied
        <5>10. Consistent(cache')
          <6>1. Inv
            BY <1>1, <1>2, CalmFacts DEF Inv, Calm
          <6>2. Inv'
            BY <6>1, TruncatePreserves
          <6> QED
            BY <6>2 DEF Inv
        <5>11. CeilDiv(n) \in DOMAIN cache'.pages[s]
          <6>1. DOMAIN cache'.pages[s] = 1..Len(cache'.pages[s])
            BY <1>3, <5>10, ConsistentFacts
          <6>2. Len(cache'.pages[s]) = CeilDiv(n)
            BY <4>1, <5>9
          <6> QED
            BY <1>5, <2>1, <6>1, <6>2
        <5>12. cache.pages[s][CeilDiv(n)] = old /\ cache'.pages[s][CeilDiv(n)] # old
          <6>1. CeilDiv(n) \in 1..CeilDiv(n)
            BY <1>5, <2>1
          <6> QED
            BY <1>7, <3>6, <4>1, <5>1, <5>9, <6>1
        <5>13. Len(cache'.pages[s]) <= Len(cache.pages[s])
          BY <1>7, <4>1, <5>9
        <5>14. \E u \in cache.staging \ cache'.staging : old \in PagesOf(cache, u)
          BY <1>7, <4>1, <5>6, <5>7, <5>9
        <5>15. Evicted(old)
          BY <5>11, <5>12, <5>13, <5>14 DEF Evicted
        <5> QED
          BY <4>4, <5>15
      <4> QED
        BY <4>5, <4>6
    <3> QED
      BY <3>1, <3>4, <3>6, <3>7
  <2> QED
    BY <2>2, <2>3
<1> QED
  BY <1>9, <1>10

\* Nor is a page lost where a Sequence is cleared and dropped.
LEMMA DroppedNoneLost ==
  ASSUME NEW c, Consistent(c), NEW S, NEW rows, NEW staging
  PROVE  NoneLost(c, Rehomed(ClearAll(c, S), rows, staging))
<1> DEFINE b == ClearAll(c, S)
           d == Rehomed(b, rows, staging)
<1>1. NoneLost(c, b)
  BY ClearAllNoneLost
<1>2. d.refs = b.refs /\ d.available = b.available
  BY DEF Rehomed
<1> QED
  BY <1>1, <1>2 DEF NoneLost

\* p is lost by this step, and no other page is.
OnlyLost(p) ==
  /\ Evicted(p)
  /\ \A q \in Page : q # p /\ cache'.refs[q] = 0 /\ q \notin cache'.available
                       => cache.refs[q] = 0 /\ q \notin cache.available

\* Only truncate loses a page, and only one.
LEMMA StepLoses ==
  ASSUME LayoutInv, Next
  PROVE  NoneLost(cache, cache') \/ \E p \in Page : OnlyLost(p)
<1>1. Consistent(cache) /\ Inv
  BY ShapeAlways DEF Inv, LayoutInv, Calm
<1>2. ASSUME NEW n \in 0..MaxBatch, Reset_(n) PROVE NoneLost(cache, cache')
  BY <1>1, <1>2, ResetNoneLost DEF Reset_
<1>3. CASE ClearStaging
  BY <1>1, <1>3, DroppedNoneLost DEF ClearStaging, RemoveStaged
<1>4. ASSUME NEW s \in cache.staging, UnstageSequence(s) PROVE NoneLost(cache, cache')
  BY <1>4, NoneLostSame DEF UnstageSequence, Unstage, Rehomed
<1>5. ASSUME NEW s \in cache.staging, RemoveStagedSequence(s) PROVE NoneLost(cache, cache')
  BY <1>1, <1>5, DroppedNoneLost DEF RemoveStagedSequence, RemoveStaged
<1>6. ASSUME NEW i \in Rows, RowStep(i)
      PROVE  NoneLost(cache, cache') \/ \E p \in Page : OnlyLost(p)
  <2>1. CASE StageSequence(i)
    BY <2>1, NoneLostSame DEF StageSequence, Stage, Rehomed
  <2>2. CASE RemoveRow(i)
    BY <1>1, <2>2, DroppedNoneLost DEF RemoveRow, RemoveSequence, Clear
  <2>3. ASSUME NEW input \in Prompts, NEW allowed \in Permissions, PrefixMatch_(i, input, allowed)
        PROVE  NoneLost(cache, cache')
    BY <1>1, <2>3, MatchPrefixNoneLost DEF PrefixMatch_, PrefixMatch, Rows
  <2>4. ASSUME NEW history \in Foreign, NEW target \in Pending, NEW maxPages \in 0..CeilDiv(MaxLen),
               CopyPrefixFrom(i, history, target, maxPages)
        PROVE  NoneLost(cache, cache')
    BY <1>1, <2>4, CopyPrefixFromNoneLost
  <2>5. ASSUME NEW d \in Rows, CopySequence(d, i) PROVE NoneLost(cache, cache')
    BY <2>5, CopySequenceNoneLost
  <2>6. ASSUME NEW n \in 1..MaxLen, AllocAppendPages(i, n) PROVE NoneLost(cache, cache')
    BY <1>1, <2>6, AppendNoneLost DEF AllocAppendPages
  <2>7. ASSUME NEW n \in 1..MaxLen, Truncate(i, MaxLen - n)
        PROVE  NoneLost(cache, cache') \/ \E p \in Page : OnlyLost(p)
    <3>1. MaxLen - n \in Nat
      BY MaxLenAssumption
    <3> QED
      BY <2>7, <3>1, TruncateLoses DEF OnlyLost
  <2>8. ASSUME NEW tokens \in Chunks, NEW target \in Pending, ReportTokens_(i, tokens, target)
        PROVE  NoneLost(cache, cache')
    <3>1. cache' = ReportTokens(cache, Row(i), tokens, target)
      BY <2>8 DEF ReportTokens_
    <3>2. cache'.refs = cache.refs /\ cache'.available = cache.available
      BY <1>1, <3>1 DEF ReportTokens, SetTarget, Consistent, CacheType
    <3> QED
      BY <3>2, NoneLostSame
  <2>9. CASE RewindReservation(i)
    <3>1. cache' = [cache EXCEPT !.allocLen = Updated(cache.allocLen, Row(i), Reported(cache, Row(i)))]
      BY <2>9 DEF RewindReservation
    <3>2. cache'.refs = cache.refs /\ cache'.available = cache.available
      BY <1>1, <3>1 DEF Consistent, CacheType
    <3> QED
      BY <3>2, NoneLostSame
  <2> QED
    BY <1>6, <2>1, <2>2, <2>3, <2>4, <2>5, <2>6, <2>7, <2>8, <2>9 DEF RowStep
<1> QED
  BY <1>2, <1>3, <1>4, <1>5, <1>6 DEF Next, RowStep

\* A page is lost where truncate replaced it in a row and the callback dropped
\* the staged Sequence that had made it a shared one, and nowhere else: the
\* cache leaks by the race of ensureAvailablePages with its caller only.
THEOREM LostOnlyByEvictionHolds == Spec => LostOnlyByEviction
<1> DEFINE lost(c, p) == p \notin c.available /\ Holders(c, p) = {}
           A == \A p \in Page : ~lost(cache, p) /\ lost(cache', p) => Evicted(p)
<1>1. ASSUME LayoutInv, Next PROVE A
  <2>1. Consistent(cache)
    BY <1>1, ShapeAlways DEF Shape
  <2>2. Consistent(cache')
    <3>1. LayoutInv'
      BY <1>1, StepLeaves DEF Leaves
    <3>2. Inv
      BY <1>1, ShapeAlways DEF Inv, LayoutInv, Calm
    <3> QED
      BY <1>1, <3>2, NextPreserves DEF Inv
  <2> SUFFICES ASSUME NEW p \in Page, p \notin cache'.available, Holders(cache', p) = {},
                      ~lost(cache, p)
               PROVE  Evicted(p)
    OBVIOUS
  <2>3. cache'.refs[p] = 0
    BY <2>2, LostIs
  <2>4. ~(cache.refs[p] = 0 /\ p \notin cache.available)
    BY <2>1, LostIs
  <2>5. ~NoneLost(cache, cache')
    BY <2>3, <2>4 DEF NoneLost
  <2>6. PICK q \in Page : OnlyLost(q)
    BY <1>1, <2>5, StepLoses
  <2> QED
    BY <2>3, <2>4, <2>6 DEF OnlyLost
<1>2. LayoutInv /\ [Next]_vars => [A]_vars
  BY <1>1
<1>3. Spec => [][A]_vars
  BY <1>2, Layout, PTL DEF Spec
<1> QED
  BY <1>3 DEF LostOnlyByEviction, Evicted
=============================================================================
