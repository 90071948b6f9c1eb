----------------------------- MODULE Heap_proofs -----------------------------
(***************************************************************************)
(* Proofs about the free lists of Heap, for any alignment: what allocation *)
(* takes of a list, what a range that comes free adds to it, and that the  *)
(* list stays in order, without neighbours that meet.                      *)
(***************************************************************************)
EXTENDS Heap, SequenceTheorems, WellFoundedInduction, TLAPS

\* A range of memory.
Span == [ptr : Nat, length : Nat \ {0}]

FreeList(s) == s \in Seq(Span) /\ Tidy(s)
-----------------------------------------------------------------------------
(* Free lists                                                            *)

\* A set of numbers has a least one.
LEMMA LeastMember ==
  ASSUME NEW S \in SUBSET Nat, S # {}
  PROVE  \E m \in S : \A n \in S : m <= n
<1>1. PICK m \in S : \A n \in S : ~(<<n, m>> \in OpToRel(<, Nat))
  BY NatLessThanWellFounded, WFMin
<1>2. \A n \in S : ~(n < m)
  <2> SUFFICES ASSUME NEW n \in S, n < m PROVE FALSE
    OBVIOUS
  <2>1. <<n, m>> \in Nat \X Nat /\ n < m
    OBVIOUS
  <2>2. <<n, m>> \in OpToRel(<, Nat)
    BY <2>1 DEF OpToRel
  <2> QED
    BY <1>1, <2>2
<1> QED
  BY <1>2

\* The fields of a range.
LEMMA SpanFacts ==
  ASSUME NEW r \in Span
  PROVE  r.ptr \in Nat /\ r.length \in Nat \ {0} /\ End(r) = r.ptr + r.length /\ End(r) \in Nat /\ r.ptr < End(r)
<1>1. r.ptr \in Nat /\ r.length \in Nat \ {0}
  BY DEF Span
<1> QED
  BY <1>1 DEF End

\* A range by its ends.
LEMMA SpanIs ==
  ASSUME NEW a \in Nat, NEW b \in Nat, a < b
  PROVE  Region(a, b - a) \in Span /\ Region(a, b - a).ptr = a /\ End(Region(a, b - a)) = b
<1>1. b - a \in Nat \ {0}
  OBVIOUS
<1>2. Region(a, b - a) \in Span /\ Region(a, b - a).ptr = a /\ Region(a, b - a).length = b - a
  BY <1>1 DEF Region, Span
<1> QED
  BY <1>2 DEF End

\* The regions of a free list.
LEMMA RegionFacts ==
  ASSUME NEW s, FreeList(s)
  PROVE  /\ s \in Seq(Span) /\ Len(s) \in Nat /\ DOMAIN s = 1..Len(s)
         /\ \A k \in 1..Len(s) : s[k] \in Span /\ s[k].ptr \in Nat /\ End(s[k]) \in Nat /\ s[k].ptr < End(s[k])
<1>1. s \in Seq(Span) /\ Len(s) \in Nat /\ DOMAIN s = 1..Len(s)
  BY LenProperties DEF FreeList
<1>2. \A k \in 1..Len(s) : s[k] \in Span
  BY <1>1, ElementOfSeq
<1> QED
  BY <1>1, <1>2, SpanFacts

\* The regions of a free list are in order, with gaps.
LEMMA Ordered ==
  ASSUME NEW s, FreeList(s), NEW j \in 1..Len(s), NEW k \in 1..Len(s), j < k
  PROVE  End(s[j]) < s[k].ptr
<1> DEFINE n == Len(s)
           Bad == {i \in 1..n : j < i /\ ~(End(s[j]) < s[i].ptr)}
<1>1. n \in Nat /\ \A i \in 1..n : s[i].ptr \in Nat /\ End(s[i]) \in Nat /\ s[i].ptr < End(s[i])
  BY RegionFacts
<1>2. \A i \in 1..(n - 1) : End(s[i]) < s[i + 1].ptr
  BY DEF FreeList, Tidy
<1>3. j \in 1..n /\ k \in 1..n
  OBVIOUS
<1> HIDE DEF n
<1>4. Bad = {}
  <2> SUFFICES ASSUME Bad # {} PROVE FALSE
    OBVIOUS
  <2>1. Bad \in SUBSET Nat
    BY <1>1
  <2>2. PICK m \in Bad : \A i \in Bad : m <= i
    <3> HIDE DEF Bad
    <3> QED
      BY <2>1, LeastMember
  <2>3. m \in 1..n /\ j < m /\ ~(End(s[j]) < s[m].ptr)
    OBVIOUS
  <2>4. m - 1 \in 1..(n - 1) /\ m - 1 \in 1..n /\ (m - 1) + 1 = m /\ ~(m <= m - 1) /\ j <= m - 1
    BY <1>1, <1>3, <2>3
  <2>5. End(s[m - 1]) < s[m].ptr
    BY <1>2, <2>4
  <2>6. CASE j = m - 1
    BY <2>3, <2>5, <2>6
  <2>7. CASE j # m - 1
    <3>1. m - 1 \notin Bad
      <4> HIDE DEF Bad
      <4> QED
        BY <2>2, <2>4
    <3>2. j < m - 1
      BY <1>3, <2>4, <2>7
    <3>3. End(s[j]) < s[m - 1].ptr
      BY <2>4, <3>1, <3>2
    <3>4. /\ End(s[j]) \in Nat /\ s[m - 1].ptr \in Nat /\ End(s[m - 1]) \in Nat /\ s[m].ptr \in Nat
          /\ s[m - 1].ptr < End(s[m - 1])
      BY <1>1, <1>3, <2>3, <2>4
    <3> QED
      BY <2>3, <2>5, <3>3, <3>4
  <2> QED
    BY <2>6, <2>7
<1> QED
  BY <1>3, <1>4 DEF n

\* The free addresses are those of some region.
LEMMA FreeIs ==
  ASSUME NEW s, FreeList(s)
  PROVE  \A x : x \in FreeAddresses(s) <=> \E k \in 1..Len(s) : x \in Int /\ s[k].ptr <= x /\ x < End(s[k])
<1>1. DOMAIN s = 1..Len(s) /\ \A k \in 1..Len(s) : s[k].ptr \in Nat /\ End(s[k]) \in Nat
  BY RegionFacts
<1>2. \A k \in 1..Len(s) : \A x : x \in Addresses(s[k]) <=> x \in Int /\ s[k].ptr <= x /\ x < End(s[k])
  BY <1>1 DEF Addresses
<1>3. \A x : x \in FreeAddresses(s) <=> \E k \in 1..Len(s) : x \in Addresses(s[k])
  BY <1>1 DEF FreeAddresses
<1> QED
  BY <1>2, <1>3

\* An empty list, and one of one region.
LEMMA NoneFree ==
  FreeList(<<>>) /\ FreeAddresses(<<>>) = {} /\ Len(<<>>) = 0
  BY DEF FreeList, FreeAddresses, Tidy

\* A list of one range.
LEMMA OneFree ==
  ASSUME NEW r \in Span
  PROVE  FreeList(<<r>>) /\ FreeAddresses(<<r>>) = Addresses(r) /\ Len(<<r>>) = 1 /\ <<r>>[1] = r
<1>1. <<r>> \in Seq(Span) /\ Len(<<r>>) = 1 /\ <<r>>[1] = r /\ DOMAIN <<r>> = {1}
  OBVIOUS
<1>2. r.length > 0
  BY SpanFacts
<1> DEFINE s == <<r>>
<1> HIDE DEF s
<1>3. Tidy(s)
  <2>1. 1..(1 - 1) = {}
    OBVIOUS
  <2> QED
    BY <1>1, <1>2, <2>1 DEF Tidy, s
<1>4. FreeAddresses(s) = Addresses(r)
  BY <1>1 DEF FreeAddresses, s
<1> QED
  BY <1>1, <1>3, <1>4 DEF FreeList, s

\* Some neighbouring regions of a list.
LEMMA PartFacts ==
  ASSUME NEW s, FreeList(s), NEW i \in Nat \ {0}, NEW j \in Nat, j <= Len(s), i <= j + 1
  PROVE  /\ FreeList(SubSeq(s, i, j)) /\ Len(SubSeq(s, i, j)) = j - i + 1
         /\ \A k \in 1..(j - i + 1) : SubSeq(s, i, j)[k] = s[i + k - 1]
<1> DEFINE t == SubSeq(s, i, j)
           n == j - i + 1
<1>1. s \in Seq(Span) /\ Len(s) \in Nat /\ \A k \in 1..Len(s) : s[k] \in Span
  BY RegionFacts
<1>2. \A k \in i..j : s[k] \in Span
  <2>1. \A k \in i..j : k \in 1..Len(s)
    BY <1>1
  <2> QED
    BY <1>1, <2>1
<1>3. t \in Seq(Span) /\ Len(t) = (IF i <= j THEN n ELSE 0) /\ \A k \in 1..n : t[k] = s[i + k - 1]
  BY <1>2, SubSeqProperties
<1>4. n \in Nat /\ (IF i <= j THEN n ELSE 0) = n
  OBVIOUS
<1> HIDE DEF t
<1>5. Len(t) = n
  BY <1>3, <1>4
<1>6. \A k \in DOMAIN t : t[k].length > 0
  <2>1. \A k \in DOMAIN t : t[k] \in Span
    BY <1>3
  <2> QED
    BY <2>1, SpanFacts
<1>7. \A k \in 1..(n - 1) : End(t[k]) < t[k + 1].ptr
  <2> SUFFICES ASSUME NEW k \in 1..(n - 1) PROVE End(t[k]) < t[k + 1].ptr
    OBVIOUS
  <2>1. k \in 1..n /\ k + 1 \in 1..n /\ i + (k + 1) - 1 = (i + k - 1) + 1 /\ i + k - 1 \in 1..(Len(s) - 1)
    BY <1>1, <1>4
  <2>2. t[k] = s[i + k - 1] /\ t[k + 1] = s[(i + k - 1) + 1]
    <3>1. t[k] = s[i + k - 1]
      BY <1>3, <2>1
    <3>2. t[k + 1] = s[i + (k + 1) - 1]
      <4> HIDE DEF n
      <4> QED
        BY <1>3, <2>1
    <3> QED
      BY <2>1, <3>1, <3>2
  <2>3. End(s[i + k - 1]) < s[(i + k - 1) + 1].ptr
    BY <2>1 DEF FreeList, Tidy
  <2> QED
    BY <2>2, <2>3
<1>8. FreeList(t)
  BY <1>3, <1>5, <1>6, <1>7 DEF FreeList, Tidy
<1> QED
  BY <1>3, <1>5, <1>8 DEF t

\* One list behind another.
LEMMA JoinFree ==
  ASSUME NEW a, FreeList(a), NEW b, FreeList(b),
         Len(a) > 0 /\ Len(b) > 0 => End(a[Len(a)]) < b[1].ptr
  PROVE  /\ FreeList(a \o b) /\ Len(a \o b) = Len(a) + Len(b)
         /\ FreeAddresses(a \o b) = FreeAddresses(a) \cup FreeAddresses(b)
         /\ \A k \in 1..Len(a) : (a \o b)[k] = a[k]
         /\ \A k \in 1..Len(b) : (a \o b)[Len(a) + k] = b[k]
<1> DEFINE c == a \o b
           n == Len(a)
           m == Len(b)
<1>1. a \in Seq(Span) /\ b \in Seq(Span) /\ n \in Nat /\ m \in Nat /\ DOMAIN a = 1..n /\ DOMAIN b = 1..m
  BY RegionFacts
<1>2. c \in Seq(Span) /\ Len(c) = n + m /\ \A i \in 1..(n + m) : c[i] = IF i <= n THEN a[i] ELSE b[i - n]
  BY <1>1, ConcatProperties
<1>3. \A k \in 1..(n - 1) : End(a[k]) < a[k + 1].ptr
  BY DEF FreeList, Tidy
<1>4. \A k \in 1..(m - 1) : End(b[k]) < b[k + 1].ptr
  BY DEF FreeList, Tidy
<1>5. n > 0 /\ m > 0 => End(a[n]) < b[1].ptr
  OBVIOUS
<1> HIDE DEF c, n, m
<1>6. \A k \in 1..n : c[k] = a[k] /\ k \in 1..(n + m)
  BY <1>1, <1>2
<1>7. \A k \in 1..m : c[n + k] = b[k] /\ n + k \in 1..(n + m)
  <2>1. \A k \in 1..m : n + k \in 1..(n + m) /\ ~(n + k <= n) /\ (n + k) - n = k
    BY <1>1
  <2> QED
    BY <1>2, <2>1
<1>8. \A i \in 1..((n + m) - 1) : End(c[i]) < c[i + 1].ptr
  <2> SUFFICES ASSUME NEW i \in 1..((n + m) - 1) PROVE End(c[i]) < c[i + 1].ptr
    OBVIOUS
  <2>1. CASE i < n
    <3>1. i \in 1..n /\ i + 1 \in 1..n /\ i \in 1..(n - 1)
      BY <1>1, <2>1
    <3> QED
      BY <1>3, <1>6, <3>1
  <2>2. CASE i = n
    <3>1. n \in 1..n /\ 1 \in 1..m /\ n > 0 /\ m > 0
      BY <1>1, <2>2
    <3>2. c[n] = a[n] /\ c[n + 1] = b[1]
      BY <1>6, <1>7, <3>1
    <3> QED
      BY <1>5, <2>2, <3>1, <3>2
  <2>3. CASE i > n
    <3>1. i - n \in 1..m /\ (i - n) + 1 \in 1..m /\ i - n \in 1..(m - 1) /\ n + (i - n) = i /\ n + ((i - n) + 1) = i + 1
      BY <1>1, <2>3
    <3>2. c[n + (i - n)] = b[i - n] /\ c[n + ((i - n) + 1)] = b[(i - n) + 1]
      BY <1>7, <3>1
    <3>3. End(b[i - n]) < b[(i - n) + 1].ptr
      BY <1>4, <3>1
    <3> QED
      BY <3>1, <3>2, <3>3
  <2> QED
    BY <1>1, <2>1, <2>2, <2>3
<1>9. \A k \in DOMAIN c : c[k].length > 0
  <2>1. \A k \in DOMAIN c : c[k] \in Span
    BY <1>2
  <2> QED
    BY <2>1, SpanFacts
<1>10. FreeList(c)
  BY <1>2, <1>8, <1>9 DEF FreeList, Tidy
<1>11. FreeAddresses(c) = FreeAddresses(a) \cup FreeAddresses(b)
  <2>1. DOMAIN c = 1..(n + m)
    BY <1>1, <1>2
  <2>2. \A i \in 1..(n + m) : i \in 1..n \/ (i - n \in 1..m /\ n + (i - n) = i)
    BY <1>1
  <2>3. ASSUME NEW x \in FreeAddresses(c) PROVE x \in FreeAddresses(a) \cup FreeAddresses(b)
    <3>1. PICK i \in 1..(n + m) : x \in Addresses(c[i])
      BY <2>1 DEF FreeAddresses
    <3>2. CASE i \in 1..n
      BY <1>1, <1>6, <3>1, <3>2 DEF FreeAddresses
    <3>3. CASE i - n \in 1..m /\ n + (i - n) = i
      <4>1. c[i] = b[i - n]
        BY <1>7, <3>3
      <4> QED
        BY <1>1, <3>1, <3>3, <4>1 DEF FreeAddresses
    <3> QED
      BY <2>2, <3>2, <3>3
  <2>4. FreeAddresses(a) \subseteq FreeAddresses(c)
    BY <1>1, <1>6, <2>1 DEF FreeAddresses
  <2>5. FreeAddresses(b) \subseteq FreeAddresses(c)
    BY <1>1, <1>7, <2>1 DEF FreeAddresses
  <2> QED
    BY <2>3, <2>4, <2>5
<1> QED
  BY <1>2, <1>6, <1>7, <1>10, <1>11 DEF c, n, m

\* The addresses of a range.
LEMMA AddressesIs ==
  ASSUME NEW r \in Span
  PROVE  \A x : x \in Addresses(r) <=> x \in Int /\ r.ptr <= x /\ x < End(r)
  BY SpanFacts DEF Addresses

\* A list with the regions between two of its places replaced.
LEMMA Splice ==
  ASSUME NEW s, FreeList(s), NEW t, FreeList(t),
         NEW a \in Nat, NEW b \in Nat, a < b, b <= Len(s) + 1,
         Len(t) > 0 /\ a > 0 => End(s[a]) < t[1].ptr,
         Len(t) > 0 /\ b <= Len(s) => End(t[Len(t)]) < s[b].ptr
  PROVE  LET u == SubSeq(s, 1, a) \o t \o SubSeq(s, b, Len(s))
         IN /\ FreeList(u)
            /\ \A x : x \in FreeAddresses(u) <=> \/ \E k \in 1..a : x \in Addresses(s[k])
                                                 \/ x \in FreeAddresses(t)
                                                 \/ \E k \in b..Len(s) : x \in Addresses(s[k])
<1> DEFINE n == Len(s)
           A == SubSeq(s, 1, a)
           B == SubSeq(s, b, n)
           AT == A \o t
           u == AT \o B
<1>1. n \in Nat /\ Len(t) \in Nat /\ \A k \in 1..n : s[k] \in Span /\ s[k].ptr \in Nat /\ End(s[k]) \in Nat
  BY RegionFacts
<1>2. FreeList(A) /\ Len(A) = a /\ \A k \in 1..a : A[k] = s[k]
  <2>1. 1 \in Nat \ {0} /\ a \in Nat /\ a <= Len(s) /\ 1 <= a + 1 /\ a - 1 + 1 = a
    BY <1>1
  <2>2. FreeList(A) /\ Len(A) = a - 1 + 1 /\ \A k \in 1..(a - 1 + 1) : A[k] = s[1 + k - 1]
    BY <2>1, PartFacts
  <2>3. \A k \in 1..a : 1 + k - 1 = k
    OBVIOUS
  <2> QED
    BY <2>1, <2>2, <2>3
<1>3. FreeList(B) /\ Len(B) = n - b + 1 /\ \A k \in 1..(n - b + 1) : B[k] = s[b + k - 1]
  <2>1. b \in Nat \ {0} /\ n \in Nat /\ n <= Len(s) /\ b <= n + 1
    BY <1>1
  <2> QED
    BY <2>1, PartFacts
<1>4. Len(A) > 0 /\ Len(t) > 0 => End(A[Len(A)]) < t[1].ptr
  BY <1>2
<1>5. /\ FreeList(AT) /\ Len(AT) = a + Len(t) /\ FreeAddresses(AT) = FreeAddresses(A) \cup FreeAddresses(t)
      /\ \A k \in 1..a : AT[k] = s[k]
      /\ \A k \in 1..Len(t) : AT[a + k] = t[k]
  <2> HIDE DEF A, AT
  <2>1. /\ FreeList(A \o t) /\ Len(A \o t) = Len(A) + Len(t)
        /\ FreeAddresses(A \o t) = FreeAddresses(A) \cup FreeAddresses(t)
        /\ \A k \in 1..Len(A) : (A \o t)[k] = A[k]
        /\ \A k \in 1..Len(t) : (A \o t)[Len(A) + k] = t[k]
    <3>1. FreeList(A)
      BY <1>2
    <3> QED
      BY <1>4, <3>1, JoinFree
  <2>2. A \o t = AT
    BY DEF AT
  <2> HIDE DEF AT
  <2> QED
    BY <1>2, <2>1, <2>2
<1>6. Len(AT) > 0 /\ Len(B) > 0 => End(AT[Len(AT)]) < B[1].ptr
  <2> SUFFICES ASSUME Len(AT) > 0, Len(B) > 0 PROVE End(AT[Len(AT)]) < B[1].ptr
    OBVIOUS
  <2> HIDE DEF A, B, AT
  <2>1. B[1] = s[b] /\ b <= n /\ b \in 1..n
    <3>1. 1 \in 1..(n - b + 1) /\ b + 1 - 1 = b /\ b \in 1..n
      BY <1>1, <1>3
    <3> QED
      BY <1>3, <3>1
  <2>2. CASE Len(t) > 0
    <3>1. Len(t) \in 1..Len(t)
      BY <1>1, <2>2
    <3>2. AT[Len(AT)] = t[Len(t)]
      BY <1>5, <3>1
    <3> QED
      BY <2>1, <2>2, <3>2
  <2>3. CASE ~(Len(t) > 0)
    <3>1. Len(AT) = a /\ a \in 1..a /\ a \in 1..n
      BY <1>1, <1>5, <2>3
    <3>2. AT[Len(AT)] = s[a]
      BY <1>5, <3>1
    <3>3. End(s[a]) < s[b].ptr
      BY <2>1, <3>1, Ordered
    <3> QED
      BY <2>1, <3>2, <3>3
  <2> QED
    BY <2>2, <2>3
<1>7. FreeList(u) /\ FreeAddresses(u) = FreeAddresses(AT) \cup FreeAddresses(B)
  <2> HIDE DEF AT, B
  <2> QED
    BY <1>3, <1>5, <1>6, JoinFree
<1>8. \A x : x \in FreeAddresses(A) <=> \E k \in 1..a : x \in Addresses(s[k])
  <2>1. DOMAIN A = 1..a
    BY <1>2, RegionFacts
  <2> HIDE DEF A
  <2> QED
    BY <1>2, <2>1 DEF FreeAddresses
<1>9. \A x : x \in FreeAddresses(B) <=> \E k \in b..n : x \in Addresses(s[k])
  <2>1. DOMAIN B = 1..(n - b + 1)
    BY <1>3, RegionFacts
  <2> HIDE DEF B
  <2>2. \A x : x \in FreeAddresses(B) <=> \E k \in 1..(n - b + 1) : x \in Addresses(s[b + k - 1])
    BY <1>3, <2>1 DEF FreeAddresses
  <2>3. \A k \in 1..(n - b + 1) : b + k - 1 \in b..n
    BY <1>1
  <2>4. \A k \in b..n : k - b + 1 \in 1..(n - b + 1) /\ b + (k - b + 1) - 1 = k
    BY <1>1
  <2> QED
    BY <2>2, <2>3, <2>4
<1> QED
  BY <1>5, <1>7, <1>8, <1>9

\* Where a range belongs in a list.
LEMMA BeforeFacts ==
  ASSUME NEW s, FreeList(s), NEW ptr \in Nat
  PROVE  /\ Before(s, ptr) \in 0..Len(s)
         /\ \A k \in 1..Before(s, ptr) : s[k].ptr < ptr
         /\ \A k \in (Before(s, ptr) + 1)..Len(s) : s[k].ptr >= ptr
<1> DEFINE n == Len(s)
           Ends == {i \in 0..n : i < n => s[i + 1].ptr >= ptr}
           P(i) == /\ \A k \in 1..i : s[k].ptr < ptr
                   /\ i < n => s[i + 1].ptr >= ptr
<1>1. n \in Nat /\ \A k \in 1..n : s[k].ptr \in Nat /\ End(s[k]) \in Nat /\ s[k].ptr < End(s[k])
  BY RegionFacts
<1>2. \E i \in 0..n : P(i)
  <2>1. Ends \in SUBSET Nat /\ n \in Ends
    BY <1>1
  <2>2. PICK m \in Ends : \A i \in Ends : m <= i
    <3> HIDE DEF Ends
    <3> QED
      BY <2>1, LeastMember
  <2>3. m \in 0..n /\ (m < n => s[m + 1].ptr >= ptr)
    OBVIOUS
  <2>4. ASSUME NEW k \in 1..m PROVE s[k].ptr < ptr
    <3>1. k - 1 \in 0..n /\ k - 1 < n /\ (k - 1) + 1 = k /\ ~(m <= k - 1) /\ k \in 1..n
      BY <1>1, <2>3
    <3>2. k - 1 \notin Ends
      <4> HIDE DEF Ends
      <4> QED
        BY <2>2, <3>1
    <3>3. ~(s[k].ptr >= ptr)
      BY <3>1, <3>2
    <3> QED
      BY <1>1, <3>1, <3>3
  <2> QED
    BY <2>3, <2>4
<1> DEFINE b == Before(s, ptr)
<1>3. b \in 0..n /\ P(b)
  BY <1>2 DEF Before
<1> HIDE DEF b
<1>4. ASSUME NEW k \in (b + 1)..n PROVE s[k].ptr >= ptr
  <2>1. b < n /\ b + 1 \in 1..n /\ k \in 1..n /\ (b + 1 = k \/ b + 1 < k)
    BY <1>1, <1>3
  <2>2. s[b + 1].ptr >= ptr
    BY <1>3, <2>1
  <2>3. CASE b + 1 = k
    BY <2>2, <2>3
  <2>4. CASE b + 1 < k
    <3>1. End(s[b + 1]) < s[k].ptr
      BY <2>1, <2>4, Ordered
    <3> QED
      BY <1>1, <2>1, <2>2, <3>1
  <2> QED
    BY <2>1, <2>3, <2>4
<1> QED
  BY <1>3, <1>4 DEF b

\* A range comes free: it is joined with its neighbours, the rest stays.
LEMMA ManageFacts ==
  ASSUME NEW s, FreeList(s), NEW r \in Span, Addresses(r) \cap FreeAddresses(s) = {}
  PROVE  /\ FreeList(Manage(s, r.ptr, r.length))
         /\ FreeAddresses(Manage(s, r.ptr, r.length)) = FreeAddresses(s) \cup Addresses(r)
<1> DEFINE n == Len(s)
           ptr == r.ptr
           i == Before(s, ptr)
           joinsPrevious == i > 0 /\ End(s[i]) = ptr
           joinsNext     == i < n /\ ptr + r.length = s[i + 1].ptr
           first == IF joinsPrevious THEN s[i].ptr ELSE ptr
           end   == IF joinsNext THEN End(s[i + 1]) ELSE ptr + r.length
           a == IF joinsPrevious THEN i - 1 ELSE i
           b == IF joinsNext THEN i + 2 ELSE i + 1
           X == Region(first, end - first)
           u == SubSeq(s, 1, a) \o <<X>> \o SubSeq(s, b, n)
<1>1. n \in Nat /\ \A k \in 1..n : s[k] \in Span /\ s[k].ptr \in Nat /\ End(s[k]) \in Nat /\ s[k].ptr < End(s[k])
  BY RegionFacts
<1>2. ptr \in Nat /\ r.length \in Nat \ {0} /\ End(r) = ptr + r.length
  BY SpanFacts
<1>3. i \in 0..n /\ (\A k \in 1..i : s[k].ptr < ptr) /\ \A k \in (i + 1)..n : s[k].ptr >= ptr
  BY <1>2, BeforeFacts
<1>4. Manage(s, r.ptr, r.length) = u
  BY DEF Manage
<1> HIDE DEF i
<1>5. \A x : x \in FreeAddresses(s) <=> \E k \in 1..n : x \in Addresses(s[k])
  <2>1. DOMAIN s = 1..n
    BY RegionFacts
  <2> QED
    BY <2>1 DEF FreeAddresses
<1>6. \A k \in 1..n : \A x : x \in Addresses(s[k]) <=> x \in Int /\ s[k].ptr <= x /\ x < End(s[k])
  BY <1>1, AddressesIs
<1>7. \A x : x \in Addresses(r) <=> x \in Int /\ ptr <= x /\ x < ptr + r.length
  BY <1>2, AddressesIs
<1>8. \A k \in 1..n : \A x : ~(x \in Addresses(s[k]) /\ x \in Addresses(r))
  BY <1>5
<1>9. \A k \in 1..i : k \in 1..n /\ End(s[k]) <= ptr
  <2> SUFFICES ASSUME NEW k \in 1..i PROVE k \in 1..n /\ End(s[k]) <= ptr
    OBVIOUS
  <2>1. k \in 1..n /\ s[k].ptr < ptr
    BY <1>1, <1>3
  <2>2. ptr \in Addresses(r)
    BY <1>2, <1>7
  <2>3. ~(ptr \in Addresses(s[k]))
    BY <1>8, <2>1, <2>2
  <2>4. ptr \in Addresses(s[k]) <=> ptr \in Int /\ s[k].ptr <= ptr /\ ptr < End(s[k])
    BY <1>6, <2>1
  <2> HIDE DEF ptr
  <2> QED
    BY <1>1, <1>2, <2>1, <2>3, <2>4
<1>10. \A k \in (i + 1)..n : k \in 1..n /\ ptr + r.length <= s[k].ptr
  <2> SUFFICES ASSUME NEW k \in (i + 1)..n PROVE k \in 1..n /\ ptr + r.length <= s[k].ptr
    OBVIOUS
  <2>1. k \in 1..n /\ s[k].ptr >= ptr
    BY <1>1, <1>3
  <2>2. s[k].ptr \in Addresses(s[k])
    BY <1>1, <1>6, <2>1
  <2>3. ~(s[k].ptr \in Addresses(r))
    BY <1>8, <2>1, <2>2
  <2> QED
    BY <1>1, <1>2, <1>7, <2>1, <2>3
<1>11. joinsPrevious => i \in 1..n /\ s[i].ptr < ptr
  BY <1>1, <1>3
<1>12. joinsNext => i + 1 \in 1..n /\ ptr + r.length < End(s[i + 1])
  BY <1>1, <1>2, <1>3
<1>13. first \in Nat /\ end \in Nat /\ first <= ptr /\ ptr + r.length <= end /\ first < end
  BY <1>1, <1>2, <1>11, <1>12
<1>14. a \in Nat /\ b \in Nat /\ a < b /\ b <= n + 1 /\ a <= i /\ i < b
  BY <1>1, <1>3
<1>15. X \in Span /\ X.ptr = first /\ End(X) = end
  <2> HIDE DEF first, end
  <2> QED
    BY <1>13, SpanIs
<1>16. FreeList(<<X>>) /\ FreeAddresses(<<X>>) = Addresses(X) /\ Len(<<X>>) = 1 /\ <<X>>[1] = X
  <2> HIDE DEF X
  <2> QED
    BY <1>15, OneFree
<1>17. a > 0 => End(s[a]) < first
  <2> SUFFICES ASSUME a > 0 PROVE End(s[a]) < first
    OBVIOUS
  <2>1. CASE joinsPrevious
    <3>1. i \in 1..n /\ i - 1 \in 1..n /\ i - 1 < i /\ a = i - 1
      BY <1>1, <1>11, <1>14, <2>1
    <3>2. End(s[i - 1]) < s[i].ptr
      BY <3>1, Ordered
    <3> QED
      BY <2>1, <3>1, <3>2
  <2>2. CASE ~joinsPrevious
    <3>1. a = i /\ i \in 1..i /\ i > 0
      BY <1>3, <2>2
    <3>2. End(s[i]) <= ptr /\ End(s[i]) # ptr /\ End(s[i]) \in Nat
      BY <1>1, <1>9, <2>2, <3>1
    <3> QED
      BY <1>2, <2>2, <3>1, <3>2
  <2> QED
    BY <2>1, <2>2
<1>18. b <= n => end < s[b].ptr
  <2> SUFFICES ASSUME b <= n PROVE end < s[b].ptr
    OBVIOUS
  <2>1. CASE joinsNext
    <3>0. b = i + 2
      BY <2>1
    <3>1. i + 1 \in 1..n /\ i + 2 \in 1..n /\ i + 1 < i + 2 /\ b = i + 2
      BY <1>1, <1>3, <1>12, <2>1, <3>0
    <3>2. End(s[i + 1]) < s[i + 2].ptr
      BY <3>1, Ordered
    <3> QED
      BY <2>1, <3>1, <3>2
  <2>2. CASE ~joinsNext
    <3>1. b = i + 1 /\ i + 1 \in (i + 1)..n /\ i < n
      BY <1>1, <1>3, <2>2
    <3>2. ptr + r.length <= s[i + 1].ptr /\ ptr + r.length # s[i + 1].ptr /\ s[i + 1].ptr \in Nat
      BY <1>1, <1>10, <2>2, <3>1
    <3> QED
      BY <1>2, <2>2, <3>1, <3>2
  <2> QED
    BY <2>1, <2>2
<1>19. FreeList(u) /\ \A x : x \in FreeAddresses(u) <=> \/ \E k \in 1..a : x \in Addresses(s[k])
                                                        \/ x \in FreeAddresses(<<X>>)
                                                        \/ \E k \in b..n : x \in Addresses(s[k])
  <2>1. Len(<<X>>) > 0 /\ a > 0 => End(s[a]) < <<X>>[1].ptr
    BY <1>15, <1>16, <1>17
  <2>2. Len(<<X>>) > 0 /\ b <= n => End(<<X>>[Len(<<X>>)]) < s[b].ptr
    BY <1>15, <1>16, <1>18
  <2> HIDE DEF a, b, X
  <2> QED
    BY <1>14, <1>16, <2>1, <2>2, Splice
<1>20. \A x : x \in Addresses(X) <=> x \in Int /\ first <= x /\ x < end
  <2> HIDE DEF X
  <2> QED
    BY <1>15, AddressesIs
<1>21. \A x : x \in Addresses(X) <=> (x \in Addresses(r)) \/ (joinsPrevious /\ x \in Addresses(s[i])) \/ (joinsNext /\ x \in Addresses(s[i + 1]))
  <2> SUFFICES ASSUME NEW x \in Int PROVE x \in Addresses(X) <=> (x \in Addresses(r)) \/ (joinsPrevious /\ x \in Addresses(s[i])) \/ (joinsNext /\ x \in Addresses(s[i + 1]))
    BY <1>1, <1>6, <1>7, <1>11, <1>12, <1>20
  <2>1. joinsPrevious => (x \in Addresses(s[i]) <=> first <= x /\ x < ptr)
    BY <1>6, <1>11
  <2>2. joinsNext => (x \in Addresses(s[i + 1]) <=> ptr + r.length <= x /\ x < end)
    BY <1>6, <1>12
  <2>3. ~joinsPrevious => first = ptr
    OBVIOUS
  <2>4. ~joinsNext => end = ptr + r.length
    OBVIOUS
  <2> HIDE DEF joinsPrevious, joinsNext, first, end, X
  <2> QED
    BY <1>2, <1>7, <1>13, <1>20, <2>1, <2>2, <2>3, <2>4
<1>22. \A k \in 1..n : k \in 1..a \/ (joinsPrevious /\ k = i) \/ (joinsNext /\ k = i + 1) \/ k \in b..n
  BY <1>1, <1>3
<1>23. (\A k \in 1..a : k \in 1..n) /\ \A k \in b..n : k \in 1..n
  BY <1>1, <1>14, <1>3
<1> HIDE DEF joinsPrevious, joinsNext, first, end, X, a, b, u
<1>24. FreeAddresses(u) = FreeAddresses(s) \cup Addresses(r)
  BY <1>5, <1>11, <1>12, <1>16, <1>19, <1>21, <1>22, <1>23
<1> QED
  BY <1>4, <1>19, <1>24

\* What is left of a region on one side.
LEMMA PieceFacts ==
  ASSUME NEW a \in Nat, NEW b \in Nat
  PROVE  /\ FreeList(Piece(a, b))
         /\ \A x : x \in FreeAddresses(Piece(a, b)) <=> x \in Int /\ a <= x /\ x < b
         /\ Len(Piece(a, b)) \in 0..1
         /\ Len(Piece(a, b)) > 0 => a < b /\ Piece(a, b)[1].ptr = a /\ End(Piece(a, b)[1]) = b
<1> DEFINE X == Region(a, b - a)
           p == Piece(a, b)
<1>1. CASE a < b
  <2>1. X \in Span /\ X.ptr = a /\ End(X) = b
    BY <1>1, SpanIs
  <2>2. p = <<X>>
    BY <1>1 DEF Piece
  <2> HIDE DEF X, p
  <2>3. FreeList(<<X>>) /\ FreeAddresses(<<X>>) = Addresses(X) /\ Len(<<X>>) = 1 /\ <<X>>[1] = X
    BY <2>1, OneFree
  <2>4. \A x : x \in Addresses(X) <=> x \in Int /\ a <= x /\ x < b
    BY <2>1, AddressesIs
  <2>5. /\ FreeList(p) /\ Len(p) \in 0..1 /\ p[1].ptr = a /\ End(p[1]) = b
        /\ \A x : x \in FreeAddresses(p) <=> x \in Int /\ a <= x /\ x < b
    BY <2>1, <2>2, <2>3, <2>4
  <2> QED
    BY <1>1, <2>5 DEF p
<1>2. CASE ~(a < b)
  <2>1. p = <<>>
    BY <1>2 DEF Piece
  <2>2. FreeList(p) /\ FreeAddresses(p) = {} /\ Len(p) = 0
    BY <2>1, NoneFree
  <2>3. \A x \in Int : ~(a <= x /\ x < b)
    BY <1>2
  <2> HIDE DEF p
  <2>4. /\ FreeList(p) /\ Len(p) \in 0..1 /\ ~(Len(p) > 0)
        /\ \A x : x \in FreeAddresses(p) <=> x \in Int /\ a <= x /\ x < b
    BY <2>2, <2>3
  <2> QED
    BY <2>4 DEF p
<1> QED
  BY <1>1, <1>2

\* What is left of a region on both sides of a gap.
LEMMA PiecesFacts ==
  ASSUME NEW a \in Nat, NEW b \in Nat, NEW c \in Nat, NEW d \in Nat, a <= b, b < c, c <= d
  PROVE  LET t == Piece(a, b) \o Piece(c, d)
         IN /\ FreeList(t)
            /\ \A x : x \in FreeAddresses(t) <=> x \in Int /\ ((a <= x /\ x < b) \/ (c <= x /\ x < d))
            /\ Len(t) > 0 => a <= t[1].ptr /\ End(t[Len(t)]) <= d
<1> DEFINE p == Piece(a, b)
           q == Piece(c, d)
           t == p \o q
<1>1. /\ FreeList(p) /\ Len(p) \in 0..1
      /\ \A x : x \in FreeAddresses(p) <=> x \in Int /\ a <= x /\ x < b
      /\ Len(p) > 0 => a < b /\ p[1].ptr = a /\ End(p[1]) = b
  BY PieceFacts
<1>2. /\ FreeList(q) /\ Len(q) \in 0..1
      /\ \A x : x \in FreeAddresses(q) <=> x \in Int /\ c <= x /\ x < d
      /\ Len(q) > 0 => c < d /\ q[1].ptr = c /\ End(q[1]) = d
  BY PieceFacts
<1> HIDE DEF p, q
<1>3. Len(p) > 0 /\ Len(q) > 0 => End(p[Len(p)]) < q[1].ptr
  <2>1. Len(p) > 0 => Len(p) = 1
    BY <1>1
  <2> QED
    BY <1>1, <1>2, <2>1
<1>4. /\ FreeList(t) /\ Len(t) = Len(p) + Len(q)
      /\ FreeAddresses(t) = FreeAddresses(p) \cup FreeAddresses(q)
      /\ \A k \in 1..Len(p) : t[k] = p[k]
      /\ \A k \in 1..Len(q) : t[Len(p) + k] = q[k]
  BY <1>1, <1>2, <1>3, JoinFree
<1> HIDE DEF t
<1>5. Len(t) > 0 => a <= t[1].ptr /\ End(t[Len(t)]) <= d
  <2> SUFFICES ASSUME Len(t) > 0 PROVE a <= t[1].ptr /\ End(t[Len(t)]) <= d
    OBVIOUS
  <2>1. CASE Len(p) = 0
    <3>1. Len(q) = 1 /\ Len(t) = 1 /\ 1 \in 1..Len(q) /\ Len(p) + 1 = 1
      BY <1>1, <1>2, <1>4, <2>1
    <3>2. t[1] = q[1]
      BY <1>4, <3>1
    <3> QED
      BY <1>2, <3>1, <3>2
  <2>2. CASE Len(p) = 1 /\ Len(q) = 0
    <3>1. Len(t) = 1 /\ 1 \in 1..Len(p)
      BY <1>4, <2>2
    <3>2. t[1] = p[1]
      BY <1>4, <3>1
    <3> QED
      BY <1>1, <2>2, <3>1, <3>2
  <2>3. CASE Len(p) = 1 /\ Len(q) = 1
    <3>1. Len(t) = 2 /\ 1 \in 1..Len(p) /\ 1 \in 1..Len(q) /\ Len(p) + 1 = 2
      BY <1>4, <2>3
    <3>2. t[1] = p[1] /\ t[2] = q[1]
      BY <1>4, <3>1
    <3> QED
      BY <1>1, <1>2, <2>3, <3>1, <3>2
  <2>4. Len(p) \in {0, 1} /\ Len(q) \in {0, 1}
    BY <1>1, <1>2
  <2> QED
    BY <2>1, <2>2, <2>3, <2>4
<1>6. \A x : x \in FreeAddresses(t) <=> x \in Int /\ ((a <= x /\ x < b) \/ (c <= x /\ x < d))
  BY <1>1, <1>2, <1>4
<1> QED
  BY <1>4, <1>5, <1>6 DEF t, p, q

\* A range is cut out of one region: what is left of that stays free.
LEMMA WithoutFacts ==
  ASSUME NEW s, FreeList(s), NEW r \in Span, CanClaim(s, r)
  PROVE  /\ FreeList(Without(s, r))
         /\ FreeAddresses(Without(s, r)) = FreeAddresses(s) \ Addresses(r)
         /\ Addresses(r) \subseteq FreeAddresses(s)
<1> DEFINE n == Len(s)
           k == CHOOSE k \in DOMAIN s : Holds(s[k], r)
           h == s[k]
           t == Piece(h.ptr, r.ptr) \o Piece(End(r), End(h))
           u == SubSeq(s, 1, k - 1) \o t \o SubSeq(s, k + 1, n)
<1>1. /\ n \in Nat /\ DOMAIN s = 1..n
      /\ \A j \in 1..n : s[j] \in Span /\ s[j].ptr \in Nat /\ End(s[j]) \in Nat /\ s[j].ptr < End(s[j])
  BY RegionFacts
<1>2. k \in 1..n /\ Holds(h, r)
  BY <1>1 DEF CanClaim
<1>3. Without(s, r) = u
  BY DEF Without
<1> HIDE DEF k
<1>4. h.ptr \in Nat /\ End(h) \in Nat /\ h.ptr <= r.ptr /\ End(r) <= End(h)
  BY <1>1, <1>2 DEF Holds
<1>5. r.ptr \in Nat /\ End(r) \in Nat /\ r.ptr < End(r)
  BY SpanFacts
<1>6. /\ FreeList(t)
      /\ \A x : x \in FreeAddresses(t) <=> x \in Int /\ ((h.ptr <= x /\ x < r.ptr) \/ (End(r) <= x /\ x < End(h)))
      /\ Len(t) > 0 => h.ptr <= t[1].ptr /\ End(t[Len(t)]) <= End(h)
  <2> DEFINE a == h.ptr
             b == r.ptr
             c == End(r)
             d == End(h)
             v == Piece(a, b) \o Piece(c, d)
  <2>1. a \in Nat /\ b \in Nat /\ c \in Nat /\ d \in Nat /\ a <= b /\ b < c /\ c <= d
    BY <1>4, <1>5
  <2>2. /\ FreeList(v)
        /\ \A x : x \in FreeAddresses(v) <=> x \in Int /\ ((a <= x /\ x < b) \/ (c <= x /\ x < d))
        /\ Len(v) > 0 => a <= v[1].ptr /\ End(v[Len(v)]) <= d
    <3> HIDE DEF a, b, c, d
    <3> QED
      BY <2>1, PiecesFacts
  <2>3. t = v
    OBVIOUS
  <2> HIDE DEF t, v
  <2> QED
    BY <2>2, <2>3
<1> HIDE DEF t
<1>7. /\ FreeList(u)
      /\ \A x : x \in FreeAddresses(u) <=> \/ \E j \in 1..(k - 1) : x \in Addresses(s[j])
                                           \/ x \in FreeAddresses(t)
                                           \/ \E j \in (k + 1)..n : x \in Addresses(s[j])
  <2>1. k - 1 \in Nat /\ k + 1 \in Nat /\ k - 1 < k + 1 /\ k + 1 <= n + 1
    BY <1>1, <1>2
  <2>2. ASSUME Len(t) > 0 PROVE (k - 1 > 0 => End(s[k - 1]) < t[1].ptr) /\ (k + 1 <= n => End(t[Len(t)]) < s[k + 1].ptr)
    <3>1. t[1].ptr \in Nat /\ End(t[Len(t)]) \in Nat
      <4>1. 1 \in 1..Len(t) /\ Len(t) \in 1..Len(t)
        <5>1. Len(t) \in Nat
          BY <1>6, RegionFacts
        <5> QED
          BY <2>2, <5>1
      <4> QED
        BY <1>6, <4>1, RegionFacts
    <3>2. ASSUME k - 1 > 0 PROVE End(s[k - 1]) < t[1].ptr
      <4>1. k - 1 \in 1..n /\ k - 1 < k
        BY <1>1, <1>2, <3>2
      <4>2. End(s[k - 1]) < s[k].ptr
        BY <1>2, <4>1, Ordered
      <4> QED
        BY <1>1, <1>4, <1>6, <2>2, <3>1, <4>1, <4>2
    <3>3. ASSUME k + 1 <= n PROVE End(t[Len(t)]) < s[k + 1].ptr
      <4>1. k + 1 \in 1..n /\ k < k + 1
        BY <1>1, <1>2, <3>3
      <4>2. End(s[k]) < s[k + 1].ptr
        BY <1>2, <4>1, Ordered
      <4> QED
        BY <1>1, <1>4, <1>6, <2>2, <3>1, <4>1, <4>2
    <3> QED
      BY <3>2, <3>3
  <2> QED
    BY <1>6, <2>1, <2>2, Splice
<1>8. \A x : x \in Addresses(h) <=> x \in Int /\ h.ptr <= x /\ x < End(h)
  BY <1>1, <1>2, AddressesIs
<1>9. \A x : x \in Addresses(r) <=> x \in Int /\ r.ptr <= x /\ x < End(r)
  BY AddressesIs
<1>10. \A x : x \in FreeAddresses(t) <=> x \in Addresses(h) /\ x \notin Addresses(r)
  <2> HIDE DEF h
  <2> QED
    BY <1>4, <1>5, <1>6, <1>8, <1>9
<1>11. \A x : x \in Addresses(r) => x \in Addresses(h)
  <2> HIDE DEF h
  <2> QED
    BY <1>4, <1>5, <1>8, <1>9
<1>12. \A x : x \in FreeAddresses(s) <=> \E j \in 1..n : x \in Addresses(s[j])
  BY <1>1 DEF FreeAddresses
<1>13. \A j \in 1..n : j # k => \A x : ~(x \in Addresses(s[j]) /\ x \in Addresses(h))
  <2> SUFFICES ASSUME NEW j \in 1..n, j # k, NEW x, x \in Addresses(s[j]), x \in Addresses(h) PROVE FALSE
    OBVIOUS
  <2>1. x \in Int /\ s[j].ptr <= x /\ x < End(s[j]) /\ s[k].ptr <= x /\ x < End(s[k])
    BY <1>1, <1>2, AddressesIs
  <2>2. CASE j < k
    <3>1. End(s[j]) < s[k].ptr
      BY <1>2, <2>2, Ordered
    <3> QED
      BY <1>1, <1>2, <2>1, <3>1
  <2>3. CASE k < j
    <3>1. End(s[k]) < s[j].ptr
      BY <1>2, <2>3, Ordered
    <3> QED
      BY <1>1, <1>2, <2>1, <3>1
  <2> QED
    BY <1>1, <1>2, <2>2, <2>3
<1>14. /\ \A j \in 1..n : j \in 1..(k - 1) \/ j = k \/ j \in (k + 1)..n
       /\ \A j \in 1..(k - 1) : j \in 1..n /\ j # k
       /\ \A j \in (k + 1)..n : j \in 1..n /\ j # k
  BY <1>1, <1>2
<1>15. Addresses(r) \subseteq FreeAddresses(s)
  BY <1>2, <1>11, <1>12
<1> HIDE DEF u
<1>16. FreeAddresses(u) = FreeAddresses(s) \ Addresses(r)
  <2>1. \A j \in 1..n : j # k => \A x \in Addresses(s[j]) : x \notin Addresses(r)
    BY <1>11, <1>13
  <2>2. ASSUME NEW x \in FreeAddresses(u) PROVE x \in FreeAddresses(s) /\ x \notin Addresses(r)
    BY <1>2, <1>7, <1>10, <1>12, <1>14, <2>1
  <2>3. ASSUME NEW x \in FreeAddresses(s), x \notin Addresses(r) PROVE x \in FreeAddresses(u)
    BY <1>7, <1>10, <1>12, <1>14, <2>3
  <2> QED
    BY <2>2, <2>3
<1> QED
  BY <1>3, <1>7, <1>15, <1>16

\* Memory that is free is free in one piece.
LEMMA FreeIsHeld ==
  ASSUME NEW s, FreeList(s), NEW r \in Span, Addresses(r) \subseteq FreeAddresses(s)
  PROVE  CanClaim(s, r)
<1> DEFINE n == Len(s)
<1>1. /\ n \in Nat /\ DOMAIN s = 1..n
      /\ \A j \in 1..n : s[j] \in Span /\ s[j].ptr \in Nat /\ End(s[j]) \in Nat /\ s[j].ptr < End(s[j])
  BY RegionFacts
<1>2. r.ptr \in Nat /\ End(r) \in Nat /\ r.ptr < End(r)
  BY SpanFacts
<1>3. \A x : x \in Addresses(r) <=> x \in Int /\ r.ptr <= x /\ x < End(r)
  BY AddressesIs
<1>4. \A x : x \in FreeAddresses(s) <=> \E k \in 1..n : x \in Int /\ s[k].ptr <= x /\ x < End(s[k])
  BY FreeIs
<1>5. PICK k \in 1..n : s[k].ptr <= r.ptr /\ r.ptr < End(s[k])
  <2>1. r.ptr \in FreeAddresses(s)
    BY <1>2, <1>3
  <2> QED
    BY <1>4, <2>1
<1>6. ASSUME End(s[k]) < End(r) PROVE FALSE
  <2> DEFINE x == End(s[k])
  <2>1. x \in Nat /\ r.ptr <= x /\ x < End(r)
    BY <1>1, <1>2, <1>5, <1>6
  <2>2. x \in FreeAddresses(s)
    BY <1>3, <2>1
  <2>3. PICK j \in 1..n : s[j].ptr <= x /\ x < End(s[j])
    BY <1>4, <2>2
  <2>4. CASE j = k
    BY <1>1, <2>3, <2>4
  <2>5. CASE j < k
    <3>1. End(s[j]) < s[k].ptr
      BY <2>5, Ordered
    <3> QED
      BY <1>1, <2>3, <3>1
  <2>6. CASE k < j
    <3>1. End(s[k]) < s[j].ptr
      BY <2>6, Ordered
    <3> QED
      BY <1>1, <2>3, <3>1
  <2> QED
    BY <1>1, <2>4, <2>5, <2>6
<1>7. Holds(s[k], r)
  BY <1>1, <1>2, <1>5, <1>6 DEF Holds
<1> QED
  BY <1>1, <1>7 DEF CanClaim

\* Rounding to the alignment.
LEMMA RoundFacts ==
  ASSUME NEW n \in Nat
  PROVE  RoundUp(n) \in Nat /\ n <= RoundUp(n)
<1> DEFINE q == (n + Align - 1) \div Align
<1>1. Align \in Nat \ {0}
  BY AlignAssumption
<1>2. n + Align - 1 \in Nat
  BY <1>1
<1>3. q \in Nat /\ n + Align - 1 < q * Align + Align
  BY <1>1, <1>2
<1>4. q * Align \in Nat
  <2> HIDE DEF q
  <2> QED
    BY <1>1, <1>3
<1> QED
  BY <1>1, <1>3, <1>4 DEF RoundUp

\* Rounding down to the alignment.
LEMMA RoundDownFacts ==
  ASSUME NEW n \in Int
  PROVE  RoundDown(n) \in Int
  BY AlignAssumption DEF RoundDown

\* What tryAlloc would take of a region is within it.
LEMMA CutFacts ==
  ASSUME NEW r \in Span, NEW size \in Nat \ {0}, NEW longTerm \in BOOLEAN, Serves(r, size, longTerm)
  PROVE  Cut(r, size, longTerm) \in Span /\ Holds(r, Cut(r, size, longTerm)) /\ Cut(r, size, longTerm).length >= size
<1>1. r.ptr \in Nat /\ End(r) \in Nat /\ r.ptr < End(r)
  BY SpanFacts
<1>2. CASE longTerm
  <2> DEFINE ptr == RoundDown(End(r) - size)
  <2>1. Cut(r, size, longTerm) = Region(ptr, End(r) - ptr)
    BY <1>2 DEF Cut
  <2>2. End(r) - size \in Int
    BY <1>1
  <2>3. ptr \in Int
    BY <2>2, RoundDownFacts
  <2>4. Cut(r, size, longTerm).ptr = ptr
    BY <2>1 DEF Region
  <2>5. ptr >= r.ptr /\ ptr + size <= End(r)
    BY <2>4 DEF Serves
  <2> HIDE DEF ptr
  <2>6. ptr \in Nat /\ ptr < End(r) /\ r.ptr <= ptr
    BY <1>1, <2>3, <2>5
  <2>7. Region(ptr, End(r) - ptr) \in Span /\ Region(ptr, End(r) - ptr).ptr = ptr /\ End(Region(ptr, End(r) - ptr)) = End(r)
    BY <1>1, <2>6, SpanIs
  <2>8. Region(ptr, End(r) - ptr).length = End(r) - ptr /\ End(r) - ptr >= size
    BY <1>1, <2>3, <2>5 DEF Region
  <2> QED
    BY <1>1, <2>1, <2>6, <2>7, <2>8 DEF Holds
<1>3. CASE ~longTerm
  <2> DEFINE ptr == RoundUp(r.ptr)
             rest == End(r) - ptr
             length == IF RoundUp(size) < rest THEN RoundUp(size) ELSE rest
  <2>1. Cut(r, size, longTerm) = Region(ptr, length)
    BY <1>3 DEF Cut
  <2>2. ptr \in Nat /\ RoundUp(size) \in Nat /\ size <= RoundUp(size)
    BY <1>1, RoundFacts
  <2>3. Cut(r, size, longTerm).ptr = ptr
    BY <2>1 DEF Region
  <2>4. ptr >= r.ptr /\ ptr + size <= End(r)
    BY <2>3 DEF Serves
  <2> HIDE DEF ptr
  <2>5. length \in Nat \ {0} /\ ptr + length <= End(r) /\ length >= size
    BY <1>1, <2>2, <2>4
  <2> HIDE DEF length
  <2>6. Region(ptr, length) \in Span /\ Region(ptr, length).ptr = ptr /\ Region(ptr, length).length = length
    BY <2>2, <2>5 DEF Region, Span
  <2>7. End(Region(ptr, length)) = ptr + length
    BY <2>6 DEF End
  <2> QED
    BY <1>1, <2>1, <2>4, <2>5, <2>6, <2>7 DEF Holds
<1> QED
  BY <1>2, <1>3

\* What tryAlloc finds can be claimed.
LEMMA FoundFacts ==
  ASSUME NEW s, FreeList(s), NEW size \in Nat \ {0}, NEW longTerm \in BOOLEAN, CanAlloc(s, size, longTerm)
  PROVE  /\ Found(s, size, longTerm) \in Span /\ Found(s, size, longTerm).length >= size
         /\ CanClaim(s, Found(s, size, longTerm))
<1> DEFINE n == Len(s)
           fits == {k \in DOMAIN s : Serves(s[k], size, longTerm)}
           back == {n - k : k \in fits}
           Best(k) == \A j \in fits : IF longTerm THEN j <= k ELSE k <= j
           k == CHOOSE k \in fits : Best(k)
<1>1. n \in Nat /\ DOMAIN s = 1..n /\ \A j \in 1..n : s[j] \in Span
  BY RegionFacts
<1>2. fits \subseteq 1..n /\ fits # {}
  BY <1>1 DEF CanAlloc
<1>3. \E i \in fits : Best(i)
  <2>1. CASE longTerm
    <3>1. back \in SUBSET Nat /\ back # {}
      BY <1>1, <1>2
    <3>2. PICK m \in back : \A i \in back : m <= i
      <4> HIDE DEF back
      <4> QED
        BY <3>1, LeastMember
    <3>3. PICK i \in fits : m = n - i
      OBVIOUS
    <3>4. \A j \in fits : n - i <= n - j
      BY <3>2, <3>3
    <3>5. \A j \in fits : j <= i
      <4> HIDE DEF fits, n
      <4> QED
        BY <1>1, <1>2, <3>4
    <3> HIDE DEF fits
    <3> QED
      BY <2>1, <3>5
  <2>2. CASE ~longTerm
    <3>1. fits \in SUBSET Nat
      BY <1>1, <1>2
    <3>2. \E m \in fits : \A i \in fits : m <= i
      <4> HIDE DEF fits
      <4> QED
        BY <1>2, <3>1, LeastMember
    <3> HIDE DEF fits
    <3> QED
      BY <2>2, <3>2
  <2> QED
    BY <2>1, <2>2
<1>4. k \in fits
  <2> HIDE DEF fits, Best
  <2> QED
    BY <1>3
<1>5. Found(s, size, longTerm) = Cut(s[k], size, longTerm)
  BY DEF Found
<1> HIDE DEF k
<1>6. k \in 1..n /\ Serves(s[k], size, longTerm) /\ s[k] \in Span
  BY <1>1, <1>2, <1>4
<1>7. /\ Cut(s[k], size, longTerm) \in Span /\ Holds(s[k], Cut(s[k], size, longTerm))
      /\ Cut(s[k], size, longTerm).length >= size
  BY <1>6, CutFacts
<1> QED
  BY <1>1, <1>5, <1>6, <1>7 DEF CanClaim

\* Induction up to a bound, for a set of numbers.
LEMMA UpTo ==
  ASSUME NEW L \in Nat, NEW Good, 0 \in Good, \A n \in 0..(L - 1) : n \in Good => n + 1 \in Good
  PROVE  \A n \in 0..L : n \in Good
<1> DEFINE Bad == {n \in 0..L : n \notin Good}
<1>1. SUFFICES ASSUME Bad # {} PROVE FALSE
  OBVIOUS
<1>2. Bad \in SUBSET Nat
  OBVIOUS
<1>3. PICK m \in Bad : \A n \in Bad : m <= n
  <2> HIDE DEF Bad
  <2> QED
    BY <1>1, <1>2, LeastMember
<1>4. m \in 0..L /\ m \notin Good
  OBVIOUS
<1>5. m # 0
  BY <1>4
<1>6. m - 1 \in 0..(L - 1) /\ m - 1 \in 0..L /\ (m - 1) + 1 = m /\ ~(m <= m - 1)
  BY <1>4, <1>5
<1>7. m - 1 \in Good
  <2>1. m - 1 \notin Bad
    <3> HIDE DEF Bad
    <3> QED
      BY <1>3, <1>6
  <2> QED
    BY <1>6, <2>1
<1> QED
  BY <1>4, <1>6, <1>7

\* drainTo's loop: each region of the one list comes free in the other.
Drains(s, d, f) ==
  /\ DrainTo(s, d) = f[Len(s)]
  /\ f[0] = d
  /\ \A n \in 1..Len(s) : f[n] = Manage(f[n - 1], s[n].ptr, s[n].length)

\* drainTo takes the ranges one at a time.
LEMMA DrainSteps ==
  ASSUME NEW s \in Seq(Span), NEW d
  PROVE  \E f : Drains(s, d, f)
<1> DEFINE L == Len(s)
           Loop(f, n) == [i \in 0..n |-> IF i = 0 THEN d ELSE Manage(f[i - 1], s[i].ptr, s[i].length)]
           Good == {n \in 0..L : \E f : f = Loop(f, n)}
           drained == CHOOSE f : f = Loop(f, L)
<1>1. L \in Nat
  OBVIOUS
<1> HIDE DEF L
<1>2. 0 \in Good
  <2> DEFINE f == [i \in 0..0 |-> d]
  <2>1. \A i \in 0..0 : i = 0
    OBVIOUS
  <2>2. f = Loop(f, 0)
    BY <2>1
  <2> HIDE DEF f, Loop
  <2>3. \E g : g = Loop(g, 0)
    BY <2>2
  <2> QED
    BY <1>1, <2>3
<1>3. ASSUME NEW n \in 0..(L - 1), n \in Good PROVE n + 1 \in Good
  <2>1. PICK f : f = Loop(f, n)
    BY <1>3
  <2> DEFINE g == Loop(f, n + 1)
  <2>2. \A i \in 0..n : f[i] = IF i = 0 THEN d ELSE Manage(f[i - 1], s[i].ptr, s[i].length)
    BY <2>1
  <2>3. n \in Nat /\ n + 1 \in 0..L
    BY <1>1
  <2>4. \A i \in 0..(n + 1) : g[i] = IF i = 0 THEN d ELSE Manage(f[i - 1], s[i].ptr, s[i].length)
    OBVIOUS
  <2>5. \A i \in 0..n : g[i] = f[i]
    <3>1. \A i \in 0..n : i \in 0..(n + 1)
      BY <2>3
    <3> HIDE DEF g
    <3> QED
      BY <2>2, <2>4, <3>1
  <2>6. \A i \in 0..(n + 1) : i # 0 => i - 1 \in 0..n
    BY <2>3
  <2>7. \A i \in 0..(n + 1) : i # 0 => g[i - 1] = f[i - 1]
    <3> HIDE DEF g
    <3> QED
      BY <2>5, <2>6
  <2>8. g = Loop(g, n + 1)
    <3> DEFINE h == [j \in 0..(n + 1) |-> g[j]]
    <3>1. g = Loop(f, n + 1)
      OBVIOUS
    <3>2. \A i \in 0..(n + 1) : (IF i = 0 THEN d ELSE Manage(f[i - 1], s[i].ptr, s[i].length))
                               = (IF i = 0 THEN d ELSE Manage(g[i - 1], s[i].ptr, s[i].length))
      <4> HIDE DEF g
      <4> QED
        BY <2>7
    <3>3. Loop(f, n + 1) = Loop(g, n + 1)
      <4> HIDE DEF g
      <4> QED
        BY <3>2
    <3> HIDE DEF g, Loop
    <3> QED
      BY <3>3 DEF g
  <2> HIDE DEF g, Loop
  <2> QED
    BY <2>3, <2>8
<1>4. \E f : f = Loop(f, L)
  <2>1. L \in Good
    <3>1. \A n \in 0..(L - 1) : n \in Good => n + 1 \in Good
      <4> HIDE DEF Good
      <4> QED
        BY <1>3
    <3>2. L \in 0..L
      BY <1>1
    <3> HIDE DEF Good
    <3> QED
      BY <1>1, <1>2, <3>1, <3>2, UpTo
  <2> HIDE DEF Loop
  <2> QED
    BY <2>1
<1>5. drained = Loop(drained, L)
  <2> HIDE DEF Loop
  <2> QED
    BY <1>4
<1>6. DrainTo(s, d) = drained[L]
  BY DEF DrainTo, L
<1> HIDE DEF drained
<1>7. \A i \in 0..L : drained[i] = IF i = 0 THEN d ELSE Manage(drained[i - 1], s[i].ptr, s[i].length)
  BY <1>5
<1>8. drained[0] = d
  BY <1>1, <1>7
<1>9. \A n \in 1..L : drained[n] = Manage(drained[n - 1], s[n].ptr, s[n].length)
  <2>1. \A n \in 1..L : n \in 0..L /\ n # 0
    BY <1>1
  <2> QED
    BY <1>7, <2>1
<1> QED
  BY <1>6, <1>8, <1>9 DEF L, Drains

\* Ranges that come free one after the other are all in the list, if they do
\* not overlap.
LEMMA DrainApart ==
  ASSUME NEW s \in Seq(Span), NEW d, FreeList(d), FreeAddresses(s) \cap FreeAddresses(d) = {},
         \A j, k \in 1..Len(s) : j < k => Addresses(s[j]) \cap Addresses(s[k]) = {}
  PROVE  /\ FreeList(DrainTo(s, d))
         /\ FreeAddresses(DrainTo(s, d)) = FreeAddresses(s) \cup FreeAddresses(d)
<1> DEFINE L == Len(s)
           Until(n) == UNION {Addresses(s[k]) : k \in 1..n}
<1>1. PICK f : /\ DrainTo(s, d) = f[L]
               /\ f[0] = d
               /\ \A n \in 1..L : f[n] = Manage(f[n - 1], s[n].ptr, s[n].length)
  <2>1. \E f : Drains(s, d, f)
    BY DrainSteps
  <2> QED
    BY <2>1 DEF Drains
<1>2. L \in Nat /\ DOMAIN s = 1..L /\ \A k \in 1..L : s[k] \in Span
  OBVIOUS
<1>3. FreeAddresses(s) = Until(L)
  BY <1>2 DEF FreeAddresses
<1> DEFINE Good == {n \in 0..L : FreeList(f[n]) /\ FreeAddresses(f[n]) = FreeAddresses(d) \cup Until(n)}
<1>4. 0 \in Good
  <2>1. Until(0) = {}
    OBVIOUS
  <2> HIDE DEF Until
  <2> QED
    BY <1>1, <1>2, <2>1
<1>5. ASSUME NEW n \in 0..(L - 1), n \in Good PROVE n + 1 \in Good
  <2>1. n + 1 \in 1..L /\ n + 1 \in 0..L /\ (n + 1) - 1 = n /\ \A k \in 1..(n + 1) : k \in 1..n \/ k = n + 1
    BY <1>2
  <2>2. \A k \in 1..n : k \in 1..(n + 1) /\ k \in 1..L /\ k < n + 1
    BY <1>2
  <2>3. f[n + 1] = Manage(f[n], s[n + 1].ptr, s[n + 1].length)
    BY <1>1, <2>1
  <2>4. FreeList(f[n]) /\ FreeAddresses(f[n]) = FreeAddresses(d) \cup Until(n)
    BY <1>5
  <2>5. Until(n + 1) = Until(n) \cup Addresses(s[n + 1])
    <3>1. n + 1 \in 1..(n + 1)
      BY <2>1
    <3> QED
      BY <2>1, <2>2, <3>1
  <2>6. Addresses(s[n + 1]) \cap FreeAddresses(d) = {}
    <3>1. Addresses(s[n + 1]) \subseteq FreeAddresses(s)
      BY <1>2, <2>1 DEF FreeAddresses
    <3> QED
      BY <3>1
  <2>7. \A k \in 1..n : Addresses(s[n + 1]) \cap Addresses(s[k]) = {}
    BY <2>1, <2>2
  <2>8. Addresses(s[n + 1]) \cap FreeAddresses(f[n]) = {}
    BY <2>4, <2>6, <2>7
  <2>9. FreeList(f[n + 1]) /\ FreeAddresses(f[n + 1]) = FreeAddresses(f[n]) \cup Addresses(s[n + 1])
    BY <1>2, <2>1, <2>3, <2>4, <2>8, ManageFacts
  <2> HIDE DEF Until
  <2>10. FreeAddresses(f[n + 1]) = FreeAddresses(d) \cup Until(n + 1)
    BY <2>4, <2>5, <2>9
  <2> QED
    BY <2>1, <2>9, <2>10
<1>6. L \in Good
  <2>1. L \in Nat /\ L \in 0..L
    BY <1>2
  <2>2. \A n \in 0..(L - 1) : n \in Good => n + 1 \in Good
    <3> HIDE DEF Good
    <3> QED
      BY <1>5
  <2> HIDE DEF Good, L
  <2> QED
    BY <1>4, <2>1, <2>2, UpTo
<1> HIDE DEF Until
<1>7. FreeList(f[L]) /\ FreeAddresses(f[L]) = FreeAddresses(d) \cup Until(L)
  BY <1>6
<1> QED
  BY <1>1, <1>3, <1>7

\* drainTo: the other list gets all of it.
LEMMA DrainFacts ==
  ASSUME NEW s, FreeList(s), NEW d, FreeList(d), FreeAddresses(s) \cap FreeAddresses(d) = {}
  PROVE  /\ FreeList(DrainTo(s, d))
         /\ FreeAddresses(DrainTo(s, d)) = FreeAddresses(s) \cup FreeAddresses(d)
<1>1. s \in Seq(Span) /\ \A k \in 1..Len(s) : s[k] \in Span /\ s[k].ptr \in Nat /\ End(s[k]) \in Nat
  BY RegionFacts
<1>2. ASSUME NEW j \in 1..Len(s), NEW k \in 1..Len(s), j < k PROVE Addresses(s[j]) \cap Addresses(s[k]) = {}
  <2> SUFFICES ASSUME NEW x, x \in Addresses(s[j]), x \in Addresses(s[k]) PROVE FALSE
    OBVIOUS
  <2>1. End(s[j]) < s[k].ptr
    BY <1>2, Ordered
  <2>2. x \in Int /\ s[k].ptr <= x /\ x < End(s[j])
    BY <1>1, AddressesIs
  <2> QED
    BY <1>1, <2>1, <2>2
<1> QED
  BY <1>1, <1>2, DrainApart
==============================================================================
