--------------------------- MODULE Capture_proofs ---------------------------
(***************************************************************************)
(* Proofs about Capture and the free lists of Heap: memory is shared out   *)
(* exactly (HeapsExact), a replay overwrites nobody and finds its results  *)
(* free (ReplaySafe), and a graph is that of the run it stands for         *)
(* (GraphsFit), for any programs, lengths, arena and alignment.            *)
(***************************************************************************)
EXTENDS Capture, Heap_proofs, FiniteSetTheorems

-----------------------------------------------------------------------------
(* One range after the other, in any order                               *)

\* A range comes free, or is claimed.
Change(give, regions, r) == IF give THEN Manage(regions, r.ptr, r.length) ELSE Without(regions, r)

\* The loop over a set of ranges, as a function of the subset that is done.
Turns(f, Q, base, give) ==
  [s \in SUBSET Q |-> IF s = {} THEN base
                      ELSE Change(give, f[s \ {CHOOSE x \in s : TRUE}], CHOOSE x \in s : TRUE)]

\* There is such a function.
LEMMA LoopExists ==
  ASSUME NEW Q, IsFiniteSet(Q), NEW base, NEW give
  PROVE  \E f : f = Turns(f, Q, base, give)
<1> DEFINE N == Cardinality(Q)
           One(s) == CHOOSE x \in s : TRUE
           Sub(n) == {s \in SUBSET Q : Cardinality(s) <= n}
           Step(f, s) == IF s = {} THEN base ELSE Change(give, f[s \ {One(s)}], One(s))
           Loop(f, n) == [s \in Sub(n) |-> Step(f, s)]
           Good == {n \in 0..N : \E f : f = Loop(f, n)}
<1>1. N \in Nat
  BY FS_CardinalityType
<1>2. \A s \in SUBSET Q : IsFiniteSet(s) /\ Cardinality(s) \in Nat /\ Cardinality(s) <= N
  BY FS_Subset, FS_CardinalityType
<1>3. ASSUME NEW s \in SUBSET Q, s # {}
      PROVE  s \ {One(s)} \in SUBSET Q /\ Cardinality(s \ {One(s)}) = Cardinality(s) - 1
  <2>1. One(s) \in s
    BY <1>3
  <2> HIDE DEF One
  <2> QED
    BY <1>2, <2>1, FS_RemoveElement
<1>4. 0 \in Good
  <2> DEFINE f == [s \in Sub(0) |-> base]
  <2>1. \A s \in Sub(0) : s = {}
    <3> SUFFICES ASSUME NEW s \in Sub(0) PROVE s = {}
      OBVIOUS
    <3>1. Cardinality(s) = 0 /\ IsFiniteSet(s)
      BY <1>2
    <3> QED
      BY <3>1, FS_EmptySet
  <2>2. f = Loop(f, 0)
    <3> HIDE DEF Sub
    <3> QED
      BY <2>1
  <2> HIDE DEF f, Loop
  <2>3. \E g : g = Loop(g, 0)
    BY <2>2
  <2> QED
    BY <1>1, <2>3
<1>5. ASSUME NEW n \in 0..(N - 1), n \in Good PROVE n + 1 \in Good
  <2>1. PICK f : f = Loop(f, n)
    BY <1>5
  <2> DEFINE g == Loop(f, n + 1)
  <2>2. n \in Nat /\ n + 1 \in 0..N
    BY <1>1
  <2>3. \A s \in Sub(n) : f[s] = Step(f, s)
    <3> HIDE DEF Step, Sub
    <3> QED
      BY <2>1
  <2>4. \A s \in Sub(n + 1) : g[s] = Step(f, s)
    <3> HIDE DEF Step, Sub
    <3> QED
      OBVIOUS
  <2>5. \A s \in Sub(n) : s \in Sub(n + 1)
    BY <1>2, <2>2
  <2>6. \A s \in Sub(n) : g[s] = f[s]
    <3> HIDE DEF Step, Sub, g
    <3> QED
      BY <2>3, <2>4, <2>5
  <2>7. \A s \in Sub(n + 1) : s # {} => s \ {One(s)} \in Sub(n)
    <3> SUFFICES ASSUME NEW s \in Sub(n + 1), s # {} PROVE s \ {One(s)} \in Sub(n)
      OBVIOUS
    <3>1. s \in SUBSET Q /\ Cardinality(s) <= n + 1 /\ Cardinality(s) \in Nat
      BY <1>2
    <3> HIDE DEF One
    <3> QED
      BY <1>3, <2>2, <3>1
  <2>8. \A s \in Sub(n + 1) : Step(f, s) = Step(g, s)
    <3> HIDE DEF Sub, g, One
    <3> QED
      BY <2>6, <2>7
  <2>9. g = Loop(g, n + 1)
    <3> HIDE DEF g, Step, Sub
    <3>1. Loop(f, n + 1) = Loop(g, n + 1)
      BY <2>8
    <3> HIDE DEF Loop
    <3> QED
      BY <3>1 DEF g
  <2> HIDE DEF g, Loop
  <2> QED
    BY <2>2, <2>9
<1>6. \E f : f = Loop(f, N)
  <2>1. N \in 0..N
    BY <1>1
  <2>2. \A n \in 0..(N - 1) : n \in Good => n + 1 \in Good
    <3> HIDE DEF Good
    <3> QED
      BY <1>5
  <2>3. N \in Good
    <3> HIDE DEF Good, N
    <3> QED
      BY <1>1, <1>4, <2>1, <2>2, UpTo
  <2> HIDE DEF Loop
  <2> QED
    BY <2>3
<1>7. Sub(N) = SUBSET Q
  BY <1>2
<1>8. PICK f : f = Loop(f, N)
  <2> HIDE DEF Loop
  <2> QED
    BY <1>6
<1> HIDE DEF Sub
<1>9. f = Turns(f, Q, base, give)
  BY <1>7, <1>8 DEF Turns
<1> QED
  BY <1>9

\* The subsets of a set of ranges, one range more at a time: what holds of none
\* and of one more holds of all.
LEMMA OneByOne ==
  ASSUME NEW Q, IsFiniteSet(Q), NEW Good, {} \in Good,
         \A s \in SUBSET Q : s # {} /\ s \ {CHOOSE x \in s : TRUE} \in Good => s \in Good
  PROVE  Q \in Good
<1> DEFINE N == Cardinality(Q)
           Sub(n) == {s \in SUBSET Q : Cardinality(s) <= n}
           Upto == {n \in 0..N : Sub(n) \subseteq Good}
<1>1. N \in Nat
  BY FS_CardinalityType
<1>2. \A s \in SUBSET Q : IsFiniteSet(s) /\ Cardinality(s) \in Nat /\ Cardinality(s) <= N
  BY FS_Subset, FS_CardinalityType
<1>3. 0 \in Upto
  <2>1. \A s \in Sub(0) : s = {}
    <3> SUFFICES ASSUME NEW s \in Sub(0) PROVE s = {}
      OBVIOUS
    <3>1. Cardinality(s) = 0 /\ IsFiniteSet(s)
      BY <1>2
    <3> QED
      BY <3>1, FS_EmptySet
  <2> HIDE DEF Sub
  <2>2. Sub(0) \subseteq Good
    BY <2>1
  <2>3. 0 \in 0..N
    BY <1>1
  <2> QED
    BY <2>2, <2>3
<1>4. ASSUME NEW n \in 0..(N - 1), n \in Upto PROVE n + 1 \in Upto
  <2>1. n \in Nat /\ n + 1 \in 0..N /\ Sub(n) \subseteq Good
    BY <1>1, <1>4
  <2>2. ASSUME NEW s \in Sub(n + 1) PROVE s \in Good
    <3>1. CASE s = {}
      BY <3>1
    <3>2. CASE s # {}
      <4> DEFINE x == CHOOSE x \in s : TRUE
      <4>1. s \in SUBSET Q /\ Cardinality(s) <= n + 1 /\ Cardinality(s) \in Nat /\ IsFiniteSet(s)
        BY <1>2
      <4>2. x \in s
        BY <3>2
      <4> HIDE DEF x
      <4>3. Cardinality(s \ {x}) = Cardinality(s) - 1
        BY <4>1, <4>2, FS_RemoveElement
      <4>4. s \ {x} \in Sub(n)
        BY <2>1, <4>1, <4>3
      <4>5. s \ {x} \in Good
        BY <2>1, <4>4
      <4> QED
        BY <3>2, <4>1, <4>5 DEF x
    <3> QED
      BY <3>1, <3>2
  <2> HIDE DEF Sub
  <2> QED
    BY <2>1, <2>2
<1>5. N \in Upto
  <2>1. N \in 0..N
    BY <1>1
  <2>2. \A n \in 0..(N - 1) : n \in Upto => n + 1 \in Upto
    <3> HIDE DEF Upto
    <3> QED
      BY <1>4
  <2> HIDE DEF Upto, N
  <2> QED
    BY <1>1, <1>3, <2>1, <2>2, UpTo
<1> QED
  BY <1>2, <1>5

\* Ranges no two of which share an address.
Apart(Q) == \A r, q \in Q : r # q => Addresses(r) \cap Addresses(q) = {}

\* A scope ends: all its ranges come free.
LEMMA GiveAllFacts ==
  ASSUME NEW heap, FreeList(heap), NEW Q \in SUBSET Span, IsFiniteSet(Q), Apart(Q),
         AddressesOf(Q) \cap FreeAddresses(heap) = {}
  PROVE  /\ FreeList(GiveAll(heap, Q))
         /\ FreeAddresses(GiveAll(heap, Q)) = FreeAddresses(heap) \cup AddressesOf(Q)
<1> DEFINE One(s) == CHOOSE x \in s : TRUE
           Loop(f) == [s \in SUBSET Q |-> IF s = {} THEN heap ELSE Manage(f[s \ {One(s)}], One(s).ptr, One(s).length)]
           iter == CHOOSE f : f = Loop(f)
           Good == {s \in SUBSET Q : FreeList(iter[s]) /\ FreeAddresses(iter[s]) = FreeAddresses(heap) \cup AddressesOf(s)}
<1>1. GiveAll(heap, Q) = iter[Q]
  BY DEF GiveAll, FoldSet, MapThenFoldSet
<1>2. \E f : f = Loop(f)
  <2>1. PICK f : f = Turns(f, Q, heap, TRUE)
    BY LoopExists
  <2>2. f = Loop(f)
    BY <2>1 DEF Turns, Change
  <2> HIDE DEF Loop
  <2> QED
    BY <2>2
<1>3. iter = Loop(iter)
  <2> HIDE DEF Loop
  <2> QED
    BY <1>2
<1> HIDE DEF iter
<1>4. iter[{}] = heap /\ \A s \in SUBSET Q : s # {} => iter[s] = Manage(iter[s \ {One(s)}], One(s).ptr, One(s).length)
  <2> HIDE DEF One
  <2> QED
    BY <1>3
<1>5. {} \in Good
  <2>1. AddressesOf({}) = {}
    BY DEF AddressesOf
  <2> QED
    BY <1>4, <2>1
<1>6. ASSUME NEW s \in SUBSET Q, s # {}, s \ {One(s)} \in Good PROVE s \in Good
  <2> DEFINE x == One(s)
             t == s \ {x}
  <2>1. x \in s /\ x \in Q /\ x \in Span
    BY <1>6
  <2>2. iter[s] = Manage(iter[t], x.ptr, x.length)
    BY <1>4, <1>6
  <2> HIDE DEF One
  <2>3. FreeList(iter[t]) /\ FreeAddresses(iter[t]) = FreeAddresses(heap) \cup AddressesOf(t)
    BY <1>6
  <2> HIDE DEF x
  <2>4. Addresses(x) \cap FreeAddresses(heap) = {}
    BY <2>1 DEF AddressesOf
  <2>5. Addresses(x) \cap AddressesOf(t) = {}
    BY <2>1 DEF Apart, AddressesOf
  <2>6. Addresses(x) \cap FreeAddresses(iter[t]) = {}
    BY <2>3, <2>4, <2>5
  <2>7. FreeList(iter[s]) /\ FreeAddresses(iter[s]) = FreeAddresses(iter[t]) \cup Addresses(x)
    <3> HIDE DEF t
    <3> QED
      BY <2>1, <2>2, <2>3, <2>6, ManageFacts
  <2>8. AddressesOf(s) = AddressesOf(t) \cup Addresses(x)
    BY <2>1 DEF AddressesOf
  <2> HIDE DEF t
  <2> QED
    BY <2>3, <2>7, <2>8
<1>7. Q \in Good
  <2> HIDE DEF Good
  <2> QED
    BY <1>5, <1>6, OneByOne
<1> QED
  BY <1>1, <1>7

\* Ranges that are free are claimed.
LEMMA ClaimAllFacts ==
  ASSUME NEW heap, FreeList(heap), NEW Q \in SUBSET Span, IsFiniteSet(Q), Apart(Q),
         AddressesOf(Q) \subseteq FreeAddresses(heap)
  PROVE  /\ FreeList(ClaimAll(heap, Q))
         /\ FreeAddresses(ClaimAll(heap, Q)) = FreeAddresses(heap) \ AddressesOf(Q)
<1> DEFINE One(s) == CHOOSE x \in s : TRUE
           Loop(f) == [s \in SUBSET Q |-> IF s = {} THEN heap ELSE Without(f[s \ {One(s)}], One(s))]
           iter == CHOOSE f : f = Loop(f)
           Good == {s \in SUBSET Q : FreeList(iter[s]) /\ FreeAddresses(iter[s]) = FreeAddresses(heap) \ AddressesOf(s)}
<1>1. ClaimAll(heap, Q) = iter[Q]
  BY DEF ClaimAll, FoldSet, MapThenFoldSet
<1>2. \E f : f = Loop(f)
  <2>1. PICK f : f = Turns(f, Q, heap, FALSE)
    BY LoopExists
  <2>2. f = Loop(f)
    BY <2>1 DEF Turns, Change
  <2> HIDE DEF Loop
  <2> QED
    BY <2>2
<1>3. iter = Loop(iter)
  <2> HIDE DEF Loop
  <2> QED
    BY <1>2
<1> HIDE DEF iter
<1>4. iter[{}] = heap /\ \A s \in SUBSET Q : s # {} => iter[s] = Without(iter[s \ {One(s)}], One(s))
  <2> HIDE DEF One
  <2> QED
    BY <1>3
<1>5. {} \in Good
  <2>1. AddressesOf({}) = {}
    BY DEF AddressesOf
  <2> QED
    BY <1>4, <2>1
<1>6. ASSUME NEW s \in SUBSET Q, s # {}, s \ {One(s)} \in Good PROVE s \in Good
  <2> DEFINE x == One(s)
             t == s \ {x}
  <2>1. x \in s /\ x \in Q /\ x \in Span
    BY <1>6
  <2>2. iter[s] = Without(iter[t], x)
    BY <1>4, <1>6
  <2> HIDE DEF One
  <2>3. FreeList(iter[t]) /\ FreeAddresses(iter[t]) = FreeAddresses(heap) \ AddressesOf(t)
    BY <1>6
  <2> HIDE DEF x
  <2>4. Addresses(x) \subseteq FreeAddresses(heap)
    BY <2>1 DEF AddressesOf
  <2>5. Addresses(x) \cap AddressesOf(t) = {}
    BY <2>1 DEF Apart, AddressesOf
  <2>6. Addresses(x) \subseteq FreeAddresses(iter[t])
    BY <2>3, <2>4, <2>5
  <2>7. FreeList(iter[s]) /\ FreeAddresses(iter[s]) = FreeAddresses(iter[t]) \ Addresses(x)
    <3> HIDE DEF t
    <3>1. CanClaim(iter[t], x)
      BY <2>1, <2>3, <2>6, FreeIsHeld
    <3> QED
      BY <2>1, <2>2, <2>3, <3>1, WithoutFacts
  <2>8. AddressesOf(s) = AddressesOf(t) \cup Addresses(x)
    BY <2>1 DEF AddressesOf
  <2> HIDE DEF t
  <2> QED
    BY <2>3, <2>7, <2>8
<1>7. Q \in Good
  <2> HIDE DEF Good
  <2> QED
    BY <1>5, <1>6, OneByOne
<1> QED
  BY <1>1, <1>7

-----------------------------------------------------------------------------
(* Sizes a run allocates                                                 *)

\* The sizes of one step more.
LEMMA SizesSteps ==
  ASSUME NEW p, NEW length, Len(p.steps) \in Nat
  PROVE  /\ SizesOfFirst(p, length)[0] = <<>>
         /\ \A n \in 1..Len(p.steps) :
              SizesOfFirst(p, length)[n] =
                IF p.steps[n].op = "alloc"
                THEN Append(SizesOfFirst(p, length)[n - 1], SizeOf(p.steps[n], length))
                ELSE SizesOfFirst(p, length)[n - 1]
<1> DEFINE L == Len(p.steps)
           Step(f, i) == IF i = 0 THEN <<>>
                         ELSE IF p.steps[i].op = "alloc" THEN Append(f[i - 1], SizeOf(p.steps[i], length)) ELSE f[i - 1]
           Loop(f, n) == [i \in 0..n |-> Step(f, i)]
           Good == {n \in 0..L : \E f : f = Loop(f, n)}
           sizes == CHOOSE f : f = Loop(f, L)
<1>1. L \in Nat
  OBVIOUS
<1> HIDE DEF L
<1>2. 0 \in Good
  <2> DEFINE f == [i \in 0..0 |-> <<>>]
  <2>1. \A i \in 0..0 : i = 0
    OBVIOUS
  <2>2. f = Loop(f, 0)
    BY <2>1
  <2> HIDE DEF f, Loop
  <2>3. \E g : g = Loop(g, 0)
    BY <2>2
  <2> QED
    BY <1>1, <2>3
<1>3. ASSUME NEW n \in 0..(L - 1), n \in Good PROVE n + 1 \in Good
  <2>1. PICK f : f = Loop(f, n)
    BY <1>3
  <2> DEFINE g == Loop(f, n + 1)
  <2>2. n \in Nat /\ n + 1 \in 0..L
    BY <1>1
  <2>3. \A i \in 0..n : f[i] = Step(f, i)
    <3> HIDE DEF Step
    <3> QED
      BY <2>1
  <2>4. \A i \in 0..(n + 1) : g[i] = Step(f, i)
    <3> HIDE DEF Step
    <3> QED
      OBVIOUS
  <2>5. \A i \in 0..n : g[i] = f[i]
    <3>1. \A i \in 0..n : i \in 0..(n + 1)
      BY <2>2
    <3> HIDE DEF Step, g
    <3> QED
      BY <2>3, <2>4, <3>1
  <2>6. \A i \in 0..(n + 1) : i # 0 => g[i - 1] = f[i - 1]
    <3>1. \A i \in 0..(n + 1) : i # 0 => i - 1 \in 0..n
      BY <2>2
    <3> HIDE DEF g
    <3> QED
      BY <2>5, <3>1
  <2>7. \A i \in 0..(n + 1) : Step(f, i) = Step(g, i)
    <3> HIDE DEF g
    <3> QED
      BY <2>6
  <2>8. g = Loop(g, n + 1)
    <3> HIDE DEF g, Step
    <3>1. Loop(f, n + 1) = Loop(g, n + 1)
      BY <2>7
    <3> HIDE DEF Loop
    <3> QED
      BY <3>1 DEF g
  <2> HIDE DEF g, Loop
  <2> QED
    BY <2>2, <2>8
<1>4. \E f : f = Loop(f, L)
  <2>1. L \in Good
    <3>1. L \in 0..L
      BY <1>1
    <3> HIDE DEF Good
    <3> QED
      BY <1>1, <1>2, <1>3, <3>1, UpTo
  <2> HIDE DEF Loop
  <2> QED
    BY <2>1
<1>5. sizes = Loop(sizes, L)
  <2> HIDE DEF Loop
  <2> QED
    BY <1>4
<1>6. SizesOfFirst(p, length) = sizes
  BY DEF SizesOfFirst, L
<1> HIDE DEF sizes
<1>7. \A i \in 0..L : sizes[i] = Step(sizes, i)
  <2> HIDE DEF Step
  <2> QED
    BY <1>5
<1>8. sizes[0] = <<>>
  BY <1>1, <1>7
<1>9. \A n \in 1..L : n \in 0..L /\ n # 0
  BY <1>1
<1>10. \A n \in 1..L : sizes[n] = IF p.steps[n].op = "alloc"
                                  THEN Append(sizes[n - 1], SizeOf(p.steps[n], length)) ELSE sizes[n - 1]
  BY <1>7, <1>9
<1> QED
  BY <1>6, <1>8, <1>10 DEF L

\* Without buffers of the padded KV length, the length makes no difference.
LEMMA SameSizes ==
  ASSUME NEW p, NEW a, NEW b, Len(p.steps) \in Nat, DOMAIN p.steps = 1..Len(p.steps), ~Varies(p)
  PROVE  Sizes(p, a) = Sizes(p, b)
<1> DEFINE L == Len(p.steps)
           Good == {n \in 0..L : SizesOfFirst(p, a)[n] = SizesOfFirst(p, b)[n]}
<1>1. 0 \in Good
  BY SizesSteps
<1>2. ASSUME NEW n \in 0..(L - 1), n \in Good PROVE n + 1 \in Good
  <2>1. n + 1 \in 1..L /\ n + 1 \in 0..L /\ (n + 1) - 1 = n
    OBVIOUS
  <2>2. p.steps[n + 1].op = "alloc" => SizeOf(p.steps[n + 1], a) = SizeOf(p.steps[n + 1], b)
    BY <2>1 DEF Varies, SizeOf
  <2>3. SizesOfFirst(p, a)[n] = SizesOfFirst(p, b)[n]
    BY <1>2
  <2>4. SizesOfFirst(p, a)[n + 1] = IF p.steps[n + 1].op = "alloc"
                                    THEN Append(SizesOfFirst(p, a)[n], SizeOf(p.steps[n + 1], a))
                                    ELSE SizesOfFirst(p, a)[n]
    BY <2>1, SizesSteps
  <2>5. SizesOfFirst(p, b)[n + 1] = IF p.steps[n + 1].op = "alloc"
                                    THEN Append(SizesOfFirst(p, b)[n], SizeOf(p.steps[n + 1], b))
                                    ELSE SizesOfFirst(p, b)[n]
    BY <2>1, SizesSteps
  <2> QED
    BY <2>1, <2>2, <2>3, <2>4, <2>5
<1>3. L \in Good
  <2>1. L \in 0..L /\ L \in Nat
    OBVIOUS
  <2> HIDE DEF Good, L
  <2> QED
    BY <1>1, <1>2, <2>1, UpTo
<1> QED
  BY <1>3 DEF Sizes

-----------------------------------------------------------------------------
(* Who has which memory                                                  *)

\* Four sets share out the arena.
Shares(D, M, C, U) ==
  /\ D \cup M \cup C \cup U = 0..(Arena - 1)
  /\ D \cap M = {} /\ D \cap C = {} /\ D \cap U = {}
  /\ M \cap C = {} /\ M \cap U = {} /\ C \cap U = {}

\* The free lists and the ranges in use are the arena.
Books(d, m, c, used) ==
  /\ FreeList(d) /\ FreeList(m) /\ FreeList(c)
  /\ used \subseteq Span /\ Apart(used)
  /\ Shares(FreeAddresses(d), FreeAddresses(m), FreeAddresses(c), AddressesOf(used))

\* The addresses of a set with one more range.
LEMMA AddressesOfOne ==
  ASSUME NEW used, NEW r
  PROVE  AddressesOf(used \cup {r}) = AddressesOf(used) \cup Addresses(r)
  BY DEF AddressesOf

\* A range of free memory is nobody's.
LEMMA NewApart ==
  ASSUME NEW used, used \subseteq Span, Apart(used), NEW r \in Span, Addresses(r) \cap AddressesOf(used) = {}
  PROVE  r \notin used /\ used \cup {r} \subseteq Span /\ Apart(used \cup {r})
<1>1. r.ptr \in Addresses(r)
  BY SpanFacts, AddressesIs
<1>2. \A q \in used : Addresses(r) \cap Addresses(q) = {}
  BY DEF AddressesOf
<1> QED
  BY <1>1, <1>2 DEF Apart

\* A range is cut out of a free list.
LEMMA BooksCut ==
  ASSUME NEW d, NEW m, NEW c, NEW used, Books(d, m, c, used), NEW r \in Span
  PROVE  /\ CanClaim(d, r) \/ CanClaim(m, r) \/ CanClaim(c, r) =>
              /\ r \notin used
              /\ Addresses(r) \cap AddressesOf(used) = {}
              /\ Addresses(r) \subseteq 0..(Arena - 1)
         /\ CanClaim(d, r) => /\ Books(Without(d, r), m, c, used \cup {r})
                              /\ FreeAddresses(Without(d, r)) = FreeAddresses(d) \ Addresses(r)
                              /\ Addresses(r) \subseteq FreeAddresses(d)
         /\ CanClaim(m, r) => /\ Books(d, Without(m, r), c, used \cup {r})
                              /\ Addresses(r) \cap FreeAddresses(d) = {}
         /\ CanClaim(c, r) => /\ Books(d, m, Without(c, r), used \cup {r})
                              /\ Addresses(r) \cap FreeAddresses(d) = {}
<1> DEFINE D == FreeAddresses(d)
           M == FreeAddresses(m)
           C == FreeAddresses(c)
           U == AddressesOf(used)
           R == Addresses(r)
<1>1. /\ FreeList(d) /\ FreeList(m) /\ FreeList(c) /\ used \subseteq Span /\ Apart(used) /\ Shares(D, M, C, U)
  BY DEF Books
<1>2. AddressesOf(used \cup {r}) = U \cup R
  BY AddressesOfOne
<1>3. R \cap U = {} => r \notin used /\ used \cup {r} \subseteq Span /\ Apart(used \cup {r})
  BY <1>1, NewApart
<1>4. ASSUME CanClaim(d, r)
      PROVE  /\ Books(Without(d, r), m, c, used \cup {r}) /\ FreeAddresses(Without(d, r)) = D \ R /\ R \subseteq D
             /\ r \notin used /\ R \cap U = {} /\ R \subseteq 0..(Arena - 1)
  <2>1. FreeList(Without(d, r)) /\ FreeAddresses(Without(d, r)) = D \ R /\ R \subseteq D
    BY <1>1, <1>4, WithoutFacts
  <2> HIDE DEF D, M, C, U, R
  <2>2. R \cap U = {} /\ R \subseteq 0..(Arena - 1) /\ Shares(D \ R, M, C, U \cup R)
    BY <1>1, <2>1 DEF Shares
  <2> QED
    BY <1>1, <1>2, <1>3, <2>1, <2>2 DEF Books, D, M, C, U, R
<1>5. ASSUME CanClaim(m, r)
      PROVE  /\ Books(d, Without(m, r), c, used \cup {r}) /\ R \cap D = {}
             /\ r \notin used /\ R \cap U = {} /\ R \subseteq 0..(Arena - 1)
  <2>1. FreeList(Without(m, r)) /\ FreeAddresses(Without(m, r)) = M \ R /\ R \subseteq M
    BY <1>1, <1>5, WithoutFacts
  <2> HIDE DEF D, M, C, U, R
  <2>2. R \cap U = {} /\ R \cap D = {} /\ R \subseteq 0..(Arena - 1) /\ Shares(D, M \ R, C, U \cup R)
    BY <1>1, <2>1 DEF Shares
  <2> QED
    BY <1>1, <1>2, <1>3, <2>1, <2>2 DEF Books, D, M, C, U, R
<1>6. ASSUME CanClaim(c, r)
      PROVE  /\ Books(d, m, Without(c, r), used \cup {r}) /\ R \cap D = {}
             /\ r \notin used /\ R \cap U = {} /\ R \subseteq 0..(Arena - 1)
  <2>1. FreeList(Without(c, r)) /\ FreeAddresses(Without(c, r)) = C \ R /\ R \subseteq C
    BY <1>1, <1>6, WithoutFacts
  <2> HIDE DEF D, M, C, U, R
  <2>2. R \cap U = {} /\ R \cap D = {} /\ R \subseteq 0..(Arena - 1) /\ Shares(D, M, C \ R, U \cup R)
    BY <1>1, <2>1 DEF Shares
  <2> QED
    BY <1>1, <1>2, <1>3, <2>1, <2>2 DEF Books, D, M, C, U, R
<1> QED
  BY <1>4, <1>5, <1>6

\* Some ranges come free.
LEMMA BooksGiveAll ==
  ASSUME NEW d, NEW m, NEW c, NEW used, Books(d, m, c, used), NEW Q \in SUBSET used, IsFiniteSet(Q)
  PROVE  Books(d, GiveAll(m, Q), c, used \ Q)
<1> DEFINE D == FreeAddresses(d)
           M == FreeAddresses(m)
           C == FreeAddresses(c)
           R == AddressesOf(Q)
           V == AddressesOf(used \ Q)
<1>1. FreeList(d) /\ FreeList(m) /\ FreeList(c) /\ used \subseteq Span /\ Apart(used) /\ Shares(D, M, C, AddressesOf(used))
  BY DEF Books
<1>2. Q \in SUBSET Span /\ Apart(Q) /\ used \ Q \subseteq Span /\ Apart(used \ Q)
  BY <1>1 DEF Apart
<1>3. AddressesOf(used) = V \cup R
  BY DEF AddressesOf
<1>4. V \cap R = {}
  BY <1>1 DEF AddressesOf, Apart
<1>5. R \cap M = {}
  <2> HIDE DEF R, V, D, M, C
  <2> QED
    BY <1>1, <1>3 DEF Shares
<1>6. FreeList(GiveAll(m, Q)) /\ FreeAddresses(GiveAll(m, Q)) = M \cup R
  BY <1>1, <1>2, <1>5, GiveAllFacts
<1>7. Shares(D, M \cup R, C, V)
  <2> HIDE DEF R, V, D, M, C
  <2> QED
    BY <1>1, <1>3, <1>4 DEF Shares
<1> QED
  BY <1>1, <1>2, <1>6, <1>7 DEF Books

\* One range comes free.
LEMMA BooksGive ==
  ASSUME NEW d, NEW m, NEW c, NEW used, Books(d, m, c, used), NEW r \in used
  PROVE  Books(d, Manage(m, r.ptr, r.length), c, used \ {r})
<1> DEFINE D == FreeAddresses(d)
           M == FreeAddresses(m)
           C == FreeAddresses(c)
           R == Addresses(r)
           V == AddressesOf(used \ {r})
<1>1. FreeList(d) /\ FreeList(m) /\ FreeList(c) /\ used \subseteq Span /\ Apart(used) /\ Shares(D, M, C, AddressesOf(used))
  BY DEF Books
<1>2. r \in Span /\ used \ {r} \subseteq Span /\ Apart(used \ {r})
  BY <1>1 DEF Apart
<1>3. AddressesOf(used) = V \cup R
  BY DEF AddressesOf
<1>4. V \cap R = {}
  BY <1>1 DEF AddressesOf, Apart
<1>5. R \cap M = {}
  <2> HIDE DEF R, V, D, M, C
  <2> QED
    BY <1>1, <1>3 DEF Shares
<1>6. FreeList(Manage(m, r.ptr, r.length)) /\ FreeAddresses(Manage(m, r.ptr, r.length)) = M \cup R
  BY <1>1, <1>2, <1>5, ManageFacts
<1>7. Shares(D, M \cup R, C, V)
  <2> HIDE DEF R, V, D, M, C
  <2> QED
    BY <1>1, <1>3, <1>4 DEF Shares
<1> QED
  BY <1>1, <1>2, <1>6, <1>7 DEF Books

\* The stream is synchronized: its heap is drained.
LEMMA BooksDrain ==
  ASSUME NEW d, NEW m, NEW c, NEW used, Books(d, m, c, used)
  PROVE  /\ Books(d, <<>>, DrainTo(m, c), used)
         /\ FreeAddresses(DrainTo(m, c)) = FreeAddresses(m) \cup FreeAddresses(c)
<1> DEFINE D == FreeAddresses(d)
           M == FreeAddresses(m)
           C == FreeAddresses(c)
           U == AddressesOf(used)
<1>1. FreeList(d) /\ FreeList(m) /\ FreeList(c) /\ used \subseteq Span /\ Apart(used) /\ Shares(D, M, C, U)
  BY DEF Books
<1>2. M \cap C = {}
  BY <1>1 DEF Shares
<1>3. FreeList(DrainTo(m, c)) /\ FreeAddresses(DrainTo(m, c)) = M \cup C
  BY <1>1, <1>2, DrainFacts
<1>4. FreeList(<<>>) /\ FreeAddresses(<<>>) = {}
  BY NoneFree
<1>5. Shares(D, {}, M \cup C, U)
  <2> HIDE DEF D, M, C, U
  <2> QED
    BY <1>1 DEF Shares
<1> QED
  BY <1>1, <1>3, <1>4, <1>5 DEF Books

\* Ranges that are free are claimed.
LEMMA BooksClaimAll ==
  ASSUME NEW d, NEW m, NEW c, NEW used, Books(d, m, c, used),
         NEW Q \in SUBSET Span, IsFiniteSet(Q), Apart(Q), AddressesOf(Q) \subseteq FreeAddresses(c)
  PROVE  Books(d, m, ClaimAll(c, Q), used \cup Q) /\ Q \cap used = {}
<1> DEFINE D == FreeAddresses(d)
           M == FreeAddresses(m)
           C == FreeAddresses(c)
           U == AddressesOf(used)
           R == AddressesOf(Q)
<1>1. FreeList(d) /\ FreeList(m) /\ FreeList(c) /\ used \subseteq Span /\ Apart(used) /\ Shares(D, M, C, U)
  BY DEF Books
<1>2. FreeList(ClaimAll(c, Q)) /\ FreeAddresses(ClaimAll(c, Q)) = C \ R
  BY <1>1, ClaimAllFacts
<1>3. R \subseteq C
  OBVIOUS
<1>4. U \cap R = {} /\ Shares(D, M, C \ R, U \cup R)
  <2> HIDE DEF D, M, C, U, R
  <2> QED
    BY <1>1, <1>3 DEF Shares
<1>5. AddressesOf(used \cup Q) = U \cup R
  BY DEF AddressesOf
<1>6. \A r \in used, q \in Q : Addresses(r) \cap Addresses(q) = {}
  BY <1>4 DEF AddressesOf
<1>7. used \cup Q \subseteq Span /\ Apart(used \cup Q)
  BY <1>1, <1>6 DEF Apart
<1>8. Q \cap used = {}
  <2> SUFFICES ASSUME NEW r \in Q, r \in used PROVE FALSE
    OBVIOUS
  <2>1. r \in Span /\ r.ptr \in Addresses(r)
    BY SpanFacts, AddressesIs
  <2> QED
    BY <1>6, <2>1
<1> QED
  BY <1>1, <1>2, <1>4, <1>5, <1>7, <1>8 DEF Books

-----------------------------------------------------------------------------
(* The inductive invariant                                               *)

\* Ranges of the run in progress.
Reserved == IF Running THEN Held \cup Unstaged ELSE {}

\* Memory has one owner, and tensors have one holder.
MemoryInv ==
  /\ Books(device, main, clean, InUse)
  /\ tracked \cap named = {}
  /\ tracked \cap Reserved = {}
  /\ named \cap Reserved = {}
  /\ staged \cap (tracked \cup named \cup Reserved) = {}

\* Memory a run will not get: what has stayed with the device, and named tensors.
Kept == FreeAddresses(device) \cup AddressesOf(named)

\* What is recorded is memory of the workspace, and not the input's.
Recorded(blocks, input, kept) ==
  /\ blocks \subseteq Span
  /\ AddressesOf(blocks) \subseteq 0..(Arena - 1)
  /\ AddressesOf(blocks) \cap kept = {}
  /\ AddressesOf(blocks) \cap Addresses(input) = {}

\* Slots the first steps of a program have allocated and not freed.
SlotsAfter(p, n) ==
  {p.steps[j].slot : j \in {i \in 1..n : p.steps[i].op = "alloc"}}
    \ {p.steps[j].slot : j \in {i \in 1..n : p.steps[i].op = "free"}}

\* The run has done the first steps of the program.
Done(p, n) ==
  /\ run.program = p.name
  /\ run.length \in Length
  /\ run.steps = SubSeq(p.steps, n + 1, Len(p.steps))
  /\ run.sizes = SizesOfFirst(p, run.length)[n]
  /\ run.key[1] = p.name /\ run.key[2] \in {0, run.length} /\ run.key[3] = run.input
  /\ DOMAIN run.slots = SlotsAfter(p, n)

\* A run in progress.
RunInv ==
  Running =>
    /\ run = [program |-> run.program, steps |-> run.steps, length |-> run.length, input |-> run.input,
              key |-> run.key, capturing |-> run.capturing, slots |-> run.slots,
              blocks |-> run.blocks, sizes |-> run.sizes]
    /\ run.input \in Span \cup {NoRange}
    /\ Held \cap Unstaged = {}
    /\ \A x, y \in DOMAIN run.slots : x # y => run.slots[x] # run.slots[y]
    /\ Held \subseteq run.blocks
    /\ Recorded(run.blocks, run.input, Kept)
    /\ \E p \in Program : \E n \in 0..Len(p.steps) : Done(p, n)

\* What a graph writes, and which of that it leaves to its caller.
GraphInv ==
  \A key \in DOMAIN captured :
    LET graph == captured[key].graph
    IN /\ Recorded(graph.blocks, key[3], Kept)
       /\ graph.results \subseteq graph.blocks
       /\ Apart(graph.results)
       /\ IsFiniteSet(graph.results)

\* Which run a graph is.
Stands(key, sizes, known) ==
  \E p \in Program, length \in Length :
    /\ p.name = key[1]
    /\ sizes = Sizes(p, length)
    /\ \/ key[2] = length
       \/ key[2] = 0 /\ (Varies(p) => p.name \in known)

StandsInv ==
  \A key \in DOMAIN captured : captured[key].graph # NoGraph => Stands(key, captured[key].graph.sizes, variant)

CaptureInv == MemoryInv /\ RunInv /\ GraphInv /\ StandsInv

-----------------------------------------------------------------------------

\* What is in use, in parts.
LEMMA InUseIs == InUse = tracked \cup staged \cup named \cup Reserved
  BY DEF InUse, Reserved

\* The tensors in use are ranges, and apart.
LEMMA InUseFacts ==
  ASSUME MemoryInv
  PROVE  InUse \subseteq Span /\ Apart(InUse) /\ tracked \subseteq Span /\ staged \subseteq Span /\ named \subseteq Span /\ Reserved \subseteq Span
<1>1. InUse \subseteq Span /\ Apart(InUse)
  BY DEF MemoryInv, Books
<1> QED
  BY <1>1, InUseIs

\* No range is not a range.
LEMMA NoRangeFacts == NoRange \notin Span /\ Addresses(NoRange) = {}
<1>1. NoRange.ptr = 0 /\ NoRange.length = 0
  BY DEF NoRange, Region
<1>2. NoRange \notin Span
  BY <1>1, SpanFacts
<1>3. Addresses(NoRange) = 0..(0 + 0 - 1)
  BY <1>1 DEF Addresses, End
<1>4. 0..(0 + 0 - 1) = {}
  OBVIOUS
<1> QED
  BY <1>2, <1>3, <1>4

\* The addresses of some of the ranges.
LEMMA AddressesOfSome ==
  ASSUME NEW P, NEW Q, P \subseteq Q
  PROVE  AddressesOf(P) \subseteq AddressesOf(Q)
  BY DEF AddressesOf

\* alloc: from any of the heaps.
LEMMA TakeFacts ==
  ASSUME NEW used, Books(device, main, clean, used), NEW size \in Nat \ {0}, CanServe(size), Take(size)
  PROVE  LET r == RangeFor(size)
         IN /\ r \in Span /\ r \notin used
            /\ Addresses(r) \cap AddressesOf(used) = {}
            /\ Addresses(r) \subseteq 0..(Arena - 1)
            /\ Books(device', main', clean', used \cup {r})
            /\ FreeAddresses(device') \subseteq FreeAddresses(device)
            /\ Addresses(r) \cap FreeAddresses(device') = {}
<1> DEFINE r == RangeFor(size)
<1>1. FreeList(device) /\ FreeList(main) /\ FreeList(clean)
  BY DEF Books
<1>2. FALSE \in BOOLEAN
  OBVIOUS
<1>3. CASE CanAlloc(main, size, FALSE)
  <2>1. r = Found(main, size, FALSE)
    BY <1>3 DEF RangeFor
  <2>2. r \in Span /\ CanClaim(main, r)
    BY <1>1, <1>2, <1>3, <2>1, FoundFacts
  <2>3. main' = Without(main, r) /\ clean' = clean /\ device' = device
    BY <1>3, <2>1 DEF Take
  <2> HIDE DEF r
  <2>4. /\ r \notin used /\ Addresses(r) \cap AddressesOf(used) = {} /\ Addresses(r) \subseteq 0..(Arena - 1)
        /\ Books(device, Without(main, r), clean, used \cup {r}) /\ Addresses(r) \cap FreeAddresses(device) = {}
    BY <2>2, BooksCut
  <2> QED
    BY <2>2, <2>3, <2>4 DEF r
<1>4. CASE ~CanAlloc(main, size, FALSE) /\ CanAlloc(clean, size, FALSE)
  <2>1. r = Found(clean, size, FALSE)
    BY <1>4 DEF RangeFor
  <2>2. r \in Span /\ CanClaim(clean, r)
    BY <1>1, <1>2, <1>4, <2>1, FoundFacts
  <2>3. clean' = Without(clean, r) /\ main' = main /\ device' = device
    BY <1>4, <2>1 DEF Take
  <2> HIDE DEF r
  <2>4. /\ r \notin used /\ Addresses(r) \cap AddressesOf(used) = {} /\ Addresses(r) \subseteq 0..(Arena - 1)
        /\ Books(device, main, Without(clean, r), used \cup {r}) /\ Addresses(r) \cap FreeAddresses(device) = {}
    BY <2>2, BooksCut
  <2> QED
    BY <2>2, <2>3, <2>4 DEF r
<1>5. CASE ~CanAlloc(main, size, FALSE) /\ ~CanAlloc(clean, size, FALSE)
  <2>1. r = Found(device, size, FALSE) /\ CanAlloc(device, size, FALSE)
    BY <1>5 DEF RangeFor, CanServe
  <2>2. r \in Span /\ CanClaim(device, r)
    BY <1>1, <1>2, <2>1, FoundFacts
  <2>3. device' = Without(device, r) /\ main' = main /\ clean' = clean
    BY <1>5, <2>1 DEF Take
  <2> HIDE DEF r
  <2>4. /\ r \notin used /\ Addresses(r) \cap AddressesOf(used) = {} /\ Addresses(r) \subseteq 0..(Arena - 1)
        /\ Books(Without(device, r), main, clean, used \cup {r})
        /\ FreeAddresses(Without(device, r)) = FreeAddresses(device) \ Addresses(r)
    BY <2>2, BooksCut
  <2> QED
    BY <2>2, <2>3, <2>4 DEF r
<1> QED
  BY <1>3, <1>4, <1>5

\* Records stay as they are when no memory is given back to the device.
LEMMA GraphsKept ==
  ASSUME GraphInv, Kept' \subseteq Kept, captured' = captured
  PROVE  GraphInv'
<1> SUFFICES ASSUME NEW key \in DOMAIN captured
             PROVE  /\ Recorded(captured[key].graph.blocks, key[3], Kept')
                    /\ captured[key].graph.results \subseteq captured[key].graph.blocks
                    /\ Apart(captured[key].graph.results)
                    /\ IsFiniteSet(captured[key].graph.results)
  BY DEF GraphInv, Apart
<1>1. /\ Recorded(captured[key].graph.blocks, key[3], Kept)
      /\ captured[key].graph.results \subseteq captured[key].graph.blocks
      /\ Apart(captured[key].graph.results)
      /\ IsFiniteSet(captured[key].graph.results)
  BY DEF GraphInv
<1>2. Recorded(captured[key].graph.blocks, key[3], Kept')
  BY <1>1 DEF Recorded
<1> QED
  BY <1>1, <1>2

\* A graph stands as long as nothing it depends on changes.
LEMMA StandsKept ==
  ASSUME StandsInv, captured' = captured, variant \subseteq variant'
  PROVE  StandsInv'
<1> SUFFICES ASSUME NEW key \in DOMAIN captured, captured[key].graph # NoGraph
             PROVE  Stands(key, captured[key].graph.sizes, variant')
  BY DEF StandsInv, NoGraph
<1>1. Stands(key, captured[key].graph.sizes, variant)
  BY DEF StandsInv
<1> QED
  BY <1>1 DEF Stands

-----------------------------------------------------------------------------
(* Steps of the callers                                                  *)

\* Between runs nothing is reserved.
LEMMA NotReserved ==
  ASSUME ~Running
  PROVE  Reserved = {} /\ InUse = tracked \cup staged \cup named
  BY DEF Reserved, InUse

\* Between runs nothing is reserved.
LEMMA IdleNext ==
  ASSUME ~Running, run' = run
  PROVE  /\ ~Running' /\ RunInv'
         /\ Reserved' = {} /\ InUse' = tracked' \cup staged' \cup named'
  BY DEF Reserved, InUse, Running, RunInv, NoRun

\* Taking a tensor.
LEMMA AcquireKeeps ==
  ASSUME CaptureInv, Acquire(1)
  PROVE  CaptureInv'
<1> DEFINE r == RangeFor(1)
<1>1. /\ ~Running /\ CanServe(1) /\ Take(1) /\ tracked' = tracked \cup {r}
      /\ staged' = staged /\ named' = named /\ run' = run /\ captured' = captured /\ variant' = variant
  BY DEF Acquire
<1>2. Books(device, main, clean, InUse) /\ tracked \cap named = {} /\ staged \cap (tracked \cup named \cup Reserved) = {}
  BY DEF CaptureInv, MemoryInv
<1>3. /\ r \notin InUse /\ Books(device', main', clean', InUse \cup {r})
      /\ FreeAddresses(device') \subseteq FreeAddresses(device)
  <2>1. 1 \in Nat \ {0}
    OBVIOUS
  <2> QED
    BY <1>1, <1>2, <2>1, TakeFacts
<1> HIDE DEF r
<1>4. InUse = tracked \cup staged \cup named /\ InUse' = tracked' \cup staged' \cup named' /\ Reserved' = {} /\ RunInv'
  BY <1>1, NotReserved, IdleNext
<1>5. InUse' = InUse \cup {r}
  BY <1>1, <1>4
<1>6. MemoryInv'
  BY <1>1, <1>2, <1>3, <1>4, <1>5 DEF MemoryInv
<1>7. Kept' \subseteq Kept
  BY <1>1, <1>3 DEF Kept, AddressesOf
<1>8. GraphInv' /\ StandsInv'
  BY <1>1, <1>7, GraphsKept, StandsKept DEF CaptureInv
<1> QED
  BY <1>4, <1>6, <1>8 DEF CaptureInv

\* Taking memory for a name.
LEMMA EnsureAllocKeeps ==
  ASSUME CaptureInv, EnsureAlloc(1)
  PROVE  CaptureInv'
<1> DEFINE r == Found(device, 1, TRUE)
<1>1. /\ ~Running /\ named = {} /\ CanAlloc(device, 1, TRUE)
      /\ device' = Without(device, r) /\ named' = {r}
      /\ main' = main /\ clean' = clean /\ tracked' = tracked /\ staged' = staged
      /\ run' = run /\ captured' = captured /\ variant' = variant
  BY DEF EnsureAlloc
<1>2. Books(device, main, clean, InUse) /\ FreeList(device) /\ staged \cap tracked = {}
  BY DEF CaptureInv, MemoryInv, Books
<1>3. r \in Span /\ CanClaim(device, r)
  <2>1. 1 \in Nat \ {0} /\ TRUE \in BOOLEAN
    OBVIOUS
  <2> QED
    BY <1>1, <1>2, <2>1, FoundFacts
<1> HIDE DEF r
<1>4. /\ r \notin InUse /\ Books(Without(device, r), main, clean, InUse \cup {r})
      /\ FreeAddresses(Without(device, r)) = FreeAddresses(device) \ Addresses(r)
      /\ Addresses(r) \subseteq FreeAddresses(device)
  BY <1>2, <1>3, BooksCut
<1>5. InUse = tracked \cup staged \cup named /\ InUse' = tracked' \cup staged' \cup named' /\ Reserved' = {} /\ RunInv'
  BY <1>1, NotReserved, IdleNext
<1>6. InUse' = InUse \cup {r}
  BY <1>1, <1>5
<1>7. MemoryInv'
  BY <1>1, <1>2, <1>4, <1>5, <1>6 DEF MemoryInv
<1>8. Kept' \subseteq Kept
  BY <1>1, <1>4 DEF Kept, AddressesOf
<1>9. GraphInv' /\ StandsInv'
  BY <1>1, <1>8, GraphsKept, StandsKept DEF CaptureInv
<1> QED
  BY <1>5, <1>7, <1>9 DEF CaptureInv

\* Returning a tensor.
LEMMA ReleaseKeeps ==
  ASSUME CaptureInv, NEW range \in tracked, Release(range)
  PROVE  CaptureInv'
<1>1. /\ ~Running /\ tracked' = tracked \ {range}
      /\ main' = Manage(main, range.ptr, range.length) /\ clean' = clean /\ device' = device
      /\ staged' = staged /\ named' = named /\ run' = run /\ captured' = captured /\ variant' = variant
  BY DEF Release, Give
<1>2. Books(device, main, clean, InUse) /\ tracked \cap named = {} /\ staged \cap (tracked \cup named \cup Reserved) = {}
  BY DEF CaptureInv, MemoryInv
<1>3. InUse = tracked \cup staged \cup named /\ InUse' = tracked' \cup staged' \cup named' /\ Reserved' = {} /\ RunInv'
  BY <1>1, NotReserved, IdleNext
<1>4. Books(device, Manage(main, range.ptr, range.length), clean, InUse \ {range})
  BY <1>2, <1>3, BooksGive
<1>5. InUse' = InUse \ {range}
  BY <1>1, <1>2, <1>3
<1>6. MemoryInv'
  BY <1>1, <1>2, <1>3, <1>4, <1>5 DEF MemoryInv
<1>7. Kept' \subseteq Kept
  BY <1>1 DEF Kept, AddressesOf
<1>8. GraphInv' /\ StandsInv'
  BY <1>1, <1>7, GraphsKept, StandsKept DEF CaptureInv
<1> QED
  BY <1>3, <1>6, <1>8 DEF CaptureInv

\* Draining what has come free.
LEMMA SynchronizeAllKeeps ==
  ASSUME CaptureInv, SynchronizeAll
  PROVE  CaptureInv'
<1>1. /\ ~Running /\ clean' = DrainTo(main, clean) /\ main' = <<>> /\ device' = device
      /\ tracked' = tracked /\ staged' = staged /\ named' = named /\ run' = run /\ captured' = captured /\ variant' = variant
  BY DEF SynchronizeAll, ReconciledHeap
<1>2. Books(device, main, clean, InUse) /\ tracked \cap named = {} /\ staged \cap (tracked \cup named \cup Reserved) = {}
  BY DEF CaptureInv, MemoryInv
<1>3. InUse = tracked \cup staged \cup named /\ InUse' = tracked' \cup staged' \cup named' /\ Reserved' = {} /\ RunInv'
  BY <1>1, NotReserved, IdleNext
<1>4. Books(device, <<>>, DrainTo(main, clean), InUse)
  BY <1>2, BooksDrain
<1>5. MemoryInv'
  BY <1>1, <1>2, <1>3, <1>4 DEF MemoryInv
<1>6. Kept' \subseteq Kept
  BY <1>1 DEF Kept, AddressesOf
<1>7. GraphInv' /\ StandsInv'
  BY <1>1, <1>6, GraphsKept, StandsKept DEF CaptureInv
<1> QED
  BY <1>3, <1>5, <1>7 DEF CaptureInv

\* The tensors in use are finitely many: no two begin at one address.
LEMMA InUseFinite ==
  ASSUME MemoryInv
  PROVE  IsFiniteSet(InUse)
<1> DEFINE begin == [r \in InUse |-> r.ptr]
<1>1. InUse \subseteq Span /\ Apart(InUse) /\ AddressesOf(InUse) \subseteq 0..(Arena - 1)
  BY DEF MemoryInv, Books, Shares
<1>2. \A r \in InUse : r.ptr \in Addresses(r) /\ Addresses(r) \subseteq 0..(Arena - 1)
  <2> SUFFICES ASSUME NEW r \in InUse PROVE r.ptr \in Addresses(r) /\ Addresses(r) \subseteq 0..(Arena - 1)
    OBVIOUS
  <2>1. r \in Span
    BY <1>1
  <2>2. r.ptr \in Addresses(r)
    BY <2>1, SpanFacts, AddressesIs
  <2> QED
    BY <1>1, <2>2 DEF AddressesOf
<1>3. \A r, q \in InUse : r # q => r.ptr # q.ptr
  BY <1>1, <1>2 DEF Apart
<1>4. begin \in Injection(InUse, 0..(Arena - 1))
  BY <1>2, <1>3 DEF Injection, IsInjective
<1>5. IsFiniteSet(0..(Arena - 1))
  <2>1. 0 \in Int /\ Arena - 1 \in Int
    BY CaptureAssumption
  <2> QED
    BY <2>1, FS_Interval
<1> HIDE DEF begin
<1> QED
  BY <1>4, <1>5, FS_Injection

\* A step of the caller that leaves memory, runs and records as they are.
LEMMA SameKeeps ==
  ASSUME CaptureInv, device' = device, main' = main, clean' = clean, tracked' = tracked, staged' = staged,
         named' = named, run' = run, captured' = captured, variant' = variant
  PROVE  CaptureInv'
<1>1. Running' <=> Running
  BY DEF Running, NoRun
<1>2. Held' = Held /\ Unstaged' = Unstaged
  BY DEF Held, Unstaged, NoRange, Region
<1>3. Reserved' = Reserved /\ InUse' = InUse
  BY <1>1, <1>2 DEF Reserved, InUse
<1>4. Kept' = Kept
  BY DEF Kept, AddressesOf
<1>5. MemoryInv'
  BY <1>3 DEF CaptureInv, MemoryInv
<1>6. RunInv'
  <2>1. \A p, n : Done(p, n) => Done(p, n)'
    BY DEF Done
  <2> QED
    BY <1>1, <1>2, <1>4, <2>1 DEF CaptureInv, RunInv, NoRange, Region
<1>7. GraphInv' /\ StandsInv'
  BY <1>4, GraphsKept, StandsKept DEF CaptureInv
<1> QED
  BY <1>5, <1>6, <1>7 DEF CaptureInv

\* The scheduler's catch block returns every tensor that is tracked.
LEMMA RecoverKeeps ==
  ASSUME CaptureInv, Recover
  PROVE  CaptureInv'
<1>1. /\ ~Running /\ device' = device /\ clean' = clean
      /\ staged' = staged /\ named' = named /\ run' = run /\ captured' = captured /\ variant' = variant
  BY DEF Recover
<1>2. CASE ~NoneStaged
  BY <1>1, <1>2, SameKeeps DEF Recover
<1>3. CASE NoneStaged
  <2>1. main' = GiveAll(main, tracked) /\ tracked' = {}
    BY <1>3 DEF Recover
  <2>2. /\ Books(device, main, clean, InUse) /\ tracked \cap named = {} /\ staged \cap (tracked \cup named \cup Reserved) = {}
    BY DEF CaptureInv, MemoryInv
  <2>3. InUse = tracked \cup staged \cup named /\ InUse' = tracked' \cup staged' \cup named' /\ Reserved' = {} /\ RunInv'
    BY <1>1, NotReserved, IdleNext
  <2>4. tracked \in SUBSET InUse /\ IsFiniteSet(tracked)
    BY <2>3, InUseFinite, FS_Subset DEF CaptureInv
  <2>5. Books(device, GiveAll(main, tracked), clean, InUse \ tracked)
    BY <2>2, <2>4, BooksGiveAll
  <2>6. InUse' = InUse \ tracked
    BY <1>1, <2>1, <2>2, <2>3
  <2>7. MemoryInv'
    BY <1>1, <2>1, <2>2, <2>3, <2>5, <2>6 DEF MemoryInv
  <2>8. Kept' \subseteq Kept
    BY <1>1 DEF Kept, AddressesOf
  <2>9. GraphInv' /\ StandsInv'
    BY <1>1, <2>8, GraphsKept, StandsKept DEF CaptureInv
  <2> QED
    BY <2>3, <2>7, <2>9 DEF CaptureInv
<1> QED
  BY <1>2, <1>3

-----------------------------------------------------------------------------
(* Steps of the manager                                                  *)

\* Refusing a replay: the input goes from the tracked tensors to the staged ones.
LEMMA RefuseKeeps ==
  ASSUME CaptureInv, NEW p \in Program, NEW length \in Length, NEW input \in Inputs(p), Refuse(p, length, input)
  PROVE  CaptureInv'
<1>1. /\ ~Running /\ tracked' = tracked \ {input} /\ staged' = staged \cup (tracked \cap {input})
      /\ device' = device /\ main' = main /\ clean' = clean
      /\ named' = named /\ run' = run /\ captured' = captured /\ variant' = variant
  BY DEF Refuse
<1>2. /\ Books(device, main, clean, InUse) /\ tracked \cap named = {} /\ staged \cap (tracked \cup named \cup Reserved) = {}
  BY DEF CaptureInv, MemoryInv
<1>3. InUse = tracked \cup staged \cup named /\ InUse' = tracked' \cup staged' \cup named' /\ Reserved' = {} /\ RunInv'
  BY <1>1, NotReserved, IdleNext
<1>4. InUse' = InUse
  BY <1>1, <1>3
<1>5. tracked' \cap named' = {} /\ staged' \cap (tracked' \cup named') = {}
  BY <1>1, <1>2
<1>6. MemoryInv'
  BY <1>1, <1>2, <1>3, <1>4, <1>5 DEF MemoryInv
<1>7. Kept' \subseteq Kept
  BY <1>1 DEF Kept, AddressesOf
<1>8. GraphInv' /\ StandsInv'
  BY <1>1, <1>7, GraphsKept, StandsKept DEF CaptureInv
<1> QED
  BY <1>3, <1>6, <1>8 DEF CaptureInv

\* Replaying a graph.
LEMMA ReplayKeeps ==
  ASSUME CaptureInv, NEW p \in Program, NEW length \in Length, NEW input \in Inputs(p), Replay(p, length, input)
  PROVE  CaptureInv'
<1> DEFINE key == Key(p, length, input)
           Q == captured[key].graph.results
           heap == DrainTo(main, clean)
<1>1. /\ ~Running /\ key \in DOMAIN captured /\ CanClaimAll(heap, Q)
      /\ clean' = ClaimAll(heap, Q) /\ main' = <<>> /\ tracked' = tracked \cup Q
      /\ device' = device /\ staged' = staged /\ named' = named /\ run' = run /\ captured' = captured /\ variant' = variant
  BY DEF Replay, MayReplay, HasGraph, HeapToClaim, ReconciledHeap
<1> HIDE DEF key
<1>2. Q \in SUBSET Span /\ IsFiniteSet(Q) /\ Apart(Q)
  BY <1>1 DEF CaptureInv, GraphInv, Recorded
<1>3. Books(device, main, clean, InUse) /\ tracked \cap named = {} /\ staged \cap (tracked \cup named \cup Reserved) = {}
  BY DEF CaptureInv, MemoryInv
<1>4. Books(device, <<>>, heap, InUse) /\ FreeList(heap)
  BY <1>3, BooksDrain DEF Books
<1> HIDE DEF heap, Q
<1>5. AddressesOf(Q) \subseteq FreeAddresses(heap)
  <2>1. \A r \in Q : Addresses(r) \subseteq FreeAddresses(heap)
    <3> SUFFICES ASSUME NEW r \in Q PROVE Addresses(r) \subseteq FreeAddresses(heap)
      OBVIOUS
    <3>1. r \in Span /\ CanClaim(heap, r)
      BY <1>1, <1>2 DEF CanClaimAll
    <3> QED
      BY <1>4, <3>1, WithoutFacts
  <2> QED
    BY <2>1 DEF AddressesOf
<1>6. Books(device, <<>>, ClaimAll(heap, Q), InUse \cup Q) /\ Q \cap InUse = {}
  BY <1>2, <1>4, <1>5, BooksClaimAll
<1>7. InUse = tracked \cup staged \cup named /\ InUse' = tracked' \cup staged' \cup named' /\ Reserved' = {} /\ RunInv'
  BY <1>1, NotReserved, IdleNext
<1>8. InUse' = InUse \cup Q
  BY <1>1, <1>7
<1>9. MemoryInv'
  BY <1>1, <1>3, <1>6, <1>7, <1>8 DEF MemoryInv
<1>10. Kept' \subseteq Kept
  BY <1>1 DEF Kept, AddressesOf
<1>11. GraphInv' /\ StandsInv'
  BY <1>1, <1>10, GraphsKept, StandsKept DEF CaptureInv
<1> QED
  BY <1>7, <1>9, <1>11 DEF CaptureInv

\* The steps of a program.
LEMMA ProgramFacts ==
  ASSUME NEW p \in Program
  PROVE  /\ Len(p.steps) \in Nat /\ DOMAIN p.steps = 1..Len(p.steps)
         /\ \A k \in 1..Len(p.steps) : p.steps[k].op \in {"alloc", "free"} /\ p.steps[k].size \in Nat
         /\ \A j, k \in 1..Len(p.steps) :
              j # k /\ p.steps[j].op = p.steps[k].op => p.steps[j].slot # p.steps[k].slot
         /\ \A k \in 1..Len(p.steps) : p.steps[k].op = "free" =>
              \E j \in 1..Len(p.steps) : j < k /\ p.steps[j].op = "alloc" /\ p.steps[j].slot = p.steps[k].slot
<1> DEFINE S == {p.steps[k].slot : k \in DOMAIN p.steps}
           T == [op : {"alloc", "free"}, slot : S, size : Nat]
<1>1. WellFormed(p)
  BY CaptureAssumption
<1>2. p.steps \in Seq(T)
  BY <1>1 DEF WellFormed
<1> HIDE DEF S
<1>3. Len(p.steps) \in Nat /\ DOMAIN p.steps = 1..Len(p.steps) /\ \A k \in 1..Len(p.steps) : p.steps[k] \in T
  <2> HIDE DEF T
  <2> QED
    BY <1>2, LenProperties, ElementOfSeq
<1>4. \A k \in 1..Len(p.steps) : p.steps[k].op \in {"alloc", "free"} /\ p.steps[k].size \in Nat
  BY <1>3
<1> QED
  BY <1>1, <1>3, <1>4 DEF WellFormed

\* The steps of a program that are left after the first n.
LEMMA StepsFacts ==
  ASSUME NEW p \in Program, NEW n \in 0..Len(p.steps)
  PROVE  LET rest == SubSeq(p.steps, n + 1, Len(p.steps))
         IN /\ rest = <<>> <=> n = Len(p.steps)
            /\ n < Len(p.steps) => /\ Head(rest) = p.steps[n + 1]
                                   /\ Tail(rest) = SubSeq(p.steps, (n + 1) + 1, Len(p.steps))
            /\ n = 0 => rest = p.steps
<1> DEFINE L == Len(p.steps)
           V == {p.steps[k] : k \in 1..L}
           rest == SubSeq(p.steps, n + 1, L)
           next == SubSeq(p.steps, (n + 1) + 1, L)
<1>1. L \in Nat /\ DOMAIN p.steps = 1..L /\ p.steps \in Seq(V)
  <2>1. L \in Nat /\ DOMAIN p.steps = 1..L
    BY ProgramFacts
  <2>2. p.steps = [k \in 1..L |-> p.steps[k]]
    <3>1. WellFormed(p)
      BY CaptureAssumption
    <3>2. p.steps \in Seq([op : {"alloc", "free"}, slot : {p.steps[k].slot : k \in DOMAIN p.steps}, size : Nat])
      BY <3>1 DEF WellFormed
    <3> QED
      BY <2>1, <3>2
  <2>3. \A k \in 1..L : p.steps[k] \in V
    OBVIOUS
  <2>4. [k \in 1..L |-> p.steps[k]] \in Seq(V)
    BY <2>1, <2>3, SeqDef
  <2> HIDE DEF V
  <2> QED
    BY <2>1, <2>2, <2>4
<1>2. \A k \in 1..L : p.steps[k] \in V
  OBVIOUS
<1> HIDE DEF L, V
<1>3. n \in 0..L
  BY DEF L
<1>4. /\ rest \in Seq(V) /\ Len(rest) = (IF n + 1 <= L THEN L - (n + 1) + 1 ELSE 0)
      /\ \A k \in 1..(L - (n + 1) + 1) : rest[k] = p.steps[(n + 1) + k - 1]
  <2>1. \A k \in (n + 1)..L : p.steps[k] \in V
    BY <1>1, <1>2, <1>3
  <2> QED
    BY <1>1, <1>3, <2>1, SubSeqProperties
<1>5. /\ next \in Seq(V) /\ Len(next) = (IF (n + 1) + 1 <= L THEN L - ((n + 1) + 1) + 1 ELSE 0)
      /\ \A k \in 1..(L - ((n + 1) + 1) + 1) : next[k] = p.steps[((n + 1) + 1) + k - 1]
  <2>1. \A k \in ((n + 1) + 1)..L : p.steps[k] \in V
    BY <1>1, <1>2, <1>3
  <2> QED
    BY <1>1, <1>3, <2>1, SubSeqProperties
<1> HIDE DEF rest, next
<1>6. Len(rest) = L - n
  BY <1>1, <1>3, <1>4
<1>7. rest = <<>> <=> n = L
  BY <1>1, <1>3, <1>4, <1>6, EmptySeq
<1>8. ASSUME n < L PROVE Head(rest) = p.steps[n + 1] /\ Tail(rest) = next
  <2>1. rest # <<>> /\ 1 \in 1..(L - (n + 1) + 1) /\ (n + 1) + 1 - 1 = n + 1
    BY <1>1, <1>3, <1>7, <1>8
  <2>2. Head(rest) = rest[1] /\ rest[1] = p.steps[n + 1]
    BY <1>4, <2>1
  <2>3. /\ Tail(rest) \in Seq(V) /\ Len(Tail(rest)) = Len(rest) - 1
        /\ \A k \in 1..Len(Tail(rest)) : Tail(rest)[k] = rest[k + 1]
    BY <1>4, <2>1, HeadTailProperties
  <2>4. Len(next) = L - n - 1 /\ Len(Tail(rest)) = L - n - 1
    BY <1>1, <1>3, <1>5, <1>6, <1>8, <2>3
  <2>5. \A k \in 1..(L - n - 1) : Tail(rest)[k] = next[k]
    <3> SUFFICES ASSUME NEW k \in 1..(L - n - 1) PROVE Tail(rest)[k] = next[k]
      OBVIOUS
    <3>1. /\ k \in 1..Len(Tail(rest)) /\ k + 1 \in 1..(L - (n + 1) + 1) /\ k \in 1..(L - ((n + 1) + 1) + 1)
          /\ (n + 1) + (k + 1) - 1 = ((n + 1) + 1) + k - 1
      BY <1>1, <1>3, <2>4
    <3> QED
      BY <1>4, <1>5, <2>3, <3>1
  <2>6. Tail(rest) = next
    BY <1>5, <2>3, <2>4, <2>5, SeqEqual
  <2> QED
    BY <2>2, <2>6
<1>9. ASSUME n = 0 PROVE rest = p.steps
  <2>1. Len(rest) = Len(p.steps) /\ \A k \in 1..Len(rest) : rest[k] = p.steps[k]
    <3>1. Len(rest) = L
      BY <1>1, <1>6, <1>9
    <3>2. \A k \in 1..L : k \in 1..(L - (n + 1) + 1) /\ (n + 1) + k - 1 = k
      BY <1>1, <1>9
    <3> QED
      BY <1>4, <3>1, <3>2 DEF L
  <2> QED
    BY <1>1, <1>4, <2>1, SeqEqual
<1> QED
  BY <1>7, <1>8, <1>9 DEF rest, next, L

\* A slot is allocated once and freed once after that.
LEMMA SlotsFacts ==
  ASSUME NEW p \in Program, NEW n \in 0..(Len(p.steps) - 1)
  PROVE  LET slot == p.steps[n + 1].slot
         IN /\ p.steps[n + 1].op = "alloc" => /\ slot \notin SlotsAfter(p, n)
                                              /\ SlotsAfter(p, n + 1) = SlotsAfter(p, n) \cup {slot}
            /\ p.steps[n + 1].op = "free" => /\ slot \in SlotsAfter(p, n)
                                             /\ SlotsAfter(p, n + 1) = SlotsAfter(p, n) \ {slot}
<1> DEFINE L == Len(p.steps)
           slot == p.steps[n + 1].slot
           A(m) == {p.steps[j].slot : j \in {i \in 1..m : p.steps[i].op = "alloc"}}
           F(m) == {p.steps[j].slot : j \in {i \in 1..m : p.steps[i].op = "free"}}
<1>1. /\ L \in Nat
      /\ \A j, k \in 1..L : j # k /\ p.steps[j].op = p.steps[k].op => p.steps[j].slot # p.steps[k].slot
      /\ \A k \in 1..L : p.steps[k].op = "free" =>
           \E j \in 1..L : j < k /\ p.steps[j].op = "alloc" /\ p.steps[j].slot = p.steps[k].slot
  BY ProgramFacts
<1> HIDE DEF L
<1>2. n \in 0..(L - 1)
  BY DEF L
<1>3. n + 1 \in 1..L /\ (\A j \in 1..n : j \in 1..L /\ j # n + 1 /\ j \in 1..(n + 1)) /\ \A j \in 1..(n + 1) : j \in 1..n \/ j = n + 1
  BY <1>1, <1>2
<1>4. "alloc" # "free"
  OBVIOUS
<1>5. ASSUME p.steps[n + 1].op = "alloc" PROVE A(n + 1) = A(n) \cup {slot} /\ F(n + 1) = F(n) /\ slot \notin A(n) /\ slot \notin F(n)
  <2>1. n + 1 \in {i \in 1..(n + 1) : p.steps[i].op = "alloc"} /\ p.steps[n + 1].op # "free"
    BY <1>2, <1>5
  <2>2. A(n + 1) = A(n) \cup {slot}
    <3>1. {i \in 1..(n + 1) : p.steps[i].op = "alloc"} = {i \in 1..n : p.steps[i].op = "alloc"} \cup {n + 1}
      BY <1>3, <2>1
    <3> QED
      BY <3>1
  <2>3. {i \in 1..(n + 1) : p.steps[i].op = "free"} = {i \in 1..n : p.steps[i].op = "free"}
    BY <1>3, <2>1
  <2>4. slot \notin A(n)
    <3> SUFFICES ASSUME NEW j \in 1..n, p.steps[j].op = "alloc", p.steps[j].slot = slot PROVE FALSE
      OBVIOUS
    <3> QED
      BY <1>1, <1>3, <1>5
  <2>5. slot \notin F(n)
    <3> SUFFICES ASSUME NEW j \in 1..n, p.steps[j].op = "free", p.steps[j].slot = slot PROVE FALSE
      OBVIOUS
    <3>1. PICK i \in 1..L : i < j /\ p.steps[i].op = "alloc" /\ p.steps[i].slot = slot
      BY <1>1, <1>3
    <3>2. i # n + 1
      BY <1>2, <3>1
    <3> QED
      BY <1>1, <1>3, <1>5, <3>1, <3>2
  <2> QED
    BY <2>2, <2>3, <2>4, <2>5
<1>6. ASSUME p.steps[n + 1].op = "free" PROVE A(n + 1) = A(n) /\ F(n + 1) = F(n) \cup {slot} /\ slot \in A(n) /\ slot \notin F(n)
  <2>1. n + 1 \in {i \in 1..(n + 1) : p.steps[i].op = "free"} /\ p.steps[n + 1].op # "alloc"
    BY <1>2, <1>6
  <2>2. F(n + 1) = F(n) \cup {slot}
    <3>1. {i \in 1..(n + 1) : p.steps[i].op = "free"} = {i \in 1..n : p.steps[i].op = "free"} \cup {n + 1}
      BY <1>3, <2>1
    <3> QED
      BY <3>1
  <2>3. {i \in 1..(n + 1) : p.steps[i].op = "alloc"} = {i \in 1..n : p.steps[i].op = "alloc"}
    BY <1>3, <2>1
  <2>4. slot \notin F(n)
    <3> SUFFICES ASSUME NEW j \in 1..n, p.steps[j].op = "free", p.steps[j].slot = slot PROVE FALSE
      OBVIOUS
    <3> QED
      BY <1>1, <1>3, <1>6
  <2>5. slot \in A(n)
    <3>1. PICK j \in 1..L : j < n + 1 /\ p.steps[j].op = "alloc" /\ p.steps[j].slot = slot
      BY <1>1, <1>3, <1>6
    <3>2. j \in 1..n
      BY <1>2, <3>1
    <3> QED
      BY <3>1, <3>2
  <2> QED
    BY <2>2, <2>3, <2>4, <2>5
<1>7. SlotsAfter(p, n) = A(n) \ F(n) /\ SlotsAfter(p, n + 1) = A(n + 1) \ F(n + 1)
  BY DEF SlotsAfter
<1> HIDE DEF A, F
<1> QED
  BY <1>5, <1>6, <1>7

\* Finitely many arguments have finitely many values.
LEMMA ImageFinite ==
  ASSUME NEW S, IsFiniteSet(S), NEW f
  PROVE  IsFiniteSet({f[x] : x \in S})
<1> DEFINE T == {f[x] : x \in S}
           g == [x \in S |-> f[x]]
<1>1. g \in Surjection(S, T)
  BY DEF Surjection
<1> HIDE DEF g, T
<1>2. IsFiniteSet(T)
  BY <1>1, FS_Surjection
<1> QED
  BY <1>2 DEF T

\* The slots a program has filled are finitely many.
LEMMA SlotsFinite ==
  ASSUME NEW p, NEW n \in Nat
  PROVE  IsFiniteSet(SlotsAfter(p, n)) /\ SlotsAfter(p, 0) = {}
<1> DEFINE J == {i \in 1..n : p.steps[i].op = "alloc"}
           A == {p.steps[j].slot : j \in J}
           f == [j \in J |-> p.steps[j].slot]
<1>1. IsFiniteSet(J)
  <2>1. IsFiniteSet(1..n)
    BY FS_Interval
  <2> QED
    BY <2>1, FS_Subset
<1>2. IsFiniteSet(A)
  <2>1. A = {f[j] : j \in J}
    OBVIOUS
  <2> HIDE DEF J, f, A
  <2> QED
    BY <1>1, <2>1, ImageFinite
<1>3. SlotsAfter(p, n) \subseteq A
  BY DEF SlotsAfter
<1>4. IsFiniteSet(SlotsAfter(p, n))
  <2> HIDE DEF A
  <2> QED
    BY <1>2, <1>3, FS_Subset
<1>5. SlotsAfter(p, 0) = {}
  BY DEF SlotsAfter
<1> QED
  BY <1>4, <1>5

\* The tensors a run holds are finitely many.
LEMMA HeldFinite ==
  ASSUME RunInv, Running
  PROVE  IsFiniteSet(Held)
<1>1. PICK p \in Program : \E n \in 0..Len(p.steps) : Done(p, n)
  BY DEF RunInv
<1>2. PICK n \in 0..Len(p.steps) : Done(p, n)
  BY <1>1
<1>3. n \in Nat
  OBVIOUS
<1>4. IsFiniteSet(DOMAIN run.slots)
  BY <1>2, <1>3, SlotsFinite DEF Done
<1> DEFINE X == DOMAIN run.slots
<1>5. Held = {run.slots[x] : x \in X}
  BY DEF Held
<1> HIDE DEF X
<1>6. IsFiniteSet(X)
  BY <1>4 DEF X
<1>7. IsFiniteSet({run.slots[x] : x \in X})
  BY <1>6, ImageFinite
<1> QED
  BY <1>5, <1>7

\* The record of a run is not that of none.
LEMMA IsRunning ==
  ASSUME NEW a, NEW b, NEW c, NEW d, NEW e, NEW f, NEW g, NEW h, NEW i,
         run' = [program |-> a, steps |-> b, length |-> c, input |-> d, key |-> e, capturing |-> f,
                 slots |-> g, blocks |-> h, sizes |-> i]
  PROVE  /\ Running'
         /\ run'.program = a /\ run'.steps = b /\ run'.length = c /\ run'.input = d /\ run'.key = e
         /\ run'.capturing = f /\ run'.slots = g /\ run'.blocks = h /\ run'.sizes = i
         /\ run' = [program |-> run'.program, steps |-> run'.steps, length |-> run'.length, input |-> run'.input,
                    key |-> run'.key, capturing |-> run'.capturing, slots |-> run'.slots,
                    blocks |-> run'.blocks, sizes |-> run'.sizes]
<1>1. "steps" \in DOMAIN run'
  OBVIOUS
<1>2. "steps" \notin DOMAIN NoRun
  BY DEF NoRun
<1>3. Running'
  BY <1>1, <1>2 DEF Running, NoRun
<1> QED
  BY <1>3

\* An entry is written: what its graph must satisfy.
LEMMA RecordKeeps ==
  ASSUME GraphInv, StandsInv, NEW key, NEW warmup, NEW graph, Record(key, Entry(warmup, graph)),
         Kept' \subseteq Kept, variant \subseteq variant',
         Recorded(graph.blocks, key[3], Kept'), graph.results \subseteq graph.blocks, Apart(graph.results), IsFiniteSet(graph.results),
         graph # NoGraph => Stands(key, graph.sizes, variant')
  PROVE  GraphInv' /\ StandsInv'
<1>1. /\ DOMAIN captured' = DOMAIN captured \cup {key}
      /\ captured'[key] = Entry(warmup, graph)
      /\ \A k \in DOMAIN captured : k # key => captured'[k] = captured[k]
  BY DEF Record
<1>2. captured'[key].graph = graph
  BY <1>1 DEF Entry
<1>3. ASSUME NEW k \in DOMAIN captured, k # key
      PROVE  LET g == captured'[k].graph
             IN /\ Recorded(g.blocks, k[3], Kept') /\ g.results \subseteq g.blocks /\ Apart(g.results) /\ IsFiniteSet(g.results)
                /\ g # NoGraph => Stands(k, g.sizes, variant')
  <2> DEFINE g == captured[k].graph
  <2>1. captured'[k].graph = g
    BY <1>1, <1>3
  <2>2. /\ Recorded(g.blocks, k[3], Kept) /\ g.results \subseteq g.blocks /\ Apart(g.results) /\ IsFiniteSet(g.results)
        /\ g # NoGraph => Stands(k, g.sizes, variant)
    BY DEF GraphInv, StandsInv
  <2> HIDE DEF g
  <2>3. Recorded(g.blocks, k[3], Kept')
    BY <2>2 DEF Recorded
  <2>4. g # NoGraph => Stands(k, g.sizes, variant')
    BY <2>2 DEF Stands
  <2> QED
    BY <2>1, <2>2, <2>3, <2>4
<1>4. ASSUME NEW k \in DOMAIN captured'
      PROVE  LET g == captured'[k].graph
             IN /\ Recorded(g.blocks, k[3], Kept') /\ g.results \subseteq g.blocks /\ Apart(g.results) /\ IsFiniteSet(g.results)
                /\ g # NoGraph => Stands(k, g.sizes, variant')
  <2>1. CASE k = key
    BY <1>2, <2>1
  <2>2. CASE k # key
    <3>1. k \in DOMAIN captured
      BY <1>1, <2>2
    <3> QED
      BY <1>3, <2>2, <3>1
  <2> QED
    BY <2>1, <2>2
<1>5. GraphInv'
  BY <1>4 DEF GraphInv, Apart
<1>6. StandsInv'
  BY <1>4 DEF StandsInv, NoGraph
<1> QED
  BY <1>5, <1>6

-----------------------------------------------------------------------------
(* Steps of a run                                                        *)

\* Starting a run.
LEMMA BeginKeeps ==
  ASSUME CaptureInv, NEW p \in Program, NEW length \in Length, NEW input \in Inputs(p), Begin(p, length, input)
  PROVE  CaptureInv'
<1> DEFINE key == Key(p, length, input)
           warmup == IF key \in DOMAIN captured THEN captured[key].warmup ELSE 0
           count == IF warmup > WarmupSteps THEN warmup ELSE warmup + 1
           slots == [x \in {} |-> NoRange]
<1>1. /\ ~Running /\ Record(key, Entry(count, NoGraph))
      /\ run' = [program |-> p.name, steps |-> p.steps, length |-> length, input |-> input,
                 key |-> key, capturing |-> (warmup = WarmupSteps), slots |-> slots,
                 blocks |-> {}, sizes |-> <<>>]
      /\ tracked' = tracked \ {input}
      /\ device' = device /\ main' = main /\ clean' = clean /\ staged' = staged /\ named' = named /\ variant' = variant
  BY DEF Begin
<1>2. key[1] = p.name /\ key[2] \in {0, length} /\ key[3] = input
  BY DEF Key
<1> HIDE DEF key, count, slots
<1>3. /\ Running'
      /\ run'.program = p.name /\ run'.steps = p.steps /\ run'.length = length /\ run'.input = input /\ run'.key = key
      /\ run'.slots = slots /\ run'.blocks = {} /\ run'.sizes = <<>>
      /\ run' = [program |-> run'.program, steps |-> run'.steps, length |-> run'.length, input |-> run'.input,
                 key |-> run'.key, capturing |-> run'.capturing, slots |-> run'.slots,
                 blocks |-> run'.blocks, sizes |-> run'.sizes]
  <2> HIDE DEF warmup
  <2> QED
    BY <1>1, IsRunning
<1>4. DOMAIN slots = {} /\ Held' = {}
  BY <1>3 DEF slots, Held
<1>5. Unstaged' = IF input = NoRange THEN {} ELSE {input}
  BY <1>3 DEF Unstaged
<1>6. Reserved' = Unstaged' /\ InUse' = tracked' \cup staged' \cup named' \cup Unstaged'
  BY <1>3, <1>4 DEF Reserved, InUse
<1>7. InUse = tracked \cup staged \cup named /\ tracked \subseteq Span /\ named \subseteq Span /\ tracked \cap named = {} /\ Books(device, main, clean, InUse)
      /\ staged \cap (tracked \cup named \cup Reserved) = {}
  BY <1>1, NotReserved, InUseFacts DEF CaptureInv, MemoryInv
<1>8. /\ InUse' = InUse /\ tracked' \cap Unstaged' = {} /\ named \cap Unstaged' = {} /\ tracked' \cap named = {}
      /\ staged \cap (tracked' \cup named \cup Unstaged') = {}
      /\ input \in Span \cup {NoRange}
  <2>1. CASE input = NoRange
    <3>1. Unstaged' = {} /\ tracked' = tracked
      BY <1>1, <1>5, <1>7, <2>1, NoRangeFacts
    <3> QED
      BY <1>1, <1>6, <1>7, <2>1, <3>1
  <2>2. CASE input \in tracked
    <3>1. Unstaged' = {input} /\ input \in Span
      BY <1>5, <1>7, <2>2, NoRangeFacts
    <3> QED
      BY <1>1, <1>6, <1>7, <2>2, <3>1
  <2>3. input = NoRange \/ input \in tracked
    BY DEF Inputs
  <2> QED
    BY <2>1, <2>2, <2>3
<1>9. MemoryInv'
  BY <1>1, <1>6, <1>7, <1>8 DEF MemoryInv
<1>10. \A i, kept : Recorded({}, i, kept)
  BY DEF Recorded, AddressesOf
<1>11. 0 \in 0..Len(p.steps) /\ Done(p, 0)'
  <2>1. 0 \in 0..Len(p.steps) /\ Len(p.steps) \in Nat
    BY ProgramFacts
  <2>2. p.steps = SubSeq(p.steps, 0 + 1, Len(p.steps))
    BY <2>1, StepsFacts
  <2>3. SizesOfFirst(p, length)[0] = <<>>
    BY <2>1, SizesSteps
  <2>4. DOMAIN run'.slots = SlotsAfter(p, 0)
    BY <1>3, <1>4, SlotsFinite
  <2> QED
    BY <1>2, <1>3, <2>1, <2>2, <2>3, <2>4 DEF Done
<1>12. RunInv'
  <2>1. Recorded(run'.blocks, run'.input, Kept') /\ Held' \subseteq run'.blocks
    BY <1>3, <1>4, <1>10
  <2>2. DOMAIN run'.slots = {}
    BY <1>3, <1>4
  <2>3. Held' \cap Unstaged' = {}
    BY <1>4
  <2>4. run'.input \in Span \cup {NoRange}
    BY <1>3, <1>8
  <2>5. (\E q \in Program : \E n \in 0..Len(q.steps) : Done(q, n))'
    BY <1>11
  <2> QED
    BY <1>3, <2>1, <2>2, <2>3, <2>4, <2>5 DEF RunInv
<1>13. GraphInv' /\ StandsInv'
  <2>1. NoGraph.blocks = {} /\ NoGraph.results = {}
    BY DEF NoGraph
  <2>2. /\ Recorded(NoGraph.blocks, key[3], Kept') /\ NoGraph.results \subseteq NoGraph.blocks
        /\ Apart(NoGraph.results) /\ IsFiniteSet(NoGraph.results)
    BY <1>10, <2>1, FS_EmptySet DEF Apart
  <2>3. Kept' \subseteq Kept
    BY <1>1 DEF Kept, AddressesOf
  <2> QED
    BY <1>1, <2>2, <2>3, RecordKeeps DEF CaptureInv
<1> QED
  BY <1>9, <1>12, <1>13 DEF CaptureInv

\* A run takes memory.
LEMMA RunAllocKeeps ==
  ASSUME CaptureInv, RunAlloc
  PROVE  CaptureInv'
<1> DEFINE step == Head(run.steps)
           size == SizeOf(step, run.length)
           r == RangeFor(size)
           slots == [x \in DOMAIN run.slots \cup {step.slot} |-> IF x = step.slot THEN r ELSE run.slots[x]]
<1>1. /\ Running /\ run.steps # <<>> /\ step.op = "alloc" /\ CanServe(size) /\ Take(size)
      /\ run' = [run EXCEPT !.steps = Tail(@), !.blocks = @ \cup {r}, !.sizes = Append(@, size),
                            !.slots = [x \in DOMAIN @ \cup {step.slot} |-> IF x = step.slot THEN r ELSE @[x]]]
      /\ tracked' = tracked /\ staged' = staged /\ named' = named /\ captured' = captured /\ variant' = variant
  BY DEF RunAlloc
<1>2. /\ run = [program |-> run.program, steps |-> run.steps, length |-> run.length, input |-> run.input,
                key |-> run.key, capturing |-> run.capturing, slots |-> run.slots,
                blocks |-> run.blocks, sizes |-> run.sizes]
      /\ run.input \in Span \cup {NoRange}
      /\ Held \cap Unstaged = {}
      /\ \A x, y \in DOMAIN run.slots : x # y => run.slots[x] # run.slots[y]
      /\ Held \subseteq run.blocks
      /\ Recorded(run.blocks, run.input, Kept)
  BY <1>1 DEF CaptureInv, RunInv
<1>3. PICK p \in Program : \E n \in 0..Len(p.steps) : Done(p, n)
  BY <1>1 DEF CaptureInv, RunInv
<1>4. PICK n \in 0..Len(p.steps) : Done(p, n)
  BY <1>3
<1>5. Len(p.steps) \in Nat /\ n < Len(p.steps)
  <2>1. Len(p.steps) \in Nat
    BY ProgramFacts
  <2>2. n # Len(p.steps)
    BY <1>1, <1>4, StepsFacts DEF Done
  <2> QED
    BY <2>1, <2>2
<1>6. n + 1 \in 1..Len(p.steps) /\ n \in 0..(Len(p.steps) - 1) /\ n + 1 \in 0..Len(p.steps) /\ (n + 1) - 1 = n
  BY <1>5
<1>7. step = p.steps[n + 1] /\ Tail(run.steps) = SubSeq(p.steps, (n + 1) + 1, Len(p.steps))
  BY <1>4, <1>5, StepsFacts DEF Done
<1>8. size \in Nat \ {0}
  <2>1. step.size \in Nat /\ run.length \in Nat \ {0}
    BY <1>4, <1>6, <1>7, ProgramFacts, CaptureAssumption DEF Done
  <2> HIDE DEF step
  <2> QED
    BY <2>1 DEF SizeOf
<1>9. step.slot \notin DOMAIN run.slots /\ SlotsAfter(p, n + 1) = DOMAIN run.slots \cup {step.slot}
  BY <1>1, <1>4, <1>6, <1>7, SlotsFacts DEF Done
<1> HIDE DEF step, size, r
<1>10. run' = [program |-> run.program, steps |-> Tail(run.steps), length |-> run.length, input |-> run.input,
               key |-> run.key, capturing |-> run.capturing, slots |-> slots,
               blocks |-> run.blocks \cup {r}, sizes |-> Append(run.sizes, size)]
  <2> HIDE DEF slots
  <2>1. run' = [run EXCEPT !.steps = Tail(run.steps), !.blocks = run.blocks \cup {r}, !.sizes = Append(run.sizes, size),
                           !.slots = slots]
    BY <1>1, <1>2 DEF slots
  <2> QED
    BY <1>2, <2>1
<1>11. /\ Running'
       /\ run'.program = run.program /\ run'.steps = Tail(run.steps) /\ run'.length = run.length
       /\ run'.input = run.input /\ run'.key = run.key
       /\ run'.slots = slots /\ run'.blocks = run.blocks \cup {r} /\ run'.sizes = Append(run.sizes, size)
       /\ run' = [program |-> run'.program, steps |-> run'.steps, length |-> run'.length, input |-> run'.input,
                  key |-> run'.key, capturing |-> run'.capturing, slots |-> run'.slots,
                  blocks |-> run'.blocks, sizes |-> run'.sizes]
  <2> HIDE DEF slots
  <2> QED
    BY <1>10, IsRunning
<1>12. /\ DOMAIN slots = DOMAIN run.slots \cup {step.slot} /\ slots[step.slot] = r
       /\ \A x \in DOMAIN run.slots : slots[x] = run.slots[x]
  BY <1>9
<1> HIDE DEF slots
<1>13. Held' = Held \cup {r}
  BY <1>11, <1>12 DEF Held
<1>14. Unstaged' = Unstaged
  BY <1>11 DEF Unstaged
<1>15. Reserved = Held \cup Unstaged /\ Reserved' = Held' \cup Unstaged' /\ InUse' = InUse \cup {r} /\ InUse = tracked \cup staged \cup named \cup Reserved
  BY <1>1, <1>11, <1>13, <1>14 DEF Reserved, InUse
<1>16. /\ Books(device, main, clean, InUse) /\ tracked \cap named = {} /\ staged \cap (tracked \cup named \cup Reserved) = {}
       /\ tracked \cap Reserved = {} /\ named \cap Reserved = {}
  BY DEF CaptureInv, MemoryInv
<1>17. /\ r \in Span /\ r \notin InUse
       /\ Addresses(r) \cap AddressesOf(InUse) = {}
       /\ Addresses(r) \subseteq 0..(Arena - 1)
       /\ Books(device', main', clean', InUse \cup {r})
       /\ FreeAddresses(device') \subseteq FreeAddresses(device)
       /\ Addresses(r) \cap FreeAddresses(device') = {}
  BY <1>1, <1>8, <1>16, TakeFacts DEF r
<1>18. MemoryInv'
  BY <1>1, <1>13, <1>14, <1>15, <1>16, <1>17 DEF MemoryInv
<1>19. Kept' \subseteq Kept
  BY <1>1, <1>17 DEF Kept, AddressesOf
<1>20. Addresses(r) \cap Addresses(run.input) = {}
  <2>1. CASE run.input = NoRange
    BY <2>1, NoRangeFacts
  <2>2. CASE run.input # NoRange
    <3>1. run.input \in InUse
      BY <1>15, <2>2 DEF Unstaged
    <3>2. Addresses(run.input) \subseteq AddressesOf(InUse)
      BY <3>1 DEF AddressesOf
    <3> QED
      BY <1>17, <3>2
  <2> QED
    BY <2>1, <2>2
<1>21. Addresses(r) \cap Kept' = {}
  <2>1. AddressesOf(named) \subseteq AddressesOf(InUse)
    BY <1>15, AddressesOfSome
  <2>2. Kept' = FreeAddresses(device') \cup AddressesOf(named)
    BY <1>1 DEF Kept, AddressesOf
  <2> QED
    BY <1>17, <2>1, <2>2
<1>22. Recorded(run'.blocks, run'.input, Kept')
  <2>1. AddressesOf(run.blocks \cup {r}) = AddressesOf(run.blocks) \cup Addresses(r)
    BY AddressesOfOne
  <2>2. /\ run.blocks \subseteq Span /\ AddressesOf(run.blocks) \subseteq 0..(Arena - 1)
        /\ AddressesOf(run.blocks) \cap Kept = {} /\ AddressesOf(run.blocks) \cap Addresses(run.input) = {}
    BY <1>2 DEF Recorded
  <2>3. Recorded(run.blocks \cup {r}, run.input, Kept')
    BY <1>17, <1>19, <1>20, <1>21, <2>1, <2>2 DEF Recorded
  <2> QED
    BY <1>11, <2>3
<1>23. Done(p, n + 1)'
  <2>1. SizesOfFirst(p, run.length)[n + 1] = Append(SizesOfFirst(p, run.length)[n], SizeOf(p.steps[n + 1], run.length))
    BY <1>1, <1>5, <1>6, <1>7, SizesSteps
  <2>2. run'.sizes = SizesOfFirst(p, run'.length)[n + 1]
    BY <1>4, <1>7, <1>11, <2>1 DEF Done, size
  <2>3. DOMAIN run'.slots = SlotsAfter(p, n + 1)
    BY <1>9, <1>11, <1>12
  <2> QED
    BY <1>4, <1>7, <1>11, <2>2, <2>3 DEF Done
<1>24. \A x, y \in DOMAIN run'.slots : x # y => run'.slots[x] # run'.slots[y]
  <2>1. \A x \in DOMAIN run.slots : slots[x] # r
    BY <1>12, <1>15, <1>17 DEF Held
  <2> QED
    BY <1>2, <1>11, <1>12, <2>1
<1>25. Held' \cap Unstaged' = {} /\ Held' \subseteq run'.blocks /\ run'.input \in Span \cup {NoRange}
  BY <1>2, <1>11, <1>13, <1>14, <1>15, <1>17
<1>26. RunInv'
  <2>1. (\E q \in Program : \E m \in 0..Len(q.steps) : Done(q, m))'
    BY <1>6, <1>23
  <2> QED
    BY <1>11, <1>22, <1>24, <1>25, <2>1 DEF RunInv
<1>27. GraphInv' /\ StandsInv'
  BY <1>1, <1>19, GraphsKept, StandsKept DEF CaptureInv
<1> QED
  BY <1>18, <1>26, <1>27 DEF CaptureInv

\* A run returns it.
LEMMA RunFreeKeeps ==
  ASSUME CaptureInv, RunFree
  PROVE  CaptureInv'
<1> DEFINE step == Head(run.steps)
           r == run.slots[step.slot]
           slots == [x \in DOMAIN run.slots \ {step.slot} |-> run.slots[x]]
<1>1. /\ Running /\ run.steps # <<>> /\ step.op = "free"
      /\ main' = Manage(main, r.ptr, r.length) /\ clean' = clean /\ device' = device
      /\ run' = [run EXCEPT !.steps = Tail(@), !.slots = [x \in DOMAIN @ \ {step.slot} |-> @[x]]]
      /\ tracked' = tracked /\ staged' = staged /\ named' = named /\ captured' = captured /\ variant' = variant
  BY DEF RunFree, Give
<1>2. /\ run = [program |-> run.program, steps |-> run.steps, length |-> run.length, input |-> run.input,
                key |-> run.key, capturing |-> run.capturing, slots |-> run.slots,
                blocks |-> run.blocks, sizes |-> run.sizes]
      /\ run.input \in Span \cup {NoRange}
      /\ Held \cap Unstaged = {}
      /\ \A x, y \in DOMAIN run.slots : x # y => run.slots[x] # run.slots[y]
      /\ Held \subseteq run.blocks
      /\ Recorded(run.blocks, run.input, Kept)
  BY <1>1 DEF CaptureInv, RunInv
<1>3. PICK p \in Program : \E n \in 0..Len(p.steps) : Done(p, n)
  BY <1>1 DEF CaptureInv, RunInv
<1>4. PICK n \in 0..Len(p.steps) : Done(p, n)
  BY <1>3
<1>5. Len(p.steps) \in Nat /\ n < Len(p.steps)
  <2>1. Len(p.steps) \in Nat
    BY ProgramFacts
  <2>2. n # Len(p.steps)
    BY <1>1, <1>4, StepsFacts DEF Done
  <2> QED
    BY <2>1, <2>2
<1>6. n + 1 \in 1..Len(p.steps) /\ n \in 0..(Len(p.steps) - 1) /\ n + 1 \in 0..Len(p.steps) /\ (n + 1) - 1 = n
  BY <1>5
<1>7. step = p.steps[n + 1] /\ Tail(run.steps) = SubSeq(p.steps, (n + 1) + 1, Len(p.steps))
  BY <1>4, <1>5, StepsFacts DEF Done
<1>8. step.slot \in DOMAIN run.slots /\ SlotsAfter(p, n + 1) = DOMAIN run.slots \ {step.slot}
  BY <1>1, <1>4, <1>6, <1>7, SlotsFacts DEF Done
<1> HIDE DEF step, r
<1>9. run' = [program |-> run.program, steps |-> Tail(run.steps), length |-> run.length, input |-> run.input,
              key |-> run.key, capturing |-> run.capturing, slots |-> slots,
              blocks |-> run.blocks, sizes |-> run.sizes]
  <2> HIDE DEF slots
  <2>1. run' = [run EXCEPT !.steps = Tail(run.steps), !.slots = slots]
    BY <1>1, <1>2 DEF slots
  <2> QED
    BY <1>2, <2>1
<1>10. /\ Running'
       /\ run'.program = run.program /\ run'.steps = Tail(run.steps) /\ run'.length = run.length
       /\ run'.input = run.input /\ run'.key = run.key
       /\ run'.slots = slots /\ run'.blocks = run.blocks /\ run'.sizes = run.sizes
       /\ run' = [program |-> run'.program, steps |-> run'.steps, length |-> run'.length, input |-> run'.input,
                  key |-> run'.key, capturing |-> run'.capturing, slots |-> run'.slots,
                  blocks |-> run'.blocks, sizes |-> run'.sizes]
  <2> HIDE DEF slots
  <2> QED
    BY <1>9, IsRunning
<1>11. DOMAIN slots = DOMAIN run.slots \ {step.slot} /\ \A x \in DOMAIN slots : slots[x] = run.slots[x]
  OBVIOUS
<1> HIDE DEF slots
<1>12. r \in Held /\ Held' = Held \ {r}
  <2>1. r \in Held
    BY <1>8 DEF Held, r
  <2>2. \A x \in DOMAIN run.slots : x # step.slot => run.slots[x] # r
    BY <1>2, <1>8 DEF r
  <2> QED
    BY <1>10, <1>11, <2>1, <2>2 DEF Held, r
<1>13. Unstaged' = Unstaged
  BY <1>10 DEF Unstaged
<1>14. /\ Books(device, main, clean, InUse) /\ tracked \cap named = {} /\ staged \cap (tracked \cup named \cup Reserved) = {}
       /\ tracked \cap Reserved = {} /\ named \cap Reserved = {}
  BY DEF CaptureInv, MemoryInv
<1>15. Reserved = Held \cup Unstaged /\ Reserved' = Held' \cup Unstaged' /\ InUse = tracked \cup staged \cup named \cup Reserved
  BY <1>1, <1>10 DEF Reserved, InUse
<1>16. InUse' = tracked \cup staged \cup named \cup Held' \cup Unstaged'
  BY <1>1, <1>10 DEF InUse
<1>17. InUse' = InUse \ {r} /\ r \in InUse
  BY <1>2, <1>12, <1>13, <1>14, <1>15, <1>16
<1>18. Books(device, Manage(main, r.ptr, r.length), clean, InUse \ {r})
  BY <1>14, <1>17, BooksGive
<1>19. MemoryInv'
  BY <1>1, <1>12, <1>13, <1>14, <1>15, <1>17, <1>18 DEF MemoryInv
<1>20. Kept' = Kept
  BY <1>1 DEF Kept, AddressesOf
<1>21. Recorded(run'.blocks, run'.input, Kept')
  BY <1>2, <1>10, <1>20
<1>22. Done(p, n + 1)'
  <2>1. SizesOfFirst(p, run.length)[n + 1] = SizesOfFirst(p, run.length)[n]
    BY <1>1, <1>5, <1>6, <1>7, SizesSteps
  <2>2. run'.sizes = SizesOfFirst(p, run'.length)[n + 1]
    BY <1>4, <1>10, <2>1 DEF Done
  <2>3. DOMAIN run'.slots = SlotsAfter(p, n + 1)
    BY <1>8, <1>10, <1>11
  <2> QED
    BY <1>4, <1>7, <1>10, <2>2, <2>3 DEF Done
<1>23. \A x, y \in DOMAIN run'.slots : x # y => run'.slots[x] # run'.slots[y]
  BY <1>2, <1>10, <1>11
<1>24. Held' \cap Unstaged' = {} /\ Held' \subseteq run'.blocks /\ run'.input \in Span \cup {NoRange}
  BY <1>2, <1>10, <1>12, <1>13
<1>25. RunInv'
  <2>1. (\E q \in Program : \E m \in 0..Len(q.steps) : Done(q, m))'
    BY <1>6, <1>22
  <2> QED
    BY <1>10, <1>21, <1>23, <1>24, <2>1 DEF RunInv
<1>26. GraphInv' /\ StandsInv'
  BY <1>1, <1>20, GraphsKept, StandsKept DEF CaptureInv
<1> QED
  BY <1>19, <1>25, <1>26 DEF CaptureInv

\* After a run nothing is reserved.
LEMMA RunEnds ==
  ASSUME run' = NoRun
  PROVE  RunInv' /\ Reserved' = {} /\ InUse' = tracked' \cup staged' \cup named'
  BY DEF RunInv, Running, Reserved, InUse

\* A run fails.
LEMMA FailKeeps ==
  ASSUME CaptureInv, Fail
  PROVE  CaptureInv'
<1>1. PICK left \in SUBSET Held : main' = GiveAll(main, Held \ left) /\ tracked' = tracked \cup left \cup Unstaged
  BY DEF Fail
<1>2. /\ Running /\ run' = NoRun /\ variant \subseteq variant'
      /\ device' = device /\ clean' = clean /\ staged' = staged /\ named' = named /\ captured' = captured
  BY DEF Fail
<1>3. /\ Books(device, main, clean, InUse) /\ tracked \cap named = {} /\ staged \cap (tracked \cup named \cup Reserved) = {}
      /\ tracked \cap Reserved = {} /\ named \cap Reserved = {}
  BY DEF CaptureInv, MemoryInv
<1>4. Reserved = Held \cup Unstaged /\ InUse = tracked \cup staged \cup named \cup Reserved /\ Held \cap Unstaged = {}
  BY <1>2, InUseIs DEF Reserved, CaptureInv, RunInv
<1> DEFINE Q == Held \ left
<1>5. Q \in SUBSET InUse /\ IsFiniteSet(Q)
  BY <1>2, <1>4, HeldFinite, FS_Subset DEF CaptureInv
<1>6. RunInv' /\ Reserved' = {} /\ InUse' = tracked' \cup staged' \cup named'
  BY <1>2, RunEnds
<1>7. InUse' = InUse \ Q
  BY <1>1, <1>2, <1>3, <1>4, <1>6
<1> HIDE DEF Q
<1>8. Books(device, GiveAll(main, Q), clean, InUse \ Q)
  BY <1>3, <1>5, BooksGiveAll
<1>9. tracked' \cap named' = {} /\ staged' \cap (tracked' \cup named') = {}
  BY <1>1, <1>2, <1>3, <1>4
<1>10. MemoryInv'
  BY <1>1, <1>2, <1>6, <1>7, <1>8, <1>9 DEF MemoryInv, Q
<1>11. Kept' \subseteq Kept
  BY <1>2 DEF Kept, AddressesOf
<1>12. GraphInv' /\ StandsInv'
  BY <1>2, <1>11, GraphsKept, StandsKept DEF CaptureInv
<1> QED
  BY <1>6, <1>10, <1>12 DEF CaptureInv

\* What a completed run has recorded stands for its program.
LEMMA CompletedStands ==
  ASSUME RunInv, Running, run.steps = <<>>
  PROVE  Stands(run.key, run.sizes, variant \cup Learned)
<1>1. PICK p \in Program : \E n \in 0..Len(p.steps) : Done(p, n)
  BY DEF RunInv
<1>2. PICK n \in 0..Len(p.steps) : Done(p, n)
  BY <1>1
<1>3. n = Len(p.steps)
  BY <1>2, StepsFacts DEF Done
<1>4. run.sizes = Sizes(p, run.length) /\ run.length \in Length /\ run.key[1] = p.name /\ run.program = p.name
  BY <1>2, <1>3 DEF Done, Sizes
<1>5. run.key[2] = run.length \/ run.key[2] = 0
  BY <1>2 DEF Done
<1>6. Varies(p) => p.name \in variant \cup Learned
  BY <1>4 DEF Learned
<1> QED
  BY <1>4, <1>5, <1>6 DEF Stands

\* The graph of a completed run is recorded.
LEMMA RecordGraphKeeps ==
  ASSUME CaptureInv, Running, run.steps = <<>>, RecordGraph, Kept' = Kept, variant' = variant \cup Learned
  PROVE  GraphInv' /\ StandsInv'
<1> DEFINE graph == [blocks |-> run.blocks, results |-> Held, sizes |-> run.sizes]
<1>1. Record(run.key, Entry(captured[run.key].warmup, graph))
  BY DEF RecordGraph
<1>2. graph.blocks = run.blocks /\ graph.results = Held /\ graph.sizes = run.sizes
  OBVIOUS
<1>3. run.key[3] = run.input
  BY DEF CaptureInv, RunInv, Done
<1>4. Recorded(run.blocks, run.input, Kept) /\ Held \subseteq run.blocks
  BY DEF CaptureInv, RunInv
<1>5. IsFiniteSet(Held)
  BY HeldFinite DEF CaptureInv
<1>6. Apart(Held)
  <2>1. Apart(InUse) /\ Held \subseteq InUse
    BY InUseFacts DEF CaptureInv, InUse
  <2> QED
    BY <2>1 DEF Apart
<1>7. Stands(run.key, run.sizes, variant')
  BY CompletedStands DEF CaptureInv
<1> HIDE DEF graph
<1>8. /\ Recorded(graph.blocks, run.key[3], Kept') /\ graph.results \subseteq graph.blocks
      /\ Apart(graph.results) /\ IsFiniteSet(graph.results)
      /\ (graph # NoGraph => Stands(run.key, graph.sizes, variant'))
  BY <1>2, <1>3, <1>4, <1>5, <1>6, <1>7
<1>9. Kept' \subseteq Kept /\ variant \subseteq variant'
  OBVIOUS
<1> QED
  BY <1>1, <1>8, <1>9, RecordKeeps DEF CaptureInv

\* The caller gets what a run holds, and its input back.
LEMMA ReturnedBooks ==
  ASSUME MemoryInv, Running, run' = NoRun, staged' = staged, named' = named,
         tracked' = tracked \cup Held \cup Unstaged
  PROVE  /\ RunInv' /\ Reserved' = {} /\ InUse' = InUse
         /\ tracked' \cap named' = {} /\ staged' \cap (tracked' \cup named') = {}
<1>1. /\ tracked \cap named = {} /\ staged \cap (tracked \cup named \cup Reserved) = {}
      /\ tracked \cap Reserved = {} /\ named \cap Reserved = {}
  BY DEF MemoryInv
<1>2. Reserved = Held \cup Unstaged /\ InUse = tracked \cup staged \cup named \cup Reserved
  BY InUseIs DEF Reserved
<1>3. RunInv' /\ Reserved' = {} /\ InUse' = tracked' \cup staged' \cup named'
  BY RunEnds
<1> QED
  BY <1>1, <1>2, <1>3

\* A run ends, with a graph if it was recorded.
LEMMA FinishKeeps ==
  ASSUME CaptureInv, Finish
  PROVE  CaptureInv'
<1>1. /\ Running /\ run.steps = <<>> /\ run' = NoRun
      /\ variant' = variant \cup Learned /\ tracked' = tracked \cup Held \cup Unstaged
      /\ device' = device /\ staged' = staged /\ named' = named
  BY DEF Finish
<1>2. \/ RecordGraph /\ clean' = DrainTo(main, clean) /\ main' = <<>>
      \/ captured' = captured /\ clean' = clean /\ main' = main
  BY DEF Finish, ReconciledHeap
<1>3. Books(device, main, clean, InUse) /\ Books(device, <<>>, DrainTo(main, clean), InUse)
  BY BooksDrain DEF CaptureInv, MemoryInv
<1>4. /\ RunInv' /\ Reserved' = {} /\ InUse' = InUse
      /\ tracked' \cap named' = {} /\ staged' \cap (tracked' \cup named') = {}
  BY <1>1, ReturnedBooks DEF CaptureInv
<1>5. MemoryInv'
  BY <1>1, <1>2, <1>3, <1>4 DEF MemoryInv
<1>6. Kept' = Kept
  BY <1>1 DEF Kept, AddressesOf
<1>7. GraphInv' /\ StandsInv'
  BY <1>1, <1>2, <1>6, RecordGraphKeeps, GraphsKept, StandsKept DEF CaptureInv
<1> QED
  BY <1>4, <1>5, <1>7 DEF CaptureInv

\* The first launch of a new graph fails.
LEMMA FailLaunchKeeps ==
  ASSUME CaptureInv, FailLaunch
  PROVE  CaptureInv'
<1>1. /\ Running /\ run.steps = <<>> /\ run' = NoRun /\ RecordGraph
      /\ variant' = variant \cup Learned /\ tracked' = tracked \cup Held \cup Unstaged
      /\ device' = device /\ main' = main /\ clean' = clean /\ staged' = staged /\ named' = named
  BY DEF FailLaunch
<1>2. Books(device, main, clean, InUse)
  BY DEF CaptureInv, MemoryInv
<1>3. /\ RunInv' /\ Reserved' = {} /\ InUse' = InUse
      /\ tracked' \cap named' = {} /\ staged' \cap (tracked' \cup named') = {}
  BY <1>1, ReturnedBooks DEF CaptureInv
<1>4. MemoryInv'
  BY <1>1, <1>2, <1>3 DEF MemoryInv
<1>5. Kept' = Kept
  BY <1>1 DEF Kept, AddressesOf
<1>6. GraphInv' /\ StandsInv'
  BY <1>1, <1>5, RecordGraphKeeps
<1> QED
  BY <1>3, <1>4, <1>6 DEF CaptureInv

-----------------------------------------------------------------------------
(* The theorems                                                          *)

\* The invariant holds at first.
LEMMA InitInv ==
  ASSUME CaptureInit
  PROVE  CaptureInv
<1> DEFINE all == Region(0, Arena)
<1>1. Arena \in Nat \ {0}
  BY CaptureAssumption
<1>2. all \in Span /\ all.ptr = 0 /\ End(all) = Arena
  BY <1>1 DEF Region, Span, End
<1>3. /\ device = <<all>> /\ main = <<>> /\ clean = <<>> /\ tracked = {} /\ staged = {} /\ named = {} /\ run = NoRun
      /\ DOMAIN captured = {}
  BY DEF CaptureInit
<1> HIDE DEF all
<1>4. ~Running
  BY <1>3 DEF Running
<1>5. Reserved = {} /\ InUse = {}
  BY <1>3, <1>4, NotReserved
<1>6. FreeList(<<all>>) /\ FreeAddresses(<<all>>) = 0..(Arena - 1)
  <2>1. FreeList(<<all>>) /\ FreeAddresses(<<all>>) = Addresses(all)
    BY <1>2, OneFree
  <2> QED
    BY <1>2, <2>1 DEF Addresses
<1>7. FreeList(<<>>) /\ FreeAddresses(<<>>) = {}
  BY NoneFree
<1>8. AddressesOf({}) = {}
  BY DEF AddressesOf
<1>9. Books(<<all>>, <<>>, <<>>, {})
  BY <1>6, <1>7, <1>8 DEF Books, Shares, Apart
<1>10. MemoryInv
  BY <1>3, <1>5, <1>9 DEF MemoryInv
<1> QED
  BY <1>3, <1>4, <1>10 DEF CaptureInv, RunInv, GraphInv, StandsInv

\* Every step keeps it.
LEMMA NextInv ==
  ASSUME CaptureInv, [CaptureNext]_captureVars
  PROVE  CaptureInv'
<1>1. CASE UNCHANGED captureVars
  BY <1>1, SameKeeps DEF captureVars
<1>2. CASE \E p \in Program, length \in Length : \E input \in Inputs(p) :
             Replay(p, length, input) \/ Refuse(p, length, input) \/ Begin(p, length, input)
  BY <1>2, ReplayKeeps, RefuseKeeps, BeginKeeps
<1>3. CASE RunAlloc
  BY <1>3, RunAllocKeeps
<1>4. CASE RunFree
  BY <1>4, RunFreeKeeps
<1>5. CASE Fail
  BY <1>5, FailKeeps
<1>6. CASE FailLaunch
  BY <1>6, FailLaunchKeeps
<1>7. CASE Finish
  BY <1>7, FinishKeeps
<1>8. CASE Acquire(1)
  BY <1>8, AcquireKeeps
<1>9. CASE EnsureAlloc(1)
  BY <1>9, EnsureAllocKeeps
<1>10. CASE \E range \in tracked : Release(range)
  BY <1>10, ReleaseKeeps
<1>11. CASE SynchronizeAll
  BY <1>11, SynchronizeAllKeeps
<1>12. CASE Clear
  BY <1>12, SameKeeps DEF Clear
<1>13. CASE Throw
  BY <1>13, SameKeeps DEF Throw
<1>14. CASE Recover
  BY <1>14, RecoverKeeps
<1> QED
  BY <1>1, <1>2, <1>3, <1>4, <1>5, <1>6, <1>7, <1>8, <1>9, <1>10, <1>11, <1>12, <1>13, <1>14 DEF CaptureNext

\* The invariant of capture holds in all states: memory has one owner, a run has
\* done the first steps of its program, and what is recorded is memory of the
\* workspace that neither the device nor a name nor the input has.
THEOREM CaptureInvariant == CaptureSpec => []CaptureInv
<1>1. CaptureInit => CaptureInv
  BY InitInv
<1>2. CaptureInv /\ [CaptureNext]_captureVars => CaptureInv'
  BY NextInv
<1> QED
  BY <1>1, <1>2, PTL DEF CaptureSpec

\* An input that a refused replay has left staged is met by no run: the exception
\* reaches run()'s catch block, whose clearTracking throws again.
CallerInv ==
  /\ staged # {} => caller \in {"thrown", "over"}
  /\ Running => caller = "cleared"

\* Every step keeps that.
LEMMA NextCallerInv ==
  ASSUME CallerInv, [CaptureNext]_captureVars
  PROVE  CallerInv'
<1>1. ASSUME staged' = staged, run' = run, caller' = caller
      PROVE  CallerInv'
  BY <1>1 DEF CallerInv, Running, NoRun
<1>2. ASSUME caller = "cleared", staged' = staged, run' = NoRun
      PROVE  CallerInv'
  BY <1>2 DEF CallerInv, Running, NoRun
<1>3. CASE UNCHANGED captureVars
  BY <1>1, <1>3 DEF captureVars
<1>4. ASSUME NEW p \in Program, NEW length \in Length, NEW input \in Inputs(p), Replay(p, length, input)
      PROVE  CallerInv'
  BY <1>4 DEF Replay, CallerInv, Running, NoRun
<1>5. ASSUME NEW p \in Program, NEW length \in Length, NEW input \in Inputs(p), Refuse(p, length, input)
      PROVE  CallerInv'
  BY <1>5 DEF Refuse, CallerInv, Running, NoRun
<1>6. ASSUME NEW p \in Program, NEW length \in Length, NEW input \in Inputs(p), Begin(p, length, input)
      PROVE  CallerInv'
  BY <1>6 DEF Begin, CallerInv
<1>7. CASE RunAlloc \/ RunFree
  <2>1. Running /\ staged' = staged /\ caller' = caller
    BY <1>7 DEF RunAlloc, RunFree
  <2> QED
    BY <2>1 DEF CallerInv
<1>8. CASE Fail \/ FailLaunch \/ Finish
  <2>1. Running /\ staged' = staged /\ run' = NoRun
    BY <1>8 DEF Fail, FailLaunch, Finish
  <2> QED
    BY <1>2, <2>1 DEF CallerInv
<1>9. CASE Acquire(1) \/ EnsureAlloc(1) \/ SynchronizeAll
  BY <1>1, <1>9 DEF Acquire, EnsureAlloc, SynchronizeAll
<1>10. CASE \E range \in tracked : Release(range)
  BY <1>1, <1>10 DEF Release
<1>11. CASE Clear \/ Throw \/ Recover
  BY <1>11 DEF Clear, Throw, Recover, NoneStaged, CallerInv, Running, NoRun
<1> QED
  BY <1>3, <1>4, <1>5, <1>6, <1>7, <1>8, <1>9, <1>10, <1>11 DEF CaptureNext

\* Between two runs, and in one, no input is staged that an exception has left so:
\* what a replay's check cannot see is not there when it is made.
THEOREM NothingStagedBetweenRuns == CaptureSpec => []CallerInv
<1>1. CaptureInit => CallerInv
  BY DEF CaptureInit, CallerInv, Running
<1>2. CallerInv /\ [CaptureNext]_captureVars => CallerInv'
  BY NextCallerInv
<1> QED
  BY <1>1, <1>2, PTL DEF CaptureSpec

\* Every address is in one free list or belongs to one tensor, and free lists
\* have their neighbours joined.
THEOREM MemoryExact == CaptureSpec => []HeapsExact
<1>1. CaptureInv => HeapsExact
  <2> SUFFICES ASSUME CaptureInv PROVE HeapsExact
    OBVIOUS
  <2> DEFINE D == FreeAddresses(device)
             M == FreeAddresses(main)
             C == FreeAddresses(clean)
             U == AddressesOf(InUse)
             parts == <<D, M, C, U>>
  <2>1. Tidy(device) /\ Tidy(main) /\ Tidy(clean) /\ Apart(InUse) /\ Shares(D, M, C, U)
    BY DEF CaptureInv, MemoryInv, Books, FreeList
  <2> HIDE DEF D, M, C, U
  <2>2. parts[1] = D /\ parts[2] = M /\ parts[3] = C /\ parts[4] = U /\ 1..4 = {1, 2, 3, 4}
    OBVIOUS
  <2> HIDE DEF parts
  <2>3. UNION {parts[k] : k \in 1..4} = 0..(Arena - 1)
    <3>1. UNION {parts[k] : k \in 1..4} = D \cup M \cup C \cup U
      BY <2>2
    <3> QED
      BY <2>1, <3>1 DEF Shares
  <2>4. \A j, k \in 1..4 : j # k => parts[j] \cap parts[k] = {}
    BY <2>1, <2>2 DEF Shares
  <2> QED
    BY <2>1, <2>3, <2>4 DEF HeapsExact, Apart, parts, D, M, C, U
<1> QED
  BY <1>1, CaptureInvariant, PTL

\* A replay writes no memory that a tensor has got since the capture, and finds
\* that of its results free, whatever has run, failed or been refused since.
THEOREM ReplayIsSafe == CaptureSpec => []ReplaySafe
<1>1. CaptureInv /\ CallerInv => ReplaySafe
  <2> SUFFICES ASSUME CaptureInv, CallerInv, NEW p \in Program, NEW length \in Length, NEW input \in Inputs(p),
                      Replays(p, length, input)
               PROVE  /\ WritesNobodys(Key(p, length, input))
                      /\ CanClaimAll(HeapToClaim, captured[Key(p, length, input)].graph.results)
    BY DEF ReplaySafe
  <2> DEFINE key == Key(p, length, input)
             graph == captured[key].graph
             written == AddressesOf(graph.blocks)
  <2>1. /\ ~Running /\ key \in DOMAIN captured /\ tracked \subseteq {input} /\ key[3] = input
        /\ staged = {}
    BY DEF Replays, MayReplay, HasGraph, Exclusive, Key, CallerInv
  <2> HIDE DEF key
  <2>2. /\ graph.blocks \subseteq Span /\ written \subseteq 0..(Arena - 1)
        /\ written \cap Kept = {} /\ written \cap Addresses(input) = {}
        /\ graph.results \subseteq graph.blocks /\ Apart(graph.results)
    BY <2>1 DEF CaptureInv, GraphInv, Recorded
  <2>3. InUse = tracked \cup named /\ Books(device, main, clean, InUse)
    BY <2>1, NotReserved DEF CaptureInv, MemoryInv
  <2>4. AddressesOf(InUse) \subseteq Addresses(input) \cup AddressesOf(named)
    BY <2>1, <2>3 DEF AddressesOf
  <2> HIDE DEF graph
  <2>5. written \cap AddressesOf(InUse) = {} /\ written \cap FreeAddresses(device) = {}
    BY <2>2, <2>4 DEF Kept
  <2>6. WritesNobodys(key)
    BY <2>5 DEF WritesNobodys, AddressesOf, graph
  <2>7. written \subseteq FreeAddresses(main) \cup FreeAddresses(clean)
    BY <2>2, <2>3, <2>5 DEF Books, Shares
  <2>8. FreeList(HeapToClaim) /\ FreeAddresses(HeapToClaim) = FreeAddresses(main) \cup FreeAddresses(clean)
    BY <2>3, BooksDrain DEF HeapToClaim, ReconciledHeap, Books
  <2>9. \A r \in graph.results : CanClaim(HeapToClaim, r)
    <3> SUFFICES ASSUME NEW r \in graph.results PROVE CanClaim(HeapToClaim, r)
      OBVIOUS
    <3>1. r \in Span /\ Addresses(r) \subseteq written
      BY <2>2 DEF AddressesOf
    <3>2. Addresses(r) \subseteq FreeAddresses(HeapToClaim)
      BY <2>7, <2>8, <3>1
    <3> QED
      BY <2>8, <3>1, <3>2, FreeIsHeld
  <2>10. CanClaimAll(HeapToClaim, graph.results)
    BY <2>2, <2>9 DEF CanClaimAll, Apart
  <2> QED
    BY <2>6, <2>10 DEF graph, key
<1> QED
  BY <1>1, CaptureInvariant, NothingStagedBetweenRuns, PTL

\* A graph is all of a run, and of one with buffers as large as those of the run
\* it replaces.
THEOREM GraphsStand == CaptureSpec => []GraphsFit
<1>1. CaptureInv => GraphsFit
  <2> SUFFICES ASSUME CaptureInv, NEW p \in Program, NEW length \in Length, NEW input \in Inputs(p),
                      HasGraph(Key(p, length, input))
               PROVE  captured[Key(p, length, input)].graph.sizes = Sizes(p, length)
    BY DEF GraphsFit
  <2> DEFINE key == Key(p, length, input)
             sizes == captured[key].graph.sizes
  <2>1. key[1] = p.name /\ key[2] = IF p.name \in variant THEN length ELSE 0
    BY DEF Key
  <2>2. Stands(key, sizes, variant)
    BY DEF CaptureInv, StandsInv, HasGraph
  <2> HIDE DEF key, sizes
  <2>3. PICK q \in Program, other \in Length :
          /\ q.name = key[1] /\ sizes = Sizes(q, other)
          /\ key[2] = other \/ (key[2] = 0 /\ (Varies(q) => q.name \in variant))
    BY <2>2 DEF Stands
  <2>4. q = p
    BY <2>1, <2>3, CaptureAssumption
  <2>5. length # 0 /\ other # 0
    BY CaptureAssumption
  <2>6. CASE p.name \in variant
    BY <2>1, <2>3, <2>4, <2>5, <2>6 DEF sizes, key
  <2>7. CASE p.name \notin variant
    <3>1. ~Varies(p)
      BY <2>1, <2>3, <2>4, <2>5, <2>7
    <3>2. Sizes(p, other) = Sizes(p, length)
      BY <3>1, ProgramFacts, SameSizes
    <3> QED
      BY <2>3, <2>4, <3>2 DEF sizes, key
  <2> QED
    BY <2>6, <2>7
<1> QED
  BY <1>1, CaptureInvariant, PTL
=============================================================================
