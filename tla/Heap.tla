-------------------------------- MODULE Heap --------------------------------
(****************************************************************************)
(* The free lists of src/heap.ts: regions of one address space, by address, *)
(* neighbours joined.  All memory of a device comes from such a list and    *)
(* returns to one; tensors hold what tryAlloc and claim have cut out.       *)
(****************************************************************************)
EXTENDS Integers, Sequences, SequencesExt

CONSTANT Align      \* ALIGNMENT

ASSUME AlignAssumption == Align \in Nat \ {0}

Region(ptr, length) == [ptr |-> ptr, length |-> length]
End(r) == r.ptr + r.length
Addresses(r) == r.ptr..(End(r) - 1)

RoundUp(n) == ((n + Align - 1) \div Align) * Align
RoundDown(n) == (n \div Align) * Align

\* Regions before an address, counted up to the first that is not.
Before(regions, ptr) ==
  CHOOSE n \in 0..Len(regions) : /\ \A k \in 1..n : regions[k].ptr < ptr
                                 /\ n < Len(regions) => regions[n + 1].ptr >= ptr

\* Mutant: when a range joins both neighbours, the second is dropped.
ManageLosesNext(regions, ptr, length) ==
  LET index == Before(regions, ptr)
      joinsPrevious == index > 0 /\ End(regions[index]) = ptr
      joinsNext     == index < Len(regions) /\ ptr + length = regions[index + 1].ptr
      first == IF joinsPrevious THEN regions[index].ptr ELSE ptr
      end   == IF joinsNext /\ ~joinsPrevious THEN End(regions[index + 1]) ELSE ptr + length
  IN SubSeq(regions, 1, IF joinsPrevious THEN index - 1 ELSE index)
     \o <<Region(first, end - first)>>
     \o SubSeq(regions, IF joinsNext THEN index + 2 ELSE index + 1, Len(regions))

\* manage: a range comes free.  (It throws if the range overlaps a free one.)
Manage(regions, ptr, length) ==
  LET index == Before(regions, ptr)
      joinsPrevious == index > 0 /\ End(regions[index]) = ptr
      joinsNext     == index < Len(regions) /\ ptr + length = regions[index + 1].ptr
      first == IF joinsPrevious THEN regions[index].ptr ELSE ptr
      end   == IF joinsNext THEN End(regions[index + 1]) ELSE ptr + length
  IN SubSeq(regions, 1, IF joinsPrevious THEN index - 1 ELSE index)
     \o <<Region(first, end - first)>>
     \o SubSeq(regions, IF joinsNext THEN index + 2 ELSE index + 1, Len(regions))

\* What tryAlloc would take of a region: the aligned start of it or, for what
\* stays, the end.
Cut(r, size, longTerm) ==
  IF longTerm
  THEN LET ptr == RoundDown(End(r) - size) IN Region(ptr, End(r) - ptr)
  ELSE LET ptr == RoundUp(r.ptr)
           rest == End(r) - ptr
       IN Region(ptr, IF RoundUp(size) < rest THEN RoundUp(size) ELSE rest)

Serves(r, size, longTerm) ==
  LET ptr == Cut(r, size, longTerm).ptr IN ptr >= r.ptr /\ ptr + size <= End(r)

CanAlloc(regions, size, longTerm) ==
  \E k \in DOMAIN regions : Serves(regions[k], size, longTerm)

\* The range tryAlloc returns: of the first region, or the last.
Found(regions, size, longTerm) ==
  LET fits == {k \in DOMAIN regions : Serves(regions[k], size, longTerm)}
      k == CHOOSE k \in fits : \A j \in fits : IF longTerm THEN j <= k ELSE k <= j
  IN Cut(regions[k], size, longTerm)

Holds(r, range) == r.ptr <= range.ptr /\ End(range) <= End(r)

CanClaim(regions, range) == \E k \in DOMAIN regions : Holds(regions[k], range)

\* What is left of a region on one side of a range.
Piece(ptr, end) == IF ptr < end THEN <<Region(ptr, end - ptr)>> ELSE <<>>

\* The free list without a range of one of its regions (tryAlloc, claim).
Without(regions, range) ==
  LET k == CHOOSE k \in DOMAIN regions : Holds(regions[k], range)
      r == regions[k]
  IN SubSeq(regions, 1, k - 1)
     \o (Piece(r.ptr, range.ptr) \o Piece(End(range), End(r)))
     \o SubSeq(regions, k + 1, Len(regions))

\* drainTo: all regions in order of address, neighbours joined.
DrainTo(source, destination) ==
  LET drained[n \in 0..Len(source)] ==
        IF n = 0 THEN destination ELSE Manage(drained[n - 1], source[n].ptr, source[n].length)
  IN drained[Len(source)]

\* Regions are in order and no two of them meet.
Tidy(regions) ==
  /\ \A k \in DOMAIN regions : regions[k].length > 0
  /\ \A k \in 1..(Len(regions) - 1) : End(regions[k]) < regions[k + 1].ptr

FreeAddresses(regions) == UNION {Addresses(regions[k]) : k \in DOMAIN regions}
=============================================================================
