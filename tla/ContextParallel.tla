--------------------------- MODULE ContextParallel --------------------------
(***************************************************************************)
(* The paged cache under context parallelism: every page is on every rank, *)
(* and rank r has each W-th token of it.  Plans and kernels then count in  *)
(* three ways (positions of a sequence, local positions of a rank, slots   *)
(* of its physical pages) and the modules that agree on them are the plan  *)
(* (src/execution-workspace.ts), the collectives (src/parallel_ops.ts) and *)
(* the kernels below (csrc).  A token is a number, its score.              *)
(*                                                                         *)
(*   gpu, host  gpu[r][slot]: the token in a slot of rank r's cache        *)
(*   rows       the Sequences of the batch: pages, tokens                  *)
(*   stored     the Sequence of the host tier                              *)
(*   plan       the arrays of the last plan, as uploaded                   *)
(*   layer      what the layer has computed of it: stage, gathered pages,  *)
(*              candidates of each rank, positions selected, attention     *)
(*   ranking    which tokens score high                                    *)
(***************************************************************************)
EXTENDS Integers, Sequences, FiniteSets, FiniteSetsExt

CONSTANTS W,          \* worldSize
          PageSize,   \* pageSize, of all ranks together
          Pages,      \* maxPages
          B,          \* rows of the batch
          H,          \* heads
          K,          \* topk
          MaxLen,     \* bound: tokens of a row
          Chunks,     \* bound: numbers of tokens of a row in one plan
          Rankings    \* functions from rows and positions to scores

\* Assumed by the module that gives the constants their values.
ContextParallelAssumption ==
  /\ {W, PageSize, Pages, B, H, K, MaxLen} \subseteq Nat \ {0} /\ Chunks \subseteq Nat
  /\ PageSize % W = 0 /\ H % W = 0
  /\ \A f \in Rankings : f \in [(0..(B - 1)) \X (0..(MaxLen - 1)) -> Nat \ {0}]

VARIABLES gpu, host, rows, stored, plan, layer, ranking

vars == <<gpu, host, rows, stored, plan, layer, ranking>>

Ranks == 0..(W - 1)
Row == 0..(B - 1)
Eff == PageSize \div W
Slots == 0..(Pages * Eff - 1)
Free == 0    \* no token, or one of a row that has gone
NoPlan == [totalQ |-> 0]
NoLayer == [stage |-> "none"]
EmptyCache == [r \in Ranks |-> [s \in Slots |-> Free]]
EmptyRow == [pages |-> <<>>, tokens |-> <<>>]

Init ==
  /\ gpu = EmptyCache
  /\ host = EmptyCache
  /\ rows = [i \in Row |-> EmptyRow]
  /\ stored = EmptyRow
  /\ plan = NoPlan
  /\ layer = NoLayer
  /\ ranking \in Rankings

CeilDiv(a, b) == (a + b - 1) \div b
AtMost(a, b) == IF a < b THEN a ELSE b
AtLeast(a, b) == IF a > b THEN a ELSE b
SumOver(S, f(_)) == MapThenSumSet(f, S)

\* Elements of an array, as functions from 0.
Concat(parts, n) == [x \in 0..(Cardinality(DOMAIN parts) * n - 1) |-> parts[x \div n][x % n]]

-----------------------------------------------------------------------------
(* Plans: planPrefill, planDecode, updateIndptr                          *)

AllocLen(i) == Len(rows[i].tokens)
ContentPages(i) == CeilDiv(AllocLen(i), PageSize)
CpLocalKvLen(n, r) == IF n > r THEN (n - 1 - r) \div W + 1 ELSE 0

\* Mutant: of the tokens of a rank, not of the pages they share.
LastPageLenByModulo(i, r) ==
  LET remainder == CpLocalKvLen(AllocLen(i), r) % Eff
  IN IF remainder # 0 THEN remainder ELSE IF AllocLen(i) > 0 THEN Eff ELSE 0

\* adjustCpLastPageLen
LastPageLen(i, r) ==
  LET pages == CeilDiv(AllocLen(i), PageSize)
  IN IF pages > 0 THEN CpLocalKvLen(AllocLen(i), r) - (pages - 1) * Eff ELSE 0

GlobalLastPageLen(i) ==
  LET remainder == AllocLen(i) % PageSize
  IN IF remainder # 0 THEN remainder ELSE IF AllocLen(i) > 0 THEN PageSize ELSE 0

\* The arrays, for rows that have their new tokens and pages already.
Plan(seqLens, decode) ==
  LET indptr == [i \in 0..B |-> SumOver(0..(i - 1), ContentPages)]
      qoIndptr == [i \in 0..B |-> SumOver(0..(i - 1), LAMBDA j : seqLens[j])]
      rowOf(offsets, x) == CHOOSE i \in Row : offsets[i] <= x /\ x < offsets[i + 1]
  IN [totalQ |-> qoIndptr[B],
      decode |-> decode,
      qoIndptr |-> qoIndptr,
      indptr |-> indptr,
      indices |-> [gp \in 0..(indptr[B] - 1) |->
                     rows[rowOf(indptr, gp)].pages[gp - indptr[rowOf(indptr, gp)] + 1]],
      lastPageLen |-> [r \in Ranks |-> [i \in Row |-> LastPageLen(i, r)]],
      globalLastPageLen |-> [i \in Row |-> GlobalLastPageLen(i)],
      kvTokenIndptr |-> [i \in 0..B |-> SumOver(0..(i - 1), AllocLen)],
      batchIndices |-> [t \in 0..(qoIndptr[B] - 1) |-> rowOf(qoIndptr, t)],
      positions |-> [t \in 0..(qoIndptr[B] - 1) |->
                       LET i == rowOf(qoIndptr, t) IN AllocLen(i) - seqLens[i] + t - qoIndptr[i]]]

Query == 0..(plan.totalQ - 1)
PagesOf(i) == plan.indptr[i + 1] - plan.indptr[i]
QueriesOf(i) == plan.qoIndptr[i + 1] - plan.qoIndptr[i]
KvLenOf(i) == plan.kvTokenIndptr[i + 1] - plan.kvTokenIndptr[i]

-----------------------------------------------------------------------------
(* Writing the cache                                                     *)

Slot(page, local) == page * Eff + (local % Eff)

\* The slot of a row's local position, through the page table of the plan.
SlotAt(i, local) == Slot(plan.indices[plan.indptr[i] + local \div Eff], local)

NewToken(t) == rows[plan.batchIndices[t]].tokens[plan.positions[t] + 1]

\* mlaKvCacheAppend, concatAndCacheDsMla and their kernels, on a rank's cache.
Appended(cache, r) ==
  LET mine == {t \in Query : plan.positions[t] % W = r}
      slot(t) == SlotAt(plan.batchIndices[t], (plan.positions[t] - r) \div W)
  IN [s \in Slots |-> IF \E t \in mine : slot(t) = s
                      THEN NewToken(CHOOSE t \in mine : slot(t) = s) ELSE cache[s]]

\* copyPrefixFrom: runs of pages adjacent on both sides, from the n-th page on.
Runs(from, to, n, end) ==
  LET starts == {p \in n..(end - 1) : p = n \/ from[p + 1] # from[p] + 1 \/ to[p + 1] # to[p] + 1}
      stop(p) == CHOOSE q \in (p + 1)..end : /\ q = end \/ q \in starts
                                             /\ \A x \in (p + 1)..(q - 1) : x \notin starts
  IN {[src |-> from[p + 1] * PageSize, dst |-> to[p + 1] * PageSize,
       len |-> (stop(p) - p) * PageSize] : p \in starts}

\* memcpyBatchAsync, a region of Row tensors: what of it a shard holds.
Divide(at, r) ==
  LET page == at \div PageSize
      within == at % PageSize
  IN page * Eff + AtLeast(0, AtMost(within - r * Eff, Eff))

\* Mutant: source offsets are those of the destination.
CopiedInPlace(from, to, runs, r) ==
  [s \in Slots |->
     IF \E e \in runs : Divide(e.dst, r) <= s /\ s < Divide(e.dst + e.len, r)
     THEN from[r][s] ELSE to[r][s]]

Copied(from, to, runs, r) ==
  [s \in Slots |->
     IF \E e \in runs : Divide(e.dst, r) <= s /\ s < Divide(e.dst + e.len, r)
     THEN LET e == CHOOSE e \in runs : Divide(e.dst, r) <= s /\ s < Divide(e.dst + e.len, r)
          IN from[r][s - ((e.dst - e.src) \div PageSize) * Eff]
     ELSE to[r][s]]

-----------------------------------------------------------------------------
(* Gathered pages                                                        *)

\* sparseMlaPaddedKvLen
PaddedKvLen ==
  LET required == SumOver(Row, LAMBDA i : CeilDiv(AllocLen(i), W) * W)
  IN AtMost(Pages * PageSize * B, CeilDiv(required, PageSize) * PageSize)

\* gather_pages_kernel: the pages of all rows, packed; Free where it writes nothing.
GatherLocal(r) ==
  LET last(i) == AtMost(plan.lastPageLen[r][i], Eff)
      copyLen(i, p) == IF p = PagesOf(i) - 1 THEN last(i) ELSE Eff
      before(i) == SumOver(0..(i - 1), LAMBDA j : (PagesOf(j) - 1) * Eff + last(j))
      written == UNION {{[at |-> before(i) + p * Eff + x, slot |-> Slot(plan.indices[plan.indptr[i] + p], x)] :
                           x \in 0..(copyLen(i, p) - 1)} :
                        <<i, p>> \in {y \in Row \X (0..(Pages - 1)) : y[2] < PagesOf(y[1])}}
  IN [x \in 0..(PaddedKvLen \div W - 1) |->
        IF \E y \in written : y.at = x
        THEN gpu[r][(CHOOSE y \in written : y.at = x).slot] ELSE Free]

\* gatherPages: all-gathered by columns, then deinterleaved.
GatherPages ==
  LET chunk == PaddedKvLen \div W
      gathered == Concat([r \in Ranks |-> GatherLocal(r)], chunk)
      source(i, x) == LET r == x % W
                      IN r * chunk + (x \div W)
                         + SumOver({j \in 0..(i - 1) : KvLenOf(j) > r},
                                   LAMBDA j : (KvLenOf(j) - r + W - 1) \div W)
  IN [x \in 0..(plan.kvTokenIndptr[B] - 1) |->
        LET i == CHOOSE j \in Row : plan.kvTokenIndptr[j] <= x /\ x < plan.kvTokenIndptr[j + 1]
        IN gathered[source(i, x - plan.kvTokenIndptr[i])]]

\* concatAndCacheDsMla on gathered pages, which are sequences without pages.
AppendedFlat(flat) ==
  LET slot(t) == plan.kvTokenIndptr[plan.batchIndices[t]] + plan.positions[t]
  IN [x \in DOMAIN flat |-> IF \E t \in Query : slot(t) = x
                            THEN NewToken(CHOOSE t \in Query : slot(t) = x) ELSE flat[x]]

-----------------------------------------------------------------------------
(* The indexer                                                           *)

\* Mutant: division that rounds towards zero.
CausalLimitTruncated(q, n, kvLen, globalKvLen, r) ==
  LET prefix == AtLeast(0, globalKvLen - n)
      limit == IF plan.decode THEN globalKvLen - 1 ELSE prefix + q
      share == limit - r
  IN AtMost(IF share < 0 THEN -((-share) \div W) ELSE share \div W, kvLen - 1)

\* idx_local_causal_limit: of the q-th of n queries
CausalLimit(q, n, kvLen, globalKvLen, r) ==
  LET prefix == AtLeast(0, globalKvLen - n)
      limit == IF plan.decode THEN globalKvLen - 1 ELSE prefix + q
  IN IF limit < r THEN -1 ELSE AtMost((limit - r) \div W, kvLen - 1)

Candidate(value, index) == [value |-> value, index |-> index]
None == Candidate(-1, -1)     \* -Infinity, no position

\* topk: the k best of some candidates, best first.
Best(cands, k) ==
  LET better(x, y) == x.value > y.value \/ (x.value = y.value /\ x.index < y.index)
      place(x) == Cardinality({y \in cands : better(y, x)})
  IN [p \in 0..(k - 1) |->
        IF \E x \in cands : place(x) = p THEN CHOOSE x \in cands : place(x) = p ELSE None]

Elements(array) == {array[x] : x \in DOMAIN array}

\* A device's indexerTopk on its shard of the cache, positions made global.
LocalTopk(t, r) ==
  LET i == plan.batchIndices[t]
      kvLen == IF PagesOf(i) > 0 THEN (PagesOf(i) - 1) * Eff + plan.lastPageLen[r][i] ELSE 0
      globalKvLen == IF PagesOf(i) > 0 THEN (PagesOf(i) - 1) * PageSize + plan.globalLastPageLen[i] ELSE 0
      limit == CausalLimit(t - plan.qoIndptr[i], QueriesOf(i), kvLen, globalKvLen, r)
  IN Best({Candidate(gpu[r][SlotAt(i, x)], x * W + r) : x \in 0..limit}, K)

\* indexerTopk of a sharded cache: gathered by rows, then the best of all.
MergedTopk(t) == Best(Elements(Concat([r \in Ranks |-> layer.local[r][t]], K)), K)

\* tryMergeIndexerTopkByOwner: each owner merges its queries.
OwnerTopk(t) ==
  LET ownerQ == CeilDiv(plan.totalQ, W)
      dummy == [k \in 0..(K - 1) |-> Candidate(-1, 0)]
      padded(r, x) == LET q == x \div K
                      IN (IF q < plan.totalQ THEN layer.local[r][q] ELSE dummy)[x % K]
      staged(owner, x) == padded(x \div (ownerQ * K), owner * ownerQ * K + (x % (ownerQ * K)))
      query(owner, q, x) == staged(owner, (x \div K) * ownerQ * K + q * K + (x % K))
  IN Best({query(t \div ownerQ, t % ownerQ, x) : x \in 0..(W * K - 1)}, K)

\* indexerTopk of a gathered cache: each rank has some of the queries.
SplitTopk(t) ==
  LET localQ == CeilDiv(plan.totalQ, W)
      best(q) == LET i == plan.batchIndices[q]
                     start == plan.kvTokenIndptr[i]
                     prefix == AtLeast(0, KvLenOf(i) - QueriesOf(i))
                     limit == IF plan.decode THEN KvLenOf(i) - 1 ELSE prefix + q - plan.qoIndptr[i]
                 IN Best({Candidate(layer.gathered[start + x], x) : x \in 0..limit}, K)
      shard(r, q) == IF r * localQ + q < plan.totalQ THEN best(r * localQ + q)
                     ELSE [k \in 0..(K - 1) |-> Candidate(0, -1)]
  IN shard(t \div localQ, t % localQ)

Selected(best) == {best[k].index : k \in {j \in DOMAIN best : best[j].index >= 0}}

-----------------------------------------------------------------------------
(* Sparse attention                                                      *)

\* topkToSlots: of the positions selected, those of a rank, as slots.
PagedSlots(t, r) ==
  LET i == plan.batchIndices[t]
      localKvLen == (PagesOf(i) - 1) * Eff + plan.lastPageLen[r][i]
      local(p) == (p - r) \div W
  IN {SlotAt(i, local(p)) : p \in {q \in Selected(layer.merged[t]) : q % W = r /\ local(q) < localKvLen}}

\* The same for gathered pages: every rank has all of them.
FlatSlots(t) == {plan.kvTokenIndptr[plan.batchIndices[t]] + p : p \in Selected(layer.split[t])}

\* A head's attention to some tokens, all with the same weight: a fraction.
Attention(tokens, h) ==
  IF tokens = {} THEN [num |-> 0, den |-> 1]
  ELSE [num |-> (h + 1) * SumOver(tokens, LAMBDA x : x), den |-> Cardinality(tokens)]

Plus(a, b) == [num |-> a.num * b.den + b.num * a.den, den |-> a.den * b.den]
SameAs(a, b) == a.num * b.den = b.num * a.den

Sum(parts) ==
  LET f[n \in 0..W] == IF n = 0 THEN [num |-> 0, den |-> 1] ELSE Plus(f[n - 1], parts[n - 1])
  IN f[W]

\* agRsMerge of [totalQ, H] partial outputs and their softmax sums: corrected by
\* the sums of all ranks, transposed so that the scatter is by heads, and reduced.
\* The element of rank j's shard at x.
AgRsMerge(out, lse, j, x) ==
  LET h == H \div W
      corrected(r, b, n) ==
        LET o == out[r][b * H + n]
            total == SumOver(Ranks, LAMBDA q : lse[q][b * H + n])
        IN [num |-> o.num * lse[r][b * H + n], den |-> o.den * AtLeast(1, total)]
      transposed(r, y) == corrected(r, (y \div h) % plan.totalQ,
                                    (y \div (plan.totalQ * h)) * h + (y % h))
  IN Sum([r \in Ranks |-> transposed(r, j * plan.totalQ * h + x)])

\* The attention of all heads, on a cache that is sharded: heads are on ranks.
SparseMla(t, n) ==
  LET kept(r, q) == {gpu[r][s] : s \in layer.slots[r][q]}
      elements == 0..(plan.totalQ * H - 1)
      out == [r \in Ranks |-> [x \in elements |-> Attention(kept(r, x \div H), x % H)]]
      lse == [r \in Ranks |-> [x \in elements |-> Cardinality(kept(r, x \div H))]]
      h == H \div W
  IN AgRsMerge(out, lse, n \div h, t * h + (n % h))

-----------------------------------------------------------------------------
(* Operations                                                            *)

Done == layer.stage \in {"none", "done"}

\* Between steps: the plan is not used any more.
Forget ==
  /\ Done
  /\ plan' = NoPlan
  /\ layer' = NoLayer

InUse == UNION {{rows[i].pages[p] : p \in DOMAIN rows[i].pages} : i \in Row}

\* Rows with new tokens, and pages for them: any that are free.
Extended(seqLens, fresh) ==
  LET more(i) == CeilDiv(AllocLen(i) + seqLens[i], PageSize) - Len(rows[i].pages)
      before(i) == SumOver(0..(i - 1), more)
  IN [i \in Row |->
        [pages |-> rows[i].pages \o SubSeq(fresh, before(i) + 1, before(i) + more(i)),
         tokens |-> rows[i].tokens \o [x \in 1..seqLens[i] |-> ranking[i, AllocLen(i) + x - 1]]]]

Needed(seqLens) ==
  SumOver(Row, LAMBDA i : CeilDiv(AllocLen(i) + seqLens[i], PageSize) - Len(rows[i].pages))

\* Bound: the lowest n free pages, in either order.
FreshPages(n, used) ==
  LET lowest == {p \in (0..(Pages - 1)) \ used : Cardinality({q \in 0..(p - 1) : q \notin used}) < n}
      up == [x \in 1..n |-> CHOOSE p \in lowest : Cardinality({q \in lowest : q < p}) = x - 1]
  IN {up, [x \in 1..n |-> up[n + 1 - x]]}

\* planPrefill or planDecode.  A row may be empty when those before it have used
\* the budget of the chunk (selectPrefillChunk); those after it get nothing.
\* What the last layer has kept is gone.
Forward(seqLens, decode) ==
  /\ Done
  /\ \E i \in Row : seqLens[i] > 0
  /\ \A i \in Row : AllocLen(i) + seqLens[i] <= MaxLen
  /\ IF decode
     THEN \A i \in Row : AllocLen(i) > 0 /\ seqLens[i] = 1
     ELSE \A i \in Row : AllocLen(i) + seqLens[i] = 0 =>
            /\ \E j \in 0..(i - 1) : seqLens[j] > 0
            /\ \A j \in (i + 1)..(B - 1) : seqLens[j] = 0
  /\ Needed(seqLens) <= Pages - Cardinality(InUse)
  /\ \E fresh \in FreshPages(Needed(seqLens), InUse) : rows' = Extended(seqLens, fresh)
  /\ plan' = Plan(seqLens, decode)'
  /\ layer' = [stage |-> "planned"]
  /\ UNCHANGED <<gpu, host, stored, ranking>>

\* A layer: its pages are gathered while the one before it runs.
Gather ==
  /\ layer.stage = "planned"
  /\ layer' = [stage |-> "gathered", gathered |-> GatherPages]
  /\ UNCHANGED <<gpu, host, rows, stored, plan, ranking>>

\* The new tokens are written to the cache, and to the pages gathered.
AppendCache ==
  /\ layer.stage = "gathered"
  /\ gpu' = [r \in Ranks |-> Appended(gpu[r], r)]
  /\ layer' = [stage |-> "appended", gathered |-> AppendedFlat(layer.gathered)]
  /\ UNCHANGED <<host, rows, stored, plan, ranking>>

Score ==
  /\ layer.stage = "appended"
  /\ layer' = [stage |-> "scored",
               gathered |-> layer.gathered,
               local |-> [r \in Ranks |-> [t \in Query |-> LocalTopk(t, r)]]]
  /\ UNCHANGED <<gpu, host, rows, stored, plan, ranking>>

Index ==
  /\ layer.stage = "scored"
  /\ layer' = [stage |-> "indexed",
               gathered |-> layer.gathered,
               merged |-> [t \in Query |-> MergedTopk(t)],
               owners |-> [t \in Query |-> OwnerTopk(t)],
               split |-> [t \in Query |-> SplitTopk(t)]]
  /\ UNCHANGED <<gpu, host, rows, stored, plan, ranking>>

MapSlots ==
  /\ layer.stage = "indexed"
  /\ layer' = [stage |-> "slots",
               slots |-> [r \in Ranks |-> [t \in Query |-> PagedSlots(t, r)]],
               flat |-> [t \in Query |-> {layer.gathered[s] : s \in FlatSlots(t)}]]
  /\ UNCHANGED <<gpu, host, rows, stored, plan, ranking>>

Attend ==
  /\ layer.stage = "slots"
  /\ layer' = [stage |-> "done",
               flat |-> layer.flat,
               out |-> [t \in Query |-> [n \in 0..(H - 1) |-> SparseMla(t, n)]]]
  /\ UNCHANGED <<gpu, host, rows, stored, plan, ranking>>

\* Offload: full pages of a row go to the host tier, which drops what it had.
Offload(i) ==
  LET n == AllocLen(i) \div PageSize
  IN /\ n > 0
     /\ \E fresh \in FreshPages(n, {}) :
          /\ stored' = [pages |-> fresh, tokens |-> SubSeq(rows[i].tokens, 1, n * PageSize)]
          /\ host' = [r \in Ranks |-> Copied(gpu, EmptyCache, Runs(rows[i].pages, fresh, 0, n), r)]
     /\ Forget
     /\ UNCHANGED <<gpu, rows, ranking>>

\* Restore: pages a row does not have already are copied from the host tier.
Restore(i) ==
  LET n == Len(stored.pages)
      matched == AllocLen(i) \div PageSize
  IN /\ matched < n
     /\ AllocLen(i) % PageSize = 0
     /\ rows[i].tokens = SubSeq(stored.tokens, 1, AllocLen(i))
     /\ n - matched <= Pages - Cardinality(InUse)
     /\ \E fresh \in FreshPages(n - matched, InUse) :
          LET pages == rows[i].pages \o fresh
          IN /\ rows' = [rows EXCEPT ![i] = [pages |-> pages, tokens |-> stored.tokens]]
             /\ gpu' = [r \in Ranks |-> Copied(host, gpu, Runs(stored.pages, pages, matched, n), r)]
     /\ Forget
     /\ UNCHANGED <<host, stored, ranking>>

\* matchPrefix: a new row has full pages of another, shared.
Share(i, j, n) ==
  /\ i # j /\ AllocLen(i) = 0 /\ n * PageSize <= AllocLen(j)
  /\ rows' = [rows EXCEPT ![i] = [pages |-> SubSeq(rows[j].pages, 1, n),
                                  tokens |-> SubSeq(rows[j].tokens, 1, n * PageSize)]]
  /\ Forget
  /\ UNCHANGED <<gpu, host, stored, ranking>>

\* What is in pages that nobody has any more counts as nothing.
Clear(i) ==
  /\ AllocLen(i) > 0
  /\ Forget
  /\ rows' = [rows EXCEPT ![i] = EmptyRow]
  /\ gpu' = [r \in Ranks |-> [s \in Slots |-> IF s \div Eff \in InUse' THEN gpu[r][s] ELSE Free]]
  /\ UNCHANGED <<host, stored, ranking>>

Next ==
  \/ \E seqLens \in [Row -> Chunks] : Forward(seqLens, FALSE)
  \/ Forward([i \in Row |-> 1], TRUE)
  \/ Gather
  \/ AppendCache
  \/ Score
  \/ Index
  \/ MapSlots
  \/ Attend
  \/ \E i \in Row : Offload(i) \/ Restore(i) \/ Clear(i)
  \/ \E i, j \in Row : \E n \in 1..Pages : Share(i, j, n)

Spec == Init /\ [][Next]_vars
-----------------------------------------------------------------------------
(* Properties                                                            *)

\* Wherever appends and copies between tiers have put them, the tokens of a
\* sequence are on their ranks, in order.
TokensInPlace ==
  LET at(cache, row, p) == cache[p % W][Slot(row.pages[p \div PageSize + 1], p \div W)]
      whole(cache, row) == \A p \in 0..(Len(row.tokens) - 1) : at(cache, row, p) = row.tokens[p + 1]
  IN /\ layer.stage \notin {"planned", "gathered"} => \A i \in Row : whole(gpu, rows[i])
     /\ whole(host, stored)

\* The positions a query may select: the K best up to its own.
Wanted(t) ==
  LET seen == 0..plan.positions[t]
      value(p) == rows[plan.batchIndices[t]].tokens[p + 1]
  IN {p \in seen : Cardinality({q \in seen : value(q) > value(p)}) < K}

\* However the queries and the cache are split among ranks, each query selects
\* the positions it would with the whole cache on one.
SelectionIsBest ==
  layer.stage = "indexed" =>
    \A t \in Query : \A best \in {layer.merged[t], layer.owners[t], layer.split[t]} :
      Selected(best) = Wanted(t)

\* Gathered pages are the sequences, one after the other.
GatheredInOrder ==
  layer.stage = "appended" =>
    \A t \in Query :
      LET i == plan.batchIndices[t]
      IN \A p \in 0..plan.positions[t] :
           layer.gathered[plan.kvTokenIndptr[i] + p] = rows[i].tokens[p + 1]

\* Attention on ranks that each have a part of the cache, merged, is attention
\* to the tokens selected; so it is on gathered pages.
AttentionIsWhole ==
  layer.stage = "done" =>
    \A t \in Query :
      LET tokens == {rows[plan.batchIndices[t]].tokens[p + 1] : p \in Wanted(t)}
      IN /\ \A n \in 0..(H - 1) : SameAs(layer.out[t][n], Attention(tokens, n))
         /\ layer.flat[t] = tokens
=============================================================================
