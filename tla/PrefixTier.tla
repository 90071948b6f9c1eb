----------------------------- MODULE PrefixTier -----------------------------
(****************************************************************************)
(* PrefixTierPolicy of src/generation-scheduler.ts: the device KV cache     *)
(* and the pinned host cache behind it, as two PagedCache values, with      *)
(* what their pages really contain.  Rows are admitted with whatever prefix *)
(* either tier has, finished rows are retained on the device, page          *)
(* pressure moves them to the host and drops them there, and a later match  *)
(* brings them back.                                                        *)
(*                                                                          *)
(*   tiers.gpu, tiers.host   the two caches                                 *)
(*   tiers.gpuKV, hostKV     what is in each page: the history whose KV its *)
(*                           last written rows belong to                    *)
(*   tiers.retained          retainedKeys, as the Sequences they name       *)
(*   work                    the scheduler's rows: all of the request's     *)
(*                           tokens, and those not yet computed             *)
(*                                                                          *)
(* Copies and kernels of a device run in the order they are enqueued, on    *)
(* one stream, and the host reads no page: a page's content changes here    *)
(* when the operation is enqueued.  Each public method is one action: its   *)
(* only await on this path is the drain at its end, during which the        *)
(* scheduler touches no cache.                                              *)
(****************************************************************************)
EXTENDS Integers, FiniteSets, Sequences, SequencesExt

CONSTANTS GpuPage, HostPage,  \* page ids of the caches
          GpuSeq, HostSeq,    \* identities of their Sequence objects (numbers)
          Token, PageSize, None,
          MaxBatch,           \* rows of the batch
          MaxLen,             \* bound: tokens of a request
          Prompts             \* bound: prompts that arrive

VARIABLES tiers, work

vars == <<tiers, work>>

G == INSTANCE PagedCache WITH Page <- GpuPage, SeqId <- GpuSeq
H == INSTANCE PagedCache WITH Page <- HostPage, SeqId <- HostSeq

Least(S) == CHOOSE x \in S : \A y \in S : x <= y

NewHostSeq(t) == Least(HostSeq \ H!Live(t.host))

\* What a page holds no longer matters once it is free.
Swept(t) ==
  [t EXCEPT !.gpuKV  = [p \in GpuPage |-> IF p \in t.gpu.available THEN <<>> ELSE t.gpuKV[p]],
            !.hostKV = [p \in HostPage |-> IF p \in t.host.available THEN <<>> ELSE t.hostKV[p]]]

-----------------------------------------------------------------------------
(* Page pressure                                                         *)

Largest(c, S) == {s \in S : \A r \in S : Len(c.pages[s]) >= Len(c.pages[r])}

\* evictHostStaged: staged host Sequences go, empty ones first, then the
\* largest, until n pages are free.
RECURSIVE EvictHostStaged(_, _)
EvictHostStaged(h, n) ==
  LET kept == H!RemoveStaged(h, {s \in h.staging : h.pages[s] = <<>>})
  IN IF Cardinality(h.available) >= n \/ h.staging = {} THEN {h}
     ELSE IF kept.staging = {} THEN {kept}
     ELSE UNION {EvictHostStaged(H!RemoveStaged(kept, {v}), n) : v \in Largest(kept, kept.staging)}

\* The pages of a Sequence between two indices, copied between the tiers.
CopiedPages(to, toPages, from, fromPages, first, last) ==
  [p \in DOMAIN to |->
     IF \E k \in first..last : toPages[k] = p
     THEN from[fromPages[CHOOSE k \in first..last : toPages[k] = p]]
     ELSE to[p]]

\* The new row of an offload that found no room.
Abandon(h, row) == H!RemoveSequence(h, row)

\* host.copyPrefixFrom(gpu, victim, new row) as evictGpuStaged calls it: what
\* the host has of the victim's history is shared, the other full pages are
\* copied, and when the host has no room the new row is removed again.
Offload(t, victim) ==
  LET d       == NewHostSeq(t)
      row     == Len(t.host.sequences) + 1
      history == G!TokensOf(t.gpu, victim)
      full    == Len(history) \div PageSize
      opened  == H!Rehomed(t.host, Append(t.host.sequences, d), t.host.staging)
      next    == H!TokenAt(history, full * PageSize, t.gpu.target[victim])
      filled(h, matched) ==
        [t EXCEPT !.host = H!ReportTokens(h, d, SubSeq(history, matched + 1, full * PageSize), next),
                  !.hostKV = CopiedPages(t.hostKV, h.pages[d], t.gpuKV, t.gpu.pages[victim],
                                         matched \div PageSize + 1, full)]
      appended(h, matched) ==
        IF full * PageSize > matched
        THEN LET need == H!PagesNeeded(h, d, full * PageSize - matched)
             IN UNION {IF need > Cardinality(e.available)
                       THEN {[t EXCEPT !.host = Abandon(e, row)]}
                       ELSE {filled(a, matched) : a \in H!AllocAppend(e, d, full * PageSize - matched)} :
                         e \in EvictHostStaged(h, need)}
        ELSE {filled(h, matched)}
  IN UNION {appended(m.cache, m.matched) : m \in H!MatchPrefix(opened, row, history, full, {})}

\* Mutant: the victim's pages are given up before they are copied.
EvictBeforeCopy(t, victim) ==
  LET gone == Swept([t EXCEPT !.gpu.available = @ \cup G!PagesOf(t.gpu, victim)])
  IN {[u EXCEPT !.gpu = G!RemoveStaged(t.gpu, {victim}), !.retained = @ \ {victim}] :
        u \in Offload(gone, victim)}

\* One round of evictGpuStaged: the victim goes to the host, as far as there is
\* room, and off the device.
EvictVictim(t, victim) ==
  {Swept([u EXCEPT !.gpu = G!RemoveStaged(u.gpu, {victim}), !.retained = @ \ {victim}]) :
     u \in Offload(t, victim)}

\* Mutant: any staged row may be evicted, those of running requests too.
AllStaged(t) == t.gpu.staging

\* What evictGpuStaged may take: retained rows only.
Evictable(t) == t.retained

\* evictGpuStaged: the largest first.
RECURSIVE EvictGpuStaged(_, _)
EvictGpuStaged(t, n) ==
  LET empty == {s \in t.retained : s \notin t.gpu.staging \/ t.gpu.pages[s] = <<>>}
      kept  == [t EXCEPT !.gpu = G!RemoveStaged(t.gpu, empty \cap t.gpu.staging),
                         !.retained = @ \ empty]
  IN IF Cardinality(t.gpu.available) >= n \/ Evictable(t) = {} THEN {t}
     ELSE IF Evictable(kept) = {} THEN {kept}
     ELSE UNION {UNION {EvictGpuStaged(u, n) : u \in EvictVictim(kept, v)} :
                   v \in Largest(kept.gpu, Evictable(kept))}

\* allocAppendPages on the device: the tiers with n more positions reserved for
\* s, or as the callback left them when the pages are not enough.
Reserve(t, s, n) ==
  LET need == G!PagesNeeded(t.gpu, s, n)
      room == IF need > Cardinality(t.gpu.available) THEN EvictGpuStaged(t, need) ELSE {t}
  IN UNION {IF need > Cardinality(u.gpu.available)
            THEN {[tiers |-> u, ok |-> FALSE]}
            ELSE {[tiers |-> [u EXCEPT !.gpu = g], ok |-> TRUE] : g \in G!AllocAppend(u.gpu, s, n)} :
              u \in room}
-----------------------------------------------------------------------------
(* Matching over both tiers                                              *)

\* stageHostSequences
StageHostSequences(h) ==
  LET empty == {s \in Range(h.sequences) : h.pages[s] = <<>>}
  IN H!Rehomed(h, <<>>, h.staging \cup (Range(h.sequences) \ empty))

\* hostSuffix: row i of the host is matched with the i-th prompt, for i from 1.
RECURSIVE MatchHost(_, _, _)
MatchHost(t, prompts, i) ==
  IF i > Len(prompts) THEN {t}
  ELSE LET d == NewHostSeq(t)
           opened == H!Rehomed(t.host, Append(t.host.sequences, d), t.host.staging)
       IN UNION {MatchHost([t EXCEPT !.host = m.cache], prompts, i + 1) :
                   m \in H!PrefixMatch(opened, i, prompts[i], {})}

\* matchGpuPrefixes: a retained row that a request resumes leaves staging.
RECURSIVE MatchGpu(_, _, _)
MatchGpu(t, prompts, i) ==
  IF i > Len(prompts) THEN {t}
  ELSE UNION {MatchGpu([t EXCEPT !.gpu = m.cache, !.retained = @ \cap m.cache.staging],
                       prompts, i + 1) :
                m \in G!PrefixMatch(t.gpu, i, prompts[i], t.retained)}

GpuCached(t, i) == t.gpu.allocLen[t.gpu.sequences[i]]
HostCached(t, i) == t.host.allocLen[t.host.sequences[i]]

\* Mutant: only rows that found nothing on the device are restored.
RestoreMisses(t, prompts) == {i \in DOMAIN prompts : HostCached(t, i) > 0 /\ GpuCached(t, i) = 0}

\* The rows of the batch for which the host slot is longer.
RestoreRows(t, prompts) == {i \in DOMAIN prompts : HostCached(t, i) > GpuCached(t, i)}

\* Superseded host slots are staged again, or removed when empty.
Restage(t, restore) ==
  LET slots  == t.host.sequences
      others == {slots[i] : i \in DOMAIN slots \ restore}
      keep(s) == s \notin others
  IN [t EXCEPT !.host = H!Rehomed(t.host, SelectSeq(slots, keep),
                                  t.host.staging \cup {s \in others : t.host.pages[s] # <<>>})]

\* gpu.copyPrefixFrom(host, src, i, pages)
Restore(t, src, i) ==
  LET history == H!TokensOf(t.host, src)
      full    == Len(history) \div PageSize
      next    == t.host.target[src]
      filled(u, matched) ==
        LET s == u.gpu.sequences[i]
        IN Swept([u EXCEPT !.gpu = G!ReportTokens(u.gpu, s, SubSeq(history, matched + 1, full * PageSize), next),
                           !.gpuKV = CopiedPages(u.gpuKV, u.gpu.pages[s], u.hostKV, u.host.pages[src],
                                                 matched \div PageSize + 1, full)])
  IN UNION {{[tiers |-> IF r.ok THEN filled(r.tiers, m.matched) ELSE r.tiers, ok |-> r.ok] :
               r \in Reserve([t EXCEPT !.gpu = m.cache], m.cache.sequences[i],
                             full * PageSize - m.matched)} :
              m \in G!MatchPrefix(t.gpu, i, history, full, {})}

\* The restores, from the last row to the first; one that fails fails the batch.
RECURSIVE RestoreAll(_, _)
RestoreAll(t, sources) ==
  IF sources = <<>> THEN {[tiers |-> t, ok |-> TRUE]}
  ELSE UNION {IF r.ok THEN RestoreAll(r.tiers, Tail(sources)) ELSE {r} :
                r \in Restore(t, Head(sources)[2], Head(sources)[1])}

\* prefixMatch, for rows 1 .. Len(prompts) of the device batch.
PrefixMatch(t, prompts) ==
  UNION {UNION {
    LET rows    == RestoreRows(g, prompts)
        pick(i) == i \in rows
        order   == SelectSeq([k \in 1..Len(prompts) |-> Len(prompts) + 1 - k], pick)
        sources == [k \in DOMAIN order |-> <<order[k], g.host.sequences[order[k]]>>]
    IN RestoreAll(Restage(g, rows), sources) :
    g \in MatchGpu(h, prompts, 1)} :
    h \in MatchHost([t EXCEPT !.host = StageHostSequences(@)], prompts, 1)}
-----------------------------------------------------------------------------
(* The scheduler's use of it                                             *)

Init ==
  /\ tiers = [gpu |-> G!EmptyCache, host |-> H!EmptyCache,
              gpuKV |-> [p \in GpuPage |-> <<>>], hostKV |-> [p \in HostPage |-> <<>>],
              retained |-> {}]
  /\ work = <<>>

Row(i) == tiers.gpu.sequences[i]

\* Bound: Sequence objects for n new rows of each cache and for every offload
\* that can happen meanwhile.  Nothing in the code bounds those of the host:
\* every hit and every offload leaves one more, until pressure drops it.
Room(n) ==
  /\ Cardinality(GpuSeq \ G!Live(tiers.gpu)) >= n
  /\ Cardinality(HostSeq \ H!Live(tiers.host)) >= n + Cardinality(tiers.retained)

\* The catch block of run(): both tiers lose what is staged, the device
\* everything; active host slots stay.
Failed(t) ==
  Swept([t EXCEPT !.gpu = G!Reset(G!RemoveStaged(t.gpu, t.gpu.staging), <<>>),
                  !.host = H!RemoveStaged(t.host, t.host.staging),
                  !.retained = {}])

\* admit: the rows of the batch are staged, the batch is reset to one row per
\* request, these are matched, and the old rows come back behind them.
Admit(prompts) ==
  LET old    == tiers.gpu.sequences
      staged == G!Rehomed(tiers.gpu, <<>>, tiers.gpu.staging \cup Range(old))
      news   == CHOOSE f \in [DOMAIN prompts -> GpuSeq \ G!Live(tiers.gpu)] : IsInjective(f)
      start  == [tiers EXCEPT !.gpu = G!Reset(staged, news)]
      back(t) == [t EXCEPT !.gpu = G!Rehomed(t.gpu, t.gpu.sequences \o old, t.gpu.staging \ Range(old))]
      row(t, i) == [text |-> prompts[i],
                    rest |-> SubSeq(prompts[i], GpuCached(t, i) + 1, Len(prompts[i]))]
  IN /\ Room(Len(prompts))
     /\ Len(work) + Len(prompts) <= MaxBatch
     /\ \E r \in PrefixMatch(start, prompts) :
          IF r.ok
          THEN /\ tiers' = Swept(back(r.tiers))
               /\ work' = [i \in DOMAIN prompts |-> row(r.tiers, i)] \o work
          ELSE tiers' = Failed(r.tiers) /\ work' = <<>>

\* The content that computing tokens after the history in s gives its pages:
\* attention reads what is in the pages before.
Computed(t, s, start, tokens) ==
  LET pages == t.gpu.pages[s]
      page(n) == pages[n \div PageSize + 1]
      before == IF start = 0 THEN <<>> ELSE SubSeq(t.gpuKV[page(start - 1)], 1, start)
      upTo(k) == IF k * PageSize < start + Len(tokens) THEN k * PageSize ELSE start + Len(tokens)
      touched == {k \in DOMAIN pages : upTo(k) > start}
  IN [p \in GpuPage |-> IF \E k \in touched : pages[k] = p
                        THEN before \o SubSeq(tokens, 1, upTo(CHOOSE k \in touched : pages[k] = p) - start)
                        ELSE t.gpuKV[p]]

\* Positions for tokens are reserved, computed and reported, or the batch fails.
Extend(i, tokens, target, request) ==
  Room(0) /\ \E r \in Reserve(tiers, Row(i), Len(tokens)) :
    IF r.ok
    THEN LET t == r.tiers
             start == G!Reported(t.gpu, Row(i))
         IN /\ tiers' = [t EXCEPT !.gpuKV = Computed(t, Row(i), start, tokens),
                                  !.gpu = G!ReportTokens(t.gpu, Row(i), tokens, target)]
            /\ work' = [work EXCEPT ![i] = request]
    ELSE tiers' = Failed(r.tiers) /\ work' = <<>>

\* A chunk of a prompt, the last one with a sampled token to go on with.
PrefillChunk(i, n) ==
  LET rest  == work[i].rest
      after == SubSeq(rest, n + 1, Len(rest))
  IN /\ n <= Len(rest)
     /\ \E next \in IF after = <<>> THEN Token ELSE {Head(after)} :
          Extend(i, SubSeq(rest, 1, n), next, [work[i] EXCEPT !.rest = after])

DecodeToken(i) ==
  LET token == tiers.gpu.target[Row(i)]
  IN /\ \A j \in DOMAIN work : work[j].rest = <<>>
     /\ Len(work[i].text) < MaxLen
     /\ \E next \in Token :
          Extend(i, <<token>>, next, [work[i] EXCEPT !.text = Append(@, token)])

\* removeFinished: a row whose prompt is computed is retained, any other dropped.
Finish(i) ==
  /\ tiers' = IF work[i].rest = <<>>
              THEN [tiers EXCEPT !.gpu = G!Stage(@, i), !.retained = @ \cup {Row(i)}]
              ELSE Swept([tiers EXCEPT !.gpu = G!RemoveSequence(@, i)])
  /\ work' = RemoveAt(work, i)

BatchError ==
  /\ work # <<>>
  /\ tiers' = Failed(tiers)
  /\ work' = <<>>

\* flushGpuCache: everything retained goes to the host, as far as there is room.
FlushGpuCache ==
  /\ work = <<>>
  /\ Room(0)
  /\ \E t \in EvictGpuStaged([tiers EXCEPT !.host = StageHostSequences(@)], Cardinality(GpuPage)) :
       tiers' = Swept([t EXCEPT !.gpu = G!Reset(@, <<>>)])
  /\ UNCHANGED work

FlushHostCache ==
  /\ work = <<>>
  /\ tiers' = Swept([tiers EXCEPT !.host = H!Reset(H!RemoveStaged(@, @.staging), <<>>)])
  /\ UNCHANGED work

Next ==
  \/ \E n \in 1..MaxBatch : \E prompts \in [1..n -> Prompts] : Admit(prompts)
  \/ \E i \in DOMAIN work :
       \/ \E n \in 1..MaxLen : PrefillChunk(i, n)
       \/ DecodeToken(i)
       \/ Finish(i)
  \/ BatchError
  \/ FlushGpuCache
  \/ FlushHostCache

Spec == Init /\ [][Next]_vars
-----------------------------------------------------------------------------
(* Properties                                                            *)

\* Whatever history a reachable Sequence of either tier claims, the KV of that
\* very history is in its pages: no copy, share, restore or reuse of a page
\* leaves other content behind a claim.
KVSound ==
  /\ \A s \in G!Live(tiers.gpu) :
       LET claim == G!TokensOf(tiers.gpu, s)
       IN \A k \in DOMAIN tiers.gpu.pages[s] :
            LET n == IF k * PageSize < Len(claim) THEN k * PageSize ELSE Len(claim)
            IN (k - 1) * PageSize < n =>
                 IsPrefix(SubSeq(claim, 1, n), tiers.gpuKV[tiers.gpu.pages[s][k]])
  /\ \A s \in H!Live(tiers.host) :
       LET claim == H!TokensOf(tiers.host, s)
       IN \A k \in DOMAIN tiers.host.pages[s] :
            SubSeq(claim, 1, k * PageSize) = tiers.hostKV[tiers.host.pages[s][k]]

\* A row has exactly its request's tokens: those cached, restored and computed,
\* followed by those still to compute, whatever was evicted in between.
RowsHoldRequests ==
  /\ Len(tiers.gpu.sequences) = Len(work)
  /\ \A i \in DOMAIN work :
       /\ G!TokensOf(tiers.gpu, Row(i)) \o work[i].rest = work[i].text
       /\ tiers.gpu.allocLen[Row(i)] = G!Reported(tiers.gpu, Row(i))
       /\ work[i].rest # <<>> => tiers.gpu.target[Row(i)] = Head(work[i].rest)

\* Each page of each tier is free or held, and never both: neither an abandoned
\* offload nor an eviction in the middle of a restore loses pages.
TiersAccountPages ==
  /\ \A p \in GpuPage : (p \in tiers.gpu.available) # (G!Holders(tiers.gpu, p) # {})
  /\ \A p \in HostPage : (p \in tiers.host.available) # (H!Holders(tiers.host, p) # {})

\* Both: each row has its request, and each tier its pages.
BooksKept == RowsHoldRequests /\ TiersAccountPages

\* An admission reuses at least the whole pages that any Sequence of either
\* tier had of the prompt when it began, whatever the others of its batch took.
AdmissionReusesBest ==
  [][\A i \in 1..(Len(work') - Len(work)) :
       LET prompt == work'[i].text
           cached == Len(prompt) - Len(work'[i].rest)
           usable == SubSeq(prompt, 1, Len(prompt) - 1)
       IN /\ \A s \in G!Live(tiers.gpu) :
               G!CommonPrefixLen(G!TokensOf(tiers.gpu, s), usable) < cached + PageSize
          /\ \A s \in H!Live(tiers.host) :
               H!CommonPrefixLen(H!TokensOf(tiers.host, s), usable) < cached + PageSize]_vars
=============================================================================
