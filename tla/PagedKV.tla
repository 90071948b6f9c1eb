------------------------------ MODULE PagedKV ------------------------------
(***************************************************************************)
(* One PagedKVCache (src/paged_kv.ts) driven by its callers: the scheduler *)
(* (reset, stage, unstage, remove, match), the models (reserve, report,    *)
(* truncate) and the prefix tiers (copy a prefix in from another cache).   *)
(* Each method runs to its end in one JavaScript turn, so each is one      *)
(* action.  onPagePressure, when installed, may drop staged Sequences in   *)
(* the middle of a method.                                                 *)
(***************************************************************************)
EXTENDS PagedCache

CONSTANTS MaxBatch,    \* rows of the batch
          MaxLen,      \* bound: positions of a Sequence
          Prompts,     \* bound: prompts to match
          Chunks,      \* bound: runs of tokens reported at once
          Pending,     \* bound: next tokens the model may leave pending
          Foreign,     \* bound: histories in the other tier's cache
          Pressure     \* TRUE when onPagePressure is installed

ASSUME MaxBatchAssumption == MaxBatch \in Nat
ASSUME MaxLenAssumption == MaxLen \in Nat
ASSUME PressureAssumption == Pressure \in BOOLEAN
ASSUME InputAssumption ==
  /\ Prompts \subseteq Seq(Token) \ {<<>>}
  /\ Chunks \subseteq Seq(Token)
  /\ Foreign \subseteq Seq(Token)
  /\ Pending \subseteq Token \cup {None}

VARIABLES cache,
          failed   \* truncate threw halfway: the batch error path must run

vars == <<cache, failed>>

Rows == DOMAIN cache.sequences
Row(i) == cache.sequences[i]
AllocLen(s) == cache.allocLen[s]

\* ensureAvailablePages(n) of cache c: when pages are missing the callback
\* drops whichever staged Sequences it chooses; nothing else changes.
EnsureAvailable(c, n) ==
  IF Pressure /\ n > Cardinality(c.available)
  THEN {RemoveStaged(c, S) : S \in SUBSET c.staging}
  ELSE {c}

\* allocAppendPages of n positions: reserve them, or throw PageAllocationError
\* and leave what the callback did.
Append_(c, s, n) ==
  UNION {IF PagesNeeded(d, s, n) <= Cardinality(d.available) THEN AllocAppend(d, s, n) ELSE {d} :
           d \in EnsureAvailable(c, PagesNeeded(c, s, n))}

\* allowResume: absent, the staged Sequences (the retained ones), or all.
Permissions == {{}, cache.staging, Live(cache)}
-----------------------------------------------------------------------------
Init == cache = EmptyCache /\ failed = FALSE

Reset_(n) ==
  /\ ResetAllowed(cache)
  /\ \E rows \in [1..n -> SeqId \ cache.staging] :
       IsInjective(rows) /\ cache' = Reset(cache, rows)
  /\ failed' = FALSE

StageSequence(i) ==
  ~failed /\ cache' = Stage(cache, i) /\ UNCHANGED failed

UnstageSequence(s) ==
  /\ ~failed
  /\ Len(cache.sequences) < MaxBatch
  /\ cache' = Unstage(cache, s)
  /\ UNCHANGED failed

RemoveStagedSequence(s) ==
  ~failed /\ cache' = RemoveStaged(cache, {s}) /\ UNCHANGED failed

\* clearStaging, also the first step of the batch error path.
ClearStaging ==
  cache' = RemoveStaged(cache, cache.staging) /\ UNCHANGED failed

RemoveRow(i) ==
  ~failed /\ cache' = RemoveSequence(cache, i) /\ UNCHANGED failed

PrefixMatch_(i, input, allowed) ==
  /\ ~failed
  /\ \E m \in PrefixMatch(cache, i, input, allowed) : cache' = m.cache
  /\ UNCHANGED failed

\* copyPrefixFrom: the history and pending target of a Sequence of another
\* cache, up to maxPages full pages of it.  If pages are missing it throws
\* with the part already matched here kept.
CopyPrefixFrom(i, history, target, maxPages) ==
  LET whole == Len(history) \div PageSize
      full  == IF whole < maxPages THEN whole ELSE maxPages
  IN /\ ~failed
     /\ \E m \in MatchPrefix(cache, i, history, full, {}) :
          LET s     == m.cache.sequences[i]
              fresh == full * PageSize - m.matched
              next  == TokenAt(history, full * PageSize, target)
          IN \E c \in Append_(m.cache, s, fresh) :
               cache' = IF c.allocLen[s] = full * PageSize
                        THEN ReportTokens(c, s, SubSeq(history, m.matched + 1, full * PageSize), next)
                        ELSE c
     /\ UNCHANGED failed

\* copySequence: full pages are shared, a partial page is copied.
CopySequence(d, i) ==
  LET src  == Row(i)
      dst  == Row(d)
      keep == AllocLen(src) \div PageSize
      c0   == IF keep = 0 THEN Clear(cache, dst) ELSE SharePages(cache, d, src, keep)
      fill(c) == Repaged(c, c.pages, Updated(c.allocLen, dst, AllocLen(src)), c.refs,
                         Updated(c.tokenIds, BoundaryPage(c, dst), c.tokenIds[c.pages[src][keep + 1]]),
                         c.available)
  IN /\ ~failed
     /\ d # i
     /\ Committed(cache, src)
     /\ IF AllocLen(src) % PageSize = 0
        THEN cache' = SetTarget(c0, dst, cache.target[src])
        ELSE \E c \in Append_(c0, dst, PageSize) :
               cache' = IF Len(c.pages[dst]) > keep
                        THEN SetTarget(fill(c), dst, cache.target[src])
                        ELSE c
     /\ UNCHANGED failed

\* allocAppendPages, allocDecodeToken (n = 1)
AllocAppendPages(i, n) ==
  /\ ~failed
  /\ AllocLen(Row(i)) + n <= MaxLen
  /\ cache' \in Append_(cache, Row(i), n)
  /\ UNCHANGED failed

ReportTokens_(i, tokens, target) ==
  /\ ~failed
  /\ Reported(cache, Row(i)) + Len(tokens) <= AllocLen(Row(i))
  /\ cache' = ReportTokens(cache, Row(i), tokens, target)
  /\ UNCHANGED failed

\* Mutant: truncate without the copy-on-write.
TruncateInPlace(i, n) ==
  LET c1 == CutTo(cache, Row(i), n)
  IN /\ ~failed
     /\ n < AllocLen(Row(i))
     /\ cache' = IF n % PageSize = 0 THEN c1 ELSE Trim(c1, BoundaryPage(c1, Row(i)), n)
     /\ UNCHANGED failed

\* Sequence.truncate(n)
Truncate(i, n) ==
  LET s  == Row(i)
      c1 == CutTo(cache, s, n)
      old == BoundaryPage(c1, s)
  IN /\ ~failed
     /\ n < AllocLen(s)
     /\ IF n % PageSize = 0
        THEN cache' = c1 /\ UNCHANGED failed
        ELSE IF c1.refs[old] <= 1
        THEN cache' = Trim(c1, old, n) /\ UNCHANGED failed
        ELSE \E c2 \in EnsureAvailable(c1, 1) :
               IF c2.available = {}
               THEN cache' = c2 /\ failed' = TRUE
               ELSE /\ \E q \in c2.available :
                         cache' = LET c3 == CopyOnWrite(c2, s, q) IN Trim(c3, q, n)
                    /\ UNCHANGED failed

\* generateMtpDecode gives up the draft positions, back to the committed
\* history, but keeps their pages.
RewindReservation(i) ==
  /\ ~failed
  /\ Reported(cache, Row(i)) <= AllocLen(Row(i))
  /\ cache' = [cache EXCEPT !.allocLen = Updated(cache.allocLen, Row(i), Reported(cache, Row(i)))]
  /\ UNCHANGED failed

Next ==
  \/ \E n \in 0..MaxBatch : Reset_(n)
  \/ ClearStaging
  \/ \E s \in cache.staging : UnstageSequence(s) \/ RemoveStagedSequence(s)
  \/ \E i \in Rows :
       \/ StageSequence(i)
       \/ RemoveRow(i)
       \/ \E input \in Prompts, allowed \in Permissions : PrefixMatch_(i, input, allowed)
       \/ \E history \in Foreign, target \in Pending, maxPages \in 0..CeilDiv(MaxLen) :
            CopyPrefixFrom(i, history, target, maxPages)
       \/ \E d \in Rows : CopySequence(d, i)
       \/ \E n \in 1..MaxLen : AllocAppendPages(i, n) \/ Truncate(i, MaxLen - n)
       \/ \E tokens \in Chunks, target \in Pending : ReportTokens_(i, tokens, target)
       \/ RewindReservation(i)

Spec == Init /\ [][Next]_vars
-----------------------------------------------------------------------------
(* Properties                                                            *)

\* Types, every counter non-negative.
TypeOK == cache \in CacheType /\ failed \in BOOLEAN

\* A Sequence is reachable from one place only: one row, or staging.
OneHome ==
  /\ IsInjective(cache.sequences)
  /\ Range(cache.sequences) \cap cache.staging = {}

\* Page.refs counts exactly the reachable Sequences that hold the page, so a
\* page is freed by the last of them and by no other.
RefsExact == \A p \in Page : cache.refs[p] = Cardinality(Holders(cache, p))

\* A page an allocation may hand out is held by no Sequence.
FreePagesUnheld == \A p \in cache.available : Holders(cache, p) = {}

\* Only full pages are shared (comment at paged_sequence.ts:11): the page the
\* next reported token goes to belongs to one Sequence alone.
SharedPagesFull ==
  ~failed => \A p \in Page : Cardinality(Holders(cache, p)) > 1 => Len(cache.tokenIds[p]) = PageSize

\* KV rows depend on the whole history before them: Sequences that share a
\* page hold it at the same index and share every page before it.
SharingIsPrefix ==
  \A s, t \in Live(cache) : \A j \in DOMAIN cache.pages[s], k \in DOMAIN cache.pages[t] :
    cache.pages[s][j] = cache.pages[t][k] =>
      j = k /\ SubSeq(cache.pages[s], 1, j) = SubSeq(cache.pages[t], 1, k)

\* [full pages...] [partial page] [empty pages...], history within the
\* reservation, reservation within the pages (comment at paged_sequence.ts:31).
PageLayout ==
  ~failed => \A s \in Live(cache) :
    LET pages == cache.pages[s]
        fill(k) == Len(cache.tokenIds[pages[k]])
    IN /\ Reported(cache, s) <= AllocLen(s)
       /\ AllocLen(s) <= Len(pages) * PageSize
       /\ \A k \in DOMAIN pages : fill(k) <= PageSize
       /\ \A k \in 2..Len(pages) : fill(k) > 0 => fill(k - 1) = PageSize

\* The layout of pages that append, share and truncate rely on of each other.
LayoutSound == SharedPagesFull /\ PageLayout

\* Every page is free or held: none is lost to both.
NoPageLost == \A p \in Page : p \in cache.available \/ Holders(cache, p) # {}

\* A page is lost in one way only: the callback of ensureAvailablePages dropped
\* the last other Sequence that held it while truncate, which had counted that
\* one as a reader, was about to replace the page in its own row.
LostOnlyByEviction ==
  [][\A p \in Page :
       LET lost(c) == p \notin c.available /\ Holders(c, p) = {}
           replaced(s) == \E k \in DOMAIN cache'.pages[s] :
                            cache.pages[s][k] = p /\ cache'.pages[s][k] # p
       IN ~lost(cache) /\ lost(cache') =>
            /\ \E s \in cache.staging \ cache'.staging : p \in PagesOf(cache, s)
            /\ \E i \in Rows : /\ Len(cache'.pages[Row(i)]) <= Len(cache.pages[Row(i)])
                              /\ replaced(Row(i))]_vars

\* tokenIds are never mutated under another reader: a step that leaves a
\* Sequence a new history leaves every other one its own, or drops it.
OthersKeepHistory ==
  [][\A s, t \in Live(cache) \cap Live(cache)' :
       LET kept(u) == TokensOf(cache', u) \in {TokensOf(cache, u), <<>>}
       IN s = t \/ kept(s) \/ kept(t)]_vars

\* What admission relies on: after a match the row holds a proper prefix of
\* the prompt, at least as many whole pages of it as any Sequence had, with
\* the next prompt token pending, and no other Sequence has lost anything
\* except the one that was resumed.
MatchSound ==
  ~failed => \A i \in Rows, input \in Prompts, allowed \in Permissions :
    \A m \in PrefixMatch(cache, i, input, allowed) :
      LET row == m.cache.sequences[i]
          history == TokensOf(m.cache, row)
      IN /\ IsPrefix(history, input)
         /\ Len(history) = m.matched
         /\ m.matched < Len(input)
         /\ m.cache.allocLen[row] = m.matched
         /\ m.cache.target[row] = input[m.matched + 1]
         /\ \A s \in Live(cache) :
              CommonPrefixLen(TokensOf(cache, s), SubSeq(input, 1, Len(input) - 1)) < m.matched + PageSize
         /\ \A s \in Live(cache) \ {Row(i)} :
              \/ s = row
              \/ s \in Live(m.cache) /\ TokensOf(m.cache, s) = TokensOf(cache, s)

\* The inductive core of the ownership invariants: what every operation of the
\* cache takes over from the one before it.
Owned(pages, refs, available) ==
  /\ \A s \in SeqId : IsInjective(pages[s])
  /\ \A p \in Page : refs[p] = Cardinality({s \in SeqId : p \in Range(pages[s])})
  /\ \A p \in available : refs[p] = 0

Consistent(c) ==
  /\ c \in CacheType
  /\ IsInjective(c.sequences)
  /\ Range(c.sequences) \cap c.staging = {}
  /\ Owned(c.pages, c.refs, c.available)
  /\ \A s \in SeqId : CeilDiv(c.allocLen[s]) <= Len(c.pages[s])
  /\ \A s \in SeqId \ Live(c) : c.pages[s] = <<>>

Inv == Consistent(cache) /\ failed \in BOOLEAN
=============================================================================
