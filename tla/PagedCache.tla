----------------------------- MODULE PagedCache -----------------------------
(***************************************************************************)
(* The values and operations of the paged KV cache: class Sequence of      *)
(* src/paged_sequence.ts and the page bookkeeping of class PagedKVCache of *)
(* src/paged_kv.ts.  A cache is a record, an operation is an operator from *)
(* a cache to the cache (or the set of caches) it can leave behind, so     *)
(* that PagedKV runs one cache as a state machine and PrefixTier composes  *)
(* the device cache with the host cache.                                   *)
(*                                                                         *)
(*   c.pages, c.allocLen, c.target   the fields of the Sequence objects,   *)
(*               by identity                                               *)
(*   c.sequences the batch: row -> Sequence (PagedKVCache.sequences)       *)
(*   c.staging   the staged Sequences (the keys of the Map are abstracted  *)
(*               to the identity of the Sequence they name)                *)
(*   c.refs      Page.refs            c.tokenIds  Page.tokenIds            *)
(*   c.available availablePages: as a set, so which free page an           *)
(*               allocation takes is left open (the code takes the first)  *)
(***************************************************************************)
EXTENDS Integers, FiniteSets, Sequences, SequencesExt

CONSTANTS Page,      \* page ids of the cache, 0 .. maxPages-1
          SeqId,     \* identities of Sequence objects
          Token,     \* token ids
          PageSize,  \* tokens per page
          None       \* undefined

ASSUME PageAssumption == IsFiniteSet(Page)
ASSUME SeqIdAssumption == IsFiniteSet(SeqId)
ASSUME PageSizeAssumption == PageSize \in Nat \ {0}

CeilDiv(n) == (n + PageSize - 1) \div PageSize

CacheType ==
  [pages     : [SeqId -> Seq(Page)],
   allocLen  : [SeqId -> Nat],
   target    : [SeqId -> Token \cup {None}],
   sequences : Seq(SeqId),
   staging   : SUBSET SeqId,
   refs      : [Page -> Nat],
   tokenIds  : [Page -> Seq(Token)],
   available : SUBSET Page]

EmptyCache == [pages     |-> [s \in SeqId |-> <<>>],
               allocLen  |-> [s \in SeqId |-> 0],
               target    |-> [s \in SeqId |-> None],
               sequences |-> <<>>,
               staging   |-> {},
               refs      |-> [p \in Page |-> 0],
               tokenIds  |-> [p \in Page |-> <<>>],
               available |-> Page]

\* f with v at x: EXCEPT as a constructor, for updates of updates.
Updated(f, x, v) == [y \in DOMAIN f |-> IF y = x THEN v ELSE f[y]]

\* c with its pages dealt out anew.
Repaged(c, pages, allocLen, refs, tokenIds, available) ==
  [pages |-> pages, allocLen |-> allocLen, target |-> c.target,
   sequences |-> c.sequences, staging |-> c.staging,
   refs |-> refs, tokenIds |-> tokenIds, available |-> available]

\* c with its Sequences in other rows or staged.
Rehomed(c, sequences, staging) ==
  [pages |-> c.pages, allocLen |-> c.allocLen, target |-> c.target,
   sequences |-> sequences, staging |-> staging,
   refs |-> c.refs, tokenIds |-> c.tokenIds, available |-> c.available]

\* The Sequences the cache can still reach: rows and staged ones.
Live(c) == Range(c.sequences) \cup c.staging

PagesOf(c, s) == Range(c.pages[s])

Holders(c, p) == {s \in Live(c) : p \in PagesOf(c, s)}

\* getTokenIds: the reported history, page by page.
TokensOf(c, s) ==
  FlattenSeq([k \in 1..Len(c.pages[s]) |-> c.tokenIds[c.pages[s][k]]])

\* reportedTokenCount: the page rows of s that hold a reported token.
Reported(c, s) ==
  LET pages == c.pages[s]
  IN Cardinality({row \in (DOMAIN pages) \X (1..PageSize) : row[2] <= Len(c.tokenIds[pages[row[1]]])})

Committed(c, s) == Reported(c, s) = c.allocLen[s]

\* tokenAfter: the history token at offset n (from 0), else the pending target
\* when n is the end of the history.
TokenAfter(c, s, n) ==
  LET pages == c.pages[s]
      k     == n \div PageSize + 1
      row   == (n % PageSize) + 1
  IN IF k <= Len(pages) /\ row <= Len(c.tokenIds[pages[k]])
     THEN c.tokenIds[pages[k]][row]
     ELSE IF n = Reported(c, s) THEN c.target[s] ELSE None

-----------------------------------------------------------------------------
(* Taking and giving up pages                                            *)

\* pushPage for each page of ps, then allocLen := len.  Those that were free
\* (availablePages.shift) no longer are.
PushPages(c, s, ps, len) ==
  Repaged(c, Updated(c.pages, s, c.pages[s] \o ps),
             Updated(c.allocLen, s, len),
             [p \in Page |-> IF p \in Range(ps) THEN c.refs[p] + 1 ELSE c.refs[p]],
             c.tokenIds,
             c.available \ Range(ps))

\* Mutant: the last reference goes and the page is not returned.
PopToLeaks(c, s, n) ==
  LET popped == {c.pages[s][k] : k \in (n + 1)..Len(c.pages[s])}
  IN Repaged(c, Updated(c.pages, s, SubSeq(c.pages[s], 1, n)),
             Updated(c.allocLen, s, IF c.allocLen[s] < n * PageSize THEN c.allocLen[s] ELSE n * PageSize),
             [p \in Page |-> IF p \in popped THEN c.refs[p] - 1 ELSE c.refs[p]],
             c.tokenIds, c.available)

\* popPage down to the first n pages.  A page whose last reference goes is
\* free again, and its Page object (its tokenIds) is gone.  Every caller
\* assigns the target afterwards.
PopTo(c, s, n) ==
  LET popped == {c.pages[s][k] : k \in (n + 1)..Len(c.pages[s])}
      freed  == {p \in popped : c.refs[p] = 1}
  IN Repaged(c, Updated(c.pages, s, SubSeq(c.pages[s], 1, n)),
                Updated(c.allocLen, s, IF c.allocLen[s] < n * PageSize THEN c.allocLen[s] ELSE n * PageSize),
                [p \in Page |-> IF p \in popped THEN c.refs[p] - 1 ELSE c.refs[p]],
                [p \in Page |-> IF p \in freed THEN <<>> ELSE c.tokenIds[p]],
                c.available \cup freed)

\* Sequence.clear for every Sequence of the set S.
ClearAll(c, S) ==
  LET left(p) == c.refs[p] - Cardinality({s \in S : p \in PagesOf(c, s)})
      freed   == {p \in Page : c.refs[p] > 0 /\ left(p) = 0}
      cleared == Repaged(c, [s \in SeqId |-> IF s \in S THEN <<>> ELSE c.pages[s]],
                            [s \in SeqId |-> IF s \in S THEN 0 ELSE c.allocLen[s]],
                            [p \in Page |-> left(p)],
                            [p \in Page |-> IF p \in freed THEN <<>> ELSE c.tokenIds[p]],
                            c.available \cup freed)
  IN [cleared EXCEPT !.target = [s \in SeqId |-> IF s \in S THEN None ELSE c.target[s]]]

Clear(c, s) == ClearAll(c, {s})

SetTarget(c, s, t) == [c EXCEPT !.target = Updated(c.target, s, t)]

-----------------------------------------------------------------------------
(* Batch and staging                                                     *)

\* Mutant: reset frees the pages but keeps the Page objects with their counts.
ResetKeepsRefs(c, rows) ==
  [pages     |-> [s \in SeqId |-> IF s \in c.staging THEN c.pages[s] ELSE <<>>],
   allocLen  |-> [s \in SeqId |-> IF s \in c.staging THEN c.allocLen[s] ELSE 0],
   target    |-> c.target,
   sequences |-> rows,
   staging   |-> c.staging,
   refs      |-> c.refs,
   tokenIds  |-> [p \in Page |-> <<>>],
   available |-> Page \ UNION {PagesOf(c, s) : s \in c.staging}]

\* reset: new, empty rows; every page no staged Sequence holds is free.  The
\* dropped rows are not cleared, so references they held stay counted.
Reset(c, rows) ==
  LET kept(s) == s \in c.staging
      held    == UNION {PagesOf(c, s) : s \in c.staging}
  IN [pages     |-> [s \in SeqId |-> IF kept(s) THEN c.pages[s] ELSE <<>>],
      allocLen  |-> [s \in SeqId |-> IF kept(s) THEN c.allocLen[s] ELSE 0],
      target    |-> [s \in SeqId |-> IF kept(s) THEN c.target[s] ELSE None],
      sequences |-> rows,
      staging   |-> c.staging,
      refs      |-> [p \in Page |-> IF p \in held THEN c.refs[p] ELSE 0],
      tokenIds  |-> [p \in Page |-> IF p \in held THEN c.tokenIds[p] ELSE <<>>],
      available |-> Page \ held]

\* The caller of reset holds no page in a row that reset would drop while a
\* staged Sequence is kept: admit stages every row, the flushes refuse to run
\* with pages in a row, the error path clears staging first.
ResetAllowed(c) ==
  \/ c.staging = {}
  \/ \A i \in DOMAIN c.sequences : c.pages[c.sequences[i]] = <<>>

Stage(c, i) == Rehomed(c, RemoveAt(c.sequences, i), c.staging \cup {c.sequences[i]})

Unstage(c, s) == Rehomed(c, Append(c.sequences, s), c.staging \ {s})

\* removeStagedSequence for every Sequence of S; clearStaging with S = staging.
RemoveStaged(c, S) == Rehomed(ClearAll(c, S), c.sequences, c.staging \ S)

RemoveSequence(c, i) == Rehomed(Clear(c, c.sequences[i]), RemoveAt(c.sequences, i), c.staging)

-----------------------------------------------------------------------------
(* Reserving and committing positions                                    *)

\* pagesNeededForAppend
PagesNeeded(c, s, n) ==
  LET need == CeilDiv(c.allocLen[s] + n) - Len(c.pages[s])
  IN IF need > 0 THEN need ELSE 0

\* The ways to take n free pages.
FreshPages(c, n) == {f \in [1..n -> c.available] : IsInjective(f)}

\* allocAppendPages once the pages are there.
AllocAppend(c, s, n) ==
  {PushPages(c, s, f, c.allocLen[s] + n) : f \in FreshPages(c, PagesNeeded(c, s, n))}

\* reportTokens: each page takes the tokens that fall on its rows, counted on
\* from the reported history.
ReportTokens(c, s, tokens, target) ==
  LET pages   == c.pages[s]
      start   == Reported(c, s)
      from(k) == IF (k - 1) * PageSize <= start THEN 1 ELSE (k - 1) * PageSize - start + 1
      to(k)   == IF k * PageSize - start <= Len(tokens) THEN k * PageSize - start ELSE Len(tokens)
      index(p) == CHOOSE k \in DOMAIN pages : pages[k] = p
      appended == [c EXCEPT !.tokenIds = [p \in Page |->
                     IF p \in Range(pages) THEN c.tokenIds[p] \o SubSeq(tokens, from(index(p)), to(index(p)))
                                           ELSE c.tokenIds[p]]]
  IN SetTarget(appended, s, target)

\* truncate up to the copy-on-write: positions from n on are given up.
CutTo(c, s, n) ==
  LET popped == PopTo(c, s, CeilDiv(n))
  IN SetTarget([popped EXCEPT !.allocLen = Updated(popped.allocLen, s, n)], s, TokenAfter(c, s, n))

\* The page that the next append after a cut to n writes into.
BoundaryPage(c, s) == Last(c.pages[s])

TrimmedTokens(c, p, n) ==
  LET kept == n % PageSize
  IN SubSeq(c.tokenIds[p], 1, IF kept < Len(c.tokenIds[p]) THEN kept ELSE Len(c.tokenIds[p]))

Trim(c, p, n) == [c EXCEPT !.tokenIds = Updated(c.tokenIds, p, TrimmedTokens(c, p, n))]

\* truncate's copy-on-write: s moves from its shared boundary page to a copy
\* of it in the free page q, and the old page loses s's reference.
CopyOnWrite(c, s, q) ==
  LET old == BoundaryPage(c, s)
  IN Repaged(c, Updated(c.pages, s, [c.pages[s] EXCEPT ![Len(c.pages[s])] = q]),
                c.allocLen,
                [p \in Page |-> IF p = q THEN 1 ELSE IF p = old THEN c.refs[p] - 1 ELSE c.refs[p]],
                Updated(c.tokenIds, q, c.tokenIds[old]),
                c.available \ {q})

-----------------------------------------------------------------------------
(* Prefix matching                                                       *)

\* longestPrefix: how many of b's non-empty prefixes are prefixes of a.
CommonPrefixLen(a, b) ==
  Cardinality({n \in 1..Len(b) : n <= Len(a) /\ \A k \in 1..n : a[k] = b[k]})

\* Tokens of input that s already holds, counted within its allocation.
CommonTokens(c, s, input) ==
  LET n == CommonPrefixLen(TokensOf(c, s), input)
  IN IF n < c.allocLen[s] THEN n ELSE c.allocLen[s]

\* s may be taken over whole, partial page included, by a prompt that extends it.
Resumable(c, s, input, allowed) ==
  LET n == CommonTokens(c, s, input)
  IN /\ s \in allowed
     /\ n = c.allocLen[s]
     /\ n < Len(input)
     /\ n % PageSize # 0
     /\ Committed(c, s)
     /\ Len(c.pages[s]) = CeilDiv(n)
     /\ c.refs[BoundaryPage(c, s)] = 1

\* Mutant: a partial page counts as a whole one.
MatchRoundsUp(c, s, input, maxPages, allowed) ==
  LET full == CeilDiv(CommonTokens(c, s, input))
  IN [donor |-> s, resume |-> FALSE, len |-> PageSize * (IF full < maxPages THEN full ELSE maxPages)]

\* What a match of input against s gives: whole pages, at most maxPages of
\* them, or all of s when it is resumed.
Match(c, s, input, maxPages, allowed) ==
  LET common == CommonTokens(c, s, input)
      full   == common \div PageSize
      resume == Resumable(c, s, input, allowed)
  IN [donor  |-> s,
      resume |-> resume,
      len    |-> IF resume THEN common ELSE PageSize * (IF full < maxPages THEN full ELSE maxPages)]

Candidates(c) == {s \in Live(c) : c.pages[s] # <<>>}

\* The longest non-empty matches.  Ties go to the first in batch then staging
\* order; any of them here.
BestMatches(c, input, maxPages, allowed) ==
  LET matches == {Match(c, s, input, maxPages, allowed) : s \in Candidates(c)}
  IN {m \in matches : m.len > 0 /\ \A other \in matches : other.len <= m.len}

\* The donor's Sequence takes over row i; the row's old Sequence is cleared,
\* and stands for the new empty Sequence in the row of an active donor.
TakeOver(c, i, donor) ==
  LET old == c.sequences[i]
  IN Rehomed(Clear(c, old),
             [j \in DOMAIN c.sequences |-> IF j = i THEN donor
                                           ELSE IF c.sequences[j] = donor THEN old
                                           ELSE c.sequences[j]],
             c.staging \ {donor})

\* Mutant: the donor's last pages instead of its first.
SharePagesTail(c, i, donor, n) ==
  LET s == c.sequences[i]
      u == c.pages[donor]
  IN PushPages(Clear(c, s), s, SubSeq(u, Len(u) - n + 1, Len(u)), n * PageSize)

\* Row i becomes a Sequence holding the donor's first n pages.  The new
\* Sequence replaces the cleared one and keeps its identity here.
SharePages(c, i, donor, n) ==
  LET s == c.sequences[i]
  IN PushPages(Clear(c, s), s, SubSeq(c.pages[donor], 1, n), n * PageSize)

TokenAt(input, n, otherwise) == IF n < Len(input) THEN input[n + 1] ELSE otherwise

\* matchPrefix of row i: the caches it can leave, each with the tokens matched.
MatchPrefix(c, i, input, maxPages, allowed) ==
  LET s    == c.sequences[i]
      best == BestMatches(c, input, maxPages, allowed)
      keep(m) == m.len \div PageSize
      share(m) == SetTarget(IF m.donor = s THEN PopTo(c, s, keep(m))
                                           ELSE SharePages(c, i, m.donor, keep(m)),
                            s, TokenAt(input, m.len, c.target[m.donor]))
      resume(m) == SetTarget(IF m.donor = s THEN c ELSE TakeOver(c, i, m.donor),
                             m.donor, input[m.len + 1])
  IN IF best = {}
     THEN {[cache |-> SetTarget(Clear(c, s), s, TokenAt(input, 0, None)), matched |-> 0]}
     ELSE {[cache |-> IF m.resume THEN resume(m) ELSE share(m), matched |-> m.len] : m \in best}

\* Mutant: the whole prompt may be matched.
PromptPagesAll(input) == Len(input) \div PageSize

\* prefixMatch leaves at least one token of the prompt to be prefilled.
PromptPages(input) == (IF input = <<>> THEN 0 ELSE Len(input) - 1) \div PageSize

PrefixMatch(c, i, input, allowed) ==
  MatchPrefix(c, i, input, PromptPages(input), allowed)
=============================================================================
