--------------------------- MODULE Streams_proofs ---------------------------
(***************************************************************************)
(* Proofs about Streams: memory is never used again too early (SafeReuse), *)
(* and what is disposed of comes back once (Accounted), for any streams,   *)
(* blocks, tensors and depth.                                              *)
(*                                                                         *)
(* The invariant is Sound, about given books and a given order of the      *)
(* device, so that it can be stated in the middle of an operation: a       *)
(* disposal or a join first queues tensors on one stream and then          *)
(* reconciles it, and the streams in X are those still to be reconciled.   *)
(***************************************************************************)
EXTENDS Streams, FiniteSetTheorems, SequenceTheorems, TLAPS

Uses   == Stream \cup {Born}
Places == Stream \cup {Synced, "held", "fresh"}

BooksType == [pending : [Stream -> SUBSET Tensor],
              status : [Tensor -> {"none", "live", "pending", "gone"}],
              home : [Block -> Places],
              workspaces : SUBSET Alternate]
OrderType == [Tensor -> [Uses -> SUBSET Stream]]

\* t is a live tensor, or one that waits to be disposed of.
InUse(B, t) == B.status[t] \in {"live", "pending"}

\* Everything t is used for comes before what s does next, or is done.
Behind(o, s, t) == \A i \in Uses : s \in o[t][i]
Done(o, t) == \A i \in Uses : o[t][i] = Stream

\* A view is of a root, of the same memory, that outlives it.
Rooted(B) ==
  \A t \in Tensor :
    /\ block[t] = None <=> B.status[t] = "none"
    /\ block[t] = None => root[t] = None
    /\ root[t] # None => /\ root[root[t]] = None /\ block[root[t]] = block[t]
                         /\ InUse(B, t) => InUse(B, root[t])

\* Memory has one root at a time.
OneRoot == \A x, y \in Tensor : block[x] = block[y] /\ block[x] # None => RootOf(x) = RootOf(y)

\* Memory is held while a tensor in use stands for it, and only then.
Held(B) ==
  /\ \A b \in Block : B.home[b] = "held" => \E t \in Tensor : block[t] = b /\ InUse(B, t)
  /\ \A t \in Tensor : InUse(B, t) => B.home[block[t]] = "held"
  /\ \A t \in Tensor : block[t] # None => B.home[block[t]] # "fresh"

\* A tensor waits for its disposal on one stream.
Queued(B) ==
  /\ \A s \in Stream : \A t \in B.pending[s] : B.status[t] = "pending"
  /\ \A t \in Tensor : B.status[t] = "pending" => \E s \in Stream : t \in B.pending[s]
  /\ \A s, u \in Stream : B.pending[s] \cap B.pending[u] # {} => s = u

\* What waits on s cannot be disposed of yet.
Settled(B, s) ==
  \A t \in B.pending[s] : IF root[t] = None THEN ViewsIn(B, t) # {} ELSE root[t] \notin B.pending[s]

\* The stream a tensor waits on comes after its uses, and after those of its
\* disposed views, unless these are done.
Ordered(B, o) ==
  /\ \A s \in Stream : \A t \in B.pending[s] : Behind(o, s, t)
  /\ \A t \in Tensor :
       B.status[t] = "gone" /\ root[t] # None /\ InUse(B, root[t])
         => Done(o, t) \/ \E s \in Stream : root[t] \in B.pending[s] /\ Behind(o, s, t)

\* Free memory is in the heap of a stream that comes after all its uses, as do
\* the streams nested in that one; what is in no stream's heap is done with.
Reusable(B, o, a) ==
  \A t \in Tensor : block[t] # None =>
    LET h == B.home[block[t]]
    IN /\ h \in Stream => Behind(o, h, t)
       /\ \A j, k \in DOMAIN a : k <= j /\ a[k] = h => Behind(o, a[j], t)
       /\ h = Synced => Done(o, t)

\* A stream with free memory is one to join.
HeapsKnown(B) == \A b \in Block : B.home[b] \in Alternate => B.home[b] \in B.workspaces

Sound(B, o, a, X) ==
  /\ B \in BooksType /\ Rooted(B) /\ Held(B) /\ Queued(B)
  /\ \A s \in Stream \ X : Settled(B, s)
  /\ Ordered(B, o) /\ Reusable(B, o, a) /\ HeapsKnown(B)

\* The nest of active streams.
Nested(a) ==
  /\ a \in Seq(Stream) /\ Len(a) >= 1 /\ a[1] = Main
  /\ \A j, k \in 1..Len(a) : a[j] = a[k] => j = k

\* Where every stream is: active while its callback runs, reserved for its
\* handle and those below it, or in the pool.
Placed(a, p, h, j) ==
  /\ Nested(a) /\ p \subseteq Alternate
  /\ h \in [Alternate -> {"none", "running", "open", "waited"}]
  /\ j \in [Stream -> SUBSET Alternate] /\ j[Main] = {}
  /\ \A s \in Alternate :
       /\ h[s] = "running" <=> \E k \in 1..Len(a) : a[k] = s
       /\ h[s] # "none" <=> s \in j[s]
       /\ j[s] # {} => s \in j[s]
       /\ s \in p <=> \A x \in Alternate : s \notin j[x]
       /\ \A x, y \in Alternate : s \in j[x] /\ s \in j[y] => x = y

StreamsOK == Placed(activeStreams, pool, handle, joined)

\* Nothing is left to join of a stream that has been given back.
NothingLeft == \A s \in Alternate : handle[s] = "none" => s \notin workspaces /\ pending[s] = {}

TensorsOK ==
  /\ block \in [Tensor -> Block \cup {None}] /\ root \in [Tensor -> Tensor \cup {None}]
  /\ OneRoot

IInv ==
  /\ StreamsOK /\ TensorsOK /\ after \in OrderType
  /\ Sound(Books, after, activeStreams, {})
  /\ NothingLeft
-----------------------------------------------------------------------------
(* Reconciliation                                                        *)

\* The views that reconcileDisposedViews disposes of, and the roots.
Gone(B, s, dc) == {v \in B.pending[s] : root[v] # None /\ (dc \/ root[v] \in B.pending[s])}
Freed(B, s, dc) ==
  {r \in B.pending[s] : /\ r \notin Gone(B, s, dc) /\ root[r] = None
                        /\ \A v \in Tensor : root[v] = r /\ InUse(B, v) => v \in Gone(B, s, dc)}

\* R is B after the tensors in V, and the memory of the roots in F, went on s.
Cleared(B, R, s, V, F) ==
  /\ R.pending = [B.pending EXCEPT ![s] = (@ \ V) \ F]
  /\ R.status = [t \in Tensor |-> IF t \in V \cup F THEN "gone" ELSE B.status[t]]
  /\ R.home = [b \in Block |-> IF \E r \in F : block[r] = b THEN s ELSE B.home[b]]
  /\ R.workspaces = IF s # Main /\ F # {} THEN B.workspaces \cup {s} ELSE B.workspaces

\* The fields of the books after tensors are disposed of and dropped.
LEMMA ReleasedIs ==
  ASSUME NEW B \in BooksType, NEW s \in Stream, NEW V
  PROVE  /\ Released(B, V) =
              [pending |-> B.pending,
               status |-> [t \in Tensor |-> IF t \in V THEN "gone" ELSE B.status[t]],
               home |-> B.home, workspaces |-> B.workspaces]
         /\ Dropped(Released(B, V), s, V) =
              [pending |-> [B.pending EXCEPT ![s] = @ \ V],
               status |-> [t \in Tensor |-> IF t \in V THEN "gone" ELSE B.status[t]],
               home |-> B.home, workspaces |-> B.workspaces]
         /\ Released(B, V) \in BooksType /\ Dropped(Released(B, V), s, V) \in BooksType
<1> DEFINE R == Released(B, V)
           D == Dropped(R, s, V)
           status2 == [t \in Tensor |-> IF t \in V THEN "gone" ELSE B.status[t]]
           pending2 == [B.pending EXCEPT ![s] = @ \ V]
<1>1. /\ B.pending \in [Stream -> SUBSET Tensor] /\ B.home \in [Block -> Places]
      /\ B.workspaces \in SUBSET Alternate /\ B.status \in [Tensor -> {"none", "live", "pending", "gone"}]
      /\ B = [pending |-> B.pending, status |-> B.status, home |-> B.home, workspaces |-> B.workspaces]
  BY DEF BooksType
<1>2. R = [pending |-> B.pending, status |-> status2, home |-> B.home, workspaces |-> B.workspaces]
  BY <1>1 DEF Released
<1>3. status2 \in [Tensor -> {"none", "live", "pending", "gone"}]
  BY <1>1
<1>4. pending2 \in [Stream -> SUBSET Tensor]
  BY <1>1
<1> HIDE DEF R, status2
<1>5. D = [pending |-> pending2, status |-> status2, home |-> B.home, workspaces |-> B.workspaces]
  BY <1>2 DEF Dropped
<1> HIDE DEF D, pending2
<1>6. R \in BooksType /\ D \in BooksType
  BY <1>1, <1>2, <1>3, <1>4, <1>5 DEF BooksType
<1> QED
  BY <1>2, <1>5, <1>6 DEF R, D, status2, pending2

\* Those after roots are finished.
LEMMA FinishedIs ==
  ASSUME NEW B \in BooksType, NEW s \in Stream, NEW F
  PROVE  /\ Finished(B, s, F) =
              [pending |-> [B.pending EXCEPT ![s] = @ \ F],
               status |-> [t \in Tensor |-> IF t \in F THEN "gone" ELSE B.status[t]],
               home |-> [b \in Block |-> IF \E r \in F : block[r] = b THEN s ELSE B.home[b]],
               workspaces |-> IF s # Main /\ F # {} THEN B.workspaces \cup {s} ELSE B.workspaces]
         /\ Finished(B, s, F) \in BooksType
<1> DEFINE D == Dropped(Released(B, F), s, F)
           R == Finished(B, s, F)
           free == {block[r] : r \in F}
           home2 == [b \in Block |-> IF \E r \in F : block[r] = b THEN s ELSE B.home[b]]
           status2 == [t \in Tensor |-> IF t \in F THEN "gone" ELSE B.status[t]]
           pending2 == [B.pending EXCEPT ![s] = @ \ F]
           spaces2 == IF s # Main /\ F # {} THEN B.workspaces \cup {s} ELSE B.workspaces
<1>1. D = [pending |-> pending2, status |-> status2, home |-> B.home, workspaces |-> B.workspaces]
      /\ D \in BooksType
  BY ReleasedIs
<1>2. B.home \in [Block -> Places] /\ B.workspaces \in SUBSET Alternate
  BY DEF BooksType
<1>3. R = [D EXCEPT !.home = [b \in Block |-> IF b \in free THEN s ELSE D.home[b]],
                    !.workspaces = IF s # Main /\ F # {} THEN D.workspaces \cup {s} ELSE D.workspaces]
  BY DEF Finished
<1> HIDE DEF D, R, status2, pending2
<1>4. D.home = B.home /\ D.workspaces = B.workspaces /\ D.status = status2 /\ D.pending = pending2
  BY <1>1
<1>5. [b \in Block |-> IF b \in free THEN s ELSE D.home[b]] = home2
  BY <1>4
<1>6. (IF s # Main /\ F # {} THEN D.workspaces \cup {s} ELSE D.workspaces) = spaces2
  BY <1>4
<1> HIDE DEF free
<1>7. R = [pending |-> pending2, status |-> status2, home |-> home2, workspaces |-> spaces2]
  <2> HIDE DEF home2, spaces2
  <2>1. R = [D EXCEPT !.home = home2, !.workspaces = spaces2]
    BY <1>3, <1>5, <1>6
  <2> QED
    BY <1>1, <2>1
<1>8. home2 \in [Block -> Places] /\ spaces2 \in SUBSET Alternate
  BY <1>2 DEF Places, Stream
<1>9. R \in BooksType
  <2>1. status2 \in [Tensor -> {"none", "live", "pending", "gone"}] /\ pending2 \in [Stream -> SUBSET Tensor]
    BY <1>1, <1>4 DEF BooksType
  <2> HIDE DEF home2, spaces2
  <2> QED
    BY <1>7, <1>8, <2>1 DEF BooksType
<1> QED
  BY <1>7, <1>9 DEF R, status2, pending2

\* reconcileDisposedViews, in one step.
LEMMA ReconciledIs ==
  ASSUME NEW B \in BooksType, NEW s \in Stream, NEW dc \in BOOLEAN
  PROVE  /\ Cleared(B, Reconciled(B, s, dc), s, Gone(B, s, dc), Freed(B, s, dc))
         /\ Reconciled(B, s, dc) \in BooksType
<1> DEFINE V    == Gone(B, s, dc)
           seen == Dropped(Released(B, V), s, V)
           F    == {r \in seen.pending[s] : root[r] = None /\ ViewsIn(seen, r) = {}}
           R    == Finished(seen, s, F)
<1>1. B.pending \in [Stream -> SUBSET Tensor] /\ B.home \in [Block -> Places] /\ V \subseteq Tensor
  BY DEF BooksType, Gone
<1>2. Reconciled(B, s, dc) = R
  BY DEF Reconciled, Gone
<1> HIDE DEF V
<1>3. /\ seen.pending = [B.pending EXCEPT ![s] = @ \ V]
      /\ seen.status = [t \in Tensor |-> IF t \in V THEN "gone" ELSE B.status[t]]
      /\ seen.home = B.home /\ seen.workspaces = B.workspaces
      /\ seen \in BooksType
  <2>1. /\ seen = [pending |-> [B.pending EXCEPT ![s] = @ \ V],
                   status |-> [t \in Tensor |-> IF t \in V THEN "gone" ELSE B.status[t]],
                   home |-> B.home, workspaces |-> B.workspaces]
        /\ seen \in BooksType
    BY ReleasedIs
  <2> HIDE DEF seen
  <2> QED
    BY <2>1
<1> HIDE DEF seen
<1>4. F = Freed(B, s, dc)
  <2>1. seen.pending[s] = B.pending[s] \ V
    BY <1>1, <1>3
  <2>2. ASSUME NEW r PROVE ViewsIn(seen, r) = {v \in Tensor : root[v] = r /\ InUse(B, v) /\ v \notin V}
    BY <1>3 DEF ViewsIn, InUse
  <2> QED
    BY <2>1, <2>2 DEF Freed, V
<1> HIDE DEF F
<1>5. /\ R.pending = [seen.pending EXCEPT ![s] = @ \ F]
      /\ R.status = [t \in Tensor |-> IF t \in F THEN "gone" ELSE seen.status[t]]
      /\ R.home = [b \in Block |-> IF \E r \in F : block[r] = b THEN s ELSE seen.home[b]]
      /\ R.workspaces = IF s # Main /\ F # {} THEN seen.workspaces \cup {s} ELSE seen.workspaces
      /\ R \in BooksType
  <2>1. /\ R = [pending |-> [seen.pending EXCEPT ![s] = @ \ F],
                status |-> [t \in Tensor |-> IF t \in F THEN "gone" ELSE seen.status[t]],
                home |-> [b \in Block |-> IF \E r \in F : block[r] = b THEN s ELSE seen.home[b]],
                workspaces |-> IF s # Main /\ F # {} THEN seen.workspaces \cup {s} ELSE seen.workspaces]
        /\ R \in BooksType
    BY <1>3, FinishedIs
  <2> HIDE DEF R
  <2> QED
    BY <2>1
<1> HIDE DEF R
<1>6. Cleared(B, R, s, V, F)
  <2>1. R.pending = [B.pending EXCEPT ![s] = (@ \ V) \ F]
    BY <1>1, <1>3, <1>5
  <2>2. R.status = [t \in Tensor |-> IF t \in V \cup F THEN "gone" ELSE B.status[t]]
    BY <1>3, <1>5
  <2>3. R.home = [b \in Block |-> IF \E r \in F : block[r] = b THEN s ELSE B.home[b]]
    BY <1>3, <1>5
  <2>4. R.workspaces = IF s # Main /\ F # {} THEN B.workspaces \cup {s} ELSE B.workspaces
    BY <1>3, <1>5
  <2> QED
    BY <2>1, <2>2, <2>3, <2>4 DEF Cleared
<1> QED
  BY <1>2, <1>4, <1>5, <1>6 DEF V

\* What reconciliation may change.
Tidied(B, R, s) ==
  /\ \A b \in Block : R.home[b] = "held" => B.home[b] = "held"
  /\ \A x \in Stream : R.pending[x] \subseteq B.pending[x]
  /\ R.workspaces \subseteq B.workspaces \cup ({s} \cap Alternate)
  /\ \A t \in Tensor : R.status[t] = B.status[t] \/ (R.status[t] = "gone" /\ B.status[t] = "pending")

\* The root of a tensor in use is in use.
LEMMA RootInUse ==
  ASSUME TensorsOK, NEW B \in BooksType, Rooted(B), NEW t \in Tensor
  PROVE  /\ block[t] # None => RootOf(t) \in Tensor /\ root[RootOf(t)] = None /\ block[RootOf(t)] = block[t]
         /\ InUse(B, t) => block[t] \in Block /\ InUse(B, RootOf(t))
<1>1. B.status[t] \in {"none", "live", "pending", "gone"}
  BY DEF BooksType
<1>2. InUse(B, t) => block[t] # None
  BY DEF InUse, Rooted
<1>3. CASE root[t] = None
  BY <1>2, <1>3 DEF RootOf, TensorsOK
<1>4. CASE root[t] # None
  BY <1>2, <1>4 DEF RootOf, TensorsOK, Rooted
<1> QED
  BY <1>3, <1>4

\* Reconciliation of the current stream leaves sound books.
LEMMA ReconciledSound ==
  ASSUME TensorsOK, NEW B, NEW o \in OrderType, NEW a, Nested(a), NEW dc \in BOOLEAN,
         NEW s \in Stream, s = a[Len(a)], Sound(B, o, a, {s}),
         dc => /\ \A x \in Stream \ {s} : B.pending[x] = {}
               /\ \A t \in B.pending[s] : Done(o, t)
  PROVE  Sound(Reconciled(B, s, dc), o, a, {}) /\ Tidied(B, Reconciled(B, s, dc), s)
<1> DEFINE V == Gone(B, s, dc)
           F == Freed(B, s, dc)
           R == Reconciled(B, s, dc)
<1>1. /\ B \in BooksType /\ Rooted(B) /\ Held(B) /\ Queued(B) /\ Ordered(B, o)
      /\ Reusable(B, o, a) /\ HeapsKnown(B) /\ \A x \in Stream \ {s} : Settled(B, x)
  BY DEF Sound
<1>2. Cleared(B, R, s, V, F) /\ R \in BooksType
  BY <1>1, ReconciledIs
<1>3. /\ B.pending[s] \subseteq Tensor
      /\ V = {v \in B.pending[s] : root[v] # None /\ (dc \/ root[v] \in B.pending[s])}
      /\ F = {r \in B.pending[s] : /\ r \notin V /\ root[r] = None
                                   /\ \A v \in Tensor : root[v] = r /\ InUse(B, v) => v \in V}
  BY <1>1 DEF BooksType, Gone, Freed
<1>4. /\ V \subseteq B.pending[s] /\ F \subseteq B.pending[s] /\ V \subseteq Tensor /\ F \subseteq Tensor
      /\ \A v \in V : root[v] # None
      /\ \A r \in F : root[r] = None /\ \A v \in Tensor : root[v] = r /\ InUse(B, v) => v \in V
      /\ \A t \in V \cup F : B.status[t] = "pending"
  BY <1>1, <1>3 DEF Queued
<1> HIDE DEF R, V, F
<1>5. /\ \A t \in Tensor : R.status[t] = IF t \in V \cup F THEN "gone" ELSE B.status[t]
      /\ \A b \in Block : R.home[b] = IF \E r \in F : block[r] = b THEN s ELSE B.home[b]
      /\ R.pending[s] = (B.pending[s] \ V) \ F
      /\ \A x \in Stream \ {s} : R.pending[x] = B.pending[x]
      /\ R.workspaces = IF s # Main /\ F # {} THEN B.workspaces \cup {s} ELSE B.workspaces
  BY <1>1, <1>2 DEF Cleared, BooksType
<1>6. \A t \in Tensor : InUse(R, t) <=> InUse(B, t) /\ t \notin V \cup F
  BY <1>5 DEF InUse
<1>7. \A t \in Tensor, x \in Stream : t \in B.pending[x] /\ t \in V \cup F => x = s
  BY <1>1, <1>4 DEF Queued
<1>8. \A t \in Tensor : t \in F /\ block[t] # None => RootOf(t) = t
  BY <1>4 DEF RootOf
<1>9. ASSUME NEW t \in Tensor, NEW r \in F, block[r] = block[t]
      PROVE  /\ ~InUse(R, t)
             /\ t = r \/ root[t] = r
  <2>1. block[r] # None
    BY <1>1, <1>4 DEF Rooted
  <2>2. RootOf(t) = r
    <3>1. RootOf(t) = RootOf(r)
      BY <1>4, <1>9, <2>1 DEF TensorsOK, OneRoot
    <3> QED
      BY <1>4, <1>8, <2>1, <3>1
  <2>3. t = r \/ root[t] = r
    BY <2>2 DEF RootOf
  <2> QED
    BY <1>4, <1>6, <2>3
<1>10. s \in {Main} \cup Alternate /\ s # "held" /\ s # "fresh" /\ s # Synced
  BY StreamAssumption DEF Stream
<1>11. Rooted(R)
  <2> SUFFICES ASSUME NEW t \in Tensor
               PROVE  /\ block[t] = None <=> R.status[t] = "none"
                      /\ block[t] = None => root[t] = None
                      /\ root[t] # None => /\ root[root[t]] = None /\ block[root[t]] = block[t]
                                           /\ InUse(R, t) => InUse(R, root[t])
    BY DEF Rooted
  <2>1. block[t] = None <=> R.status[t] = "none"
    BY <1>1, <1>4, <1>5 DEF Rooted
  <2>2. ASSUME root[t] # None, InUse(R, t) PROVE InUse(R, root[t])
    <3>1. InUse(B, t) /\ t \notin V
      BY <1>6, <2>2
    <3>2. root[t] \in Tensor /\ InUse(B, root[t]) /\ root[root[t]] = None
      BY <1>1, <2>2, <3>1 DEF Rooted, TensorsOK
    <3>3. root[t] \notin V \cup F
      BY <1>4, <3>1, <3>2
    <3> QED
      BY <1>6, <3>2, <3>3
  <2> QED
    BY <1>1, <2>1, <2>2 DEF Rooted
<1>12. Held(R)
  <2>1. ASSUME NEW b \in Block, R.home[b] = "held" PROVE \E t \in Tensor : block[t] = b /\ InUse(R, t)
    <3>1. B.home[b] = "held" /\ \A r \in F : block[r] # b
      BY <1>5, <1>10, <2>1
    <3>2. PICK t \in Tensor : block[t] = b /\ InUse(B, t)
      BY <1>1, <3>1 DEF Held
    <3> DEFINE r == RootOf(t)
    <3>3. r \in Tensor /\ root[r] = None /\ block[r] = b /\ InUse(B, r)
      BY <1>1, <3>2, RootInUse, TensorAssumption
    <3>4. r \notin V \cup F
      BY <1>4, <3>1, <3>3
    <3> QED
      BY <1>6, <3>3, <3>4
  <2>2. ASSUME NEW t \in Tensor, InUse(R, t) PROVE R.home[block[t]] = "held"
    <3>1. B.home[block[t]] = "held" /\ block[t] \in Block
      BY <1>1, <1>6, <2>2, RootInUse DEF Held
    <3>2. \A r \in F : block[r] # block[t]
      BY <1>9, <2>2
    <3> QED
      BY <1>5, <3>1, <3>2
  <2>3. ASSUME NEW t \in Tensor, block[t] # None PROVE R.home[block[t]] # "fresh"
    <3>1. block[t] \in Block /\ B.home[block[t]] # "fresh"
      BY <1>1, <2>3 DEF Held, TensorsOK
    <3> QED
      BY <1>5, <1>10, <3>1
  <2> QED
    BY <2>1, <2>2, <2>3 DEF Held
<1>13. Queued(R)
  <2>1. \A x \in Stream : R.pending[x] \subseteq B.pending[x] /\ B.pending[x] \subseteq Tensor
    BY <1>1, <1>5 DEF BooksType
  <2>2. ASSUME NEW x \in Stream, NEW t \in R.pending[x] PROVE R.status[t] = "pending"
    <3>1. t \in B.pending[x] /\ t \in Tensor /\ B.status[t] = "pending"
      BY <1>1, <2>1 DEF Queued
    <3>2. t \notin V \cup F
      BY <1>5, <1>7, <2>2, <3>1
    <3> QED
      BY <1>5, <3>1, <3>2
  <2>3. ASSUME NEW t \in Tensor, R.status[t] = "pending" PROVE \E x \in Stream : t \in R.pending[x]
    <3>1. B.status[t] = "pending" /\ t \notin V \cup F
      BY <1>5, <2>3
    <3>2. PICK x \in Stream : t \in B.pending[x]
      BY <1>1, <3>1 DEF Queued
    <3> QED
      BY <1>5, <3>1, <3>2
  <2> QED
    BY <1>1, <2>1, <2>2, <2>3 DEF Queued
<1>14. ASSUME NEW x \in Stream PROVE Settled(R, x)
  <2> SUFFICES ASSUME NEW t \in R.pending[x]
               PROVE  IF root[t] = None THEN ViewsIn(R, t) # {} ELSE root[t] \notin R.pending[x]
    BY DEF Settled
  <2>1. t \in B.pending[x] /\ t \in Tensor
    BY <1>1, <1>5 DEF BooksType
  <2>2. CASE root[t] # None
    BY <1>1, <1>3, <1>5, <2>1, <2>2 DEF Settled
  <2>3. CASE root[t] = None
    <3>1. \E v \in Tensor : root[v] = t /\ InUse(B, v) /\ v \notin V
      <4>1. CASE x = s
        BY <1>3, <1>4, <1>5, <2>1, <2>3, <4>1
      <4>2. CASE x # s
        <5>1. PICK v \in Tensor : root[v] = t /\ InUse(B, v)
          BY <1>1, <2>1, <2>3, <4>2 DEF Settled, ViewsIn, InUse
        <5>2. ~dc /\ t \notin B.pending[s]
          BY <1>1, <2>1, <4>2 DEF Queued
        <5> QED
          BY <1>3, <5>1, <5>2
      <4> QED
        BY <4>1, <4>2
    <3>2. PICK v \in Tensor : root[v] = t /\ InUse(B, v) /\ v \notin V
      BY <3>1
    <3>3. v \notin F
      BY <1>4, <2>1, <3>2, TensorAssumption
    <3>4. InUse(R, v)
      BY <1>6, <3>2, <3>3
    <3> QED
      BY <2>3, <3>2, <3>4 DEF ViewsIn, InUse
  <2> QED
    BY <2>2, <2>3
<1>15. Ordered(R, o)
  <2>1. \A x \in Stream : \A t \in R.pending[x] : Behind(o, x, t)
    BY <1>1, <1>5 DEF Ordered
  <2>2. ASSUME NEW t \in Tensor, R.status[t] = "gone", root[t] # None, InUse(R, root[t])
        PROVE  Done(o, t) \/ \E x \in Stream : root[t] \in R.pending[x] /\ Behind(o, x, t)
    <3>1. root[t] \in Tensor /\ InUse(B, root[t]) /\ root[t] \notin V \cup F
      BY <1>6, <2>2 DEF TensorsOK
    <3>2. \A x \in Stream : root[t] \in B.pending[x] => root[t] \in R.pending[x]
      BY <1>5, <3>1
    <3>3. CASE t \in V
      <4>1. Behind(o, s, t)
        BY <1>1, <1>4, <3>3 DEF Ordered
      <4>2. CASE dc
        BY <1>4, <3>3, <4>2
      <4> QED
        BY <1>3, <3>2, <3>3, <4>1, <4>2
    <3>4. CASE t \in F
      BY <1>4, <2>2, <3>4
    <3>5. CASE t \notin V \cup F
      BY <1>1, <1>5, <2>2, <3>1, <3>2, <3>5 DEF Ordered
    <3> QED
      BY <3>3, <3>4, <3>5
  <2> QED
    BY <2>1, <2>2 DEF Ordered
<1>16. Reusable(R, o, a)
  <2> SUFFICES ASSUME NEW t \in Tensor, block[t] # None
               PROVE  LET h == R.home[block[t]]
                      IN /\ h \in Stream => Behind(o, h, t)
                         /\ \A j, k \in DOMAIN a : k <= j /\ a[k] = h => Behind(o, a[j], t)
                         /\ h = Synced => Done(o, t)
    BY DEF Reusable
  <2>1. block[t] \in Block
    BY DEF TensorsOK
  <2>2. CASE \A r \in F : block[r] # block[t]
    BY <1>1, <1>5, <2>1, <2>2 DEF Reusable
  <2>3. ASSUME NEW r \in F, block[r] = block[t]
        PROVE  LET h == R.home[block[t]]
               IN /\ h \in Stream => Behind(o, h, t)
                  /\ \A j, k \in DOMAIN a : k <= j /\ a[k] = h => Behind(o, a[j], t)
                  /\ h = Synced => Done(o, t)
    <3>1. R.home[block[t]] = s
      BY <1>5, <2>1, <2>3
    <3>2. Behind(o, s, t)
      <4>1. r \in B.pending[s] /\ r \in Tensor /\ InUse(B, r) /\ root[r] = None
        BY <1>4 DEF InUse
      <4>2. CASE t = r \/ t \in V
        BY <1>1, <1>4, <4>1, <4>2 DEF Ordered
      <4>3. CASE t # r /\ t \notin V
        <5>1. root[t] = r /\ ~InUse(R, t) /\ t \notin F
          BY <1>4, <1>9, <2>3, <4>1, <4>3, TensorAssumption
        <5>2. B.status[t] = "gone"
          <6>1. ~InUse(B, t)
            BY <1>6, <4>3, <5>1
          <6>2. B.status[t] # "none" /\ B.status[t] \in {"none", "live", "pending", "gone"}
            BY <1>1 DEF Rooted, BooksType
          <6> QED
            BY <6>1, <6>2 DEF InUse
        <5>3. root[t] # None
          BY <4>1, <5>1, TensorAssumption
        <5>4. Done(o, t) \/ \E x \in Stream : r \in B.pending[x] /\ Behind(o, x, t)
          BY <1>1, <4>1, <5>1, <5>2, <5>3 DEF Ordered
        <5>5. \A x \in Stream : r \in B.pending[x] => x = s
          BY <1>7, <4>1
        <5> QED
          BY <5>4, <5>5 DEF Done, Behind
      <4> QED
        BY <4>2, <4>3
    <3>3. \A j, k \in DOMAIN a : k <= j /\ a[k] = s => a[j] = s
      <4>1. a \in Seq(Stream) /\ Len(a) \in Nat /\ Len(a) >= 1 /\ \A j, k \in 1..Len(a) : a[j] = a[k] => j = k
        BY DEF Nested
      <4>2. DOMAIN a = 1..Len(a) /\ Len(a) \in 1..Len(a)
        BY <4>1
      <4>3. \A k \in DOMAIN a : a[k] = s => k = Len(a)
        BY <4>1, <4>2
      <4> QED
        BY <4>2, <4>3
    <3> QED
      BY <1>10, <3>1, <3>2, <3>3
  <2> QED
    BY <2>2, <2>3
<1>17. HeapsKnown(R)
  <2> SUFFICES ASSUME NEW b \in Block, R.home[b] \in Alternate PROVE R.home[b] \in R.workspaces
    BY DEF HeapsKnown
  <2>1. CASE \A r \in F : block[r] # b
    BY <1>1, <1>5, <2>1 DEF HeapsKnown
  <2>2. CASE \E r \in F : block[r] = b
    BY <1>5, <2>2, StreamAssumption
  <2> QED
    BY <2>1, <2>2
<1>18. Tidied(B, R, s)
  <2>1. \A t \in Tensor : R.status[t] = B.status[t] \/ (R.status[t] = "gone" /\ B.status[t] = "pending")
    BY <1>4, <1>5
  <2>2. \A b \in Block : R.home[b] = "held" => B.home[b] = "held"
    BY <1>5, <1>10
  <2>3. R.workspaces \subseteq B.workspaces \cup ({s} \cap Alternate)
    BY <1>5, <1>10
  <2> QED
    BY <1>5, <2>1, <2>2, <2>3 DEF Tidied
<1> QED
  BY <1>2, <1>11, <1>12, <1>13, <1>14, <1>15, <1>16, <1>17, <1>18 DEF Sound, R
-----------------------------------------------------------------------------
(* Waits and joins                                                       *)

\* p orders what o does, and maybe more.
Later(o, p) == p \in OrderType /\ \A t \in Tensor, i \in Uses : o[t][i] \subseteq p[t][i]

\* What came before the other stream comes before this one too.
LEMMA WaitedOrder ==
  ASSUME NEW o \in OrderType, NEW s \in Stream, NEW e
  PROVE  /\ Later(o, Waited(o, s, e))
         /\ \A t \in Tensor : Behind(o, e, t) => Behind(Waited(o, s, e), s, t)
         /\ \A t \in Tensor : Behind(Waited(o, s, e), e, t) => Behind(Waited(o, s, e), s, t)
<1> DEFINE p == Waited(o, s, e)
<1>1. \A t \in Tensor, i \in Uses : o[t][i] \in SUBSET Stream
  BY DEF OrderType
<1>2. p = [t \in Tensor |-> [i \in Uses |-> IF e \in o[t][i] THEN o[t][i] \cup {s} ELSE o[t][i]]]
  BY DEF Waited, Uses
<1> HIDE DEF p
<1>3. p \in OrderType
  BY <1>1, <1>2 DEF OrderType
<1>4. \A t \in Tensor, i \in Uses : p[t][i] = IF e \in o[t][i] THEN o[t][i] \cup {s} ELSE o[t][i]
  BY <1>2
<1>5. \A t \in Tensor, i \in Uses : o[t][i] \subseteq p[t][i]
  BY <1>4
<1>6. \A t \in Tensor : Behind(o, e, t) => Behind(p, s, t)
  <2> SUFFICES ASSUME NEW t \in Tensor, Behind(o, e, t), NEW i \in Uses PROVE s \in p[t][i]
    BY DEF Behind
  <2>1. e \in o[t][i]
    BY DEF Behind
  <2> QED
    BY <1>4, <2>1
<1>7. \A t \in Tensor, i \in Uses : e \in p[t][i] => s \in p[t][i]
  BY <1>4
<1>8. \A t \in Tensor : Behind(p, e, t) => Behind(p, s, t)
  BY <1>7 DEF Behind
<1> QED
  BY <1>3, <1>5, <1>6, <1>8 DEF Later, p

\* What came before the stream waited for is done.
LEMMA CompletedOrder ==
  ASSUME NEW o \in OrderType, NEW s \in Stream
  PROVE  /\ Later(o, Completed(o, s))
         /\ \A t \in Tensor : Behind(o, s, t) => Done(Completed(o, s), t)
<1> DEFINE p == Completed(o, s)
<1>1. \A t \in Tensor, i \in Uses : o[t][i] \in SUBSET Stream
  BY DEF OrderType
<1>2. p = [t \in Tensor |-> [i \in Uses |-> IF s \in o[t][i] THEN Stream ELSE o[t][i]]]
  BY DEF Completed, Uses
<1> HIDE DEF p
<1>3. p \in OrderType
  BY <1>1, <1>2 DEF OrderType
<1>4. \A t \in Tensor, i \in Uses : p[t][i] = IF s \in o[t][i] THEN Stream ELSE o[t][i]
  BY <1>2
<1>5. \A t \in Tensor, i \in Uses : o[t][i] \subseteq p[t][i]
  BY <1>1, <1>4
<1>6. \A t \in Tensor : Behind(o, s, t) => Done(p, t)
  BY <1>4 DEF Behind, Done
<1> QED
  BY <1>3, <1>5, <1>6 DEF Later, p

\* More order does no harm.
LEMMA LaterSound ==
  ASSUME TensorsOK, NEW B, NEW o \in OrderType, NEW p, Later(o, p), NEW a, NEW X, Sound(B, o, a, X)
  PROVE  Sound(B, p, a, X)
<1>1. \A t \in Tensor, s \in Stream : Behind(o, s, t) => Behind(p, s, t)
  BY DEF Later, Behind
<1>2. \A t \in Tensor : \A s : Behind(o, s, t) => Behind(p, s, t)
  BY DEF Later, Behind
<1>3. \A t \in Tensor : Done(o, t) => Done(p, t)
  <2> SUFFICES ASSUME NEW t \in Tensor, Done(o, t), NEW i \in Uses PROVE p[t][i] = Stream
    BY DEF Done
  <2>1. o[t][i] = Stream /\ o[t][i] \subseteq p[t][i] /\ p[t][i] \subseteq Stream
    BY DEF Done, Later, OrderType
  <2> QED
    BY <2>1
<1>4. Ordered(B, p)
  <2>1. \A s \in Stream : B.pending[s] \subseteq Tensor
    BY DEF Sound, BooksType
  <2> QED
    BY <1>1, <1>3, <2>1 DEF Sound, Ordered
<1>5. Reusable(B, p, a)
  BY <1>2, <1>3 DEF Sound, Reusable
<1> QED
  BY <1>4, <1>5 DEF Sound

\* The pieces of a nest.
LEMMA NestFacts ==
  ASSUME NEW a, Nested(a)
  PROVE  /\ Len(a) \in Nat /\ Len(a) >= 1 /\ DOMAIN a = 1..Len(a) /\ Len(a) \in 1..Len(a)
         /\ \A k \in 1..Len(a) : a[k] \in Stream
         /\ \A j, k \in 1..Len(a) : a[j] = a[k] => j = k
         /\ a[Len(a)] \in Stream /\ a[1] = Main
<1>1. a \in Seq(Stream) /\ Len(a) >= 1
  BY DEF Nested
<1>2. Len(a) \in Nat /\ DOMAIN a = 1..Len(a) /\ \A k \in 1..Len(a) : a[k] \in Stream
  BY <1>1
<1> QED
  BY <1>1, <1>2 DEF Nested

\* The books after a join, before the reconciliation.
Merged(s, to) ==
  [pending |-> [pending EXCEPT ![to] = @ \cup pending[s], ![s] = {}],
   status |-> status,
   home |-> [b \in Block |-> IF s \in workspaces /\ home[b] = s THEN to ELSE home[b]],
   workspaces |-> (workspaces \ {s}) \cup (IF s \in workspaces /\ to # Main THEN {to} ELSE {})]

\* Joining a stream into the current one, which has waited for it.
LEMMA JoinedSound ==
  ASSUME TensorsOK, NEW o \in OrderType, NEW a, Nested(a), NEW s \in Alternate, NEW to \in Stream,
         to = a[Len(a)], \A k \in 1..Len(a) : a[k] # s, Sound(Books, o, a, {}),
         \/ \A t \in Tensor : Behind(o, s, t) => Behind(o, to, t)
         \/ s \notin workspaces /\ pending[s] = {}
  PROVE  LET R == Joined(s, to)
         IN /\ Sound(R, o, a, {})
            /\ \A b \in Block : R.home[b] = "held" => home[b] = "held"
            /\ R.pending[s] = {} /\ s \notin R.workspaces
            /\ R.workspaces \subseteq workspaces \cup ({to} \cap Alternate)
            /\ \A x \in Stream \ {to} : R.pending[x] \subseteq pending[x]
<1> DEFINE M == Merged(s, to)
<1>1. s # to /\ s \in Stream /\ to # "held" /\ to # "fresh" /\ to # Synced
  BY NestFacts, StreamAssumption DEF Stream
<1>2. /\ pending \in [Stream -> SUBSET Tensor] /\ home \in [Block -> Places] /\ workspaces \in SUBSET Alternate
      /\ Books.pending = pending /\ Books.home = home /\ Books.status = status /\ Books.workspaces = workspaces
  BY DEF Sound, Books, BooksType
<1>3. /\ Rooted(Books) /\ Held(Books) /\ Queued(Books) /\ Ordered(Books, o)
      /\ Reusable(Books, o, a) /\ HeapsKnown(Books) /\ \A x \in Stream : Settled(Books, x)
  BY DEF Sound
<1>4. Joined(s, to) = Reconciled(M, to, FALSE)
  BY DEF Joined, Merged
<1> HIDE DEF M
<1>5. /\ \A x \in Stream : M.pending[x] = IF x = s THEN {} ELSE IF x = to THEN pending[to] \cup pending[s] ELSE pending[x]
      /\ \A b \in Block : M.home[b] = IF s \in workspaces /\ home[b] = s THEN to ELSE home[b]
      /\ M.workspaces = (workspaces \ {s}) \cup (IF s \in workspaces /\ to # Main THEN {to} ELSE {})
      /\ M.status = status
  BY <1>1, <1>2 DEF M, Merged
<1>6. M \in BooksType
  <2>1. M.pending \in [Stream -> SUBSET Tensor]
    <3>1. pending[to] \cup pending[s] \in SUBSET Tensor
      BY <1>1, <1>2
    <3> QED
      BY <1>1, <1>2, <3>1 DEF M, Merged
  <2>2. M.home \in [Block -> Places]
    BY <1>2 DEF M, Merged, Places
  <2>3. M.workspaces \in SUBSET Alternate
    BY <1>2, <1>5 DEF Stream
  <2>4. M.status \in [Tensor -> {"none", "live", "pending", "gone"}]
    BY <1>5 DEF Sound, Books, BooksType
  <2>5. M = [pending |-> M.pending, status |-> M.status, home |-> M.home, workspaces |-> M.workspaces]
    BY DEF M, Merged
  <2> QED
    BY <2>1, <2>2, <2>3, <2>4, <2>5 DEF BooksType
<1>7. \A t \in Tensor : InUse(M, t) <=> InUse(Books, t)
  BY <1>2, <1>5 DEF InUse
<1>8. Rooted(M)
  BY <1>2, <1>3, <1>5, <1>7 DEF Rooted, TensorsOK
<1>9. Held(M)
  <2>1. \A b \in Block : (M.home[b] = "held" <=> home[b] = "held") /\ (M.home[b] = "fresh" => home[b] = "fresh")
    BY <1>1, <1>5, StreamAssumption
  <2>2. \A t \in Tensor : block[t] # None => block[t] \in Block
    BY DEF TensorsOK
  <2>3. \A t \in Tensor : InUse(Books, t) => block[t] # None
    BY <1>3 DEF Rooted, InUse
  <2> QED
    BY <1>2, <1>3, <1>7, <2>1, <2>2, <2>3 DEF Held
<1>10. Queued(M)
  BY <1>1, <1>2, <1>3, <1>5 DEF Queued
<1>11. ASSUME NEW x \in Stream, x # to PROVE Settled(M, x)
  BY <1>2, <1>3, <1>5, <1>11 DEF Settled, ViewsIn
<1>12. Ordered(M, o) /\ Reusable(M, o, a)
  <2>1. CASE s \notin workspaces /\ pending[s] = {}
    <3>1. \A x \in Stream : M.pending[x] = pending[x]
      BY <1>5, <2>1
    <3>2. Ordered(M, o)
      BY <1>2, <1>3, <1>5, <1>7, <3>1 DEF Ordered, TensorsOK
    <3>3. \A b \in Block : M.home[b] = home[b]
      BY <1>5, <2>1
    <3>4. Reusable(M, o, a)
      BY <1>2, <1>3, <3>3 DEF Reusable, TensorsOK
    <3> QED
      BY <3>2, <3>4
  <2>2. CASE \A t \in Tensor : Behind(o, s, t) => Behind(o, to, t)
    <3>1. \A x \in Stream : \A t \in M.pending[x] : Behind(o, x, t)
      BY <1>1, <1>2, <1>3, <1>5, <2>2 DEF Ordered
    <3>2. ASSUME NEW t \in Tensor, status[t] = "gone", root[t] # None, InUse(Books, root[t])
          PROVE  Done(o, t) \/ \E x \in Stream : root[t] \in M.pending[x] /\ Behind(o, x, t)
      <4>1. CASE Done(o, t)
        BY <4>1
      <4>2. ASSUME NEW x \in Stream, root[t] \in pending[x], Behind(o, x, t)
            PROVE  \E y \in Stream : root[t] \in M.pending[y] /\ Behind(o, y, t)
        <5>1. CASE x = s
          BY <1>1, <1>5, <2>2, <4>2, <5>1
        <5>2. CASE x # s
          BY <1>5, <4>2, <5>2
        <5> QED
          BY <5>1, <5>2
      <4> QED
        BY <1>2, <1>3, <3>2, <4>1, <4>2 DEF Ordered
    <3>3. Ordered(M, o)
      BY <1>2, <1>5, <1>7, <3>1, <3>2 DEF Ordered, TensorsOK
    <3>4. ASSUME NEW t \in Tensor, block[t] # None
          PROVE  LET h == M.home[block[t]]
                 IN /\ h \in Stream => Behind(o, h, t)
                    /\ \A j, k \in DOMAIN a : k <= j /\ a[k] = h => Behind(o, a[j], t)
                    /\ h = Synced => Done(o, t)
      <4>1. block[t] \in Block
        BY <3>4 DEF TensorsOK
      <4>2. CASE s \in workspaces /\ home[block[t]] = s
        <5>1. M.home[block[t]] = to
          BY <1>5, <4>1, <4>2
        <5>2. Behind(o, to, t)
          BY <1>1, <1>2, <1>3, <2>2, <3>4, <4>2 DEF Reusable
        <5>3. \A j, k \in DOMAIN a : k <= j /\ a[k] = to => a[j] = to
          <6>1. \A k \in DOMAIN a : a[k] = to => k = Len(a)
            BY NestFacts
          <6>2. \A j \in DOMAIN a : Len(a) <= j => j = Len(a)
            BY NestFacts
          <6> QED
            BY <6>1, <6>2
        <5> QED
          BY <1>1, <5>1, <5>2, <5>3
      <4>3. CASE ~(s \in workspaces /\ home[block[t]] = s)
        BY <1>2, <1>3, <1>5, <3>4, <4>1, <4>3 DEF Reusable
      <4> QED
        BY <4>2, <4>3
    <3>5. Reusable(M, o, a)
      BY <3>4 DEF Reusable
    <3> QED
      BY <3>3, <3>5
  <2> QED
    BY <2>1, <2>2
<1>13. HeapsKnown(M)
  <2> SUFFICES ASSUME NEW b \in Block, M.home[b] \in Alternate PROVE M.home[b] \in M.workspaces
    BY DEF HeapsKnown
  <2>1. CASE s \in workspaces /\ home[b] = s
    BY <1>5, <2>1, StreamAssumption
  <2>2. CASE ~(s \in workspaces /\ home[b] = s)
    <3>1. home[b] \in workspaces /\ M.home[b] = home[b]
      BY <1>2, <1>3, <1>5, <2>2 DEF HeapsKnown
    <3> QED
      BY <1>5, <2>2, <3>1
  <2> QED
    BY <2>1, <2>2
<1>14. Sound(M, o, a, {to})
  BY <1>6, <1>8, <1>9, <1>10, <1>11, <1>12, <1>13 DEF Sound
<1>15. Sound(Joined(s, to), o, a, {}) /\ Tidied(M, Joined(s, to), to)
  BY <1>4, <1>14, ReconciledSound
<1> DEFINE R == Joined(s, to)
<1> HIDE DEF R
<1>16. /\ \A b \in Block : R.home[b] = "held" => home[b] = "held"
       /\ R.pending[s] = {} /\ s \notin R.workspaces
       /\ R.workspaces \subseteq workspaces \cup ({to} \cap Alternate)
       /\ \A x \in Stream \ {to} : R.pending[x] \subseteq pending[x]
  <2>1. Tidied(M, R, to)
    BY <1>15 DEF R
  <2>2. \A b \in Block : R.home[b] = "held" => home[b] = "held"
    BY <1>1, <1>5, <2>1 DEF Tidied
  <2>3. R.pending[s] = {} /\ \A x \in Stream \ {to} : R.pending[x] \subseteq pending[x]
    BY <1>1, <1>5, <2>1 DEF Tidied
  <2>4. s \notin R.workspaces /\ R.workspaces \subseteq workspaces \cup ({to} \cap Alternate)
    BY <1>1, <1>5, <2>1 DEF Tidied, Stream
  <2> QED
    BY <2>2, <2>3, <2>4
<1> QED
  BY <1>15, <1>16 DEF R
-----------------------------------------------------------------------------
(* Disposal                                                              *)

\* The books of a disposal before the reconciliation.
LEMMA PendSound ==
  ASSUME IInv, NEW t \in Tensor, status[t] = "live", OrderedAfter(Current, t)
  PROVE  /\ Sound(Pend(t), after, activeStreams, {Current})
         /\ Pend(t).home = home /\ Pend(t).workspaces = workspaces
         /\ Pend(t).pending = [pending EXCEPT ![Current] = @ \cup {t}]
         /\ Pend(t).status = [status EXCEPT ![t] = "pending"]
<1> DEFINE P == Pend(t)
<1>1. Sound(Books, after, activeStreams, {}) /\ TensorsOK /\ Current \in Stream
  BY NestFacts DEF IInv, StreamsOK, Placed, Current
<1>2. /\ pending \in [Stream -> SUBSET Tensor] /\ home \in [Block -> Places] /\ workspaces \in SUBSET Alternate
      /\ status \in [Tensor -> {"none", "live", "pending", "gone"}]
      /\ Books.pending = pending /\ Books.home = home /\ Books.status = status /\ Books.workspaces = workspaces
      /\ Books = [pending |-> pending, status |-> status, home |-> home, workspaces |-> workspaces]
  BY <1>1 DEF Sound, Books, BooksType
<1>3. /\ Rooted(Books) /\ Held(Books) /\ Queued(Books) /\ Ordered(Books, after)
      /\ Reusable(Books, after, activeStreams) /\ HeapsKnown(Books) /\ \A x \in Stream : Settled(Books, x)
  BY <1>1 DEF Sound
<1>4. P = [pending |-> [pending EXCEPT ![Current] = @ \cup {t}],
           status |-> [status EXCEPT ![t] = "pending"],
           home |-> home, workspaces |-> workspaces]
  <2> DEFINE p == [pending EXCEPT ![Current] = @ \cup {t}]
             q == [status EXCEPT ![t] = "pending"]
  <2>1. P = [Books EXCEPT !.pending = p, !.status = q]
    BY DEF Pend
  <2> HIDE DEF P, p, q
  <2>2. P = [pending |-> p, status |-> q, home |-> home, workspaces |-> workspaces]
    BY <1>2, <2>1
  <2> QED
    BY <2>2 DEF p, q
<1> HIDE DEF P
<1>5. P \in BooksType
  <2>1. pending[Current] \cup {t} \in SUBSET Tensor
    BY <1>1, <1>2
  <2> HIDE DEF Current
  <2> QED
    BY <1>1, <1>2, <1>4, <2>1 DEF BooksType
<1> HIDE DEF Current
<1>6. /\ P.pending[Current] = pending[Current] \cup {t}
      /\ \A x \in Stream \ {Current} : P.pending[x] = pending[x]
      /\ \A x \in Tensor : P.status[x] = IF x = t THEN "pending" ELSE status[x]
      /\ P.home = home /\ P.workspaces = workspaces
  BY <1>1, <1>2, <1>4
<1>7. \A x \in Tensor : InUse(P, x) <=> InUse(Books, x)
  BY <1>2, <1>6 DEF InUse
<1>8. \A x \in Stream : t \notin pending[x]
  BY <1>2, <1>3 DEF Queued
<1>9. Rooted(P)
  BY <1>1, <1>2, <1>3, <1>6, <1>7 DEF Rooted, TensorsOK
<1>10. Held(P)
  BY <1>2, <1>3, <1>6, <1>7 DEF Held
<1>11. Queued(P)
  <2>1. \A x \in Stream : \A u \in P.pending[x] : P.status[u] = "pending"
    BY <1>2, <1>3, <1>6, <1>8 DEF Queued
  <2>2. \A u \in Tensor : P.status[u] = "pending" => \E x \in Stream : u \in P.pending[x]
    BY <1>1, <1>2, <1>3, <1>6 DEF Queued
  <2>3. \A x, y \in Stream : P.pending[x] \cap P.pending[y] # {} => x = y
    BY <1>2, <1>3, <1>6, <1>8 DEF Queued
  <2> QED
    BY <2>1, <2>2, <2>3 DEF Queued
<1>12. ASSUME NEW x \in Stream \ {Current} PROVE Settled(P, x)
  BY <1>2, <1>3, <1>6, <1>7, <1>12 DEF Settled, ViewsIn, InUse
<1>13. Ordered(P, after)
  <2>1. Behind(after, Current, t)
    BY DEF OrderedAfter, Behind, Uses
  <2>2. \A x \in Stream : \A u \in P.pending[x] : Behind(after, x, u)
    BY <1>2, <1>3, <1>6, <2>1 DEF Ordered
  <2>3. \A x \in Stream : pending[x] \subseteq P.pending[x]
    BY <1>6
  <2>4. \A u \in Tensor : P.status[u] = "gone" => status[u] = "gone"
    BY <1>6
  <2>5. \A u \in Tensor : root[u] # None => root[u] \in Tensor
    BY <1>1 DEF TensorsOK
  <2> QED
    BY <1>2, <1>3, <1>7, <2>2, <2>3, <2>4, <2>5 DEF Ordered
<1>14. Reusable(P, after, activeStreams) /\ HeapsKnown(P)
  BY <1>2, <1>3, <1>6 DEF Reusable, HeapsKnown
<1>15. Sound(P, after, activeStreams, {Current})
  BY <1>5, <1>9, <1>10, <1>11, <1>12, <1>13, <1>14 DEF Sound
<1> QED
  BY <1>4, <1>15 DEF P

\* Nothing finished, nothing changed.
LEMMA FinishedNone ==
  ASSUME NEW B \in BooksType, NEW s \in Stream
  PROVE  Finished(B, s, {}) = B
<1> DEFINE R == Finished(B, s, {})
<1>1. R = [pending |-> [B.pending EXCEPT ![s] = @ \ {}],
           status |-> [t \in Tensor |-> IF t \in {} THEN "gone" ELSE B.status[t]],
           home |-> [b \in Block |-> IF \E r \in {} : block[r] = b THEN s ELSE B.home[b]],
           workspaces |-> IF s # Main /\ {} # {} THEN B.workspaces \cup {s} ELSE B.workspaces]
  BY FinishedIs
<1> HIDE DEF R
<1>2. /\ B.pending \in [Stream -> SUBSET Tensor] /\ B.home \in [Block -> Places]
      /\ B.status \in [Tensor -> {"none", "live", "pending", "gone"}]
      /\ B = [pending |-> B.pending, status |-> B.status, home |-> B.home, workspaces |-> B.workspaces]
  BY DEF BooksType
<1>3. [B.pending EXCEPT ![s] = @ \ {}] = B.pending
  BY <1>2
<1>4. [t \in Tensor |-> IF t \in {} THEN "gone" ELSE B.status[t]] = B.status
  BY <1>2
<1>5. [b \in Block |-> IF \E r \in {} : block[r] = b THEN s ELSE B.home[b]] = B.home
  BY <1>2
<1> QED
  BY <1>1, <1>2, <1>3, <1>4, <1>5 DEF R

\* The caller's books in a disposal.
LEMMA BooksFacts ==
  ASSUME IInv
  PROVE  /\ pending \in [Stream -> SUBSET Tensor] /\ home \in [Block -> Places] /\ workspaces \in SUBSET Alternate
         /\ status \in [Tensor -> {"none", "live", "pending", "gone"}]
         /\ Books.pending = pending /\ Books.home = home /\ Books.status = status
         /\ Books.workspaces = workspaces /\ Books \in BooksType
         /\ Rooted(Books) /\ Held(Books) /\ Queued(Books) /\ Ordered(Books, after)
         /\ Reusable(Books, after, activeStreams) /\ HeapsKnown(Books) /\ \A x \in Stream : Settled(Books, x)
         /\ TensorsOK /\ Nested(activeStreams) /\ after \in OrderType /\ Current \in Stream
<1>1. Current \in Stream
  BY NestFacts DEF IInv, StreamsOK, Placed, Current
<1> QED
  BY <1>1 DEF IInv, StreamsOK, Placed, Sound, Books, BooksType

\* Disposing of a root is disposing of it later, at once.
LEMMA DisposeRootIs ==
  ASSUME IInv, NEW t \in Tensor, status[t] = "live", OrderedAfter(Current, t), root[t] = None
  PROVE  DisposeRoot(t) = Reconciled(Pend(t), Current, FALSE)
<1> DEFINE P == Pend(t)
           mine == Views(t) \cap pending[Current]
           X == Dropped(Released(P, mine), Current, mine)
<1>1. /\ P \in BooksType
      /\ P.pending = [pending EXCEPT ![Current] = @ \cup {t}]
      /\ P.status = [status EXCEPT ![t] = "pending"]
  BY PendSound DEF Sound
<1> DEFINE s == Current
<1>2. s \in Stream /\ pending \in [Stream -> SUBSET Tensor] /\ Settled(Books, s) /\ Queued(Books)
      /\ status \in [Tensor -> {"none", "live", "pending", "gone"}]
      /\ Books.pending = pending /\ Books.status = status
  BY BooksFacts
<1> HIDE DEF s
<1>3. P.pending[s] = pending[s] \cup {t} /\ pending[s] \subseteq Tensor /\ t \notin pending[s]
  BY <1>1, <1>2 DEF Queued, s
<1> HIDE DEF P
<1>4. {v \in P.pending[s] : root[v] # None /\ (FALSE \/ root[v] \in P.pending[s])} = mine
  <2>1. \A v \in pending[s] : v \in Tensor /\ status[v] = "pending" /\ (root[v] # None => root[v] \notin pending[s])
    BY <1>2, <1>3 DEF Settled, Queued
  <2>2. t # None
    BY TensorAssumption
  <2>3. mine = {v \in pending[s] : root[v] = t}
    BY <2>1 DEF Views, s
  <2> QED
    BY <1>3, <2>1, <2>2, <2>3
<1>5. /\ X.pending = [P.pending EXCEPT ![s] = @ \ mine] /\ X \in BooksType
      /\ X.status = [x \in Tensor |-> IF x \in mine THEN "gone" ELSE P.status[x]]
  <2>1. /\ X = [pending |-> [P.pending EXCEPT ![s] = @ \ mine],
                status |-> [x \in Tensor |-> IF x \in mine THEN "gone" ELSE P.status[x]],
                home |-> P.home, workspaces |-> P.workspaces]
        /\ X \in BooksType
    <3>1. P \in BooksType /\ s \in Stream /\ s = Current
      BY <1>1, <1>2 DEF s
    <3> HIDE DEF mine
    <3>2. /\ Dropped(Released(P, mine), s, mine) =
               [pending |-> [P.pending EXCEPT ![s] = @ \ mine],
                status |-> [x \in Tensor |-> IF x \in mine THEN "gone" ELSE P.status[x]],
                home |-> P.home, workspaces |-> P.workspaces]
          /\ Dropped(Released(P, mine), s, mine) \in BooksType
      BY <3>1, ReleasedIs
    <3> QED
      BY <3>1, <3>2
  <2> HIDE DEF X
  <2> QED
    BY <2>1
<1> DEFINE F == {r \in X.pending[s] : root[r] = None /\ ViewsIn(X, r) = {}}
<1>6. Reconciled(P, s, FALSE) = Finished(X, s, F)
  <2> DEFINE G == {v \in P.pending[s] : root[v] # None /\ (FALSE \/ root[v] \in P.pending[s])}
  <2>1. Reconciled(P, s, FALSE) =
          Finished(Dropped(Released(P, G), s, G), s,
                   {r \in Dropped(Released(P, G), s, G).pending[s] :
                      root[r] = None /\ ViewsIn(Dropped(Released(P, G), s, G), r) = {}})
    BY DEF Reconciled
  <2>2. G = mine
    BY <1>4
  <2> HIDE DEF G
  <2> QED
    BY <2>1, <2>2 DEF s
<1>7. DisposeRoot(t) = IF ViewsIn(X, t) = {} THEN Finished(X, s, {t}) ELSE X
  BY DEF DisposeRoot, P, s
<1> HIDE DEF X
<1>8. F = IF ViewsIn(X, t) = {} THEN {t} ELSE {}
  <2>1. X.pending[s] = (pending[s] \cup {t}) \ mine /\ t \in X.pending[s]
    <3>1. P.pending \in [Stream -> SUBSET Tensor]
      BY <1>1 DEF BooksType, P
    <3>2. t \notin mine
      BY <1>3 DEF s
    <3> QED
      BY <1>2, <1>3, <1>5, <3>1, <3>2
  <2>2. ASSUME NEW r \in pending[s], root[r] = None PROVE ViewsIn(X, r) # {}
    <3>1. PICK v \in Tensor : root[v] = r /\ status[v] \in {"live", "pending"}
      BY <1>2, <2>2 DEF Settled, ViewsIn
    <3>2. v \notin mine
      BY <1>3, <2>2, <3>1 DEF Views
    <3>3. X.status[v] \in {"live", "pending"}
      BY <1>1, <1>2, <1>5, <3>1, <3>2 DEF P
    <3> QED
      BY <3>1, <3>3 DEF ViewsIn
  <2> QED
    BY <2>1, <2>2
<1> HIDE DEF F
<1>9. Finished(X, s, {}) = X
  BY <1>2, <1>5, FinishedNone
<1> QED
  BY <1>6, <1>7, <1>8, <1>9 DEF P, s

\* Disposing of a view whose root waits already is disposing of it later, at once.
LEMMA DisposeViewIs ==
  ASSUME IInv, NEW t \in Tensor, status[t] = "live", OrderedAfter(Current, t),
         root[t] # None, root[t] \in pending[Current]
  PROVE  DisposeView(t) = Reconciled(Pend(t), Current, FALSE)
<1> DEFINE P == Pend(t)
           s == Current
           r == root[t]
           X == Dropped(Released(P, {t}), s, {t})
           Y == Released(Books, {t})
<1>1. /\ P \in BooksType /\ P.home = home /\ P.workspaces = workspaces
      /\ P.pending = [pending EXCEPT ![Current] = @ \cup {t}]
      /\ P.status = [status EXCEPT ![t] = "pending"]
  BY PendSound DEF Sound
<1>2. /\ s \in Stream /\ pending \in [Stream -> SUBSET Tensor] /\ Settled(Books, s) /\ Queued(Books)
      /\ status \in [Tensor -> {"none", "live", "pending", "gone"}] /\ Books \in BooksType /\ Rooted(Books)
      /\ Books.pending = pending /\ Books.status = status /\ Books.home = home /\ Books.workspaces = workspaces
      /\ root \in [Tensor -> Tensor \cup {None}]
  BY BooksFacts DEF TensorsOK
<1>3. r \in Tensor /\ root[r] = None /\ r \in pending[s]
  BY <1>2 DEF Rooted
<1> HIDE DEF s
<1>4. P.pending[s] = pending[s] \cup {t} /\ pending[s] \subseteq Tensor /\ t \notin pending[s]
  BY <1>1, <1>2 DEF Queued, s
<1> HIDE DEF P, r
<1>5. {v \in P.pending[s] : root[v] # None /\ (FALSE \/ root[v] \in P.pending[s])} = {t}
  <2>1. \A v \in pending[s] : v \in Tensor /\ (root[v] # None => root[v] \notin pending[s] /\ root[root[v]] = None)
    BY <1>2, <1>4 DEF Settled, Rooted
  <2> QED
    BY <1>3, <1>4, <2>1 DEF r, s
<1>6. X = Y
  <2>1. X = [pending |-> [P.pending EXCEPT ![s] = @ \ {t}],
             status |-> [x \in Tensor |-> IF x \in {t} THEN "gone" ELSE P.status[x]],
             home |-> P.home, workspaces |-> P.workspaces]
    <3> DEFINE V == {t}
    <3>1. P \in BooksType /\ s \in Stream
      BY <1>1, <1>2
    <3> HIDE DEF V
    <3>2. Dropped(Released(P, V), s, V) =
            [pending |-> [P.pending EXCEPT ![s] = @ \ V],
             status |-> [x \in Tensor |-> IF x \in V THEN "gone" ELSE P.status[x]],
             home |-> P.home, workspaces |-> P.workspaces]
      BY <3>1, ReleasedIs
    <3> QED
      BY <3>2 DEF V
  <2>2. Y = [pending |-> pending, status |-> [x \in Tensor |-> IF x \in {t} THEN "gone" ELSE status[x]],
             home |-> home, workspaces |-> workspaces]
    BY <1>2, ReleasedIs
  <2>3. [P.pending EXCEPT ![s] = @ \ {t}] = pending
    <3>1. P.pending = [pending EXCEPT ![s] = @ \cup {t}]
      BY <1>1 DEF s
    <3>2. (pending[s] \cup {t}) \ {t} = pending[s]
      BY <1>4
    <3> QED
      BY <1>2, <3>1, <3>2
  <2>4. [x \in Tensor |-> IF x \in {t} THEN "gone" ELSE P.status[x]]
          = [x \in Tensor |-> IF x \in {t} THEN "gone" ELSE status[x]]
    BY <1>1, <1>2
  <2> HIDE DEF X, Y
  <2> QED
    BY <1>1, <2>1, <2>2, <2>3, <2>4
<1>7. /\ Y.pending = pending /\ Y \in BooksType
      /\ Y.status = [x \in Tensor |-> IF x \in {t} THEN "gone" ELSE status[x]]
  <2>1. /\ Y = [pending |-> pending, status |-> [x \in Tensor |-> IF x \in {t} THEN "gone" ELSE status[x]],
                home |-> home, workspaces |-> workspaces]
        /\ Y \in BooksType
    BY <1>2, ReleasedIs
  <2> HIDE DEF Y
  <2> QED
    BY <2>1
<1> DEFINE F == {x \in Y.pending[s] : root[x] = None /\ ViewsIn(Y, x) = {}}
<1>8. Reconciled(P, s, FALSE) = Finished(Y, s, F)
  <2> DEFINE G == {v \in P.pending[s] : root[v] # None /\ (FALSE \/ root[v] \in P.pending[s])}
  <2>1. Reconciled(P, s, FALSE) =
          Finished(Dropped(Released(P, G), s, G), s,
                   {x \in Dropped(Released(P, G), s, G).pending[s] :
                      root[x] = None /\ ViewsIn(Dropped(Released(P, G), s, G), x) = {}})
    BY DEF Reconciled
  <2>2. G = {t}
    BY <1>5
  <2> HIDE DEF G
  <2>3. Dropped(Released(P, G), s, G) = Y
    BY <1>6, <2>2
  <2> HIDE DEF Y
  <2> QED
    BY <2>1, <2>3
<1>9. DisposeView(t) = IF ViewsIn(Y, r) = {} THEN Finished(Y, s, {r}) ELSE Y
  BY <1>3 DEF DisposeView, r, s
<1> HIDE DEF X, Y
<1>10. F = IF ViewsIn(Y, r) = {} THEN {r} ELSE {}
  <2>1. ASSUME NEW x \in pending[s], root[x] = None, x # r PROVE ViewsIn(Y, x) # {}
    <3>1. PICK v \in Tensor : root[v] = x /\ status[v] \in {"live", "pending"}
      BY <1>2, <2>1 DEF Settled, ViewsIn
    <3>2. v # t
      BY <2>1, <3>1 DEF r
    <3>3. Y.status[v] \in {"live", "pending"}
      BY <1>7, <3>1, <3>2
    <3> QED
      BY <3>1, <3>3 DEF ViewsIn
  <2> QED
    BY <1>3, <1>7, <2>1
<1> HIDE DEF F
<1>11. Finished(Y, s, {}) = Y
  BY <1>2, <1>7, FinishedNone
<1> QED
  BY <1>8, <1>9, <1>10, <1>11 DEF P, s

\* [Symbol.dispose] leaves sound books.
LEMMA DisposeSound ==
  ASSUME IInv, NEW t \in Tensor, status[t] = "live", OrderedAfter(Current, t)
  PROVE  LET R == IF root[t] = None THEN DisposeRoot(t) ELSE DisposeView(t)
         IN /\ Sound(R, after, activeStreams, {})
            /\ \A b \in Block : R.home[b] = "held" => home[b] = "held"
            /\ R.workspaces \subseteq workspaces \cup ({Current} \cap Alternate)
            /\ \A x \in Stream \ {Current} : R.pending[x] \subseteq pending[x]
<1> DEFINE P == Pend(t)
           s == Current
           Good(R) == /\ Sound(R, after, activeStreams, {})
                      /\ \A b \in Block : R.home[b] = "held" => home[b] = "held"
                      /\ R.workspaces \subseteq workspaces \cup ({s} \cap Alternate)
                      /\ \A x \in Stream \ {s} : R.pending[x] \subseteq pending[x]
<1>1. /\ Sound(P, after, activeStreams, {s}) /\ P.home = home /\ P.workspaces = workspaces
      /\ P.pending = [pending EXCEPT ![s] = @ \cup {t}]
      /\ P.status = [status EXCEPT ![t] = "pending"]
  BY PendSound
<1>2. /\ s \in Stream /\ pending \in [Stream -> SUBSET Tensor] /\ Settled(Books, s)
      /\ status \in [Tensor -> {"none", "live", "pending", "gone"}] /\ Rooted(Books)
      /\ Books.pending = pending /\ Books.status = status
      /\ TensorsOK /\ Nested(activeStreams) /\ after \in OrderType /\ s = activeStreams[Len(activeStreams)]
  BY BooksFacts DEF Current
<1> HIDE DEF s, P
<1>3. \A x \in Stream \ {s} : P.pending[x] = pending[x]
  BY <1>1, <1>2
<1>4. Good(Reconciled(P, s, FALSE))
  <2>1. Sound(Reconciled(P, s, FALSE), after, activeStreams, {}) /\ Tidied(P, Reconciled(P, s, FALSE), s)
    BY <1>1, <1>2, ReconciledSound
  <2> QED
    BY <1>1, <1>3, <2>1 DEF Tidied
<1>5. CASE root[t] = None
  BY <1>4, <1>5, DisposeRootIs DEF P, s
<1>6. CASE root[t] # None /\ root[t] \in pending[s]
  BY <1>4, <1>6, DisposeViewIs DEF P, s
<1>7. CASE root[t] # None /\ root[t] \notin pending[s]
  <2>1. DisposeView(t) = P
    BY <1>7 DEF DisposeView, P, s
  <2>2. Settled(P, s)
    <3>1. P.pending[s] = pending[s] \cup {t}
      BY <1>1, <1>2
    <3>2. \A x \in Tensor : ViewsIn(P, x) = ViewsIn(Books, x)
      BY <1>1, <1>2 DEF ViewsIn
    <3>3. \A x \in Tensor : root[x] # None => root[root[x]] = None
      BY <1>2 DEF Rooted
    <3>4. pending[s] \subseteq Tensor
      BY <1>2
    <3> QED
      BY <1>2, <1>7, <3>1, <3>2, <3>3, <3>4 DEF Settled
  <2>3. Good(P)
    BY <1>1, <1>3, <2>2 DEF Sound
  <2> QED
    BY <1>7, <2>1, <2>3 DEF s
<1> QED
  BY <1>5, <1>6, <1>7
-----------------------------------------------------------------------------
(* Streams                                                               *)

\* The nest without its innermost stream.
LEMMA FrontNested ==
  ASSUME NEW a, Nested(a), a[Len(a)] # Main
  PROVE  /\ Nested(Front(a)) /\ Len(Front(a)) = Len(a) - 1
         /\ \A k \in 1..(Len(a) - 1) : Front(a)[k] = a[k]
         /\ Last(Front(a)) = Front(a)[Len(Front(a))]
<1>1. /\ a \in Seq(Stream) /\ Len(a) \in Nat /\ Len(a) >= 1 /\ a[1] = Main
      /\ \A j, k \in 1..Len(a) : a[j] = a[k] => j = k
  BY NestFacts DEF Nested
<1>2. Len(a) > 1
  BY <1>1
<1> DEFINE f == Front(a)
<1>3. f \in Seq(Stream) /\ Len(f) = Len(a) - 1 /\ \A k \in 1..(Len(a) - 1) : f[k] = a[k]
  BY <1>1, <1>2 DEF Front
<1>4. Last(f) = f[Len(f)]
  BY DEF Last
<1> HIDE DEF f
<1>5. f[1] = Main /\ Len(f) >= 1
  BY <1>1, <1>2, <1>3
<1>6. \A j, k \in 1..Len(f) : f[j] = f[k] => j = k
  BY <1>1, <1>3
<1>7. Nested(f)
  BY <1>3, <1>5, <1>6 DEF Nested
<1> QED
  BY <1>3, <1>4, <1>7 DEF f

\* The nest with one more.
LEMMA AppendNested ==
  ASSUME NEW a, Nested(a), NEW s \in Stream, \A k \in 1..Len(a) : a[k] # s
  PROVE  /\ Nested(Append(a, s)) /\ Len(Append(a, s)) = Len(a) + 1
         /\ \A k \in 1..Len(a) : Append(a, s)[k] = a[k]
         /\ Append(a, s)[Len(a) + 1] = s
<1> DEFINE f == Append(a, s)
<1>1. /\ a \in Seq(Stream) /\ Len(a) \in Nat /\ Len(a) >= 1 /\ a[1] = Main
      /\ \A j, k \in 1..Len(a) : a[j] = a[k] => j = k
  BY NestFacts DEF Nested
<1>2. /\ f \in Seq(Stream) /\ Len(f) = Len(a) + 1 /\ f[Len(a) + 1] = s
      /\ \A k \in 1..Len(a) : f[k] = a[k]
  BY <1>1
<1> HIDE DEF f
<1>3. f[1] = Main /\ Len(f) >= 1
  BY <1>1, <1>2
<1>4. ASSUME NEW j \in 1..Len(f), NEW k \in 1..Len(f), f[j] = f[k] PROVE j = k
  <2>1. (j \in 1..Len(a) \/ j = Len(a) + 1) /\ (k \in 1..Len(a) \/ k = Len(a) + 1)
    BY <1>1, <1>2
  <2> QED
    BY <1>1, <1>2, <1>4, <2>1
<1>5. Nested(f)
  BY <1>2, <1>3, <1>4 DEF Nested
<1> QED
  BY <1>2, <1>5 DEF f

\* Streams given back.  ids are those reserved for s, s itself with its handle.
LEMMA ReturnedPlaced ==
  ASSUME StreamsOK, NEW s \in Alternate, handle[s] # "none",
         NEW to \in Stream, to = activeStreams'[Len(activeStreams')],
         Nested(activeStreams'), \A k \in 1..Len(activeStreams') : activeStreams'[k] # s,
         \A x \in Alternate \ {s} : (\E k \in 1..Len(activeStreams) : activeStreams[k] = x)
                                  <=> (\E k \in 1..Len(activeStreams') : activeStreams'[k] = x),
         NEW ids, NEW g, Returned(ids, s, to), handle' = [handle EXCEPT ![s] = g],
         \/ ids = joined[s] /\ g = "none"
         \/ ids = joined[s] \ {s} /\ g = "waited"
  PROVE  StreamsOK'
<1> DEFINE a == activeStreams
           b == activeStreams'
           p == pool
           h == handle
           j == joined
           p2 == pool'
           h2 == handle'
           j2 == joined'
<1>a. /\ h[s] # "none" /\ to = b[Len(b)] /\ Nested(b) /\ \A k \in 1..Len(b) : b[k] # s
      /\ \A x \in Alternate \ {s} : (\E k \in 1..Len(a) : a[k] = x) <=> (\E k \in 1..Len(b) : b[k] = x)
      /\ (ids = j[s] /\ g = "none") \/ (ids = j[s] \ {s} /\ g = "waited")
      /\ p2 = IF to = Main THEN p \cup ids ELSE p
      /\ h2 = [h EXCEPT ![s] = g]
      /\ j2 = [x \in Stream |-> IF x = s THEN j[s] \ ids
                                ELSE IF x = to /\ to # Main THEN j[x] \cup ids ELSE j[x]]
  BY DEF Returned
<1>b. Placed(a, p, h, j)
  BY DEF StreamsOK
<1>c. Placed(b, p2, h2, j2) => StreamsOK'
  BY DEF StreamsOK, Placed, Nested
<1> HIDE DEF a, b, p, h, j, p2, h2, j2
<1> SUFFICES Placed(b, p2, h2, j2)
  BY <1>c
<1>1. /\ p \subseteq Alternate /\ h \in [Alternate -> {"none", "running", "open", "waited"}]
      /\ j \in [Stream -> SUBSET Alternate] /\ j[Main] = {}
      /\ \A x \in Alternate :
           /\ h[x] = "running" <=> \E k \in 1..Len(a) : a[k] = x
           /\ h[x] # "none" <=> x \in j[x]
           /\ j[x] # {} => x \in j[x]
           /\ x \in p <=> \A y \in Alternate : x \notin j[y]
           /\ \A y, z \in Alternate : x \in j[y] /\ x \in j[z] => y = z
  BY <1>b DEF Placed
<1>2. s # Main /\ s \in Stream /\ Alternate \subseteq Stream /\ Main \in Stream
  BY StreamAssumption DEF Stream
<1>3. ids \subseteq j[s] /\ j[s] \subseteq Alternate /\ s \in j[s]
  BY <1>a, <1>1, <1>2
<1>4. s # to /\ (to # Main => to \in Alternate /\ h[to] = "running" /\ to \in j[to])
  <2>1. Len(b) \in 1..Len(b) /\ b[Len(b)] = to
    BY <1>a, NestFacts
  <2>2. s # to
    BY <1>a, <2>1
  <2>3. ASSUME to # Main PROVE to \in Alternate /\ h[to] = "running" /\ to \in j[to]
    <3>1. to \in Alternate \ {s}
      BY <2>2, <2>3 DEF Stream
    <3>2. \E k \in 1..Len(a) : a[k] = to
      BY <1>a, <2>1, <3>1
    <3>3. h[to] = "running"
      BY <1>1, <3>1, <3>2
    <3> QED
      BY <1>1, <3>1, <3>3
  <2> QED
    BY <2>2, <2>3
<1>5. /\ \A x \in Alternate : h2[x] = IF x = s THEN g ELSE h[x]
      /\ h2 \in [Alternate -> {"none", "running", "open", "waited"}]
  BY <1>a, <1>1
<1>6. /\ j2[s] = j[s] \ ids /\ (to # Main => j2[to] = j[to] \cup ids)
      /\ \A x \in Stream : x # s /\ (x = to => to = Main) => j2[x] = j[x]
  BY <1>a, <1>2, <1>4
<1>7. j2 \in [Stream -> SUBSET Alternate] /\ j2[Main] = {}
  BY <1>a, <1>1, <1>2, <1>3, <1>6
<1>8. p2 \subseteq Alternate
  BY <1>a, <1>1, <1>3
<1> SUFFICES ASSUME NEW x \in Alternate
             PROVE  /\ h2[x] = "running" <=> \E k \in 1..Len(b) : b[k] = x
                    /\ h2[x] # "none" <=> x \in j2[x]
                    /\ j2[x] # {} => x \in j2[x]
                    /\ x \in p2 <=> \A y \in Alternate : x \notin j2[y]
                    /\ \A y, z \in Alternate : x \in j2[y] /\ x \in j2[z] => y = z
  BY <1>a, <1>5, <1>7, <1>8 DEF Placed
<1>9. h2[x] = "running" <=> \E k \in 1..Len(b) : b[k] = x
  BY <1>a, <1>1, <1>5
<1>10. h2[x] # "none" <=> x \in j2[x]
  <2>1. CASE x = s
    BY <1>a, <1>3, <1>5, <1>6, <2>1
  <2>2. CASE x # s /\ x = to
    BY <1>1, <1>2, <1>4, <1>5, <1>6, <2>2
  <2>3. CASE x # s /\ x # to
    BY <1>1, <1>2, <1>5, <1>6, <2>3
  <2> QED
    BY <2>1, <2>2, <2>3
<1>11. j2[x] # {} => x \in j2[x]
  <2>1. CASE x = s
    <3>1. j2[s] = {} \/ s \in j2[s]
      BY <1>a, <1>3, <1>6
    <3> QED
      BY <2>1, <3>1
  <2>2. CASE x # s /\ x = to
    BY <1>4, <1>6, <2>2, StreamAssumption
  <2>3. CASE x # s /\ x # to
    BY <1>1, <1>2, <1>6, <2>3
  <2> QED
    BY <2>1, <2>2, <2>3
<1>12. \A y \in Alternate : x \in j2[y] <=>
         \/ x \in j[y] /\ ~(y = s /\ x \in ids)
         \/ y = to /\ x \in ids
  <2> SUFFICES ASSUME NEW y \in Alternate
               PROVE  x \in j2[y] <=> \/ x \in j[y] /\ ~(y = s /\ x \in ids)
                                      \/ y = to /\ x \in ids
    OBVIOUS
  <2>1. CASE y = s
    BY <1>3, <1>4, <1>6, <2>1
  <2>2. CASE y # s /\ y = to
    BY <1>2, <1>4, <1>6, <2>2, StreamAssumption
  <2>3. CASE y # s /\ y # to
    BY <1>2, <1>6, <2>3
  <2> QED
    BY <2>1, <2>2, <2>3
<1>13. x \in ids => \A y \in Alternate : x \in j[y] => y = s
  BY <1>1, <1>3
<1>14. x \in p2 <=> \A y \in Alternate : x \notin j2[y]
  <2>1. CASE x \notin ids
    BY <1>a, <1>1, <1>12, <2>1
  <2>2. CASE x \in ids /\ to = Main
    BY <1>a, <1>12, <1>13, <2>2, StreamAssumption
  <2>3. CASE x \in ids /\ to # Main
    <3>1. x \in j2[to] /\ to \in Alternate
      BY <1>4, <1>12, <2>3
    <3>2. x \notin p2
      BY <1>a, <1>1, <1>3, <2>3
    <3> QED
      BY <2>3, <3>1, <3>2
  <2> QED
    BY <2>1, <2>2, <2>3
<1>15. \A y, z \in Alternate : x \in j2[y] /\ x \in j2[z] => y = z
  <2>1. CASE x \notin ids
    BY <1>1, <1>12, <2>1
  <2>2. CASE x \in ids
    BY <1>12, <1>13, <2>2
  <2> QED
    BY <2>1, <2>2
<1> QED
  BY <1>9, <1>10, <1>11, <1>14, <1>15

\* An acquired stream is nobody's.
LEMMA AcquiredFree ==
  ASSUME StreamsOK, NEW s \in Acquirable
  PROVE  /\ s \in Alternate /\ handle[s] = "none" /\ joined[s] = {}
         /\ \A k \in 1..Len(activeStreams) : activeStreams[k] # s
<1> DEFINE a == activeStreams
<1>1. /\ Nested(a) /\ pool \subseteq Alternate /\ joined \in [Stream -> SUBSET Alternate]
      /\ handle \in [Alternate -> {"none", "running", "open", "waited"}]
      /\ \A x \in Alternate :
           /\ handle[x] = "running" <=> \E k \in 1..Len(a) : a[k] = x
           /\ handle[x] # "none" <=> x \in joined[x]
           /\ joined[x] # {} => x \in joined[x]
           /\ x \in pool <=> \A y \in Alternate : x \notin joined[y]
           /\ \A y, z \in Alternate : x \in joined[y] /\ x \in joined[z] => y = z
  BY DEF StreamsOK, Placed
<1>2. \A k \in 1..Len(a) : a[k] \in Stream /\ DOMAIN a = 1..Len(a)
  BY <1>1, NestFacts
<1>3. s \in pool \/ \E x \in Alternate : s \in joined[x] \ {x}
  <2>1. PICK i \in DOMAIN a : s \in (IF a[i] = Main THEN pool ELSE joined[a[i]] \ {a[i]})
    BY DEF Acquirable, Descendants
  <2>2. a[i] \in Stream
    <3>1. DOMAIN a = 1..Len(a) /\ \A k \in 1..Len(a) : a[k] \in Stream
      BY <1>1, NestFacts
    <3> QED
      BY <3>1
  <2> QED
    BY <2>1, <2>2 DEF Stream
<1>4. s \in Alternate
  BY <1>1, <1>3 DEF Stream
<1>5. s \notin joined[s]
  BY <1>1, <1>3, <1>4
<1>6. handle[s] = "none" /\ joined[s] = {}
  BY <1>1, <1>4, <1>5
<1>7. ~\E k \in 1..Len(a) : a[k] = s
  BY <1>1, <1>4, <1>6
<1> QED
  BY <1>4, <1>6, <1>7

\* The books that an operation leaves are those of the next state.
LEMMA SoundTaken ==
  ASSUME block' = block, root' = root, NEW R, TakeBooks(R), Sound(R, after', activeStreams', {})
  PROVE  Sound(Books, after, activeStreams, {})'
<1>1. R \in BooksType
  BY DEF Sound
<1>2. Books' = R
  BY <1>1 DEF Books, BooksType, TakeBooks
<1>3. Rooted(R)' <=> Rooted(R)
  BY DEF Rooted, InUse
<1> QED
  BY <1>2 DEF Sound, Rooted, Held, Queued, Settled, ViewsIn, Ordered, Reusable, HeapsKnown, InUse, BooksType

\* The books are all of the state of the memory that an operation on streams
\* changes.
LEMMA GiveBack ==
  ASSUME IInv, NEW s \in Alternate, handle[s] # "none", NEW to \in Stream, to = activeStreams'[Len(activeStreams')],
         Nested(activeStreams'), \A k \in 1..Len(activeStreams') : activeStreams'[k] # s,
         \A x \in Alternate \ {s} : (\E k \in 1..Len(activeStreams) : activeStreams[k] = x)
                                  <=> (\E k \in 1..Len(activeStreams') : activeStreams'[k] = x),
         after' \in OrderType, Sound(Books, after', activeStreams', {}),
         \/ \A t \in Tensor : Behind(after', s, t) => Behind(after', to, t)
         \/ s \notin workspaces /\ pending[s] = {},
         TakeBooks(Joined(s, to)), NEW ids, NEW g, Returned(ids, s, to), handle' = [handle EXCEPT ![s] = g],
         \/ ids = joined[s] /\ g = "none"
         \/ ids = joined[s] \ {s} /\ g = "waited",
         UNCHANGED <<block, root>>
  PROVE  IInv' /\ \A b \in Block : home'[b] = "held" => home[b] = "held"
<1> DEFINE R == Joined(s, to)
<1>1. /\ StreamsOK /\ TensorsOK /\ NothingLeft
      /\ Placed(activeStreams, pool, handle, joined)
  BY DEF IInv, StreamsOK
<1>2. /\ Sound(R, after', activeStreams', {})
      /\ \A b \in Block : R.home[b] = "held" => home[b] = "held"
      /\ R.pending[s] = {} /\ s \notin R.workspaces
      /\ R.workspaces \subseteq workspaces \cup ({to} \cap Alternate)
      /\ \A x \in Stream \ {to} : R.pending[x] \subseteq pending[x]
  BY <1>1, JoinedSound
<1> HIDE DEF R
<1>3. pending' = R.pending /\ status' = R.status /\ home' = R.home /\ workspaces' = R.workspaces /\ TakeBooks(R)
  BY DEF TakeBooks, R
<1>4. Sound(Books, after, activeStreams, {})'
  BY <1>2, <1>3, SoundTaken
<1>5. StreamsOK'
  BY <1>1, ReturnedPlaced
<1>6. TensorsOK'
  BY <1>1 DEF TensorsOK, OneRoot, RootOf
<1>7. NothingLeft'
  <2> SUFFICES ASSUME NEW x \in Alternate, handle'[x] = "none" PROVE x \notin R.workspaces /\ R.pending[x] = {}
    BY <1>3 DEF NothingLeft
  <2>1. CASE x = s
    BY <1>2, <2>1
  <2>2. CASE x # s
    <3>1. handle[x] = "none" /\ handle[x] # "running"
      BY <1>1, <2>2 DEF Placed
    <3>2. x # to
      <4>1. \A k \in 1..Len(activeStreams) : activeStreams[k] # x
        BY <1>1, <3>1 DEF Placed
      <4>2. Len(activeStreams') \in 1..Len(activeStreams')
        BY NestFacts
      <4> QED
        BY <2>2, <4>1, <4>2
    <3>3. x \notin workspaces /\ pending[x] = {}
      BY <1>1, <3>1 DEF NothingLeft
    <3>4. x \in Stream \ {to}
      BY <3>2 DEF Stream
    <3> QED
      BY <1>2, <3>2, <3>3, <3>4
  <2> QED
    BY <2>1, <2>2
<1>8. \A b \in Block : home'[b] = "held" => home[b] = "held"
  BY <1>2, <1>3
<1> QED
  BY <1>4, <1>5, <1>6, <1>7, <1>8 DEF IInv

\* An operation that only adds order, and one that changes the nest alone.
LEMMA BooksKept ==
  ASSUME UNCHANGED <<pending, status, home, workspaces, block, root>>, Sound(Books, after', activeStreams', {})
  PROVE  Sound(Books, after, activeStreams, {})'
<1>1. Books = [pending |-> pending, status |-> status, home |-> home, workspaces |-> workspaces]
  BY DEF Books
<1> DEFINE R == Books
<1> HIDE DEF R
<1>2. R.pending = pending /\ R.status = status /\ R.home = home /\ R.workspaces = workspaces
  BY <1>1 DEF R
<1>3. TakeBooks(R)
  BY <1>2 DEF TakeBooks
<1>4. Sound(R, after', activeStreams', {})
  BY DEF R
<1> QED
  BY <1>3, <1>4, SoundTaken

\* The innermost callback is over.
LEMMA EndedNest ==
  ASSUME IInv, Current # Main, activeStreams' = Front(activeStreams)
  PROVE  /\ Current \in Alternate /\ handle[Current] = "running"
         /\ Nested(activeStreams') /\ \A k \in 1..Len(activeStreams') : activeStreams'[k] # Current
         /\ \A x \in Alternate \ {Current} : (\E k \in 1..Len(activeStreams) : activeStreams[k] = x)
                                          <=> (\E k \in 1..Len(activeStreams') : activeStreams'[k] = x)
         /\ Last(activeStreams') \in Stream /\ Last(activeStreams') = activeStreams'[Len(activeStreams')]
         /\ Sound(Books, after, activeStreams', {})
<1> DEFINE a == activeStreams
           b == activeStreams'
<1>1. /\ Nested(a) /\ Current = a[Len(a)] /\ b = Front(a)
      /\ \A x \in Alternate : handle[x] = "running" <=> \E k \in 1..Len(a) : a[k] = x
      /\ Reusable(Books, after, a) /\ Sound(Books, after, a, {})
  BY BooksFacts DEF IInv, StreamsOK, Placed, Current
<1>2. /\ Len(a) \in Nat /\ Len(a) >= 1 /\ Len(a) \in 1..Len(a) /\ DOMAIN a = 1..Len(a)
      /\ \A k \in 1..Len(a) : a[k] \in Stream
      /\ \A j, k \in 1..Len(a) : a[j] = a[k] => j = k
  BY <1>1, NestFacts
<1>3. /\ Nested(b) /\ Len(b) = Len(a) - 1 /\ \A k \in 1..(Len(a) - 1) : b[k] = a[k]
      /\ Last(b) = b[Len(b)]
  BY <1>1, FrontNested
<1>4. DOMAIN b = 1..Len(b) /\ b[Len(b)] \in Stream
  BY <1>3, NestFacts
<1> HIDE DEF a, b
<1>4a. \A k : k \in 1..Len(b) <=> k \in 1..Len(a) /\ k # Len(a)
  <2> DEFINE n == Len(a)
             m == Len(b)
  <2>1. n \in Nat /\ n >= 1 /\ m = n - 1
    BY <1>2, <1>3
  <2> HIDE DEF n, m
  <2>2. \A k : k \in 1..m <=> k \in 1..n /\ k # n
    BY <2>1
  <2> QED
    BY <2>2 DEF n, m
<1>4b. \A k \in 1..Len(b) : b[k] = a[k]
  BY <1>3
<1>5. Current \in Alternate /\ handle[Current] = "running"
  <2>1. Current \in Alternate
    BY <1>1, <1>2 DEF Stream
  <2> QED
    BY <1>1, <1>2, <2>1
<1>6. \A k \in 1..Len(b) : b[k] # Current
  <2> SUFFICES ASSUME NEW k \in 1..Len(b) PROVE b[k] # Current
    OBVIOUS
  <2>1. k \in 1..Len(a) /\ k # Len(a) /\ b[k] = a[k]
    BY <1>4a, <1>4b
  <2> QED
    BY <1>1, <1>2, <2>1
<1>7. \A x : x # Current => ((\E k \in 1..Len(a) : a[k] = x) <=> (\E k \in 1..Len(b) : b[k] = x))
  <2>1. \A k \in 1..Len(a) : k = Len(a) \/ k \in 1..Len(b)
    BY <1>4a
  <2>2. \A k \in 1..Len(b) : k \in 1..Len(a) /\ b[k] = a[k]
    BY <1>4a, <1>4b
  <2> QED
    BY <1>1, <2>1, <2>2
<1>8. Sound(Books, after, b, {})
  <2>1. \A k \in DOMAIN b : k \in DOMAIN a /\ b[k] = a[k]
    BY <1>2, <1>3, <1>4
  <2>2. Reusable(Books, after, b)
    BY <1>1, <2>1 DEF Reusable
  <2> QED
    BY <1>1, <2>2 DEF Sound
<1> QED
  BY <1>3, <1>4, <1>5, <1>6, <1>7, <1>8 DEF a, b

\* The end of a callback keeps the invariant.
LEMMA EndStreamKeeps ==
  ASSUME IInv, EndStream
  PROVE  IInv' /\ \A b \in Block : home'[b] = "held" => home[b] = "held"
<1> DEFINE s == Current
           a == activeStreams
           b == activeStreams'
<1>1. /\ UNCHANGED <<pool, workspaces, joined, pending, home, block, root, status, after>>
      /\ handle' = [handle EXCEPT ![s] = "open"]
  BY DEF EndStream, tensorVars
<1>2. /\ s \in Alternate /\ handle[s] = "running" /\ Nested(b) /\ \A k \in 1..Len(b) : b[k] # s
      /\ \A x \in Alternate \ {s} : (\E k \in 1..Len(a) : a[k] = x) <=> (\E k \in 1..Len(b) : b[k] = x)
      /\ Sound(Books, after, b, {})
  BY EndedNest DEF EndStream
<1> HIDE DEF s, b
<1>3. Placed(a, pool, handle, joined) /\ NothingLeft /\ TensorsOK /\ after \in OrderType
  BY DEF IInv, StreamsOK
<1>4. Placed(b, pool', handle', joined')
  <2>1. /\ handle' \in [Alternate -> {"none", "running", "open", "waited"}]
        /\ \A x \in Alternate : handle'[x] = IF x = s THEN "open" ELSE handle[x]
    BY <1>1, <1>2, <1>3 DEF Placed
  <2> HIDE DEF a
  <2>2. \A x \in Alternate : handle'[x] = "running" <=> \E k \in 1..Len(b) : b[k] = x
    BY <1>2, <1>3, <2>1 DEF Placed
  <2>3. \A x \in Alternate : handle'[x] # "none" <=> handle[x] # "none"
    BY <1>2, <2>1
  <2> QED
    BY <1>1, <1>2, <1>3, <2>1, <2>2, <2>3 DEF Placed
<1>5. StreamsOK'
  BY <1>4 DEF StreamsOK, Placed, Nested, b
<1>6. Sound(Books, after, activeStreams, {})'
  BY <1>1, <1>2, BooksKept DEF b
<1>7. NothingLeft'
  BY <1>1, <1>2, <1>3 DEF NothingLeft, Placed
<1>8. TensorsOK' /\ after' \in OrderType
  BY <1>1, <1>3 DEF TensorsOK, OneRoot, RootOf
<1> QED
  BY <1>1, <1>5, <1>6, <1>7, <1>8 DEF IInv

\* A callback that throws.
LEMMA FailStreamKeeps ==
  ASSUME IInv, FailStream
  PROVE  IInv' /\ \A b \in Block : home'[b] = "held" => home[b] = "held"
<1> DEFINE s == Current
           to == Last(activeStreams')
           o == Waited(after, to, s)
           p == Waited(o, to, s)
<1>1. /\ s \in Alternate /\ handle[s] = "running" /\ Nested(activeStreams')
      /\ \A k \in 1..Len(activeStreams') : activeStreams'[k] # s
      /\ \A x \in Alternate \ {s} : (\E k \in 1..Len(activeStreams) : activeStreams[k] = x)
                                  <=> (\E k \in 1..Len(activeStreams') : activeStreams'[k] = x)
      /\ to \in Stream /\ to = activeStreams'[Len(activeStreams')]
      /\ Sound(Books, after, activeStreams', {})
  BY EndedNest DEF FailStream
<1>2. /\ TakeBooks(Joined(s, to)) /\ Returned(joined[s], s, to) /\ handle' = [handle EXCEPT ![s] = "none"]
      /\ after' = p \/ after' = o
      /\ UNCHANGED <<block, root>>
  BY DEF FailStream, DisposeStream
<1> HIDE DEF s, to, o, p
<1>3. TensorsOK /\ after \in OrderType
  BY DEF IInv
<1>4. /\ Later(after, o) /\ \A t \in Tensor : Behind(o, s, t) => Behind(o, to, t)
      /\ o \in OrderType
  BY <1>1, <1>3, WaitedOrder DEF o, Later
<1>5. /\ Later(o, p) /\ \A t \in Tensor : Behind(p, s, t) => Behind(p, to, t)
      /\ p \in OrderType
  BY <1>1, <1>4, WaitedOrder DEF p, Later
<1>6. Sound(Books, o, activeStreams', {})
  BY <1>1, <1>3, <1>4, LaterSound
<1>7. Sound(Books, p, activeStreams', {})
  BY <1>3, <1>4, <1>5, <1>6, LaterSound
<1>8. /\ after' \in OrderType /\ Sound(Books, after', activeStreams', {})
      /\ \A t \in Tensor : Behind(after', s, t) => Behind(after', to, t)
  BY <1>2, <1>4, <1>5, <1>6, <1>7
<1> QED
  BY <1>1, <1>2, <1>8, GiveBack

\* Waiting for another stream's end.
LEMMA StreamWaitEventKeeps ==
  ASSUME IInv, NEW s \in Alternate, StreamWaitEvent(s)
  PROVE  IInv' /\ \A b \in Block : home'[b] = "held" => home[b] = "held"
<1> DEFINE to == Current
           o == Waited(after, to, s)
<1>1. /\ TensorsOK /\ after \in OrderType /\ to \in Stream /\ to = activeStreams[Len(activeStreams)]
      /\ Nested(activeStreams) /\ Sound(Books, after, activeStreams, {}) /\ StreamsOK /\ NothingLeft
      /\ Placed(activeStreams, pool, handle, joined)
  BY BooksFacts DEF IInv, Current, StreamsOK
<1>2. /\ handle[s] \in {"open", "waited"} /\ after' = o /\ handle' = [handle EXCEPT ![s] = "waited"]
      /\ UNCHANGED <<activeStreams, block, root>>
      /\ IF handle[s] = "waited"
         THEN UNCHANGED <<pool, joined, workspaces, pending, home, status>>
         ELSE TakeBooks(Joined(s, to)) /\ Returned(joined[s] \ {s}, s, to)
  BY DEF StreamWaitEvent, Descendants
<1> HIDE DEF to, o
<1>3. \A k \in 1..Len(activeStreams) : activeStreams[k] # s
  BY <1>1, <1>2 DEF Placed
<1>4. Later(after, o) /\ o \in OrderType /\ \A t \in Tensor : Behind(o, s, t) => Behind(o, to, t)
  BY <1>1, WaitedOrder DEF o, Later
<1>5. Sound(Books, o, activeStreams, {})
  BY <1>1, <1>4, LaterSound
<1>6. /\ Sound(Books, after', activeStreams', {}) /\ after' \in OrderType /\ Nested(activeStreams')
      /\ to = activeStreams'[Len(activeStreams')] /\ \A k \in 1..Len(activeStreams') : activeStreams'[k] # s
      /\ \A x \in Alternate \ {s} : (\E k \in 1..Len(activeStreams) : activeStreams[k] = x)
                                  <=> (\E k \in 1..Len(activeStreams') : activeStreams'[k] = x)
      /\ \A t \in Tensor : Behind(after', s, t) => Behind(after', to, t)
  <2>1. activeStreams' = activeStreams /\ after' = o
    BY <1>2
  <2> QED
    BY <1>1, <1>3, <1>4, <1>5, <2>1
<1>7. CASE handle[s] # "waited"
  <2>1. TakeBooks(Joined(s, to)) /\ Returned(joined[s] \ {s}, s, to) /\ handle[s] # "none"
    BY <1>2, <1>7
  <2> DEFINE ids == joined[s] \ {s}
             g == "waited"
  <2>2. Returned(ids, s, to) /\ handle' = [handle EXCEPT ![s] = g] /\ ids = joined[s] \ {s} /\ g = "waited"
    BY <1>2, <2>1
  <2> HIDE DEF ids, g
  <2>3. /\ handle[s] # "none" /\ TakeBooks(Joined(s, to)) /\ UNCHANGED <<block, root>>
        /\ (ids = joined[s] /\ g = "none") \/ (ids = joined[s] \ {s} /\ g = "waited")
    BY <1>2, <2>1, <2>2
  <2> QED
    BY <1>1, <1>6, <2>2, <2>3, GiveBack
<1>8. CASE handle[s] = "waited"
  <2>1. UNCHANGED <<activeStreams, pool, joined, workspaces, pending, home, status, block, root>>
    BY <1>2, <1>8
  <2>2. handle' = handle
    BY <1>1, <1>2, <1>8 DEF Placed
  <2>3. Sound(Books, after, activeStreams, {})'
    BY <1>6, <2>1, BooksKept
  <2>4. StreamsOK' /\ TensorsOK' /\ NothingLeft'
    BY <1>1, <2>1, <2>2 DEF StreamsOK, Placed, Nested, TensorsOK, OneRoot, RootOf, NothingLeft
  <2> QED
    BY <1>6, <2>1, <2>3, <2>4 DEF IInv
<1> QED
  BY <1>7, <1>8

\* A stream's handle is disposed of: it is joined when it has left something.
LEMMA DisposeHandleKeeps ==
  ASSUME IInv, NEW s \in Alternate, DisposeHandle(s)
  PROVE  IInv' /\ \A b \in Block : home'[b] = "held" => home[b] = "held"
<1> DEFINE to == Current
           o == Waited(after, to, s)
<1>1. /\ TensorsOK /\ after \in OrderType /\ to \in Stream /\ to = activeStreams[Len(activeStreams)]
      /\ Nested(activeStreams) /\ Sound(Books, after, activeStreams, {})
      /\ Placed(activeStreams, pool, handle, joined)
  BY BooksFacts DEF IInv, Current, StreamsOK
<1>2. /\ handle[s] \in {"open", "waited"} /\ handle' = [handle EXCEPT ![s] = "none"]
      /\ TakeBooks(Joined(s, to)) /\ Returned(joined[s], s, to)
      /\ after' = o \/ (after' = after /\ s \notin workspaces /\ pending[s] = {})
      /\ UNCHANGED <<activeStreams, block, root>>
  BY DEF DisposeHandle, DisposeStream
<1> HIDE DEF to, o
<1>3. \A k \in 1..Len(activeStreams) : activeStreams[k] # s
  BY <1>1, <1>2 DEF Placed
<1>4. Later(after, o) /\ o \in OrderType /\ \A t \in Tensor : Behind(o, s, t) => Behind(o, to, t)
  BY <1>1, WaitedOrder DEF o, Later
<1>5. Sound(Books, o, activeStreams, {})
  BY <1>1, <1>4, LaterSound
<1>6. /\ Sound(Books, after', activeStreams', {}) /\ after' \in OrderType /\ Nested(activeStreams')
      /\ to = activeStreams'[Len(activeStreams')] /\ \A k \in 1..Len(activeStreams') : activeStreams'[k] # s
      /\ \A x \in Alternate \ {s} : (\E k \in 1..Len(activeStreams) : activeStreams[k] = x)
                                  <=> (\E k \in 1..Len(activeStreams') : activeStreams'[k] = x)
      /\ \/ \A t \in Tensor : Behind(after', s, t) => Behind(after', to, t)
         \/ s \notin workspaces /\ pending[s] = {}
  <2>1. activeStreams' = activeStreams
    BY <1>2
  <2>2. CASE after' = o
    BY <1>1, <1>3, <1>4, <1>5, <2>1, <2>2
  <2>3. CASE after' = after /\ s \notin workspaces /\ pending[s] = {}
    BY <1>1, <1>3, <2>1, <2>3
  <2> QED
    BY <1>2, <2>2, <2>3
<1>7. handle[s] # "none"
  BY <1>2
<1> QED
  BY <1>1, <1>2, <1>6, <1>7, GiveBack

\* A new stream starts empty, after what the current one has done.
LEMMA BeginStreamKeeps ==
  ASSUME IInv, NEW s \in Alternate, BeginStream(s)
  PROVE  IInv' /\ \A b \in Block : home'[b] = "held" => home[b] = "held"
<1> DEFINE a == activeStreams
           b == activeStreams'
           o == Waited(after, s, Current)
<1>1. /\ TensorsOK /\ after \in OrderType /\ Current \in Stream /\ Current = a[Len(a)]
      /\ Nested(a) /\ Sound(Books, after, a, {}) /\ StreamsOK /\ NothingLeft
      /\ Placed(a, pool, handle, joined) /\ HeapsKnown(Books) /\ Books.home = home /\ Books.workspaces = workspaces
      /\ home \in [Block -> Places]
  BY BooksFacts DEF IInv, Current, StreamsOK
<1>2. /\ s \in Acquirable /\ pool' = pool \ {s}
      /\ joined' = [x \in Stream |-> IF x = s THEN {s} ELSE joined[x] \ {s}]
      /\ handle' = [handle EXCEPT ![s] = "running"]
      /\ b = Append(a, s) /\ after' = o
      /\ UNCHANGED <<workspaces, pending, home, block, root, status>>
  BY DEF BeginStream, tensorVars
<1>3. handle[s] = "none" /\ joined[s] = {} /\ s \in Stream /\ \A k \in 1..Len(a) : a[k] # s
  BY <1>1, <1>2, AcquiredFree DEF Stream
<1> HIDE DEF a
<1>4. /\ Nested(b) /\ Len(b) = Len(a) + 1 /\ \A k \in 1..Len(a) : b[k] = a[k]
      /\ b[Len(a) + 1] = s
  BY <1>1, <1>2, <1>3, AppendNested
<1>5. DOMAIN b = 1..Len(b) /\ DOMAIN a = 1..Len(a) /\ Len(a) \in Nat /\ Len(a) \in 1..Len(a)
  BY <1>1, <1>4, NestFacts
<1> HIDE DEF b, o
<1>6. /\ Later(after, o) /\ o \in OrderType
      /\ \A t \in Tensor : Behind(after, Current, t) => Behind(o, s, t)
  BY <1>1, <1>3, WaitedOrder DEF o, Later
<1>7. Sound(Books, o, a, {})
  BY <1>1, <1>6, LaterSound
<1>8. \A x \in Block : home[x] # s
  BY <1>1, <1>3 DEF HeapsKnown, NothingLeft
<1>9. \A k \in 1..Len(b) : k \in 1..Len(a) \/ k = Len(a) + 1
  <2> DEFINE n == Len(a)
  <2>1. n \in Nat /\ Len(b) = n + 1
    BY <1>4, <1>5
  <2> HIDE DEF n
  <2>2. \A k \in 1..(n + 1) : k \in 1..n \/ k = n + 1
    BY <2>1
  <2> QED
    BY <2>1, <2>2 DEF n
<1>10. Reusable(Books, o, b)
  <2> SUFFICES ASSUME NEW t \in Tensor, block[t] # None, NEW j \in DOMAIN b, NEW k \in DOMAIN b,
                      k <= j, b[k] = home[block[t]]
               PROVE  Behind(o, b[j], t)
    BY <1>1, <1>7 DEF Sound, Reusable
  <2>1. block[t] \in Block
    BY <1>1 DEF TensorsOK
  <2>2. k \in 1..Len(a) /\ a[k] = home[block[t]]
    BY <1>4, <1>5, <1>8, <1>9, <2>1
  <2>3. CASE j \in 1..Len(a)
    BY <1>1, <1>4, <1>5, <1>7, <2>2, <2>3 DEF Sound, Reusable
  <2>4. CASE j = Len(a) + 1
    <3>1. k <= Len(a)
      BY <1>5, <2>2
    <3>2. Behind(after, Current, t)
      BY <1>1, <1>5, <2>2, <3>1 DEF Sound, Reusable
    <3> QED
      BY <1>4, <1>6, <2>4, <3>2
  <2> QED
    BY <1>5, <1>9, <2>3, <2>4
<1>11. Sound(Books, after', activeStreams', {})
  BY <1>2, <1>7, <1>10 DEF Sound, b
<1>12. Sound(Books, after, activeStreams, {})'
  BY <1>2, <1>11, BooksKept
<1>13. Placed(b, pool', handle', joined')
  <2>1. /\ handle' \in [Alternate -> {"none", "running", "open", "waited"}]
        /\ \A x \in Alternate : handle'[x] = IF x = s THEN "running" ELSE handle[x]
    BY <1>1, <1>2 DEF Placed
  <2>2. /\ joined' \in [Stream -> SUBSET Alternate] /\ joined'[Main] = {}
        /\ \A x \in Stream : joined'[x] = IF x = s THEN {s} ELSE joined[x] \ {s}
    BY <1>1, <1>2, StreamAssumption DEF Placed, Stream
  <2>3. pool' \subseteq Alternate
    BY <1>1, <1>2 DEF Placed
  <2> SUFFICES ASSUME NEW x \in Alternate
               PROVE  /\ handle'[x] = "running" <=> \E k \in 1..Len(b) : b[k] = x
                      /\ handle'[x] # "none" <=> x \in joined'[x]
                      /\ joined'[x] # {} => x \in joined'[x]
                      /\ x \in pool' <=> \A y \in Alternate : x \notin joined'[y]
                      /\ \A y, z \in Alternate : x \in joined'[y] /\ x \in joined'[z] => y = z
    BY <1>4, <2>1, <2>2, <2>3 DEF Placed
  <2>4. x \in Stream /\ Alternate \subseteq Stream
    BY DEF Stream
  <2>5. handle'[x] = "running" <=> \E k \in 1..Len(b) : b[k] = x
    <3>1. Len(a) + 1 \in 1..Len(b) /\ \A k \in 1..Len(a) : k \in 1..Len(b)
      BY <1>4, <1>5
    <3>2. CASE x = s
      BY <1>4, <2>1, <3>1, <3>2
    <3>3. CASE x # s
      BY <1>1, <1>4, <1>9, <2>1, <3>1, <3>3 DEF Placed
    <3> QED
      BY <3>2, <3>3
  <2>6. (handle'[x] # "none" <=> x \in joined'[x]) /\ (joined'[x] # {} => x \in joined'[x])
    <3>1. CASE x = s
      BY <2>1, <2>2, <2>4, <3>1
    <3>2. CASE x # s
      BY <1>1, <2>1, <2>2, <2>4, <3>2 DEF Placed
    <3> QED
      BY <3>1, <3>2
  <2>7. (x \in pool' <=> \A y \in Alternate : x \notin joined'[y])
        /\ \A y, z \in Alternate : x \in joined'[y] /\ x \in joined'[z] => y = z
    <3>1. CASE x = s
      BY <1>2, <2>2, <2>4, <3>1
    <3>2. CASE x # s
      <4>1. \A y \in Alternate : x \in joined'[y] <=> x \in joined[y]
        BY <1>3, <2>2, <2>4, <3>2
      <4> QED
        BY <1>1, <1>2, <3>2, <4>1 DEF Placed
    <3> QED
      BY <3>1, <3>2
  <2> QED
    BY <2>5, <2>6, <2>7
<1>14. StreamsOK'
  BY <1>13 DEF StreamsOK, Placed, Nested, b
<1>15. NothingLeft'
  BY <1>1, <1>2, <1>3 DEF NothingLeft, Placed
<1>16. TensorsOK' /\ after' \in OrderType
  BY <1>1, <1>2, <1>6 DEF TensorsOK, OneRoot, RootOf
<1> QED
  BY <1>2, <1>12, <1>14, <1>15, <1>16 DEF IInv

\* The device is synchronized: all that is disposed of is done with.
LEMMA SynchronizeKeeps ==
  ASSUME IInv, Synchronize
  PROVE  IInv' /\ \A b \in Block : home'[b] = "held" => home[b] = "held"
<1> DEFINE a == activeStreams
           s == Current
           o == Completed(after, s)
           all == UNION {pending[x] : x \in Stream}
           M == [pending |-> [x \in Stream |-> IF x = s THEN all ELSE {}],
                 status |-> status, home |-> home, workspaces |-> workspaces]
           R == Reconciled(M, s, TRUE)
           T == [pending |-> R.pending, status |-> R.status,
                 home |-> [b \in Block |-> IF R.home[b] \in Stream THEN Synced ELSE R.home[b]],
                 workspaces |-> {}]
<1>1. /\ TensorsOK /\ after \in OrderType /\ s \in Stream /\ s = a[Len(a)]
      /\ Nested(a) /\ Sound(Books, after, a, {}) /\ StreamsOK /\ NothingLeft
      /\ Placed(a, pool, handle, joined)
      /\ pending \in [Stream -> SUBSET Tensor] /\ home \in [Block -> Places] /\ workspaces \in SUBSET Alternate
      /\ status \in [Tensor -> {"none", "live", "pending", "gone"}]
      /\ Books.pending = pending /\ Books.home = home /\ Books.status = status /\ Books.workspaces = workspaces
  BY BooksFacts DEF IInv, Current, StreamsOK
<1>2. \A t \in Tensor : status[t] \in {"pending", "gone"} => Behind(after, s, t)
  BY DEF Synchronize, OrderedAfter, Behind, Uses
<1>3. /\ pool' = pool \cup UNION {joined[x] \ {x} : x \in Stream}
      /\ joined' = [x \in Stream |-> joined[x] \ (joined[x] \ {x})]
      /\ after' = o
      /\ UNCHANGED <<activeStreams, handle, block, root>>
  BY DEF Synchronize, Descendants
<1>4. [Books EXCEPT !.pending = [x \in Stream |-> IF x = Current THEN UNION {@[y] : y \in Stream} ELSE {}]] = M
  BY DEF Books
<1>5. /\ pending' = R.pending /\ status' = R.status /\ workspaces' = {}
      /\ home' = [b \in Block |-> IF R.home[b] \in Stream THEN Synced ELSE R.home[b]]
  <2>1. R \in BooksType
    <3>1. all \in SUBSET Tensor
      BY <1>1
    <3> HIDE DEF all
    <3>2. [x \in Stream |-> IF x = s THEN all ELSE {}] \in [Stream -> SUBSET Tensor]
      BY <3>1
    <3>3. M \in BooksType
      BY <1>1, <3>2 DEF BooksType
    <3> HIDE DEF M
    <3> QED
      BY <1>1, <3>3, ReconciledIs
  <2>2. TakeBooks([R EXCEPT !.workspaces = {},
                           !.home = [b \in Block |-> IF @[b] \in Stream THEN Synced ELSE @[b]]])
    BY <1>4 DEF Synchronize
  <2> HIDE DEF R
  <2> QED
    BY <2>1, <2>2 DEF TakeBooks, BooksType
<1> HIDE DEF s, a, o
<1>6. Later(after, o) /\ o \in OrderType /\ \A t \in Tensor : Behind(after, s, t) => Done(o, t)
  BY <1>1, CompletedOrder DEF o, Later
<1>7. /\ Rooted(Books) /\ Held(Books) /\ Queued(Books) /\ Reusable(Books, o, a) /\ HeapsKnown(Books)
  BY <1>1, <1>6, LaterSound DEF Sound
<1>8. \A t \in Tensor : status[t] \in {"pending", "gone"} => Done(o, t)
  BY <1>2, <1>6
<1>9. /\ M \in BooksType /\ M.status = status /\ M.home = home /\ M.workspaces = workspaces
      /\ \A x \in Stream : M.pending[x] = IF x = s THEN all ELSE {}
  <2>1. all \in SUBSET Tensor
    BY <1>1
  <2> HIDE DEF all
  <2> DEFINE pends == [x \in Stream |-> IF x = s THEN all ELSE {}]
  <2>2. pends \in [Stream -> SUBSET Tensor] /\ \A x \in Stream : pends[x] = IF x = s THEN all ELSE {}
    BY <2>1
  <2> HIDE DEF pends
  <2>3. M = [pending |-> pends, status |-> status, home |-> home, workspaces |-> workspaces]
    BY DEF pends
  <2> HIDE DEF M
  <2> QED
    BY <1>1, <2>2, <2>3 DEF BooksType
<1> HIDE DEF M
<1>10. \A t \in all : t \in Tensor /\ status[t] = "pending" /\ \E x \in Stream : t \in pending[x]
  BY <1>1, <1>7 DEF Queued
<1>11. Sound(M, o, a, {s})
  <2>1. \A t \in Tensor : InUse(M, t) <=> InUse(Books, t)
    BY <1>1, <1>9 DEF InUse
  <2>2. Rooted(M)
    BY <1>1, <1>7, <1>9, <2>1 DEF Rooted, TensorsOK
  <2>3. Held(M)
    BY <1>1, <1>7, <1>9, <2>1 DEF Held
  <2>4. Queued(M)
    <3>1. \A x \in Stream : \A t \in M.pending[x] : t \in all /\ x = s
      BY <1>9
    <3>2. \A t \in Tensor : status[t] = "pending" => t \in all
      BY <1>1, <1>7 DEF Queued
    <3> HIDE DEF all
    <3> QED
      BY <1>1, <1>9, <1>10, <3>1, <3>2 DEF Queued
  <2>5. \A x \in Stream \ {s} : Settled(M, x)
    BY <1>9 DEF Settled
  <2>6. Ordered(M, o)
    <3>1. \A x \in Stream : \A t \in M.pending[x] : t \in Tensor /\ Done(o, t)
      BY <1>8, <1>9, <1>10
    <3>2. \A x \in Stream : \A t \in M.pending[x] : Behind(o, x, t)
      BY <3>1 DEF Done, Behind
    <3> QED
      BY <1>8, <1>9, <3>2 DEF Ordered
  <2>7. Reusable(M, o, a) /\ HeapsKnown(M)
    BY <1>1, <1>7, <1>9 DEF Reusable, HeapsKnown
  <2> QED
    BY <1>9, <2>2, <2>3, <2>4, <2>5, <2>6, <2>7 DEF Sound
<1>12. /\ \A x \in Stream \ {s} : M.pending[x] = {}
       /\ \A t \in M.pending[s] : Done(o, t)
  BY <1>1, <1>8, <1>9, <1>10
<1>13. Sound(R, o, a, {}) /\ Tidied(M, R, s)
  BY <1>1, <1>6, <1>11, <1>12, ReconciledSound
<1> HIDE DEF R
<1>14. /\ R \in BooksType /\ R.home \in [Block -> Places] /\ R.pending \in [Stream -> SUBSET Tensor]
       /\ R.status \in [Tensor -> {"none", "live", "pending", "gone"}]
       /\ Rooted(R) /\ Held(R) /\ Queued(R) /\ Ordered(R, o) /\ Reusable(R, o, a)
       /\ \A x \in Stream : Settled(R, x)
  BY <1>13 DEF Sound, BooksType
<1>15. /\ T.pending = R.pending /\ T.status = R.status /\ T.workspaces = {}
       /\ \A b \in Block : T.home[b] = IF R.home[b] \in Stream THEN Synced ELSE R.home[b]
       /\ T.home \in [Block -> Places]
  BY <1>14 DEF Places
<1>16. T \in BooksType
  <2>1. T = [pending |-> T.pending, status |-> T.status, home |-> T.home, workspaces |-> T.workspaces]
    OBVIOUS
  <2> HIDE DEF T
  <2> QED
    BY <1>14, <1>15, <2>1 DEF BooksType
<1>17. TakeBooks(T)
  BY <1>5 DEF TakeBooks
<1> HIDE DEF T
<1>18. Synced \notin Stream /\ Synced # "held" /\ Synced # "fresh" /\ "held" \notin Stream /\ "fresh" \notin Stream
  BY StreamAssumption DEF Stream
<1>19. /\ \A b \in Block : T.home[b] = "held" <=> R.home[b] = "held"
       /\ \A b \in Block : T.home[b] = "fresh" <=> R.home[b] = "fresh"
       /\ \A b \in Block : T.home[b] \notin Stream
  BY <1>15, <1>18
<1>20. \A t \in Tensor : block[t] # None => block[t] \in Block
  BY <1>1 DEF TensorsOK
<1>21. \A t \in Tensor : InUse(T, t) <=> InUse(R, t)
  BY <1>15 DEF InUse
<1>22. Rooted(T) /\ Queued(T) /\ (\A x \in Stream : Settled(T, x)) /\ Ordered(T, o)
  <2>1. Rooted(T)
    BY <1>1, <1>14, <1>15, <1>21 DEF Rooted, TensorsOK
  <2>2. Queued(T)
    BY <1>14, <1>15 DEF Queued
  <2>3. \A x \in Stream : Settled(T, x)
    BY <1>14, <1>15 DEF Settled, ViewsIn
  <2>4. Ordered(T, o)
    BY <1>1, <1>14, <1>15, <1>21 DEF Ordered, TensorsOK
  <2> QED
    BY <2>1, <2>2, <2>3, <2>4
<1>23. Held(T)
  <2>1. \A t \in Tensor : InUse(R, t) => block[t] # None
    BY <1>14 DEF Rooted, InUse
  <2> QED
    BY <1>14, <1>19, <1>20, <1>21, <2>1 DEF Held
<1>24. Reusable(T, o, a)
  <2> SUFFICES ASSUME NEW t \in Tensor, block[t] # None
               PROVE  LET h == T.home[block[t]]
                      IN /\ h \in Stream => Behind(o, h, t)
                         /\ \A j, k \in DOMAIN a : k <= j /\ a[k] = h => Behind(o, a[j], t)
                         /\ h = Synced => Done(o, t)
    BY DEF Reusable
  <2> DEFINE h == T.home[block[t]]
  <2>1. block[t] \in Block /\ h \notin Stream
    BY <1>19, <1>20
  <2>2. \A k \in DOMAIN a : a[k] \in Stream
    BY <1>1, NestFacts
  <2>3. ASSUME h = Synced PROVE Done(o, t)
    <3>1. CASE R.home[block[t]] = Synced
      BY <1>14, <3>1 DEF Reusable
    <3>2. CASE R.home[block[t]] \in Stream
      <4>1. ~InUse(R, t) /\ R.status[t] # "none"
        BY <1>14, <1>18, <3>2 DEF Held, Rooted
      <4>2. R.status[t] = "gone"
        BY <1>14, <4>1 DEF InUse
      <4>3. status[t] \in {"pending", "gone"}
        BY <1>9, <1>13, <4>2 DEF Tidied
      <4> QED
        BY <1>8, <4>3
    <3> QED
      BY <1>15, <2>1, <2>3, <3>1, <3>2
  <2> QED
    BY <2>1, <2>2, <2>3
<1>25. HeapsKnown(T)
  BY <1>19 DEF HeapsKnown, Stream
<1>26. Sound(T, o, a, {})
  BY <1>16, <1>22, <1>23, <1>24, <1>25 DEF Sound
<1>27. Sound(Books, after, activeStreams, {})'
  <2>1. Sound(T, after', activeStreams', {})
    BY <1>3, <1>26 DEF a
  <2> QED
    BY <1>3, <1>17, <2>1, SoundTaken
<1>28. StreamsOK'
  <2>1. /\ \A x \in Stream : joined'[x] = joined[x] \cap {x}
        /\ joined' \in [Stream -> SUBSET Alternate] /\ joined'[Main] = {}
    BY <1>1, <1>3, StreamAssumption DEF Placed, Stream
  <2>2. pool' \subseteq Alternate
    BY <1>1, <1>3 DEF Placed
  <2> SUFFICES ASSUME NEW x \in Alternate
               PROVE  /\ joined'[x] # {} => x \in joined'[x]
                      /\ x \in joined'[x] <=> x \in joined[x]
                      /\ x \in pool' <=> \A y \in Alternate : x \notin joined'[y]
                      /\ \A y, z \in Alternate : x \in joined'[y] /\ x \in joined'[z] => y = z
    <3>1. Placed(activeStreams', pool', handle', joined') => StreamsOK'
      BY DEF StreamsOK, Placed, Nested
    <3>2. activeStreams' = a /\ handle' = handle
      BY <1>3 DEF a
    <3>3. Placed(a, pool', handle, joined')
      BY <1>1, <2>1, <2>2 DEF Placed
    <3> QED
      BY <3>1, <3>2, <3>3
  <2>3. Alternate \subseteq Stream
    BY DEF Stream
  <2>4. \A y \in Alternate : x \in joined'[y] <=> (y = x /\ x \in joined[x])
    BY <2>1, <2>3
  <2>5. x \in pool' <=> x \notin joined[x]
    <3>1. /\ joined[Main] = {} /\ (x \in pool <=> \A y \in Alternate : x \notin joined[y])
          /\ \A y, z \in Alternate : x \in joined[y] /\ x \in joined[z] => y = z
      BY <1>1 DEF Placed
    <3>2. x \in pool' <=> x \in pool \/ \E y \in Alternate : x \in joined[y] /\ x # y
      BY <1>3, <3>1 DEF Stream
    <3> QED
      BY <3>1, <3>2
  <2> QED
    BY <2>1, <2>3, <2>4, <2>5
<1>29. NothingLeft'
  <2> SUFFICES ASSUME NEW x \in Alternate, handle[x] = "none" PROVE pending'[x] = {}
    BY <1>3, <1>5 DEF NothingLeft
  <2>1. x \in Stream /\ x # s
    <3>1. Len(a) \in 1..Len(a)
      BY <1>1, NestFacts
    <3>2. \A k \in 1..Len(a) : a[k] # x
      BY <1>1 DEF Placed
    <3> QED
      BY <1>1, <3>1, <3>2 DEF Stream
  <2>2. R.pending[x] \subseteq M.pending[x] /\ M.pending[x] = {}
    BY <1>12, <1>13, <2>1 DEF Tidied
  <2> QED
    BY <1>5, <2>2
<1>30. TensorsOK' /\ after' \in OrderType
  BY <1>1, <1>3, <1>6 DEF TensorsOK, OneRoot, RootOf
<1>31. \A b \in Block : home'[b] = "held" => home[b] = "held"
  <2>1. \A b \in Block : home'[b] = T.home[b]
    BY <1>17 DEF TakeBooks
  <2> QED
    BY <1>9, <1>13, <1>19, <2>1 DEF Tidied
<1> QED
  BY <1>27, <1>28, <1>29, <1>30, <1>31 DEF IInv

\* Disposal of a tensor.
LEMMA DisposeKeeps ==
  ASSUME IInv, NEW t \in Tensor, Dispose(t)
  PROVE  IInv' /\ \A b \in Block : home'[b] = "held" => home[b] = "held"
<1> DEFINE R == IF root[t] = None THEN DisposeRoot(t) ELSE DisposeView(t)
<1>1. /\ status[t] = "live" /\ OrderedAfter(Current, t) /\ TakeBooks(R)
      /\ UNCHANGED <<activeStreams, pool, handle, joined, block, root, after>>
  BY DEF Dispose
<1>2. /\ Sound(R, after, activeStreams, {})
      /\ \A b \in Block : R.home[b] = "held" => home[b] = "held"
      /\ R.workspaces \subseteq workspaces \cup ({Current} \cap Alternate)
      /\ \A x \in Stream \ {Current} : R.pending[x] \subseteq pending[x]
  BY <1>1, DisposeSound
<1> HIDE DEF R
<1>3. pending' = R.pending /\ home' = R.home /\ workspaces' = R.workspaces
  BY <1>1 DEF TakeBooks
<1>4. /\ Nested(activeStreams) /\ Current = activeStreams[Len(activeStreams)]
      /\ Placed(activeStreams, pool, handle, joined) /\ NothingLeft /\ TensorsOK /\ StreamsOK
      /\ after \in OrderType
  BY BooksFacts DEF IInv, Current, StreamsOK
<1>5. Sound(Books, after, activeStreams, {})'
  BY <1>1, <1>2, SoundTaken
<1>6. NothingLeft'
  <2> SUFFICES ASSUME NEW x \in Alternate, handle[x] = "none" PROVE x \notin R.workspaces /\ R.pending[x] = {}
    BY <1>1, <1>3 DEF NothingLeft
  <2>1. x \in Stream /\ x # Current
    <3>1. Len(activeStreams) \in 1..Len(activeStreams)
      BY <1>4, NestFacts
    <3>2. \A k \in 1..Len(activeStreams) : activeStreams[k] # x
      BY <1>4 DEF Placed
    <3> QED
      BY <1>4, <3>1, <3>2 DEF Stream
  <2> QED
    BY <1>2, <1>4, <2>1 DEF NothingLeft
<1>7. StreamsOK' /\ TensorsOK' /\ after' \in OrderType
  BY <1>1, <1>4 DEF StreamsOK, Placed, Nested, TensorsOK, OneRoot, RootOf
<1>8. \A b \in Block : home'[b] = "held" => home[b] = "held"
  BY <1>2, <1>3
<1> QED
  BY <1>5, <1>6, <1>7, <1>8 DEF IInv

\* Only a block in a heap is allocated.
LEMMA AllocatedFree ==
  ASSUME IInv, NEW b \in Allocatable
  PROVE  /\ b \in Block
         /\ (\E k \in 1..Len(activeStreams) : home[b] = activeStreams[k]) \/ home[b] \in {Synced, "fresh"}
         /\ home[b] # "held"
<1> DEFINE a == activeStreams
<1>1. Nested(a) /\ a \in Seq(Stream) /\ Len(a) \in Nat /\ \A k \in 1..Len(a) : a[k] \in Stream
  BY BooksFacts, NestFacts DEF Nested
<1>2. PICK i \in DOMAIN Lineage : b \in In(Lineage[i])
  BY DEF Allocatable
<1>3. Reverse(a) \in Seq(Stream) /\ Len(Reverse(a)) = Len(a) /\ \A k \in 1..Len(a) : Reverse(a)[k] = a[Len(a) - k + 1]
  BY <1>1 DEF Reverse
<1> DEFINE r == Reverse(a)
           n == Len(a)
<1> HIDE DEF r
<1>4. Lineage = r \o <<Synced, "fresh">>
  BY DEF Lineage, r
<1>5. /\ DOMAIN Lineage = 1..(n + 2)
      /\ \A k \in 1..n : Lineage[k] = r[k]
      /\ Lineage[n + 1] = Synced /\ Lineage[n + 2] = "fresh"
  <2> DEFINE Step == Stream \cup {Synced, "fresh"}
             two == <<Synced, "fresh">>
  <2>1. r \in Seq(Step) /\ two \in Seq(Step) /\ Len(r) = n /\ Len(two) = 2 /\ two[1] = Synced /\ two[2] = "fresh"
    BY <1>3 DEF r
  <2> HIDE DEF Step, two
  <2>2. Lineage = r \o two
    BY <1>4 DEF two
  <2>3. n \in Nat
    BY <1>1
  <2> HIDE DEF n
  <2>4. /\ Lineage \in Seq(Step) /\ Len(Lineage) = n + 2
        /\ \A k \in 1..(n + 2) : Lineage[k] = IF k <= n THEN r[k] ELSE two[k - n]
    <3>1. /\ r \o two \in Seq(Step) /\ Len(r \o two) = Len(r) + Len(two)
          /\ \A k \in 1..(Len(r) + Len(two)) : (r \o two)[k] = IF k <= Len(r) THEN r[k] ELSE two[k - Len(r)]
      BY <2>1, ConcatProperties
    <3> QED
      BY <2>1, <2>2, <3>1
  <2>5. DOMAIN Lineage = 1..(n + 2)
    BY <2>4
  <2>6. \A k \in 1..n : k \in 1..(n + 2) /\ k <= n
    BY <2>3
  <2>7. \A k \in 1..n : Lineage[k] = r[k]
    BY <2>4, <2>6
  <2>8. Lineage[n + 1] = two[1] /\ Lineage[n + 2] = two[2]
    BY <2>3, <2>4
  <2> QED
    BY <2>1, <2>5, <2>7, <2>8
<1>6. Lineage[i] \in {Synced, "fresh"} \/ \E k \in 1..n : Lineage[i] = a[k]
  <2>1. i \in 1..n \/ i = n + 1 \/ i = n + 2
    BY <1>1, <1>5
  <2>2. CASE i \in 1..n
    <3>1. Lineage[i] = a[n - i + 1] /\ n - i + 1 \in 1..n
      BY <1>1, <1>3, <1>5, <2>2 DEF r
    <3> QED
      BY <3>1
  <2> QED
    BY <1>5, <2>1, <2>2
<1>7. home[b] = Lineage[i] /\ b \in Block
  BY <1>2 DEF In
<1>8. home[b] # "held"
  BY <1>1, <1>6, <1>7, StreamAssumption DEF Stream
<1> QED
  BY <1>6, <1>7, <1>8

\* Memory is allocated to a new root.
LEMMA AllocKeeps ==
  ASSUME IInv, NEW t \in Tensor, NEW b \in Block, Alloc(t, b)
  PROVE  IInv'
<1> DEFINE a == activeStreams
           old == {x \in Tensor : block[x] = b}
           none == [i \in Uses |-> Stream]
           born == [none EXCEPT ![Born] = {Current}]
<1>1. /\ pending \in [Stream -> SUBSET Tensor] /\ home \in [Block -> Places] /\ workspaces \in SUBSET Alternate
      /\ status \in [Tensor -> {"none", "live", "pending", "gone"}]
      /\ Books.pending = pending /\ Books.home = home /\ Books.status = status
      /\ Books.workspaces = workspaces /\ Books \in BooksType
      /\ Rooted(Books) /\ Held(Books) /\ Queued(Books) /\ Ordered(Books, after)
      /\ Reusable(Books, after, a) /\ HeapsKnown(Books) /\ \A x \in Stream : Settled(Books, x)
      /\ TensorsOK /\ Nested(a) /\ after \in OrderType /\ Current \in Stream
  BY BooksFacts
<1>2. /\ home[b] # "held"
      /\ Unused(t) \/ block[t] = b
      /\ home' = [home EXCEPT ![b] = "held"]
      /\ block' = [x \in Tensor |-> IF x = t THEN b ELSE IF x \in old THEN None ELSE block[x]]
      /\ status' = [x \in Tensor |-> IF x = t THEN "live" ELSE IF x \in old THEN "none" ELSE status[x]]
      /\ root' = [x \in Tensor |-> IF x \in old THEN None ELSE root[x]]
      /\ after' = [x \in Tensor |-> IF x = t THEN born ELSE IF x \in old THEN none ELSE after[x]]
      /\ UNCHANGED <<activeStreams, pool, handle, workspaces, joined, pending>>
  BY AllocatedFree DEF Alloc, streamVars, Uses
<1>3. none \in [Uses -> SUBSET Stream] /\ born \in [Uses -> SUBSET Stream]
  BY <1>1
<1>4. b # None
  BY TensorAssumption
<1>5. /\ \A x \in Tensor : block'[x] = IF x = t THEN b ELSE IF block[x] = b THEN None ELSE block[x]
      /\ \A x \in Tensor : status'[x] = IF x = t THEN "live" ELSE IF block[x] = b THEN "none" ELSE status[x]
      /\ \A x \in Tensor : root'[x] = IF block[x] = b THEN None ELSE root[x]
      /\ \A c \in Block : home'[c] = IF c = b THEN "held" ELSE home[c]
      /\ \A x \in Tensor : x # t /\ block[x] # b => after'[x] = after[x]
      /\ pending' = pending /\ workspaces' = workspaces /\ activeStreams' = a
  BY <1>1, <1>2
<1>6. /\ block' \in [Tensor -> Block \cup {None}] /\ root' \in [Tensor -> Tensor \cup {None}]
      /\ after' \in OrderType /\ home' \in [Block -> Places]
      /\ status' \in [Tensor -> {"none", "live", "pending", "gone"}]
  <2>1. block' \in [Tensor -> Block \cup {None}] /\ root' \in [Tensor -> Tensor \cup {None}]
    BY <1>1, <1>2 DEF TensorsOK
  <2>2. after' \in OrderType
    <3> HIDE DEF none, born
    <3> QED
      BY <1>1, <1>2, <1>3 DEF OrderType
  <2>3. home' \in [Block -> Places] /\ status' \in [Tensor -> {"none", "live", "pending", "gone"}]
    BY <1>1, <1>2 DEF Places
  <2> QED
    BY <2>1, <2>2, <2>3
<1> HIDE DEF a, old, none, born
\* What used the memory before is not in use, nor is t.
<1>7. /\ \A x \in Tensor : block[x] = b \/ x = t => ~InUse(Books, x) /\ status[x] \in {"none", "gone"}
      /\ block[t] = None \/ block[t] = b
      /\ block[t] = None => root[t] = None
  <2>1. \A x \in Tensor : block[x] = b => ~InUse(Books, x)
    BY <1>1, <1>2 DEF Held
  <2>2. status[t] = "none" \/ block[t] = b
    BY <1>2 DEF Unused
  <2> QED
    BY <1>1, <2>1, <2>2 DEF InUse, Rooted
\* The others are as they were, and so are their roots.
<1>8. ASSUME NEW x \in Tensor, x # t, block[x] # b
      PROVE  /\ block'[x] = block[x] /\ status'[x] = status[x] /\ root'[x] = root[x] /\ after'[x] = after[x]
             /\ root[x] # None => root[x] \in Tensor /\ root[x] # t /\ block[root[x]] # b
             /\ block[x] # None => block[x] \in Block /\ home'[block[x]] = home[block[x]]
  <2>1. root[x] # None => root[x] \in Tensor /\ block[root[x]] = block[x] /\ block[x] # None
    BY <1>1 DEF Rooted, TensorsOK
  <2>2. block[x] # None => block[x] \in Block
    BY <1>1 DEF TensorsOK
  <2> QED
    BY <1>5, <1>7, <1>8, <2>1, <2>2
<1>9. Rooted(Books)'
  <2> DEFINE use(x) == status'[x] \in {"live", "pending"}
  <2> SUFFICES ASSUME NEW x \in Tensor
               PROVE  /\ block'[x] = None <=> status'[x] = "none"
                      /\ block'[x] = None => root'[x] = None
                      /\ root'[x] # None => /\ root'[root'[x]] = None /\ block'[root'[x]] = block'[x]
                                            /\ use(x) => use(root'[x])
    BY DEF Rooted, InUse, Books
  <2>1. CASE x = t
    BY <1>4, <1>5, <1>7, <2>1
  <2>2. CASE x # t /\ block[x] = b
    BY <1>5, <2>2
  <2>3. CASE x # t /\ block[x] # b
    <3>1. /\ block[x] = None <=> status[x] = "none"
          /\ block[x] = None => root[x] = None
          /\ root[x] # None => /\ root[root[x]] = None /\ block[root[x]] = block[x]
                               /\ status[x] \in {"live", "pending"} => status[root[x]] \in {"live", "pending"}
      BY <1>1 DEF Rooted, InUse
    <3>2. root[x] # None => root'[root[x]] = root[root[x]] /\ block'[root[x]] = block[root[x]]
                            /\ status'[root[x]] = status[root[x]]
      BY <1>5, <1>8, <2>3
    <3> QED
      BY <1>8, <2>3, <3>1, <3>2
  <2> QED
    BY <2>1, <2>2, <2>3
<1>10. TensorsOK'
  <2>1. ASSUME NEW x \in Tensor, NEW y \in Tensor, block'[x] = block'[y], block'[x] # None
        PROVE  (IF root'[x] = None THEN x ELSE root'[x]) = (IF root'[y] = None THEN y ELSE root'[y])
    <3>1. CASE block'[x] = b
      BY <1>5, <1>7, <2>1, <3>1
    <3>2. CASE block'[x] # b
      <4>1. x # t /\ y # t /\ block[x] # b /\ block[y] # b
        BY <1>5, <2>1, <3>2
      <4>2. block[x] = block[y] /\ block[x] # None /\ root'[x] = root[x] /\ root'[y] = root[y]
        BY <1>8, <2>1, <4>1
      <4> QED
        BY <1>1, <4>2 DEF TensorsOK, OneRoot, RootOf
    <3> QED
      BY <3>1, <3>2
  <2> QED
    BY <1>6, <2>1 DEF TensorsOK, OneRoot, RootOf
<1>11. Held(Books)'
  <2>1. ASSUME NEW c \in Block, home'[c] = "held" PROVE \E x \in Tensor : block'[x] = c /\ status'[x] \in {"live", "pending"}
    <3>1. CASE c = b
      BY <1>5, <3>1
    <3>2. CASE c # b
      <4>1. PICK x \in Tensor : block[x] = c /\ InUse(Books, x)
        BY <1>1, <1>5, <2>1, <3>2 DEF Held
      <4>2. x # t /\ block[x] # b
        BY <1>7, <3>2, <4>1
      <4> QED
        BY <1>1, <1>8, <4>1, <4>2 DEF InUse
    <3> QED
      BY <3>1, <3>2
  <2>2. ASSUME NEW x \in Tensor
        PROVE  /\ status'[x] \in {"live", "pending"} => home'[block'[x]] = "held"
               /\ block'[x] # None => home'[block'[x]] # "fresh"
    <3>1. CASE x = t
      BY <1>5, <3>1
    <3>2. CASE x # t /\ block[x] = b
      BY <1>5, <3>2
    <3>3. CASE x # t /\ block[x] # b
      BY <1>1, <1>8, <3>3 DEF Held, InUse, Rooted
    <3> QED
      BY <3>1, <3>2, <3>3
  <2> QED
    BY <2>1, <2>2 DEF Held, InUse, Books
\* What is queued is as it was.
<1>12. \A x \in Stream : \A y \in pending[x] : y \in Tensor /\ y # t /\ block[y] # b /\ status[y] = "pending"
  BY <1>1, <1>7 DEF Queued
<1>13. Queued(Books)'
  <2>1. \A x \in Stream : \A y \in pending[x] : status'[y] = "pending"
    BY <1>8, <1>12
  <2>2. \A y \in Tensor : status'[y] = "pending" => status[y] = "pending"
    BY <1>5
  <2> QED
    BY <1>1, <1>5, <2>1, <2>2 DEF Queued, Books
<1>14. ASSUME NEW x \in Stream PROVE Settled(Books, x)'
  <2> SUFFICES ASSUME NEW y \in pending[x]
               PROVE  IF root'[y] = None THEN \E v \in Tensor : root'[v] = y /\ status'[v] \in {"live", "pending"}
                                         ELSE root'[y] \notin pending[x]
    BY <1>5 DEF Settled, ViewsIn, Books
  <2>1. y \in Tensor /\ root'[y] = root[y]
    BY <1>8, <1>12
  <2>2. CASE root[y] = None
    <3>1. PICK v \in Tensor : root[v] = y /\ status[v] \in {"live", "pending"}
      BY <1>1, <2>2 DEF Settled, ViewsIn
    <3>2. v # t /\ block[v] # b
      BY <1>1, <1>7, <3>1 DEF InUse
    <3> QED
      BY <1>8, <2>1, <2>2, <3>1, <3>2
  <2>3. CASE root[y] # None
    BY <1>1, <2>1, <2>3 DEF Settled
  <2> QED
    BY <2>2, <2>3
<1>15. Ordered(Books, after)'
  <2>1. \A x \in Stream : \A y \in pending[x] : \A i \in Uses : x \in after'[y][i]
    BY <1>1, <1>8, <1>12 DEF Ordered, Behind
  <2>2. ASSUME NEW x \in Tensor, status'[x] = "gone", root'[x] # None, status'[root'[x]] \in {"live", "pending"}
        PROVE  \/ \A i \in Uses : after'[x][i] = Stream
               \/ \E y \in Stream : root'[x] \in pending[y] /\ \A i \in Uses : y \in after'[x][i]
    <3>1. x # t /\ block[x] # b
      BY <1>5, <2>2
    <3>2. /\ status[x] = "gone" /\ root[x] # None /\ root'[x] = root[x] /\ after'[x] = after[x]
          /\ root[x] \in Tensor /\ root[x] # t /\ block[root[x]] # b
      BY <1>8, <2>2, <3>1
    <3>3. InUse(Books, root[x])
      BY <1>1, <1>8, <2>2, <3>2 DEF InUse
    <3> QED
      BY <1>1, <3>2, <3>3 DEF Ordered, Behind, Done
  <2> QED
    BY <1>5, <2>1, <2>2 DEF Ordered, Behind, Done, InUse, Books
<1>16. Reusable(Books, after, activeStreams)'
  <2> DEFINE h(x) == home'[block'[x]]
  <2> SUFFICES ASSUME NEW x \in Tensor, block'[x] # None
               PROVE  /\ h(x) \in Stream => \A i \in Uses : h(x) \in after'[x][i]
                      /\ \A j, k \in DOMAIN a : k <= j /\ a[k] = h(x) => \A i \in Uses : a[j] \in after'[x][i]
                      /\ h(x) = Synced => \A i \in Uses : after'[x][i] = Stream
    BY <1>5 DEF Reusable, Behind, Done, Books
  <2>1. CASE x = t
    <3>1. h(x) = "held"
      BY <1>5, <2>1
    <3>2. \A k \in DOMAIN a : a[k] \in Stream
      BY <1>1, NestFacts
    <3> QED
      BY <3>1, <3>2, StreamAssumption DEF Stream
  <2>2. CASE x # t /\ block[x] # b
    <3>1. block[x] # None /\ h(x) = home[block[x]] /\ after'[x] = after[x]
      BY <1>8, <2>2
    <3> QED
      BY <1>1, <3>1 DEF Reusable, Behind, Done
  <2> QED
    BY <1>5, <2>1, <2>2
<1>17. HeapsKnown(Books)'
  <2>1. \A c \in Block : home'[c] \in Alternate => home'[c] \in workspaces
    BY <1>1, <1>5, StreamAssumption DEF HeapsKnown
  <2> QED
    BY <1>5, <2>1 DEF HeapsKnown, Books
<1>18. (Books \in BooksType)'
  <2>1. /\ status' \in [Tensor -> {"none", "live", "pending", "gone"}] /\ home' \in [Block -> Places]
        /\ pending' \in [Stream -> SUBSET Tensor] /\ workspaces' \in SUBSET Alternate
    BY <1>1, <1>5, <1>6
  <2> QED
    BY <2>1 DEF Books, BooksType
<1>19. Sound(Books, after, activeStreams, {})'
  BY <1>9, <1>11, <1>13, <1>14, <1>15, <1>16, <1>17, <1>18 DEF Sound
<1>20. StreamsOK' /\ NothingLeft'
  BY <1>2, <1>5 DEF IInv, StreamsOK, Placed, Nested, NothingLeft
<1> QED
  BY <1>6, <1>10, <1>19, <1>20 DEF IInv

\* A view stands for the memory of its root.
LEMMA ViewKeeps ==
  ASSUME IInv, NEW v \in Tensor, NEW t \in Tensor, View(v, t)
  PROVE  IInv'
<1> DEFINE a == activeStreams
           r == RootOf(t)
           born == [[i \in Uses |-> Stream] EXCEPT ![Born] = after[r][Born]]
<1>1. /\ pending \in [Stream -> SUBSET Tensor] /\ home \in [Block -> Places] /\ workspaces \in SUBSET Alternate
      /\ status \in [Tensor -> {"none", "live", "pending", "gone"}]
      /\ Books.pending = pending /\ Books.home = home /\ Books.status = status
      /\ Books.workspaces = workspaces /\ Books \in BooksType
      /\ Rooted(Books) /\ Held(Books) /\ Queued(Books) /\ Ordered(Books, after)
      /\ Reusable(Books, after, a) /\ HeapsKnown(Books) /\ \A x \in Stream : Settled(Books, x)
      /\ TensorsOK /\ Nested(a) /\ after \in OrderType /\ Current \in Stream
  BY BooksFacts
<1>2. /\ status[v] = "none" /\ status[t] = "live"
      /\ block' = [block EXCEPT ![v] = block[t]] /\ root' = [root EXCEPT ![v] = r]
      /\ status' = [status EXCEPT ![v] = "live"] /\ after' = [after EXCEPT ![v] = born]
      /\ UNCHANGED <<activeStreams, pool, handle, workspaces, joined, pending, home>>
  BY DEF View, Unused, streamVars, Uses
<1>3. /\ r \in Tensor /\ root[r] = None /\ block[r] = block[t] /\ block[t] \in Block
      /\ InUse(Books, r) /\ home[block[t]] = "held"
  <2>1. InUse(Books, t)
    BY <1>1, <1>2 DEF InUse
  <2>2. block[t] # None
    BY <1>1, <2>1 DEF Rooted, InUse
  <2>3. block[t] \in Block
    BY <1>1, <2>2 DEF TensorsOK
  <2> HIDE DEF r
  <2> QED
    BY <1>1, <2>1, <2>2, <2>3, RootInUse DEF Held, r
<1>4. born \in [Uses -> SUBSET Stream]
  BY <1>1, <1>3 DEF OrderType, Uses
<1> HIDE DEF a, r, born
<1>5. None \notin Tensor /\ None \notin Block
  BY TensorAssumption
<1>6. /\ \A x \in Tensor : block'[x] = IF x = v THEN block[t] ELSE block[x]
      /\ \A x \in Tensor : root'[x] = IF x = v THEN r ELSE root[x]
      /\ \A x \in Tensor : status'[x] = IF x = v THEN "live" ELSE status[x]
      /\ \A x \in Tensor : x # v => after'[x] = after[x]
      /\ pending' = pending /\ workspaces' = workspaces /\ home' = home /\ activeStreams' = a
      /\ block' \in [Tensor -> Block \cup {None}] /\ root' \in [Tensor -> Tensor \cup {None}]
      /\ after' \in OrderType
      /\ status' \in [Tensor -> {"none", "live", "pending", "gone"}]
  <2>1. after' \in OrderType /\ \A x \in Tensor : x # v => after'[x] = after[x]
    BY <1>1, <1>2, <1>4 DEF OrderType
  <2> QED
    BY <1>1, <1>2, <1>3, <2>1 DEF TensorsOK, a
\* Nothing knew of v.
<1>7. /\ block[v] = None /\ root[v] = None /\ v # r /\ v # t
      /\ \A x \in Tensor : root[x] # v
      /\ \A x \in Stream : v \notin pending[x]
  <2>1. block[v] = None /\ root[v] = None
    BY <1>1, <1>2 DEF Rooted
  <2>2. \A x \in Tensor : root[x] # None => block[root[x]] = block[x] /\ block[x] # None
    BY <1>1 DEF Rooted
  <2>3. v # r /\ v # t
    BY <1>1, <1>2, <1>3 DEF InUse
  <2>4. \A x \in Stream : v \notin pending[x]
    BY <1>1, <1>2 DEF Queued
  <2> QED
    BY <1>5, <2>1, <2>2, <2>3, <2>4
<1>8. Rooted(Books)'
  <2> DEFINE use(x) == status'[x] \in {"live", "pending"}
  <2> SUFFICES ASSUME NEW x \in Tensor
               PROVE  /\ block'[x] = None <=> status'[x] = "none"
                      /\ block'[x] = None => root'[x] = None
                      /\ root'[x] # None => /\ root'[root'[x]] = None /\ block'[root'[x]] = block'[x]
                                            /\ use(x) => use(root'[x])
    BY DEF Rooted, InUse, Books
  <2>1. CASE x = v
    BY <1>1, <1>3, <1>5, <1>6, <1>7, <2>1 DEF InUse
  <2>2. CASE x # v
    <3>1. /\ block[x] = None <=> status[x] = "none"
          /\ block[x] = None => root[x] = None
          /\ root[x] # None => /\ root[root[x]] = None /\ block[root[x]] = block[x]
                               /\ status[x] \in {"live", "pending"} => status[root[x]] \in {"live", "pending"}
      BY <1>1 DEF Rooted, InUse
    <3>2. root[x] # None => root[x] \in Tensor /\ root[x] # v
      BY <1>1, <1>7 DEF TensorsOK
    <3> QED
      BY <1>6, <2>2, <3>1, <3>2
  <2> QED
    BY <2>1, <2>2
<1>9. TensorsOK'
  <2> DEFINE top(x) == IF root'[x] = None THEN x ELSE root'[x]
  <2>1. \A x \in Tensor : x # v => top(x) = RootOf(x)
    BY <1>6 DEF RootOf
  <2>2. top(v) = r /\ RootOf(r) = r
    BY <1>3, <1>5, <1>6 DEF RootOf
  <2>3. \A x \in Tensor : x # v /\ block[x] = block[t] => RootOf(x) = r
    BY <1>1, <1>3, <1>5, <2>2 DEF TensorsOK, OneRoot
  <2>4. ASSUME NEW x \in Tensor, NEW y \in Tensor, block'[x] = block'[y], block'[x] # None
        PROVE  top(x) = top(y)
    <3>1. CASE x = v \/ y = v
      BY <1>6, <2>1, <2>2, <2>3, <2>4, <3>1
    <3>2. CASE x # v /\ y # v
      BY <1>1, <1>6, <2>1, <2>4, <3>2 DEF TensorsOK, OneRoot
    <3> QED
      BY <3>1, <3>2
  <2> QED
    BY <1>6, <2>4 DEF TensorsOK, OneRoot, RootOf
<1>10. Held(Books)'
  <2>1. ASSUME NEW c \in Block, home[c] = "held" PROVE \E x \in Tensor : block'[x] = c /\ status'[x] \in {"live", "pending"}
    <3>1. PICK x \in Tensor : block[x] = c /\ InUse(Books, x)
      BY <1>1, <2>1 DEF Held
    <3>2. x # v
      BY <1>1, <1>2, <3>1 DEF InUse
    <3> QED
      BY <1>1, <1>6, <3>1, <3>2 DEF InUse
  <2>2. ASSUME NEW x \in Tensor
        PROVE  /\ status'[x] \in {"live", "pending"} => home[block'[x]] = "held"
               /\ block'[x] # None => home[block'[x]] # "fresh"
    <3>1. CASE x = v
      BY <1>3, <1>6, <3>1
    <3>2. CASE x # v
      BY <1>1, <1>6, <3>2 DEF Held, InUse
    <3> QED
      BY <3>1, <3>2
  <2> QED
    BY <1>6, <2>1, <2>2 DEF Held, InUse, Books
<1>11. \A x \in Stream : \A y \in pending[x] : y \in Tensor /\ y # v /\ status[y] = "pending"
  BY <1>1, <1>7 DEF Queued
<1>12. Queued(Books)'
  <2>1. \A x \in Stream : \A y \in pending[x] : status'[y] = "pending"
    BY <1>6, <1>11
  <2>2. \A y \in Tensor : status'[y] = "pending" => status[y] = "pending"
    BY <1>6
  <2> QED
    BY <1>1, <1>6, <2>1, <2>2 DEF Queued, Books
<1>13. ASSUME NEW x \in Stream PROVE Settled(Books, x)'
  <2> SUFFICES ASSUME NEW y \in pending[x]
               PROVE  IF root'[y] = None THEN \E w \in Tensor : root'[w] = y /\ status'[w] \in {"live", "pending"}
                                         ELSE root'[y] \notin pending[x]
    BY <1>6 DEF Settled, ViewsIn, Books
  <2>1. y \in Tensor /\ root'[y] = root[y]
    BY <1>6, <1>11
  <2>2. CASE root[y] = None
    <3>1. PICK w \in Tensor : root[w] = y /\ status[w] \in {"live", "pending"}
      BY <1>1, <2>2 DEF Settled, ViewsIn
    <3>2. w # v
      BY <1>2, <3>1
    <3> QED
      BY <1>6, <2>1, <2>2, <3>1, <3>2
  <2>3. CASE root[y] # None
    BY <1>1, <2>1, <2>3 DEF Settled
  <2> QED
    BY <2>2, <2>3
<1>14. Ordered(Books, after)'
  <2>1. \A x \in Stream : \A y \in pending[x] : \A i \in Uses : x \in after'[y][i]
    BY <1>1, <1>6, <1>11 DEF Ordered, Behind
  <2>2. ASSUME NEW x \in Tensor, status'[x] = "gone", root'[x] # None, status'[root'[x]] \in {"live", "pending"}
        PROVE  \/ \A i \in Uses : after'[x][i] = Stream
               \/ \E y \in Stream : root'[x] \in pending[y] /\ \A i \in Uses : y \in after'[x][i]
    <3>1. x # v /\ status[x] = "gone" /\ root'[x] = root[x] /\ after'[x] = after[x]
      BY <1>6, <2>2
    <3>2. root[x] # None /\ root[x] \in Tensor /\ root[x] # v
      BY <1>1, <1>7, <2>2, <3>1 DEF TensorsOK
    <3>3. InUse(Books, root[x])
      BY <1>1, <1>6, <2>2, <3>1, <3>2 DEF InUse
    <3> QED
      BY <1>1, <3>1, <3>2, <3>3 DEF Ordered, Behind, Done
  <2> QED
    BY <1>6, <2>1, <2>2 DEF Ordered, Behind, Done, InUse, Books
<1>15. Reusable(Books, after, activeStreams)'
  <2> DEFINE h(x) == home[block'[x]]
  <2> SUFFICES ASSUME NEW x \in Tensor, block'[x] # None
               PROVE  /\ h(x) \in Stream => \A i \in Uses : h(x) \in after'[x][i]
                      /\ \A j, k \in DOMAIN a : k <= j /\ a[k] = h(x) => \A i \in Uses : a[j] \in after'[x][i]
                      /\ h(x) = Synced => \A i \in Uses : after'[x][i] = Stream
    BY <1>6 DEF Reusable, Behind, Done, Books
  <2>1. CASE x = v
    <3>1. h(x) = "held"
      BY <1>3, <1>6, <2>1
    <3>2. \A k \in DOMAIN a : a[k] \in Stream
      BY <1>1, NestFacts
    <3> QED
      BY <3>1, <3>2, StreamAssumption DEF Stream
  <2>2. CASE x # v
    <3>1. block[x] # None /\ h(x) = home[block[x]] /\ after'[x] = after[x]
      BY <1>6, <2>2
    <3> QED
      BY <1>1, <3>1 DEF Reusable, Behind, Done
  <2> QED
    BY <2>1, <2>2
<1>16. HeapsKnown(Books)' /\ (Books \in BooksType)'
  <2>1. HeapsKnown(Books)'
    BY <1>1, <1>6 DEF HeapsKnown, Books
  <2>2. /\ status' \in [Tensor -> {"none", "live", "pending", "gone"}] /\ home' \in [Block -> Places]
        /\ pending' \in [Stream -> SUBSET Tensor] /\ workspaces' \in SUBSET Alternate
    BY <1>1, <1>6
  <2>3. (Books \in BooksType)'
    BY <2>2 DEF Books, BooksType
  <2> QED
    BY <2>1, <2>3
<1>17. Sound(Books, after, activeStreams, {})'
  BY <1>8, <1>10, <1>12, <1>13, <1>14, <1>15, <1>16 DEF Sound
<1>18. StreamsOK' /\ NothingLeft'
  BY <1>2, <1>6 DEF IInv, StreamsOK, Placed, Nested, NothingLeft
<1> QED
  BY <1>6, <1>9, <1>17, <1>18 DEF IInv

\* A kernel uses a live tensor, whose memory is held.
LEMMA UseKeeps ==
  ASSUME IInv, NEW t \in Tensor, Use(t)
  PROVE  IInv'
<1> DEFINE a == activeStreams
           s == Current
<1>1. /\ pending \in [Stream -> SUBSET Tensor]
      /\ Books.pending = pending /\ Books.home = home /\ Books.status = status
      /\ Rooted(Books) /\ Held(Books) /\ Queued(Books) /\ Ordered(Books, after) /\ Reusable(Books, after, a)
      /\ TensorsOK /\ Nested(a) /\ after \in OrderType /\ s \in Stream /\ Sound(Books, after, a, {})
  BY BooksFacts DEF IInv
<1>2. /\ status[t] = "live" /\ after' = [after EXCEPT ![t][s] = {s}]
      /\ UNCHANGED <<activeStreams, pool, handle, workspaces, joined, pending, home, block, root, status>>
  BY DEF Use, streamVars, tensorVars
<1> HIDE DEF a, s
<1>3. after' \in OrderType /\ \A x \in Tensor : x # t => after'[x] = after[x]
  BY <1>1, <1>2 DEF OrderType, Uses
<1>4. Ordered(Books, after')
  <2>1. \A x \in Stream : \A y \in pending[x] : y \in Tensor /\ y # t
    BY <1>1, <1>2 DEF Queued
  <2> QED
    BY <1>1, <1>2, <1>3, <2>1 DEF Ordered, Behind, Done
<1>5. Reusable(Books, after', a)
  <2> SUFFICES ASSUME NEW x \in Tensor, block[x] # None
               PROVE  LET h == home[block[x]]
                      IN /\ h \in Stream => Behind(after', h, x)
                         /\ \A j, k \in DOMAIN a : k <= j /\ a[k] = h => Behind(after', a[j], x)
                         /\ h = Synced => Done(after', x)
    BY <1>1 DEF Reusable
  <2>1. CASE x = t
    <3>1. home[block[x]] = "held"
      BY <1>1, <1>2, <2>1 DEF Held, InUse
    <3>2. \A k \in DOMAIN a : a[k] \in Stream
      BY <1>1, NestFacts
    <3> QED
      BY <3>1, <3>2, StreamAssumption DEF Stream
  <2>2. CASE x # t
    BY <1>1, <1>3, <2>2 DEF Reusable, Behind, Done
  <2> QED
    BY <2>1, <2>2
<1>6. Sound(Books, after', activeStreams', {})
  BY <1>1, <1>2, <1>4, <1>5 DEF Sound, a
<1>7. Sound(Books, after, activeStreams, {})'
  BY <1>2, <1>6, BooksKept
<1>8. StreamsOK' /\ NothingLeft' /\ TensorsOK'
  BY <1>2 DEF IInv, StreamsOK, Placed, Nested, NothingLeft, TensorsOK, OneRoot, RootOf
<1> QED
  BY <1>3, <1>7, <1>8 DEF IInv

\* The invariant holds at the start.
LEMMA InitKeeps == Init => IInv
<1> SUFFICES ASSUME Init PROVE IInv
  OBVIOUS
<1>1. /\ activeStreams = <<Main>> /\ pool = Alternate /\ handle = [x \in Alternate |-> "none"] /\ workspaces = {}
      /\ joined = [x \in Stream |-> {}] /\ pending = [x \in Stream |-> {}] /\ home = [b \in Block |-> "fresh"]
      /\ block = [t \in Tensor |-> None] /\ root = [t \in Tensor |-> None] /\ status = [t \in Tensor |-> "none"]
      /\ after = [t \in Tensor |-> [i \in Uses |-> Stream]]
  BY DEF Init, Uses
<1>2. Main \in Stream /\ Main \notin Alternate /\ "fresh" \notin Stream /\ "fresh" # Synced
  BY StreamAssumption DEF Stream
<1>3. Nested(activeStreams)
  BY <1>1, <1>2 DEF Nested
<1>4. StreamsOK
  <2>1. \A k \in 1..Len(activeStreams) : activeStreams[k] = Main
    BY <1>1
  <2>2. /\ handle \in [Alternate -> {"none", "running", "open", "waited"}]
        /\ joined \in [Stream -> SUBSET Alternate]
    BY <1>1
  <2>3. \A s \in Alternate : handle[s] = "none" /\ s \in Stream /\ s \in pool /\ s # Main
    BY <1>1, <1>2 DEF Stream
  <2>4. \A s \in Stream : joined[s] = {}
    BY <1>1
  <2> QED
    BY <1>1, <1>2, <1>3, <2>1, <2>2, <2>3, <2>4 DEF StreamsOK, Placed
<1>5. TensorsOK
  BY <1>1 DEF TensorsOK, OneRoot
<1>6. after \in OrderType
  BY <1>1 DEF OrderType
<1>7. /\ Books.pending = pending /\ Books.home = home /\ Books.status = status
      /\ Books.workspaces = workspaces /\ Books \in BooksType
  BY <1>1 DEF Books, BooksType, Places
<1>8. Sound(Books, after, activeStreams, {})
  <2>1. Rooted(Books) /\ Held(Books) /\ Queued(Books) /\ HeapsKnown(Books)
    BY <1>1, <1>2, <1>7 DEF Rooted, Held, Queued, HeapsKnown, InUse, Stream
  <2>2. (\A x \in Stream : Settled(Books, x)) /\ Ordered(Books, after) /\ Reusable(Books, after, activeStreams)
    BY <1>1, <1>7 DEF Settled, Ordered, Reusable
  <2> QED
    BY <1>7, <2>1, <2>2 DEF Sound
<1>9. NothingLeft
  BY <1>1 DEF NothingLeft, Stream
<1> QED
  BY <1>4, <1>5, <1>6, <1>8, <1>9 DEF IInv
-----------------------------------------------------------------------------
(* Theorems                                                              *)

\* Every step keeps the invariant; memory is held again only by Alloc.
LEMMA StepKeeps ==
  ASSUME IInv, [Next]_vars
  PROVE  /\ IInv'
         /\ \/ \A b \in Block : home'[b] = "held" => home[b] = "held"
            \/ \E t \in Tensor, b \in Block : Alloc(t, b)
<1>1. CASE UNCHANGED vars
  <2>1. /\ UNCHANGED <<activeStreams, pool, handle, workspaces, joined, pending, home, block, root, status, after>>
    BY <1>1 DEF vars, streamVars, tensorVars
  <2>2. Sound(Books, after, activeStreams, {})'
    BY <2>1, BooksKept DEF IInv
  <2> QED
    BY <2>1, <2>2 DEF IInv, StreamsOK, Placed, Nested, NothingLeft, TensorsOK, OneRoot, RootOf
<1>2. ASSUME NEW t \in Tensor, Dispose(t) PROVE IInv' /\ \A b \in Block : home'[b] = "held" => home[b] = "held"
  BY <1>2, DisposeKeeps
<1>3. ASSUME NEW t \in Tensor, Use(t) PROVE IInv' /\ home' = home
  BY <1>3, UseKeeps DEF Use
<1>4. ASSUME NEW t \in Tensor, NEW b \in Block, Alloc(t, b) PROVE IInv'
  BY <1>4, AllocKeeps
<1>5. ASSUME NEW v \in Tensor, NEW t \in Tensor, View(v, t) PROVE IInv' /\ home' = home
  BY <1>5, ViewKeeps DEF View
<1>6. ASSUME NEW s \in Alternate, BeginStream(s) \/ StreamWaitEvent(s) \/ DisposeHandle(s)
      PROVE  IInv' /\ \A b \in Block : home'[b] = "held" => home[b] = "held"
  BY <1>6, BeginStreamKeeps, StreamWaitEventKeeps, DisposeHandleKeeps
<1>7. ASSUME EndStream \/ FailStream \/ Synchronize
      PROVE  IInv' /\ \A b \in Block : home'[b] = "held" => home[b] = "held"
  BY <1>7, EndStreamKeeps, FailStreamKeeps, SynchronizeKeeps
<1> QED
  BY <1>1, <1>2, <1>3, <1>4, <1>5, <1>6, <1>7 DEF Next

\* What relates heaps, queues and the device's order (glm_ops.ts, withStream to
\* synchronize) holds in every state.
THEOREM StreamsInvariant == Spec => []IInv
<1>1. Init => IInv
  BY InitKeeps
<1>2. IInv /\ [Next]_vars => IInv'
  BY StepKeeps
<1> QED
  BY <1>1, <1>2, PTL DEF Spec

\* Every block and every stream is in one place.
LEMMA InvAccounted ==
  ASSUME IInv
  PROVE  Accounted
<1>1. /\ pending \in [Stream -> SUBSET Tensor] /\ home \in [Block -> Places] /\ workspaces \in SUBSET Alternate
      /\ status \in [Tensor -> {"none", "live", "pending", "gone"}]
      /\ Books.pending = pending /\ Books.home = home /\ Books.status = status /\ Books.workspaces = workspaces
      /\ Rooted(Books) /\ Held(Books) /\ Queued(Books) /\ HeapsKnown(Books)
      /\ \A x \in Stream : Settled(Books, x)
      /\ TensorsOK /\ Books \in BooksType /\ NothingLeft /\ Placed(activeStreams, pool, handle, joined)
  BY BooksFacts DEF IInv, StreamsOK
<1>2. OneOwner
  <2> SUFFICES ASSUME NEW b \in Block
               PROVE  LET owners == {t \in Tensor : block[t] = b /\ status[t] \in {"live", "pending"}}
                      IN IF home[b] = "held" THEN Cardinality({t \in owners : root[t] = None}) = 1 ELSE owners = {}
    BY DEF OneOwner
  <2> DEFINE owners == {t \in Tensor : block[t] = b /\ status[t] \in {"live", "pending"}}
             roots  == {t \in owners : root[t] = None}
  <2>1. CASE home[b] = "held"
    <3>1. PICK t \in Tensor : block[t] = b /\ InUse(Books, t)
      BY <1>1, <2>1 DEF Held
    <3>2. /\ RootOf(t) \in Tensor /\ root[RootOf(t)] = None /\ block[RootOf(t)] = b
          /\ status[RootOf(t)] \in {"live", "pending"}
      <4>1. block[t] # None /\ InUse(Books, RootOf(t))
        BY <1>1, <3>1, RootInUse, TensorAssumption
      <4> QED
        BY <1>1, <3>1, <4>1, RootInUse DEF InUse
    <3>3. ASSUME NEW x \in roots PROVE x = RootOf(t)
      <4>1. x \in Tensor /\ root[x] = None /\ block[x] = block[t] /\ block[x] # None
        BY <3>1, <3>3, TensorAssumption
      <4>2. RootOf(x) = RootOf(t) /\ RootOf(x) = x
        BY <1>1, <4>1 DEF TensorsOK, OneRoot, RootOf
      <4> QED
        BY <4>2
    <3>4. RootOf(t) \in roots
      BY <3>2
    <3>5. roots = {RootOf(t)}
      BY <3>3, <3>4
    <3> HIDE DEF roots
    <3>6. Cardinality(roots) = 1
      BY <3>5, FS_Singleton
    <3> QED
      BY <2>1, <3>6 DEF roots
  <2>2. CASE home[b] # "held"
    BY <1>1, <2>2 DEF Held, InUse
  <2> QED
    BY <2>1, <2>2
<1>3. NoLeak
  <2> SUFFICES ASSUME \A t \in Tensor : status[t] # "live", \A s \in Alternate : handle[s] = "none", NEW b \in Block
               PROVE  home[b] \in {Main, Synced, "fresh"}
    BY DEF NoLeak
  <2>1. \A s \in Alternate : s \notin workspaces /\ pending[s] = {}
    BY <1>1 DEF NothingLeft
  <2>2. home[b] \notin Alternate
    BY <1>1, <2>1 DEF HeapsKnown
  \* What waits does so on Main, a view with its root, a root for a view.
  <2>3. \A t \in Tensor : status[t] = "pending" => t \in pending[Main]
    BY <1>1, <2>1 DEF Queued, Stream
  <2>4. ASSUME home[b] = "held" PROVE FALSE
    <3>1. PICK t \in Tensor : block[t] = b /\ InUse(Books, t)
      BY <1>1, <2>4 DEF Held
    <3>2. Main \in Stream
      BY DEF Stream
    <3>3. ASSUME NEW x \in Tensor, InUse(Books, x), root[x] # None PROVE FALSE
      <4>1. InUse(Books, root[x]) /\ root[x] \in Tensor
        BY <1>1, <3>3 DEF Rooted, TensorsOK
      <4>2. x \in pending[Main] /\ root[x] \in pending[Main]
        BY <1>1, <2>3, <3>3, <4>1 DEF InUse
      <4> QED
        BY <1>1, <3>2, <3>3, <4>2 DEF Settled
    <3>4. root[t] = None
      BY <3>1, <3>3
    <3>5. t \in pending[Main]
      BY <1>1, <2>3, <3>1 DEF InUse
    <3>6. PICK v \in Tensor : root[v] = t /\ status[v] \in {"live", "pending"}
      BY <1>1, <3>2, <3>4, <3>5 DEF Settled, ViewsIn
    <3> QED
      BY <1>1, <3>3, <3>6, TensorAssumption DEF InUse
  <2> QED
    BY <1>1, <2>2, <2>4 DEF Places, Stream
<1>4. StreamsAccounted
  <2> SUFFICES ASSUME NEW s \in Alternate
               PROVE  /\ Cardinality({x \in Alternate : s \in joined[x]}) = IF s \in pool THEN 0 ELSE 1
                      /\ handle[s] # "none" <=> s \in joined[s]
    BY DEF StreamsAccounted
  <2> DEFINE places == {x \in Alternate : s \in joined[x]}
  <2>1. /\ handle[s] # "none" <=> s \in joined[s]
        /\ s \in pool <=> places = {}
        /\ \A x, y \in places : x = y
    BY <1>1 DEF Placed
  <2> HIDE DEF places
  <2>2. CASE s \in pool
    BY <2>1, <2>2, FS_EmptySet DEF places
  <2>3. CASE s \notin pool
    <3>1. PICK x : x \in places
      BY <2>1, <2>3
    <3>2. places = {x}
      BY <2>1, <3>1
    <3>3. Cardinality(places) = 1
      BY <3>2, FS_Singleton
    <3> QED
      BY <2>1, <2>3, <3>3 DEF places
  <2> QED
    BY <2>2, <2>3
<1> QED
  BY <1>2, <1>3, <1>4 DEF Accounted

\* What is disposed of (GlmTensor[Symbol.dispose], disposeStream, synchronize)
\* comes back once, to one heap or to the pool.
THEOREM AccountedHolds == Spec => []Accounted
<1>1. IInv => Accounted
  BY InvAccounted
<1> QED
  BY <1>1, StreamsInvariant, PTL

\* Memory from a heap comes after all that used it.
LEMMA AllocSafe ==
  ASSUME IInv, NEW t \in Tensor, NEW b \in Block, Alloc(t, b)
  PROVE  /\ \A x \in Tensor : block[x] = b => OrderedAfter(Current, x)
         /\ \A c \in Block : home'[c] = "held" => c = b \/ home[c] = "held"
<1> DEFINE a == activeStreams
<1>1. /\ home \in [Block -> Places] /\ Books.home = home
      /\ Held(Books) /\ Reusable(Books, after, a) /\ Nested(a) /\ Current \in Stream /\ Current = a[Len(a)]
  BY BooksFacts DEF Current
<1>2. (\E k \in 1..Len(a) : home[b] = a[k]) \/ home[b] \in {Synced, "fresh"}
  BY AllocatedFree DEF Alloc
<1>3. ASSUME NEW x \in Tensor, block[x] = b PROVE OrderedAfter(Current, x)
  <2>1. block[x] # None
    BY <1>3, TensorAssumption
  <2>2. home[b] # "fresh"
    BY <1>1, <1>3, <2>1 DEF Held
  <2>3. CASE home[b] = Synced
    BY <1>1, <1>3, <2>1, <2>3 DEF Reusable, Done, OrderedAfter, Uses
  <2>4. ASSUME NEW k \in 1..Len(a), home[b] = a[k] PROVE OrderedAfter(Current, x)
    <3>1. Len(a) \in DOMAIN a /\ k \in DOMAIN a /\ k <= Len(a)
      BY <1>1, NestFacts
    <3>2. Behind(after, a[Len(a)], x)
      BY <1>1, <1>3, <2>1, <2>4, <3>1 DEF Reusable
    <3> QED
      BY <1>1, <3>2 DEF Behind, OrderedAfter, Uses
  <2> QED
    BY <1>2, <2>2, <2>3, <2>4
<1>4. \A c \in Block : home'[c] = "held" => c = b \/ home[c] = "held"
  BY <1>1 DEF Alloc
<1> QED
  BY <1>3, <1>4

\* The allocator (allocationLineage, recycleDevice) never hands out memory that a
\* kernel enqueued before may still use, on whichever stream.
THEOREM SafeReuseHolds == Spec => SafeReuse
<1> DEFINE Safe == \A b \in Block :
                     home[b] # "held" /\ home'[b] = "held"
                       => \A t \in Tensor : block[t] = b => OrderedAfter(Current, t)
<1>1. IInv /\ [Next]_vars => [Safe]_vars
  BY StepKeeps, AllocSafe
<1>2. Spec => [][Safe]_vars
  BY <1>1, StreamsInvariant, PTL DEF Spec
<1> QED
  BY <1>2 DEF SafeReuse
=============================================================================
