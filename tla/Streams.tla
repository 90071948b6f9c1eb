------------------------------ MODULE Streams ------------------------------
(***************************************************************************)
(* Device memory over CUDA streams (GlmOps and GlmTensor in glm_ops.ts,    *)
(* WorkspaceBase, Tensor): the host enqueues kernels on nested streams and *)
(* frees a tensor while kernels that use it are still to run.  Freed       *)
(* memory waits in the heap of the stream that freed it, and moves to      *)
(* another stream's when that one waits for the first.  A view keeps its   *)
(* root: a disposal is pending in the stream that asked for it until       *)
(* streams join.                                                           *)
(*                                                                         *)
(* The device is the order it guarantees: after[t][i] is the set of        *)
(* streams whose next operation comes after the last use of t on stream i. *)
(* The event of a stream is recorded when its callback ends, and nothing   *)
(* more is enqueued on it then, so it needs no place of its own.  Blocks   *)
(* have one size (Heap has the rest); recycle keys of device groups and    *)
(* tensors that disposal does not free (named, captured, staged) are left  *)
(* out.                                                                    *)
(***************************************************************************)
EXTENDS Integers, Sequences, FiniteSets, SequencesExt

CONSTANTS Main,       \* stream 0
          Alternate,  \* the other streams
          Synced,     \* heap key undefined: no kernel uses the memory
          Block,      \* device memory
          Tensor,     \* Tensor objects: roots and views
          None,       \* undefined
          MaxDepth    \* bound: nesting of withStream

\* The names of streams and places are told apart.
ASSUME StreamAssumption ==
  /\ Main \notin Alternate /\ Synced \notin Alternate \cup {Main}
  /\ {"held", "fresh", "born"} \cap (Alternate \cup {Main, Synced}) = {}
ASSUME TensorAssumption == None \notin Tensor \cup Block
ASSUME DepthAssumption == MaxDepth \in Nat

Stream == Alternate \cup {Main}
Born == "born"                     \* the use that allocates a tensor

VARIABLES
  activeStreams,                   \* activeStreams, the last is current
  pool,                            \* normalPriorityStreams and highPriorityStreams
  handle,                          \* StreamResults: none, running, open, waited
  workspaces, joined, pending,     \* streamResources (pending: disposedViews)
  home,                            \* of a block: heap, "held" by a tensor or "fresh"
  block, root,                     \* of a tensor: its memory, its view
  status,                          \* none, live, pending (disposalPending), gone (disposed)
  after                            \* order of the uses on the device

streamVars == <<activeStreams, pool, handle, workspaces, joined>>
tensorVars == <<block, root, status>>
vars == <<streamVars, pending, home, tensorVars, after>>

Current == activeStreams[Len(activeStreams)]
Views(r) == {v \in Tensor : root[v] = r /\ status[v] \in {"live", "pending"}}
RootOf(t) == IF root[t] = None THEN t ELSE root[t]
-----------------------------------------------------------------------------
(* The order of the device                                               *)

\* streamWaitEvent: what is enqueued on s from now on comes after what is on e
\* by now, or was when its callback ended.
Waited(order, s, e) ==
  [t \in Tensor |-> [i \in Stream \cup {Born} |->
    IF e \in order[t][i] THEN order[t][i] \cup {s} ELSE order[t][i]]]

\* The host has waited for stream s.
Completed(order, s) ==
  [t \in Tensor |-> [i \in Stream \cup {Born} |->
    IF s \in order[t][i] THEN Stream ELSE order[t][i]]]

\* All uses of t come before what s does next.
OrderedAfter(s, t) == \A i \in Stream \cup {Born} : s \in after[t][i]
-----------------------------------------------------------------------------
(* Disposal of tensors.  Each operator is given the books and returns them. *)

Books == [pending |-> pending, status |-> status, home |-> home, workspaces |-> workspaces]

ViewsIn(books, r) == {v \in Tensor : root[v] = r /\ books.status[v] \in {"live", "pending"}}

Released(books, gone) ==
  [books EXCEPT !.status = [t \in Tensor |-> IF t \in gone THEN "gone" ELSE @[t]]]

Dropped(books, s, done) == [books EXCEPT !.pending[s] = @ \ done]

\* finishDispose of the roots rs while s is current: recycleDevice.
Finished(books, s, rs) ==
  LET free == {block[r] : r \in rs}
  IN [Dropped(Released(books, rs), s, rs) EXCEPT
        !.home = [b \in Block |-> IF b \in free THEN s ELSE @[b]],
        !.workspaces = IF s # Main /\ rs # {} THEN @ \cup {s} ELSE @]

\* reconcileDisposedViews while s is current.
Reconciled(books, s, deviceCompleted) ==
  LET views == {v \in books.pending[s] : root[v] # None /\ (deviceCompleted \/ root[v] \in books.pending[s])}
      seen == Dropped(Released(books, views), s, views)
  IN Finished(seen, s, {r \in seen.pending[s] : root[r] = None /\ ViewsIn(seen, r) = {}})

TakeBooks(books) ==
  /\ pending' = books.pending /\ status' = books.status
  /\ home' = books.home /\ workspaces' = books.workspaces

\* GlmTensor[Symbol.dispose].  The caller disposes a tensor on a stream that
\* comes after the uses it made of this object.
Pend(t) == [Books EXCEPT !.pending = [pending EXCEPT ![Current] = @ \cup {t}],
                         !.status = [status EXCEPT ![t] = "pending"]]

DisposeView(t) ==
  LET books == Released(Books, {t})
  IN IF root[t] \notin pending[Current] THEN Pend(t)
     ELSE IF ViewsIn(books, root[t]) = {} THEN Finished(books, Current, {root[t]}) ELSE books

\* Mutant: a root goes although its views are in use.
DisposeRootAtOnce(t) == Finished(Books, Current, {t})

DisposeRoot(t) ==
  LET mine == Views(t) \cap pending[Current]
      books == Dropped(Released(Pend(t), mine), Current, mine)
  IN IF ViewsIn(books, t) = {} THEN Finished(books, Current, {t}) ELSE books

Dispose(t) ==
  /\ status[t] = "live"
  /\ OrderedAfter(Current, t)
  /\ TakeBooks(IF root[t] = None THEN DisposeRoot(t) ELSE DisposeView(t))
  /\ UNCHANGED <<activeStreams, pool, handle, joined, block, root, after>>
-----------------------------------------------------------------------------
(* Allocation and use                                                    *)

\* allocationLineage: the heaps to look in, of the active streams from the
\* innermost and then the synchronized one; only then new memory.
Lineage == Reverse(activeStreams) \o <<Synced, "fresh">>
In(key) == {b \in Block : home[b] = key}
Allocatable ==
  LET full == {i \in DOMAIN Lineage : In(Lineage[i]) # {}}
  IN UNION {In(Lineage[i]) : i \in {j \in full : \A k \in full : j <= k}}

Unused(t) == status[t] = "none"

\* The tensors that used the memory before are forgotten, and free to be new ones.
Alloc(t, b) ==
  /\ b \in Allocatable
  /\ Unused(t) \/ block[t] = b
  /\ home' = [home EXCEPT ![b] = "held"]
  /\ LET old == {x \in Tensor : block[x] = b}
     IN /\ block' = [x \in Tensor |-> IF x = t THEN b ELSE IF x \in old THEN None ELSE block[x]]
        /\ status' = [x \in Tensor |-> IF x = t THEN "live" ELSE IF x \in old THEN "none" ELSE status[x]]
        /\ root' = [x \in Tensor |-> IF x \in old THEN None ELSE root[x]]
        /\ after' = [x \in Tensor |-> IF x = t THEN [[i \in Stream \cup {Born} |-> Stream] EXCEPT ![Born] = {Current}]
                                     ELSE IF x \in old THEN [i \in Stream \cup {Born} |-> Stream] ELSE after[x]]
  /\ UNCHANGED <<streamVars, pending>>

\* reshape, viewClone, narrow: the view of a view is a view of its root.
View(v, t) ==
  /\ Unused(v)
  /\ status[t] = "live"
  /\ block' = [block EXCEPT ![v] = block[t]]
  /\ root' = [root EXCEPT ![v] = RootOf(t)]
  /\ status' = [status EXCEPT ![v] = "live"]
  /\ after' = [after EXCEPT ![v] = [[i \in Stream \cup {Born} |-> Stream] EXCEPT ![Born] = after[RootOf(t)][Born]]]
  /\ UNCHANGED <<streamVars, pending, home>>

\* A kernel on the current stream, which comes after the allocation.
Use(t) ==
  /\ status[t] = "live"
  /\ Current \in after[t][Born]
  /\ after' = [after EXCEPT ![t][Current] = {Current}]
  /\ UNCHANGED <<streamVars, pending, home, tensorVars>>
-----------------------------------------------------------------------------
(* Streams                                                               *)

\* The streams kept for use below s.
Descendants(s) == joined[s] \ {s}

\* acquireStream: from the pool, or below an alternate stream one that has
\* been joined to it.
Acquirable ==
  LET avail(s) == IF s = Main THEN pool ELSE Descendants(s)
      has == {i \in DOMAIN activeStreams : avail(activeStreams[i]) # {}}
  IN UNION {avail(activeStreams[i]) : i \in {j \in has : \A k \in has : k <= j}}

\* withStream up to the callback.
BeginStream(s) ==
  /\ Len(activeStreams) <= MaxDepth
  /\ s \in Acquirable
  /\ pool' = pool \ {s}
  /\ joined' = [x \in Stream |-> IF x = s THEN {s} ELSE joined[x] \ {s}]
  /\ handle' = [handle EXCEPT ![s] = "running"]
  /\ activeStreams' = Append(activeStreams, s)
  /\ after' = Waited(after, s, Current)
  /\ UNCHANGED <<workspaces, pending, home, tensorVars>>

\* disposeStreamResources: the destination has waited for s.
Joined(s, to) ==
  LET books ==
        [pending |-> [pending EXCEPT ![to] = @ \cup pending[s], ![s] = {}],
         status |-> status,
         home |-> [b \in Block |-> IF s \in workspaces /\ home[b] = s THEN to ELSE home[b]],
         workspaces |-> (workspaces \ {s}) \cup (IF s \in workspaces /\ to # Main THEN {to} ELSE {})]
  IN Reconciled(books, to, FALSE)

\* The streams in ids can be used again below stream to.
Returned(ids, s, to) ==
  /\ pool' = IF to = Main THEN pool \cup ids ELSE pool
  /\ joined' = [x \in Stream |-> IF x = s THEN joined[s] \ ids
                                 ELSE IF x = to /\ to # Main THEN joined[x] \cup ids ELSE joined[x]]

\* Mutant: disposal of a handle does not join its stream.
DisposeStreamUnjoined(s, to, order) ==
  /\ TakeBooks(Joined(s, to))
  /\ Returned(joined[s], s, to)
  /\ handle' = [handle EXCEPT ![s] = "none"]
  /\ after' = order

\* disposeStream while to is current: joins first when s has left something.
DisposeStream(s, to, order) ==
  /\ TakeBooks(Joined(s, to))
  /\ Returned(joined[s], s, to)
  /\ handle' = [handle EXCEPT ![s] = "none"]
  /\ after' = IF s \in workspaces \/ pending[s] # {} \/ joined[s] # {s} THEN Waited(order, to, s) ELSE order

\* The callback returns, or throws.
EndStream ==
  /\ Current # Main
  /\ activeStreams' = Front(activeStreams)
  /\ handle' = [handle EXCEPT ![Current] = "open"]
  /\ UNCHANGED <<pool, workspaces, joined, pending, home, tensorVars, after>>

FailStream ==
  /\ Current # Main
  /\ activeStreams' = Front(activeStreams)
  /\ LET outer == Last(activeStreams')
     IN DisposeStream(Current, outer, Waited(after, outer, Current))
  /\ UNCHANGED <<block, root>>

\* StreamResult.streamWaitEvent
StreamWaitEvent(s) ==
  /\ handle[s] \in {"open", "waited"}
  /\ after' = Waited(after, Current, s)
  /\ handle' = [handle EXCEPT ![s] = "waited"]
  /\ IF handle[s] = "waited"
     THEN UNCHANGED <<pool, joined, workspaces, pending, home, status>>
     ELSE TakeBooks(Joined(s, Current)) /\ Returned(Descendants(s), s, Current)
  /\ UNCHANGED <<activeStreams, block, root>>

\* StreamResult[Symbol.dispose]
DisposeHandle(s) ==
  /\ handle[s] \in {"open", "waited"}
  /\ DisposeStream(s, Current, after)
  /\ UNCHANGED <<activeStreams, block, root>>

\* synchronize: the wait is for the current stream, the cleanup for the whole
\* device; so the caller has joined what other streams have disposed.
Synchronize ==
  /\ \A t \in Tensor : status[t] \in {"pending", "gone"} => OrderedAfter(Current, t)
  /\ after' = Completed(after, Current)
  /\ LET merged == [Books EXCEPT !.pending = [s \in Stream |-> IF s = Current THEN UNION {@[x] : x \in Stream} ELSE {}]]
         books == Reconciled(merged, Current, TRUE)
     IN TakeBooks([books EXCEPT
          !.workspaces = {},
          !.home = [b \in Block |-> IF @[b] \in Stream THEN Synced ELSE @[b]]])
  /\ pool' = pool \cup UNION {Descendants(s) : s \in Stream}
  /\ joined' = [s \in Stream |-> joined[s] \ Descendants(s)]
  /\ UNCHANGED <<activeStreams, handle, block, root>>
-----------------------------------------------------------------------------
Init ==
  /\ activeStreams = <<Main>>
  /\ pool = Alternate
  /\ handle = [s \in Alternate |-> "none"]
  /\ workspaces = {}
  /\ joined = [s \in Stream |-> {}]
  /\ pending = [s \in Stream |-> {}]
  /\ home = [b \in Block |-> "fresh"]
  /\ block = [t \in Tensor |-> None]
  /\ root = [t \in Tensor |-> None]
  /\ status = [t \in Tensor |-> "none"]
  /\ after = [t \in Tensor |-> [i \in Stream \cup {Born} |-> Stream]]

Next ==
  \/ \E t \in Tensor : Dispose(t) \/ Use(t)
  \/ \E t \in Tensor, b \in Block : Alloc(t, b)
  \/ \E v, t \in Tensor : View(v, t)
  \/ \E s \in Alternate : BeginStream(s) \/ StreamWaitEvent(s) \/ DisposeHandle(s)
  \/ EndStream \/ FailStream \/ Synchronize

Spec == Init /\ [][Next]_vars
-----------------------------------------------------------------------------
(* Properties                                                            *)

\* Memory is allocated again only on a stream that comes after every kernel
\* that used it before, through whichever view and on whichever stream.
SafeReuse ==
  [][\A b \in Block :
       home[b] # "held" /\ home'[b] = "held"
         => \A t \in Tensor : block[t] = b => OrderedAfter(Current, t)]_vars

\* Memory is in a heap only when no tensor, root or view, stands for it, and
\* is held by one root otherwise.
OneOwner ==
  \A b \in Block :
    LET owners == {t \in Tensor : block[t] = b /\ status[t] \in {"live", "pending"}}
    IN IF home[b] = "held" THEN Cardinality({t \in owners : root[t] = None}) = 1 ELSE owners = {}

\* Once all tensors and streams have been disposed of, all memory is free.
NoLeak ==
  (\A t \in Tensor : status[t] # "live") /\ (\A s \in Alternate : handle[s] = "none")
    => \A b \in Block : home[b] \in {Main, Synced, "fresh"}

\* A stream is in the pool, or reserved once: by its handle, or by the stream
\* that may use it again.
StreamsAccounted ==
  /\ \A s \in Alternate :
       Cardinality({x \in Alternate : s \in joined[x]}) = IF s \in pool THEN 0 ELSE 1
  /\ \A s \in Alternate : handle[s] # "none" <=> s \in joined[s]

\* What is disposed of, on whichever stream and in whichever order, comes back
\* once and to one place: memory to a heap, a stream to the pool.
Accounted == OneOwner /\ NoLeak /\ StreamsAccounted
=============================================================================
