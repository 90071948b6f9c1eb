----------------------------- MODULE Collectives ----------------------------
(*****************************************************************************)
(* The collectives of src/parallel_ops.ts and the memory they run in.  One   *)
(* JavaScript thread enqueues the same operations on a stream of every       *)
(* rank; ranks and streams run what is queued in their own time.  Memory     *)
(* is reused as soon as the host says so, so its rules (which heap a block   *)
(* returns to, when sources are released, what a barrier drains) are all     *)
(* that keeps a rank from writing what another still reads.                  *)
(*                                                                           *)
(*   queue    queue[r][s]: what rank r has still to run on stream s          *)
(*   barrier  the P2P group of each stream, as the Rendezvous it implements  *)
(*   heap     where each block is: "live", or a key of heapByKey             *)
(*   back     of a live block, the recycleKey of its tensor                  *)
(*   sources  P2PAllReduceGroup.sources, of each stream's group              *)
(*   pending  tensors disposed of while they had a view, and on which stream *)
(*   dropped  views cleanupSources has disposed of, and on which stream      *)
(*   host     the current stream, the state of stream 1's handle, and the    *)
(*            blocks that stream 1 has used since it forked                  *)
(*                                                                           *)
(* Ranks allocate alike, so a block stands for the same range on each.  A    *)
(* block has one slot per rank: what collectives write at each other.        *)
(*****************************************************************************)
EXTENDS Integers, Sequences

CONSTANTS Peer,
          Block,      \* blocks of the arenas, by address
          Slack       \* bound: the host enqueues while no stream has more left to run

ASSUME CollectivesAssumption == Block \subseteq Nat

VARIABLES queue, barrier, heap, back, sources, pending, dropped, host

collectiveVars == <<queue, barrier, heap, back, sources, pending, dropped, host>>

Stream == {0, 1}

\* Keys of heapByKey: undefined, the number of a stream, a group.
Clean == <<"clean", 0>>
OfStream(s) == <<"stream", s>>
OfGroup(s) == <<"group", s>>

Live == {b \in Block : heap[b] = <<"live", 0>>}

Meet == INSTANCE Rendezvous WITH Rank <- Peer, phase <- barrier

CollectivesInit ==
  /\ queue = [r \in Peer |-> [s \in Stream |-> <<>>]]
  /\ barrier = [s \in Stream |-> Meet!Outside]
  /\ heap = [b \in Block |-> Clean]
  /\ back = [b \in Block |-> Clean]
  /\ sources = [s \in Stream |-> {}]
  /\ pending = {}
  /\ dropped = {}
  /\ host = [stream |-> 0, handle |-> "none", side |-> {}]

-----------------------------------------------------------------------------
(* What ranks run                                                        *)

\* A kernel reads and writes its own memory; a push writes the rank's slot of a
\* block everywhere, a pull reads it everywhere.
Kernel(from, to) == [op |-> "kernel", from |-> from, to |-> to]
Push(from, to) == [op |-> "push", from |-> from, to |-> to]
Pull(from, to) == [op |-> "pull", from |-> from, to |-> to]
Barrier == [op |-> "barrier", from |-> 0, to |-> 0]
\* Waits until n more operations of stream s have run.
WaitEvent(s, n) == [op |-> "wait", from |-> s, to |-> n]

Own(r, b) == {<<r, b, slot>> : slot \in Peer}
Slot(r, b) == {<<q, b, r>> : q \in Peer}

Reads(r, i) ==
  CASE i.op \in {"kernel", "push"} -> Own(r, i.from)
    [] i.op = "pull" -> Slot(r, i.from)
    [] OTHER -> {}

Writes(r, i) ==
  CASE i.op \in {"kernel", "pull"} -> Own(r, i.to)
    [] i.op = "push" -> Slot(r, i.to)
    [] OTHER -> {}

\* The first operation of a stream is done; those waiting for it count down.
Done(q, s) ==
  [t \in Stream |->
     IF t = s THEN Tail(q[t])
     ELSE [k \in DOMAIN q[t] |-> IF q[t][k].op = "wait" /\ q[t][k].from = s /\ q[t][k].to > 0
                                 THEN [q[t][k] EXCEPT !.to = @ - 1] ELSE q[t][k]]]

Pop(r, s) == queue' = [queue EXCEPT ![r] = Done(@, s)]

Ready(r, s) ==
  /\ queue[r][s] # <<>>
  /\ LET i == Head(queue[r][s]) IN
       CASE i.op = "barrier" -> Meet!CanArrive(barrier[s], r) \/ Meet!CanLeave(barrier[s], r)
         [] i.op = "wait" -> i.to = 0
         [] OTHER -> TRUE

Run(r, s) ==
  /\ Ready(r, s)
  /\ IF Head(queue[r][s]).op = "barrier" /\ Meet!CanArrive(barrier[s], r)
     THEN barrier' = [barrier EXCEPT ![s] = Meet!Arrived(@, r)] /\ UNCHANGED queue
     ELSE /\ Pop(r, s)
          /\ IF Head(queue[r][s]).op = "barrier"
             THEN barrier' = [barrier EXCEPT ![s] = Meet!Left(@, r)]
             ELSE UNCHANGED barrier
  /\ UNCHANGED <<heap, back, sources, pending, dropped, host>>
-----------------------------------------------------------------------------
(* Memory, as the host keeps it                                          *)

Memory == [heap |-> heap, back |-> back, sources |-> sources,
           pending |-> pending, dropped |-> dropped]

\* tryAlloc in the heaps of a lineage, in order; the lowest block of the first.
Allocated(m, lineage) ==
  LET has == {k \in DOMAIN lineage : \E b \in Block : m.heap[b] = lineage[k]}
      key == lineage[CHOOSE k \in has : \A j \in has : k <= j]
  IN CHOOSE b \in Block : m.heap[b] = key /\ \A c \in Block : m.heap[c] = key => b <= c

CanAlloc(m, lineage) == \E b \in Block : \E k \in DOMAIN lineage : m.heap[b] = lineage[k]

Taken(m, b, key) == [m EXCEPT !.heap[b] = <<"live", 0>>, !.back[b] = key]

\* All views of b have been disposed of on the stream that disposed of b.
NoViewLeft(m, b, s) ==
  /\ \A t \in Stream : b \notin m.sources[t]
  /\ \A t \in Stream : <<b, t>> \in m.dropped => t = s

\* finishDispose, for every tensor that has become free on a stream.
Settled(m, s) ==
  LET free == {b \in Block : <<b, s>> \in m.pending /\ NoViewLeft(m, b, s)}
  IN [m EXCEPT !.heap = [b \in Block |-> IF b \in free THEN OfStream(s) ELSE m.heap[b]],
               !.pending = {x \in @ : x[1] \notin free},
               !.dropped = {x \in @ : x[1] \notin free}]

\* cleanupSources: staging goes back to the group, views are disposed of.
CleanupSources(m, s) ==
  LET staging == {b \in m.sources[s] : m.back[b] = OfGroup(s)}
      views   == m.sources[s] \ staging
  IN Settled([m EXCEPT !.heap = [b \in Block |-> IF b \in staging THEN OfGroup(s) ELSE m.heap[b]],
                       !.back = [b \in Block |-> IF b \in staging THEN Clean ELSE m.back[b]],
                       !.dropped = @ \cup {<<b, s>> : b \in views},
                       !.sources[s] = {}], s)

Drained(m, keys) == [m EXCEPT !.heap = [b \in Block |-> IF m.heap[b] \in keys THEN Clean ELSE m.heap[b]]]

\* The host's part of P2PAllReduceGroup.barrier.
AfterBarrier(m, s) ==
  IF s = 0 THEN Drained(CleanupSources(m, s), {OfGroup(0), OfStream(0)}) ELSE CleanupSources(m, s)

\* alloc, allocClean, and an allocation without a lineage.  (A key of undefined
\* selects the default of newTensor: tensors of allocClean return to a stream.)
GroupLineage(s) == <<OfGroup(s), Clean>>
CleanLineage == <<Clean>>
Lineage(s) == IF s = 0 THEN <<OfStream(0), Clean>> ELSE <<OfStream(1), OfStream(0), Clean>>

Store(m) ==
  /\ heap' = m.heap
  /\ back' = m.back
  /\ sources' = m.sources
  /\ pending' = m.pending
  /\ dropped' = m.dropped

Idle == \A r \in Peer : \A s \in Stream : Len(queue[r][s]) <= Slack

Appended(items, s) == [r \in Peer |-> [queue[r] EXCEPT ![s] = @ \o items]]

Enqueue(items) == queue' = Appended(items, host.stream)

\* Tensors a program may use: not disposed of, not scratch of a group, and in
\* use by no stream that the current one has not joined.
Usable ==
  {b \in Live : /\ \A s \in Stream : <<b, s>> \notin pending
                /\ back[b] = Clean
                /\ host.handle = "ended" => b \notin host.side}

\* Callers only read, or dispose of, what peers may be pulling from: that a group
\* retains, or has released on a stream the current one has not joined.
Writable ==
  {b \in Usable : /\ \A s \in Stream : b \notin sources[s]
                  /\ \A s \in Stream : <<b, s>> \in dropped => s \in {0, host.stream}}

\* Stream 1 has used these.
Touch(blocks) ==
  host' = IF host.stream = 1 THEN [host EXCEPT !.side = @ \cup blocks] ELSE host

\* tryP2PAllReduce
AllReduce(t) ==
  LET s == host.stream
      b == Allocated(Memory, GroupLineage(s))
      m == AfterBarrier(AfterBarrier(Taken(Memory, b, OfGroup(s)), s), s)
  IN /\ CanAlloc(Memory, GroupLineage(s))
     /\ Enqueue(<<Push(t, b), Barrier, Push(b, t), Barrier>>)
     /\ Store([m EXCEPT !.sources[s] = @ \cup {b}])
     /\ Touch({t, b})

\* tryP2PAllGather without an output
AllGather(t) ==
  LET s == host.stream
      b == Allocated(Memory, CleanLineage)
  IN /\ CanAlloc(Memory, CleanLineage)
     /\ Enqueue(<<Push(t, b), Barrier>>)
     /\ Store(AfterBarrier(Taken(Memory, b, Clean), s))
     /\ Touch({t, b})

\* tryP2PAllGather into an output
AllGatherInto(t, output) ==
  LET s == host.stream
      b == Allocated(Memory, GroupLineage(s))
      m == AfterBarrier(Taken(Memory, b, OfGroup(s)), s)
  IN /\ CanAlloc(Memory, GroupLineage(s))
     /\ Enqueue(<<Push(t, b), Barrier, Kernel(b, output)>>)
     /\ Store([m EXCEPT !.sources[s] = @ \cup {b}])
     /\ Touch({t, output, b})

\* Mutant: the event stream 1 waits for is recorded after stream 0's own wait.
AllGatherOnStreamLate(t) ==
  LET b == Allocated(Memory, CleanLineage)
  IN /\ host.stream = 0 /\ host.handle = "none"
     /\ CanAlloc(Memory, CleanLineage)
     /\ queue' = [r \in Peer |->
                    [s \in Stream |->
                       IF s = 1
                       THEN queue[r][1] \o <<WaitEvent(0, Len(queue[r][0]) + 1), Push(t, b)>>
                       ELSE queue[r][0] \o <<WaitEvent(1, Len(queue[r][1]) + 2), Barrier>>]]
     /\ Store(AfterBarrier(Taken(Memory, b, Clean), 0))
     /\ UNCHANGED host

\* redistributeMultiple, groupedLinear: the transfer runs on a nested stream,
\* which the coordinating stream joins before its barrier.
AllGatherOnStream(t) ==
  LET b == Allocated(Memory, CleanLineage)
  IN /\ host.stream = 0 /\ host.handle = "none"
     /\ CanAlloc(Memory, CleanLineage)
     /\ queue' = [r \in Peer |->
                    [s \in Stream |->
                       IF s = 1
                       THEN queue[r][1] \o <<WaitEvent(0, Len(queue[r][0])), Push(t, b)>>
                       ELSE queue[r][0] \o <<WaitEvent(1, Len(queue[r][1]) + 2), Barrier>>]]
     /\ Store(AfterBarrier(Taken(Memory, b, Clean), 0))
     /\ UNCHANGED host

\* cpMergePushReduce
MergePush(t) ==
  LET s == host.stream
      b == Allocated(Memory, GroupLineage(s))
      m == AfterBarrier(Taken(Memory, b, OfGroup(s)), s)
      out == Allocated(m, Lineage(s))
  IN /\ CanAlloc(Memory, GroupLineage(s))
     /\ CanAlloc(m, Lineage(s))
     /\ Enqueue(<<Push(t, b), Barrier, Kernel(b, out)>>)
     /\ Store([Taken(m, out, Clean) EXCEPT !.sources[s] = @ \cup {b}])
     /\ Touch({t, out, b})

\* Mutant: what peers will read is not retained.
MergePullUnretained(t) ==
  LET s == host.stream
      m == AfterBarrier(Memory, s)
      out == Allocated(m, Lineage(s))
  IN /\ CanAlloc(m, Lineage(s))
     /\ Enqueue(<<Barrier, Pull(t, out)>>)
     /\ Store(Taken(m, out, Clean))
     /\ Touch({t, out})

\* cpMergeTreeReduce
MergePull(t) ==
  LET s == host.stream
      m == AfterBarrier(Memory, s)
      out == Allocated(m, Lineage(s))
  IN /\ CanAlloc(m, Lineage(s))
     /\ Enqueue(<<Barrier, Pull(t, out)>>)
     /\ Store([Taken(m, out, Clean) EXCEPT !.sources[s] = @ \cup {t}])
     /\ Touch({t, out})

\* Any operation of one device: into a new tensor, or in place.
Compute(t) ==
  LET s == host.stream
      out == Allocated(Memory, Lineage(s))
  IN /\ CanAlloc(Memory, Lineage(s))
     /\ Enqueue(<<Kernel(t, out)>>)
     /\ Store(Taken(Memory, out, Clean))
     /\ Touch({t, out})

Update(t) ==
  /\ Enqueue(<<Kernel(t, t)>>)
  /\ Touch({t})
  /\ UNCHANGED <<heap, back, sources, pending, dropped>>

\* An input of the program, from the host.
Input ==
  LET s == host.stream
      b == Allocated(Memory, Lineage(s))
  IN /\ CanAlloc(Memory, Lineage(s))
     /\ Enqueue(<<Kernel(b, b)>>)
     /\ Store(Taken(Memory, b, Clean))
     /\ Touch({b})

\* A tensor with a view in some group's sources waits for it.
Dispose(t) ==
  /\ Store(Settled([Memory EXCEPT !.pending = @ \cup {<<t, host.stream>>}], host.stream))
  /\ UNCHANGED <<queue, host>>

\* withStream, up to its callback
BeginStream ==
  /\ host.handle = "none"
  /\ host' = [stream |-> 1, handle |-> "open", side |-> {}]
  /\ queue' = [r \in Peer |-> [queue[r] EXCEPT ![1] = Append(@, WaitEvent(0, Len(queue[r][0])))]]
  /\ UNCHANGED <<barrier, heap, back, sources, pending, dropped>>

EndStream ==
  /\ host.handle = "open"
  /\ host' = [host EXCEPT !.stream = 0, !.handle = "ended"]
  /\ UNCHANGED <<queue, barrier, heap, back, sources, pending, dropped>>

\* What stream 1 has left is stream 0's, its disposals too.
Merged(m) ==
  Settled([m EXCEPT !.heap = [b \in Block |-> IF m.heap[b] = OfStream(1) THEN OfStream(0) ELSE m.heap[b]],
                    !.pending = {<<x[1], 0>> : x \in @},
                    !.dropped = {<<x[1], 0>> : x \in @}], 0)

\* streamWaitEvent and disposal of the handle: stream 0 comes after stream 1,
\* and has its heap.  The sources of its group stay with the group.
JoinStream ==
  /\ host.handle = "ended"
  /\ host' = [stream |-> 0, handle |-> "none", side |-> {}]
  /\ Store(Merged(Memory))
  /\ queue' = [r \in Peer |-> [queue[r] EXCEPT ![0] = Append(@, WaitEvent(1, Len(queue[r][1])))]]
  /\ UNCHANGED barrier

\* synchronize, with every stream joined: once the devices are done, every
\* group releases its sources and all heaps are clean.
Synchronize ==
  /\ host.handle = "none"
  /\ \A r \in Peer : \A s \in Stream : queue[r][s] = <<>>
  /\ LET m == [CleanupSources(Merged(CleanupSources(Memory, 1)), 0) EXCEPT !.dropped = {}]
     IN Store(Drained(m, {OfStream(s) : s \in Stream} \cup {OfGroup(s) : s \in Stream}))
  /\ UNCHANGED <<queue, barrier, host>>

Operation ==
  /\ Idle
  /\ UNCHANGED barrier
  /\ \/ Input
     \/ \E t \in Writable : AllReduce(t) \/ Update(t)
     \/ \E t \in Usable : \/ AllGather(t)
                          \/ AllGatherOnStream(t)
                          \/ MergePush(t)
                          \/ MergePull(t)
                          \/ Compute(t)
                          \/ Dispose(t)
                          \/ \E output \in Writable \ {t} : AllGatherInto(t, output)

Control ==
  /\ Idle
  /\ \/ BeginStream
     \/ EndStream
     \/ JoinStream
     \/ Synchronize

CollectivesNext ==
  \/ Operation
  \/ Control
  \/ \E r \in Peer, s \in Stream : Run(r, s)

CollectivesSpec == CollectivesInit /\ [][CollectivesNext]_collectiveVars
-----------------------------------------------------------------------------
(* Properties                                                            *)

\* What can run at the same moment, on two ranks or two streams of one, touches
\* no memory one of them writes: whatever the host has reused, it was done with
\* everywhere.
NoRace ==
  \A r, q \in Peer : \A s, t \in Stream :
    (<<r, s>> # <<q, t>> /\ Ready(r, s) /\ Ready(q, t)) =>
      LET i == Head(queue[r][s])
          j == Head(queue[q][t])
      IN Writes(r, i) \cap (Reads(q, j) \cup Writes(q, j)) = {}

\* Whatever is queued, somebody can go on: no rank is in a barrier others never
\* reach, and no stream waits for itself.
SomebodyRuns ==
  (\E r \in Peer : \E s \in Stream : queue[r][s] # <<>>) =>
    \E r \in Peer : \E s \in Stream : Ready(r, s)

\* A block is in a heap, or a tensor has it, or a group has it as scratch, or it
\* waits for a view of it: what is disposed of comes back, once.
BlocksAccounted ==
  /\ \A x \in pending : x[1] \in Live /\ ~NoViewLeft(Memory, x[1], x[2])
  /\ \A b \in Live : back[b] # Clean => \E s \in Stream : b \in sources[s] /\ back[b] = OfGroup(s)
  /\ \A s \in Stream : sources[s] \subseteq Live
=============================================================================
