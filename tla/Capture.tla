------------------------------ MODULE Capture -------------------------------
(*****************************************************************************)
(* CUDA graph capture: src/capture-manager.ts, with the memory of the        *)
(* workspace it records from (src/workspace.ts, src/tensor.ts, src/heap.ts). *)
(* A program of the model is run eagerly under its key a few times, then     *)
(* recorded, and replayed from then on: a replay runs no code of the host,   *)
(* writes the addresses that were recorded, and claims those of the results. *)
(*                                                                           *)
(*   device    free list of the device (GlmOps.heap)                         *)
(*   main      the workspace's heap of the main stream                       *)
(*   clean     the workspace's heap of synchronized memory                   *)
(*   tracked   ranges of the tensors callers hold                            *)
(*   staged    ranges of inputs an exception has left staged: their tensors    *)
(*             cannot be disposed of, and are in no set of tracked ones      *)
(*   named     ranges of named tensors, from the device's end, kept for good *)
(*   run       the run in progress                                           *)
(*   captured  the manager's entries, by key                                 *)
(*   variant   lengthVariant: programs that size buffers by KV length        *)
(*   caller    where generators and scheduler are: "between" two runs, past  *)
(*             the "cleared" check that precedes each, unwinding an          *)
(*             exception that was "thrown", or at the end of the process     *)
(*****************************************************************************)
EXTENDS Heap, FiniteSets, FiniteSetsExt

CONSTANTS Program,     \* functions passed to execute, with their steps
          Length,      \* buckets of the padded KV length
          Arena,       \* addresses of the device
          WarmupSteps, \* eager runs before a capture: 3 in the code
          MaxEntries,  \* bound: keys a behaviour uses
          MaxTracked   \* bound: tensors a caller acquires

\* A program has a name, an input or none, and steps, each an op ("alloc" or
\* "free"), a slot and a size; a size of 0 is the padded KV length.  A tensor is
\* allocated once, and freed once after that or left for the caller; there is one.
WellFormed(p) ==
  /\ p.steps \in Seq([op : {"alloc", "free"}, slot : {p.steps[k].slot : k \in DOMAIN p.steps}, size : Nat])
  /\ \A j, k \in DOMAIN p.steps :
       j # k /\ p.steps[j].op = p.steps[k].op => p.steps[j].slot # p.steps[k].slot
  /\ \E k \in DOMAIN p.steps : p.steps[k].op = "alloc"
  /\ \A k \in DOMAIN p.steps : p.steps[k].op = "free" =>
       \E j \in DOMAIN p.steps : j < k /\ p.steps[j].op = "alloc" /\ p.steps[j].slot = p.steps[k].slot

ASSUME CaptureAssumption ==
  /\ {Arena, WarmupSteps} \subseteq Nat \ {0} /\ Length \subseteq Nat \ {0}
  /\ \A p \in Program : WellFormed(p)
  /\ \A p, q \in Program : p.name = q.name => p = q

VARIABLES device, main, clean, tracked, staged, named, run, captured, variant, caller

captureVars == <<device, main, clean, tracked, staged, named, run, captured, variant, caller>>

NoRange == Region(0, 0)
NoRun == [program |-> "none"]
Running == run # NoRun

Varies(p) == \E k \in DOMAIN p.steps : p.steps[k].op = "alloc" /\ p.steps[k].size = 0
SizeOf(step, length) == IF step.size = 0 THEN length ELSE step.size

\* Sizes of what the first n steps of the program allocate, in order.
SizesOfFirst(p, length) ==
  LET sizes[n \in 0..Len(p.steps)] ==
        IF n = 0 THEN <<>>
        ELSE IF p.steps[n].op = "alloc" THEN Append(sizes[n - 1], SizeOf(p.steps[n], length)) ELSE sizes[n - 1]
  IN sizes

\* Sizes of what a run of the program allocates, in order.
Sizes(p, length) == SizesOfFirst(p, length)[Len(p.steps)]

CaptureInit ==
  /\ device = <<Region(0, Arena)>>
  /\ main = <<>>
  /\ clean = <<>>
  /\ tracked = {}
  /\ staged = {}
  /\ named = {}
  /\ run = NoRun
  /\ captured = [k \in {} |-> 0]
  /\ variant = {}
  /\ caller = "between"

-----------------------------------------------------------------------------
(* Keys and entries                                                      *)

\* Mutant: graphs are shared by all lengths.
KeyOfProgram(p, length, input) == <<p.name, 0, input>>

\* stateKeys and graphKey: the program, the length if the program is known to
\* depend on it, and where its input is.
Key(p, length, input) == <<p.name, IF p.name \in variant THEN length ELSE 0, input>>

NoGraph == [blocks |-> {}, results |-> {}, sizes |-> <<>>]
Entry(warmup, graph) == [warmup |-> warmup, graph |-> graph]

Record(key, entry) ==
  captured' = [k \in DOMAIN captured \cup {key} |-> IF k = key THEN entry ELSE captured[k]]

Inputs(p) == IF p.input THEN tracked ELSE {NoRange}

\* Mutant: a replay does not look at what is tracked.
AnyTracked(input) == TRUE

\* The check of a replay: while the inputs are staged, nothing of the workspace is
\* tracked.
Exclusive(input) == tracked \subseteq {input}

HasGraph(key) == key \in DOMAIN captured /\ captured[key].graph # NoGraph

-----------------------------------------------------------------------------
(* Memory of the workspace                                               *)

CanServe(size) == CanAlloc(main, size, FALSE) \/ CanAlloc(clean, size, FALSE) \/ CanAlloc(device, size, FALSE)

\* alloc: from the stream's heap, the synchronized one, or the device.
Take(size) ==
  IF CanAlloc(main, size, FALSE)
  THEN main' = Without(main, Found(main, size, FALSE)) /\ UNCHANGED <<clean, device>>
  ELSE IF CanAlloc(clean, size, FALSE)
  THEN clean' = Without(clean, Found(clean, size, FALSE)) /\ UNCHANGED <<main, device>>
  ELSE device' = Without(device, Found(device, size, FALSE)) /\ UNCHANGED <<main, clean>>

RangeFor(size) ==
  LET from == IF CanAlloc(main, size, FALSE) THEN main
              ELSE IF CanAlloc(clean, size, FALSE) THEN clean ELSE device
  IN Found(from, size, FALSE)

Give(range) == main' = Manage(main, range.ptr, range.length) /\ UNCHANGED <<clean, device>>

\* One range after the other, at the end of a scope.
GiveAll(heap, ranges) == FoldSet(LAMBDA r, regions : Manage(regions, r.ptr, r.length), heap, ranges)

\* Drained: hostSynchronizeWorld and synchronizeComplete.
ReconciledHeap == DrainTo(main, clean)

-----------------------------------------------------------------------------
(* Runs                                                                  *)

\* A replay passes the check.  (That of the inputs is decided by the key, which
\* holds their shapes, types and addresses.)
MayReplay(key, input) == HasGraph(key) /\ Exclusive(input)

\* What results are claimed from: hostSynchronizeWorld comes first.
HeapToClaim == ReconciledHeap

\* claimDevice, for one range after the other.
ClaimAll(heap, ranges) == FoldSet(LAMBDA r, regions : Without(regions, r), heap, ranges)

CanClaimAll(heap, ranges) ==
  /\ \A r \in ranges : CanClaim(heap, r)
  /\ \A r, s \in ranges : r # s => Addresses(r) \cap Addresses(s) = {}

\* run with a graph: launch, reconcile, claim the results.
Replay(p, length, input) ==
  LET key == Key(p, length, input)
      graph == captured[key].graph
  IN /\ caller = "cleared" /\ ~Running
     /\ MayReplay(key, input)
     /\ CanClaimAll(HeapToClaim, graph.results)
     /\ clean' = ClaimAll(HeapToClaim, graph.results)
     /\ main' = <<>>
     /\ tracked' = tracked \cup graph.results
     /\ caller' = "between"
     /\ UNCHANGED <<device, staged, named, run, captured, variant>>

\* The check does not pass: the exception leaves the input staged.
Refuse(p, length, input) ==
  LET key == Key(p, length, input)
  IN /\ caller = "cleared" /\ ~Running
     /\ HasGraph(key) /\ ~MayReplay(key, input)
     /\ tracked' = tracked \ {input}
     /\ staged' = staged \cup (tracked \cap {input})
     /\ caller' = "thrown"
     /\ UNCHANGED <<device, main, clean, named, run, captured, variant>>

\* run without a graph, up to the function: the entry counts its warm-ups.
Begin(p, length, input) ==
  LET key == Key(p, length, input)
      warmup == IF key \in DOMAIN captured THEN captured[key].warmup ELSE 0
      capturing == warmup = WarmupSteps
  IN /\ caller = "cleared" /\ ~Running
     /\ ~HasGraph(key)
     /\ Cardinality(DOMAIN captured \cup {key}) <= MaxEntries
     /\ Record(key, Entry(IF warmup > WarmupSteps THEN warmup ELSE warmup + 1, NoGraph))
     /\ run' = [program |-> p.name, steps |-> p.steps, length |-> length, input |-> input,
                key |-> key, capturing |-> capturing, slots |-> [x \in {} |-> NoRange],
                blocks |-> {}, sizes |-> <<>>]
     /\ tracked' = tracked \ {input}
     /\ UNCHANGED <<device, main, clean, staged, named, variant, caller>>

\* The first allocation fails if tensors of other operations are about.
RunAlloc ==
  LET step == Head(run.steps)
      size == SizeOf(step, run.length)
      range == RangeFor(size)
  IN /\ Running /\ run.steps # <<>> /\ step.op = "alloc"
     /\ run.blocks = {} => tracked = {}
     /\ CanServe(size)
     /\ Take(size)
     /\ run' = [run EXCEPT !.steps = Tail(@), !.blocks = @ \cup {range}, !.sizes = Append(@, size),
                           !.slots = [x \in DOMAIN @ \cup {step.slot} |->
                                        IF x = step.slot THEN range ELSE @[x]]]
     /\ UNCHANGED <<tracked, staged, named, captured, variant, caller>>

RunFree ==
  LET step == Head(run.steps)
  IN /\ Running /\ run.steps # <<>> /\ step.op = "free"
     /\ Give(run.slots[step.slot])
     /\ run' = [run EXCEPT !.steps = Tail(@), !.slots = [x \in DOMAIN @ \ {step.slot} |-> @[x]]]
     /\ UNCHANGED <<tracked, staged, named, captured, variant, caller>>

Held == {run.slots[x] : x \in DOMAIN run.slots}
Unstaged == IF run.input = NoRange THEN {} ELSE {run.input}

\* recordLengthVariant, for a function that has completed.
Learned == IF \E p \in Program : p.name = run.program /\ Varies(p) THEN {run.program} ELSE {}

\* An exception: of the function (a check, memory, a kernel), or of
\* graphInstantiate.  What was recorded is destroyed; tensors that were not held
\* by a using declaration stay with the workspace.
Fail ==
  /\ Running
  /\ \E left \in SUBSET Held :
       /\ main' = GiveAll(main, Held \ left)
       /\ tracked' = tracked \cup left \cup Unstaged
  /\ variant' = variant \cup (IF run.steps = <<>> THEN Learned ELSE {})
  /\ run' = NoRun
  /\ caller' = "thrown"
  /\ UNCHANGED <<device, clean, staged, named, captured>>

\* graphInstantiate has given the entry its graph.
RecordGraph ==
  Record(run.key, Entry(captured[run.key].warmup,
                        [blocks |-> run.blocks, results |-> Held, sizes |-> run.sizes]))

\* An exception of the first launch of it: the entry keeps its graph, and nobody
\* has the results.
FailLaunch ==
  /\ Running /\ run.steps = <<>> /\ run.capturing
  /\ RecordGraph
  /\ variant' = variant \cup Learned
  /\ tracked' = tracked \cup Held \cup Unstaged
  /\ run' = NoRun
  /\ caller' = "thrown"
  /\ UNCHANGED <<device, main, clean, staged, named>>

\* A run completes.  What was recorded is instantiated, launched and from now on
\* replayed.
Finish ==
  /\ Running /\ run.steps = <<>>
  /\ variant' = variant \cup Learned
  /\ tracked' = tracked \cup Held \cup Unstaged
  /\ run' = NoRun
  /\ caller' = "between"
  /\ IF run.capturing
     THEN RecordGraph /\ clean' = ReconciledHeap /\ main' = <<>>
     ELSE UNCHANGED <<captured, clean, main>>
  /\ UNCHANGED <<device, staged, named>>

-----------------------------------------------------------------------------
(* Callers                                                               *)

\* A tensor a caller keeps, as the inputs of later runs.
Acquire(size) ==
  /\ caller \in {"between", "cleared"} /\ ~Running
  /\ Cardinality(tracked) < MaxTracked
  /\ CanServe(size)
  /\ Take(size)
  /\ tracked' = tracked \cup {RangeFor(size)}
  /\ UNCHANGED <<staged, named, run, captured, variant, caller>>

\* ensureAlloc, of a name that is new.
EnsureAlloc(size) ==
  /\ caller \in {"between", "cleared"} /\ ~Running
  /\ named = {}
  /\ CanAlloc(device, size, TRUE)
  /\ device' = Without(device, Found(device, size, TRUE))
  /\ named' = {Found(device, size, TRUE)}
  /\ UNCHANGED <<main, clean, tracked, staged, run, captured, variant, caller>>

\* A tensor that is not staged is disposed of, also at the end of a scope that an
\* exception leaves.
Release(range) ==
  /\ caller # "over" /\ ~Running
  /\ tracked' = tracked \ {range}
  /\ Give(range)
  /\ UNCHANGED <<staged, named, run, captured, variant, caller>>

SynchronizeAll ==
  /\ caller # "over" /\ ~Running
  /\ main # <<>>
  /\ clean' = ReconciledHeap
  /\ main' = <<>>
  /\ UNCHANGED <<device, tracked, staged, named, run, captured, variant, caller>>

\* _clearTracking: no operation was left incomplete.
NoneStaged == staged = {}

\* assertClear and clearTracking, with what the caller keeps, before every run
\* that has a key.
Clear ==
  /\ caller = "between" /\ ~Running
  /\ NoneStaged
  /\ caller' = "cleared"
  /\ UNCHANGED <<device, main, clean, tracked, staged, named, run, captured, variant>>

\* An exception that changes nothing here: of that check, of planning, of
\* graphBeginCapture, or of a replay's graphLaunch.
Throw ==
  /\ caller \in {"between", "cleared"} /\ ~Running
  /\ caller' = "thrown"
  /\ UNCHANGED <<device, main, clean, tracked, staged, named, run, captured, variant>>

\* clearTracking in run()'s catch block, which keeps nothing.  It throws itself if
\* it finds a staged tensor, and the process ends.
Recover ==
  /\ caller = "thrown" /\ ~Running
  /\ IF NoneStaged
     THEN main' = GiveAll(main, tracked) /\ tracked' = {} /\ caller' = "between"
     ELSE UNCHANGED <<main, tracked>> /\ caller' = "over"
  /\ UNCHANGED <<device, clean, staged, named, run, captured, variant>>

CaptureNext ==
  \/ \E p \in Program, length \in Length : \E input \in Inputs(p) :
       Replay(p, length, input) \/ Refuse(p, length, input) \/ Begin(p, length, input)
  \/ RunAlloc
  \/ RunFree
  \/ Fail
  \/ FailLaunch
  \/ Finish
  \/ Acquire(1)
  \/ EnsureAlloc(1)
  \/ \E range \in tracked : Release(range)
  \/ SynchronizeAll
  \/ Clear
  \/ Throw
  \/ Recover

CaptureSpec == CaptureInit /\ [][CaptureNext]_captureVars
-----------------------------------------------------------------------------
(* Properties                                                            *)

AddressesOf(ranges) == UNION {Addresses(r) : r \in ranges}
InUse == tracked \cup staged \cup named \cup (IF Running THEN Held \cup Unstaged ELSE {})

\* Every address is in one free list or belongs to one tensor, and free lists
\* have their neighbours joined: nothing is lost, split or given out twice.
HeapsExact ==
  /\ Tidy(device) /\ Tidy(main) /\ Tidy(clean)
  /\ LET parts == <<FreeAddresses(device), FreeAddresses(main), FreeAddresses(clean), AddressesOf(InUse)>>
     IN /\ UNION {parts[k] : k \in 1..4} = 0..(Arena - 1)
        /\ \A j, k \in 1..4 : j # k => parts[j] \cap parts[k] = {}
  /\ \A r, q \in InUse : r # q => Addresses(r) \cap Addresses(q) = {}

\* What may come next as a replay.
Replays(p, length, input) ==
  caller = "cleared" /\ ~Running /\ MayReplay(Key(p, length, input), input)

\* The graph of a key writes no memory that a tensor has.
WritesNobodys(key) ==
  \A b \in captured[key].graph.blocks : Addresses(b) \cap AddressesOf(InUse) = {}

\* A replay writes no memory that a tensor has got since the capture, and finds
\* that of its results free, whatever has run, failed or been refused since: an
\* input that a refusal has left staged, which the check of a replay does not see,
\* is met by no later run.
ReplaySafe ==
  \A p \in Program, length \in Length : \A input \in Inputs(p) :
    Replays(p, length, input) =>
      /\ WritesNobodys(Key(p, length, input))
      /\ CanClaimAll(HeapToClaim, captured[Key(p, length, input)].graph.results)

\* A graph is all of a run, and of one with buffers as large as those of the
\* run it replaces: failed captures leave none, and lengths that matter are told
\* apart although they are only learned as programs run.
GraphsFit ==
  \A p \in Program, length \in Length : \A input \in Inputs(p) :
    HasGraph(Key(p, length, input)) =>
      captured[Key(p, length, input)].graph.sizes = Sizes(p, length)
=============================================================================
