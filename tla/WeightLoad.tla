----------------------------- MODULE WeightLoad -----------------------------
(*****************************************************************************)
(* Loading a checkpoint into the arena of one device, by the persistent      *)
(* loader, and the replay of its allocations by an executor that imports     *)
(* the arena: loadWeights and loadTensorStrided of src/chat_model.ts, the    *)
(* loadTensor of src/glm51_model.ts, the sources of                          *)
(* src/checkpoint_source.ts and the checks of src/model_cli.ts.              *)
(*                                                                           *)
(* The tensors of a batch are started one after the other and then wait for  *)
(* native workers, which enqueue their copies in any order.  What a tensor   *)
(* allocates after it has waited (v_proj of kv_b_proj) has no fixed place in *)
(* the order of allocations, and the executor must find it where it is.      *)
(*                                                                           *)
(*   plan      batches of kinds of tensors                                   *)
(*   process   "loader", then "executor"; outcome                            *)
(*   at, pc    the next tensor, and where loadWeights is                     *)
(*   arena     the device heap, the model workspace's heap of what has been  *)
(*             disposed of, and the sizes taken from the first so far        *)
(*   named     where the named tensors are                                   *)
(*   waiting   started tensors, with the ranges they hold                    *)
(*   temps     pendingLoadTensors, and csfLoadStatus                         *)
(*   copies    handed to native workers                                      *)
(*   stream    enqueued on the device; memory, what each address holds       *)
(*   mapped    whether the files of the source are mapped                    *)
(*   loaded    what the loader hands to executors                            *)
(*****************************************************************************)
EXTENDS Heap, FiniteSets

CONSTANTS Plan,     \* sequences of batches, each a sequence of kinds
          Arena     \* addresses 0 .. Arena - 1

Kind == {"mapped", "staged", "csf", "kvb", "bad"}

ASSUME WeightLoadAssumption ==
  /\ Arena \in Nat \ {0}
  /\ Plan \subseteq Seq(Seq(Kind) \ {<<>>}) \ {<<>>}

VARIABLES plan, process, outcome, at, pc, arena, named, waiting, temps, copies, stream,
          memory, mapped, failed, loaded

loadVars == <<plan, process, outcome, at, pc, arena, named, waiting, temps, copies, stream,
              memory, mapped, failed, loaded>>

Garbage == [t |-> <<0, 0>>, part |-> "none"]
Name(t, part) == [t |-> t, part |-> part]

FreshArena == [heap |-> <<Region(0, Arena)>>, pool |-> <<>>, sizes |-> <<>>]
NoTemps == [pending |-> <<>>, status |-> <<>>]

LoadInit ==
  /\ plan \in Plan
  /\ process = "loader" /\ outcome = "none"
  /\ at = <<1, 1>> /\ pc = "starting"
  /\ arena = FreshArena
  /\ named = <<>> /\ waiting = <<>> /\ temps = NoTemps
  /\ copies = {} /\ stream = <<>>
  /\ memory = [a \in 0..(Arena - 1) |-> Garbage]
  /\ mapped = TRUE
  /\ failed = FALSE
  /\ loaded = [named |-> <<>>, sizes |-> <<>>]

Replaying == process = "executor"
KindOf(t) == plan[t[1]][t[2]]

\* Map.set
With(f, x, y) == [z \in DOMAIN f \cup {x} |-> IF z = x THEN y ELSE f[z]]
-----------------------------------------------------------------------------
(* Memory                                                                *)

\* _alloc and allocDevice: what is named comes from the end of the device heap;
\* anything else from what has been disposed of, if that serves.
Allocated(state, size, stays) ==
  IF ~stays /\ CanAlloc(state.pool, size, FALSE)
  THEN LET range == Found(state.pool, size, FALSE)
       IN [range |-> range, state |-> [state EXCEPT !.pool = Without(@, range)]]
  ELSE LET range == Found(state.heap, size, stays)
       IN [range |-> range,
           state |-> [state EXCEPT !.heap = Without(@, range), !.sizes = Append(@, size)]]

CanTake(state, request) ==
  \/ CanAlloc(state.heap, request.size, request.stays)
  \/ ~request.stays /\ CanAlloc(state.pool, request.size, FALSE)

\* Several in a row, up to one there is no memory for, which is an error; the
\* ranges are in .got.
Another(taken, request) ==
  IF taken.fits /\ CanTake(taken.state, request)
  THEN LET one == Allocated(taken.state, request.size, request.stays)
       IN [state |-> one.state, got |-> Append(taken.got, one.range), fits |-> TRUE]
  ELSE [state |-> taken.state, got |-> taken.got, fits |-> FALSE]

AllocatedAll(state, requests) ==
  LET taken[n \in 0..Len(requests)] ==
        IF n = 0 THEN [state |-> state, got |-> <<>>, fits |-> TRUE]
        ELSE Another(taken[n - 1], requests[n])
  IN taken[Len(requests)]

Stays(size) == [size |-> size, stays |-> TRUE]
Temporary(size) == [size |-> size, stays |-> FALSE]

\* recycleDevice.
Disposed(state, ranges) == [state EXCEPT !.pool = DrainTo(ranges, @)]
-----------------------------------------------------------------------------
(* Starting a tensor                                                     *)

\* Unnamed ranges taken with the tensor: fixed and exception planes and, once,
\* csfLoadStatus; the raw v_proj.
Temporaries(kind) ==
  CASE kind = "csf" -> <<Temporary(1), Temporary(2)>> \o (IF temps.status = <<>> THEN <<Temporary(1)>> ELSE <<>>)
    [] kind = "kvb" -> <<Temporary(3)>>
    [] OTHER -> <<>>

Copy(t, part, range) == [op |-> "copy", name |-> Name(t, part), dst |-> range]

\* The copies native workers are asked for; the host conversion of a staged
\* tensor is enqueued at once.
CopiesOf(t, kind, got) ==
  CASE kind = "mapped" -> {Copy(t, "w", got[1])}
    [] kind = "csf" -> {Copy(t, "fixed", got[2]), Copy(t, "exceptions", got[3])}
    [] kind = "kvb" -> {Copy(t, "k", got[1]), Copy(t, "raw", got[2])}
    [] OTHER -> {}

NextAt == IF at[2] < Len(plan[at[1]]) THEN <<at[1], at[2] + 1>> ELSE <<at[1] + 1, 1>>

\* loadTensor up to its first wait.  An error fails the tensor, not yet the
\* others; what it has taken is not used again.
StartTensor ==
  LET kind == KindOf(at)
      taken == AllocatedAll(arena, <<Stays(2)>> \o Temporaries(kind))
      part == IF kind = "kvb" THEN "k" ELSE "w"
  IN /\ pc = "starting"
     /\ IF kind = "bad" \/ ~taken.fits
        THEN /\ failed' = TRUE
             /\ arena' = IF kind = "bad" THEN arena ELSE taken.state
             /\ UNCHANGED <<named, waiting, temps, copies, stream>>
        ELSE /\ arena' = taken.state
             /\ named' = With(named, Name(at, part), taken.got[1])
             /\ waiting' = With(waiting, at, taken.got)
             /\ temps' = IF kind # "csf" THEN temps
                         ELSE [pending |-> temps.pending \o SubSeq(taken.got, 2, 3),
                               status |-> temps.status \o SubSeq(taken.got, 4, Len(taken.got))]
             /\ copies' = IF Replaying THEN copies ELSE copies \cup CopiesOf(at, kind, taken.got)
             /\ stream' = IF kind = "staged" /\ ~Replaying
                          THEN Append(stream, Copy(at, "w", taken.got[1])) ELSE stream
             /\ UNCHANGED failed
     /\ at' = NextAt
     /\ pc' = IF NextAt[1] = at[1] THEN "starting" ELSE "running"
     /\ UNCHANGED <<plan, process, outcome, memory, mapped, loaded>>
-----------------------------------------------------------------------------
(* The native workers and the device                                     *)

\* A worker enqueues its copy, on the one stream there is.
Enqueue(copy) ==
  /\ copies' = copies \ {copy}
  /\ stream' = Append(stream, copy)
  /\ UNCHANGED <<plan, process, outcome, at, pc, arena, named, waiting, temps, memory, mapped, failed, loaded>>

Holding(m, range, value) == \A a \in Addresses(range) : m[a] = value

\* What an operation leaves in its destination; open: the files are mapped.
Effect(m, op, open) ==
  CASE op.op = "copy" -> IF open THEN op.name ELSE Garbage
    [] op.op = "decode" ->
         IF Holding(m, op.fixed, Name(op.t, "fixed")) /\ Holding(m, op.exceptions, Name(op.t, "exceptions"))
         THEN Name(op.t, "w") ELSE Garbage
    [] op.op = "transpose" -> IF Holding(m, op.src, Name(op.t, "raw")) THEN Name(op.t, "v") ELSE Garbage
    [] op.op = "memcpy" -> IF Holding(m, op.src, Name(op.t, "v")) THEN Name(op.t, "v") ELSE Garbage

After(m, op, open) ==
  [a \in DOMAIN m |-> IF a \in Addresses(op.dst) THEN Effect(m, op, open) ELSE m[a]]

DeviceStep ==
  /\ stream # <<>>
  /\ memory' = After(memory, Head(stream), mapped)
  /\ stream' = Tail(stream)
  /\ UNCHANGED <<plan, process, outcome, at, pc, arena, named, waiting, temps, copies, mapped, failed, loaded>>
-----------------------------------------------------------------------------
(* After the wait                                                        *)

\* All copies of t have been enqueued: the rest of loadTensor.
Resume(t) ==
  LET kind == KindOf(t)
      got == waiting[t]
      \* loadMlaWeight: the transposed copy, then v_proj
      taken == AllocatedAll(arena, <<Temporary(3), Stays(2)>>)
      transpose == [op |-> "transpose", t |-> t, src |-> got[2], dst |-> taken.got[1]]
      move == [op |-> "memcpy", t |-> t, src |-> taken.got[1], dst |-> taken.got[2]]
      decode == [op |-> "decode", t |-> t, fixed |-> got[2], exceptions |-> got[3], dst |-> got[1]]
  IN /\ pc = "running"
     /\ \A copy \in copies : copy.name.t # t
     /\ waiting' = [u \in DOMAIN waiting \ {t} |-> waiting[u]]
     /\ CASE kind = "kvb" ->
               /\ arena' = Disposed(taken.state, SubSeq(taken.got, 1, 1) \o <<got[2]>>)
               /\ named' = IF taken.fits THEN With(named, Name(t, "v"), taken.got[2]) ELSE named
               /\ stream' = IF taken.got = <<>> THEN stream
                            ELSE IF Replaying \/ ~taken.fits THEN Append(stream, transpose)
                            ELSE Append(Append(stream, transpose), move)
               /\ failed' = (failed \/ ~taken.fits)
          [] kind = "csf" /\ ~Replaying ->
               /\ stream' = Append(stream, decode)
               /\ UNCHANGED <<arena, named, failed>>
          [] OTHER -> UNCHANGED <<arena, named, stream, failed>>
     /\ UNCHANGED <<plan, process, outcome, at, pc, temps, copies, memory, mapped, loaded>>

\* Mutant: Promise.all, which does not wait for the others once one has failed.
SettledOrFailed == DOMAIN waiting = {} \/ failed

\* Promise.allSettled over the batch.
BatchSettled == DOMAIN waiting = {}

\* The planes of the batch can be taken again by what is enqueued after it.
EndBatch ==
  /\ pc = "running" /\ BatchSettled
  /\ IF failed
     THEN pc' = "draining" /\ UNCHANGED <<arena, temps>>
     ELSE /\ pc' = IF at[1] <= Len(plan) THEN "starting" ELSE "draining"
          /\ arena' = Disposed(arena, temps.pending)
          /\ temps' = [temps EXCEPT !.pending = <<>>]
  /\ UNCHANGED <<plan, process, outcome, at, named, waiting, copies, stream, memory, mapped, failed, loaded>>

\* drainLoadTransfers waits for the device; then the source is closed.
Drain ==
  /\ pc = "draining" /\ stream = <<>>
  /\ arena' = Disposed(arena, temps.pending \o temps.status)
  /\ temps' = NoTemps
  /\ mapped' = FALSE
  /\ pc' = "loaded"
  /\ outcome' = IF failed THEN "failed" ELSE outcome
  /\ UNCHANGED <<plan, process, at, named, waiting, copies, stream, memory, failed, loaded>>

\* The loader exports its arena and signatures, an executor imports it.
StartExecutor ==
  /\ pc = "loaded" /\ process = "loader" /\ ~failed
  /\ loaded' = [named |-> named, sizes |-> arena.sizes]
  /\ process' = "executor"
  /\ at' = <<1, 1>> /\ pc' = "starting"
  /\ arena' = FreshArena
  /\ named' = <<>>
  /\ UNCHANGED <<plan, outcome, waiting, temps, copies, stream, memory, mapped, failed>>

\* Mutant: only the arena's own signature is compared.
SameArena == arena.sizes = loaded.sizes

\* arenaLayoutSignature, the sizes in order, and modelArenaLayoutSignatures, the
\* address of every name.
SameLayout == arena.sizes = loaded.sizes /\ named = loaded.named

Judge ==
  /\ pc = "loaded" /\ process = "executor" /\ outcome = "none"
  /\ outcome' = IF SameLayout THEN "admitted" ELSE "refused"
  /\ UNCHANGED <<plan, process, at, pc, arena, named, waiting, temps, copies, stream, memory, mapped, failed, loaded>>

LoadNext ==
  \/ StartTensor
  \/ \E copy \in copies : Enqueue(copy)
  \/ DeviceStep
  \/ \E t \in DOMAIN waiting : Resume(t)
  \/ EndBatch
  \/ Drain
  \/ StartExecutor
  \/ Judge

LoadSpec == LoadInit /\ [][LoadNext]_loadVars
-----------------------------------------------------------------------------
(* Properties                                                            *)

\* Where an admitted executor has a weight, the loader's copies, in whatever
\* order they were enqueued and through whatever temporary memory, have left
\* that weight, and the replay, which transposes into temporary memory of the
\* same arena, has not touched it.
ExecutorHasWeights ==
  outcome = "admitted" =>
    \A name \in DOMAIN named : Holding(memory, named[name], name)

\* As long as anything is to be copied from the files they are mapped: also when
\* a tensor of a batch has failed while workers copy the others.
MappedWhileCopied == ~mapped /\ process = "loader" => copies = {} /\ stream = <<>>

Late(batch) == {i \in DOMAIN batch : batch[i] = "kvb"}

\* The executor of the checkpoint is refused only if two tensors of one batch
\* allocate after waiting: otherwise the order of the copies does not show.
RefusedOnlyForLate ==
  outcome = "refused" => \E b \in DOMAIN plan : Cardinality(Late(plan[b])) > 1

\* Whichever way the executor is judged there is a reason for it.
JudgedRightly == ExecutorHasWeights /\ RefusedOnlyForLate
=============================================================================
