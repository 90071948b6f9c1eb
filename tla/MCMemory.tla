------------------------------ MODULE MCMemory ------------------------------
(****************************************************************************)
(* Small instances, for TLC, of the modules that decide who holds device    *)
(* memory: streams and captured graphs.  They share no state here: a        *)
(* behaviour is one of one of them (part), and the other stays as it was.   *)
(****************************************************************************)
EXTENDS Streams, Capture, TLC

VARIABLE part

allVars == <<part, vars, captureVars>>

Symmetry == Permutations(Alternate) \cup Permutations(Tensor) \cup Permutations(Block)

Step(op, slot, size) == [op |-> op, slot |-> slot, size |-> size]

\* A decode without an input buffer, and a step of the MTP head that has one,
\* scratch space of the padded KV length (size 0) and a result.
Programs ==
  {[name |-> "decode", input |-> FALSE,
    steps |-> <<Step("alloc", "o", 2)>>],
   [name |-> "mtp", input |-> TRUE,
    steps |-> <<Step("alloc", "s", 0), Step("alloc", "t", 1), Step("free", "s", 0)>>]}

MCInit == Init /\ CaptureInit /\ part \in {"streams", "capture"}

MCNext ==
  /\ part' = part
  /\ \/ part = "streams" /\ Next /\ UNCHANGED captureVars
     \/ part = "capture" /\ CaptureNext /\ UNCHANGED vars

MCSpec == MCInit /\ [][MCNext]_allVars
=============================================================================
