----------------------------- MODULE MCHistory ------------------------------
(***************************************************************************)
(* Small instances, for TLC, of the modules in which KV is computed, moved *)
(* and given back while a history says what it is of: speculative decoding *)
(* (MtpDecode) and the two tiers of the prefix cache (PrefixTier).  They   *)
(* share no state here: a behaviour is one of one of them (part), and the  *)
(* other does not take part in it.                                         *)
(***************************************************************************)
EXTENDS MtpDecode, TLC

CONSTANTS GpuPage, HostPage     \* pages of PrefixTier

Symmetry == Permutations(GpuPage) \cup Permutations(HostPage)

VARIABLES part, tiers, work

tierVars == <<tiers, work>>
allVars == <<part, vars, tierVars>>

\* MtpDecode: prompts of one and of two tokens, so that rows start at different
\* positions.  The model selects the last token again after a context of even
\* length, and the other one after a context of odd length.
SmallPrompts == {<<0>>, <<1, 0>>}
SmallModel(context) == IF Len(context) % 2 = 0 THEN context[Len(context)] ELSE 1 - context[1]

ASSUME MtpAssumption

T == INSTANCE PrefixTier WITH GpuSeq <- 1..3, HostSeq <- 1..4, PageSize <- 2, MaxBatch <- 2,
                              Prompts <- {<<0, 0, 1>>, <<0, 0, 1, 0, 1>>}

\* A machine that does not take part.
NoMtp ==
  /\ history = [r \in Row |-> Nothing] /\ len = [r \in Row |-> 0] /\ target = [r \in Row |-> None]
  /\ prompt = history /\ todo = history /\ published = history
  /\ kv = 0 /\ mtpKv = 0 /\ seed = 0 /\ gen = Idle /\ flight = 0 /\ result = 0
  /\ device = "ok"

MCInit ==
  \/ part = "mtp" /\ Init /\ tiers = 0 /\ work = <<>>
  \/ part = "tier" /\ T!Init /\ NoMtp

MCNext ==
  /\ part' = part
  /\ \/ part = "mtp" /\ Next /\ UNCHANGED tierVars
     \/ part = "tier" /\ T!Next /\ UNCHANGED vars

MCSpec == MCInit /\ [][MCNext]_allVars

\* The pages of either tier hold what the histories of their Sequences claim.
KVSound == part = "tier" => T!KVSound

\* Each row has its request, and each tier its pages.
BooksKept == part = "tier" => T!BooksKept

\* An admission reuses the longest prefix cached (see PrefixTier).
AdmissionReusesBest == T!AdmissionReusesBest
=============================================================================
