------------------------------ MODULE MCLoader ------------------------------
(****************************************************************************)
(* Small instances, for TLC, of the loader's two sides: the process that    *)
(* keeps the weights and runs executors on them (Loader), and how it loads  *)
(* them and an executor finds them (WeightLoad).  They share no state here: *)
(* a behaviour is one of one of them (part), and the other stays where it   *)
(* starts.                                                                  *)
(****************************************************************************)
EXTENDS Loader, WeightLoad

VARIABLE part

allVars == <<part, vars, loadVars>>

\* Batches of tensors: every kind, two that wait for their v_proj in one batch,
\* one that cannot be loaded, more of them than there is memory for.
Plans ==
  {<<<<"csf", "kvb", "mapped">>, <<"csf", "staged">>>>,
   <<<<"kvb", "kvb">>, <<"csf">>>>,
   <<<<"kvb", "bad", "csf">>>>,
   <<<<"staged", "staged", "staged", "staged">>, <<"kvb", "kvb">>>>}

MCInit ==
  /\ Init /\ LoadInit
  /\ \/ part = "loader" /\ plan = CHOOSE p \in Plan : TRUE
     \/ part = "load" /\ command = None

MCNext ==
  /\ part' = part
  /\ \/ part = "loader" /\ Next /\ UNCHANGED loadVars
     \/ part = "load" /\ LoadNext /\ UNCHANGED vars

MCSpec == MCInit /\ [][MCNext]_allVars /\ WF_vars(part = "loader" /\ Progress)
=============================================================================
