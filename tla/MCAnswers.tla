----------------------------- MODULE MCAnswers ------------------------------
(***************************************************************************)
(* Small instances, for TLC, of the modules that make an answer the one a  *)
(* single device would give that decodes token by token: tensors split     *)
(* over ranks, a context split over ranks, the memory ranks exchange and   *)
(* the barrier they exchange it behind, and the text the client is sent.   *)
(* They share no state here: a behaviour is one of one of them (part), and *)
(* the others take no step in it.                                          *)
(***************************************************************************)
EXTENDS P2PBarrier, Collectives, TLC

Symmetry == Permutations(Peer)

VARIABLES part,
          tensor, steps,
          gpu, hosts, rows, stored, plan, layer, ranking,
          tokens, count, reason, parser, ids, message, sent, destroyed, pc, answer, start

shardingVars == <<tensor, steps>>
contextVars == <<gpu, hosts, rows, stored, plan, layer, ranking>>
chatVars == <<tokens, count, reason, parser, ids, message, sent, destroyed, pc, answer, start>>
allVars == <<part, vars, collectiveVars, shardingVars, contextVars, chatVars>>

S == INSTANCE Sharding WITH W <- 2, N <- 4, Prime <- 101, MaxSteps <- 2

\* Scores without a pattern, different for every token of the batch.
Rankings == {[x \in (0..1) \X (0..6) |-> 10 * x[1] + ((2 * x[2] + 1) % 9) + 1]}

P == INSTANCE ContextParallel WITH W <- 2, PageSize <- 4, Pages <- 3, B <- 2, H <- 2, K <- 2,
                                   MaxLen <- 7, Chunks <- {0, 1, 4}, host <- hosts

\* Prefixes that leave the parser in each of its states, one in mid character;
\* stop sequences that take two tokens, and a fragment that is flushed.
Word(byte) == [kind |-> "text", bytes |-> <<byte>>]
Marker(name) == [kind |-> name, bytes |-> <<name>>]
Prefixes == {<<Word("a"), Word("L")>>, <<Marker("<think>"), Word("a")>>, <<Marker("<tool_call>"), Word("M")>>}

T == INSTANCE ChatCompletion WITH Text <- {<<"a">>, <<"L">>, <<"C">>, <<"C", "a">>, <<"M">>, <<"R">>},
                                  Prefix <- Prefixes, Stops <- <<<<"a", "a">>, <<"e", "?">>>>, MaxTokens <- 3

ASSUME S!ShardingAssumption /\ P!ContextParallelAssumption
ASSUME T!CompletionAssumption

\* A machine that does not take part.
NoSharding == tensor = 0 /\ steps = 0
NoContext == gpu = 0 /\ hosts = 0 /\ rows = 0 /\ stored = 0 /\ plan = 0 /\ layer = 0 /\ ranking = 0
NoChat ==
  /\ tokens = 0 /\ count = 0 /\ reason = 0 /\ parser = 0 /\ ids = 0 /\ message = 0
  /\ sent = 0 /\ destroyed = 0 /\ pc = 0 /\ answer = 0 /\ start = 0

MCInit ==
  /\ Init
  /\ CollectivesInit
  /\ part \in {"barrier", "collectives", "sharding", "context", "chat"}
  /\ IF part = "sharding" THEN S!Init ELSE NoSharding
  /\ IF part = "context" THEN P!Init ELSE NoContext
  /\ IF part = "chat" THEN T!Init ELSE NoChat

MCNext ==
  /\ part' = part
  /\ \/ part = "barrier" /\ Next /\ UNCHANGED <<collectiveVars, shardingVars, contextVars, chatVars>>
     \/ part = "collectives" /\ CollectivesNext /\ UNCHANGED <<vars, shardingVars, contextVars, chatVars>>
     \/ part = "sharding" /\ S!Next /\ UNCHANGED <<vars, collectiveVars, contextVars, chatVars>>
     \/ part = "context" /\ P!Next /\ UNCHANGED <<vars, collectiveVars, shardingVars, chatVars>>
     \/ part = "chat" /\ T!Next /\ UNCHANGED <<vars, collectiveVars, shardingVars, contextVars>>

MCSpec == MCInit /\ [][MCNext]_allVars

\* Split tensors, and what is read off them, are those of one device.
ShardsAgree == part = "sharding" => S!ShardsAgree /\ S!ReadingsAgree

\* Each token of a row is where the layout of its pages says, on one rank.
TokensInPlace == part = "context" => P!TokensInPlace

\* The selected tokens are the best of the whole context.
SelectionIsBest == part = "context" => P!SelectionIsBest

\* Attention merged from the ranks is that over the whole context.
AttentionIsWhole == part = "context" => P!AttentionIsWhole

\* The client hears all of the text as if it had been decoded in one piece.
TextWhole == part = "chat" => T!TextWhole

\* The answer ends at a stop sequence, an EOS or its length, and says which.
EndsRightly == part = "chat" => T!StopsInTime /\ T!ReasonTrue
=============================================================================
