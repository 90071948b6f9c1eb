----------------------------- MODULE MtpDecode ------------------------------
(***************************************************************************)
(* Speculative decoding with the MTP head: generateMtpDecode of            *)
(* src/glm51_model.ts, with the chunked prefill it continues and the       *)
(* scheduler as its consumer.  The generator launches a step (drafts, then *)
(* one verification of all of them) before it yields the result of the     *)
(* last one, so the consumer decides while the device works, on a cache    *)
(* that holds more than has been committed.                                *)
(*                                                                         *)
(*   history, len, target   of each row's Sequence: reported tokens,       *)
(*              allocLen, targetToken                                      *)
(*   prompt, todo, published  of each row's request                        *)
(*   kv         what each position of a row's KV was computed from         *)
(*   mtpKv      the same for the MTP layer, which runs one token ahead     *)
(*   seed       the carry buffer: what each row of it was computed from    *)
(*   gen        the generator                                              *)
(*   flight     what the device has yet to run                             *)
(*   result     the pinned buffers: verified inputs and selected tokens    *)
(*   device     "lost" after an error of CUDA, which is sticky             *)
(*                                                                         *)
(* Pages are PagedKV's.  A context is the sequence of tokens something was *)
(* computed from; the model is a function from contexts to tokens.  What   *)
(* drafts write is left out: the verification rewrites it.  What a kernel  *)
(* that fails has written is left out: it is past every history.           *)
(***************************************************************************)
EXTENDS Integers, Sequences, SequencesExt

CONSTANTS Rows,         \* rows of the batch
          Token,
          Prompt,       \* inputs of requests
          Selects(_),   \* the token the model selects after a context
          NumDrafts,    \* numDraftTokens
          ChunkSize,    \* tokens of a prefill chunk
          MaxLen        \* bound: tokens of a row

\* Assumed by the module that gives the constants their values.
MtpAssumption ==
  /\ {NumDrafts, Rows} \subseteq Nat \ {0} /\ ChunkSize \in Nat \ {0, 1} /\ MaxLen \in Nat
  /\ Token \subseteq Int /\ \E t \in Token : \A u \in Token : u <= t
  /\ \A input \in Prompt : input \in Seq(Token) /\ Len(input) \in 1..MaxLen
  /\ \A n \in 1..MaxLen : \A context \in [1..n -> Token] : Selects(context) \in Token

VARIABLES history, len, target, prompt, todo, published, kv, mtpKv, seed, gen, flight, result, device

sequences == <<history, len, target>>
requests == <<prompt, todo, published>>
buffers == <<kv, mtpKv, seed, result>>
vars == <<history, len, target, prompt, todo, published, kv, mtpKv, seed, gen, flight, result, device>>

Row == 1..Rows
None == 2 + CHOOSE t \in Token : \A u \in Token : u <= t
Nothing == <<>>
V == NumDrafts + 1
SeedRow == 0..(Rows * V - 1)

Idle == [phase |-> "idle", committed |-> [r \in Row |-> 0], next |-> [r \in Row |-> None],
         seedRows |-> [r \in Row |-> 0], speculative |-> FALSE, pending |-> Nothing, failed |-> FALSE]

NoKv == [r \in Row |-> [p \in 1..MaxLen |-> Nothing]]
NoSeed == [row \in SeedRow |-> Nothing]
NoResult == [r \in Row |-> [input |-> Nothing, selected |-> Nothing]]

\* Rows start with a prefix another sequence has left; its boundary in the MTP
\* layer is that sequence's.
Init ==
  /\ prompt \in [Row -> Prompt]
  /\ \E matched \in [Row -> 0..1] :
       /\ \A r \in Row : matched[r] < Len(prompt[r])
       /\ history = [r \in Row |-> SubSeq(prompt[r], 1, matched[r])]
       /\ len = matched
       /\ todo = [r \in Row |-> SubSeq(prompt[r], matched[r] + 1, Len(prompt[r]))]
       /\ kv = [r \in Row |-> [p \in 1..MaxLen |-> IF p <= matched[r] THEN SubSeq(prompt[r], 1, p) ELSE Nothing]]
       /\ mtpKv = [r \in Row |-> [p \in 1..MaxLen |-> IF p <= matched[r] THEN Append(SubSeq(prompt[r], 1, p), None) ELSE Nothing]]
  /\ target = [r \in Row |-> None]
  /\ published = [r \in Row |-> Nothing]
  /\ seed = NoSeed
  /\ gen = Idle
  /\ flight = [op |-> "none"]
  /\ result = NoResult
  /\ device = "ok"
-----------------------------------------------------------------------------
(* The device                                                            *)

\* What a query at position p of row r reads, with its own token.
Context(r, p) == [q \in 1..p |-> Last(kv[r][q])]

\* Contexts of tokens written after the first n positions of row r.
Contexts(r, n, tokens) == [j \in DOMAIN tokens |-> Context(r, n) \o SubSeq(tokens, 1, j)]

\* Row r's KV with contexts after the first n positions.
Written(old, n, contexts) ==
  [p \in DOMAIN old |-> IF p - n \in DOMAIN contexts THEN contexts[p - n] ELSE old[p]]

\* forwardMtp: each position is followed by the next token.
Shifted(contexts, following) == [j \in DOMAIN contexts |-> Append(contexts[j], following[j])]

Selected(contexts) == [j \in DOMAIN contexts |-> Selects(contexts[j])]

\* An error of CUDA: nothing runs any more, and every synchronizeAsync rejects.
LoseDevice ==
  /\ device = "ok"
  /\ device' = "lost"
  /\ UNCHANGED <<sequences, requests, buffers, gen, flight>>

\* Sequence.truncate by one token, of the rows in cut; of those in torn only up to
\* its copy-on-write, for which there was no page.
Rewind(cut, torn) ==
  /\ history' = [r \in Row |-> IF r \in cut THEN Front(history[r]) ELSE history[r]]
  /\ len' = [r \in Row |-> IF r \in cut \cup torn THEN len[r] - 1 ELSE len[r]]
  /\ target' = [r \in Row |-> IF r \in cut \cup torn THEN Last(history[r]) ELSE target[r]]
-----------------------------------------------------------------------------
(* Prefill, which waits for the device                                   *)

\* The token computed again because the MTP layer did not know what follows it.
Overlap(r) == IF todo[r] # Nothing /\ history[r] # Nothing THEN <<Last(history[r])>> ELSE Nothing

\* selectPrefillChunk: tokens taken of each row, in order, from one budget.
Takes ==
  LET takes[r \in Row] ==
        LET used == IF r = 1 THEN 0 ELSE takes[r - 1].used
            room == ChunkSize - used - Len(Overlap(r))
            take == IF room <= 0 THEN 0 ELSE IF Len(todo[r]) < room THEN Len(todo[r]) ELSE room
        IN [take |-> take, used |-> used + (IF take > 0 THEN take + Len(Overlap(r)) ELSE 0)]
  IN [r \in Row |-> takes[r].take]

ChunkOf(r) == IF Takes[r] = 0 THEN Nothing ELSE Overlap(r) \o SubSeq(todo[r], 1, Takes[r])
Rewound(r) == Takes[r] # 0 /\ Overlap(r) # Nothing
ChunkStart(r) == IF Rewound(r) THEN len[r] - 1 ELSE len[r]
ChunkContexts(r) == Contexts(r, ChunkStart(r), ChunkOf(r))

\* A chunk that has run, with the first rows of it reported.  (A phased plan of one
\* row has the effect of one chunk: its first half takes the boundary from the second.)
RunChunk(reported) ==
  LET following(r) == Append(Tail(ChunkOf(r)), 0)
  IN /\ history' = [r \in Row |-> SubSeq(history[r], 1, ChunkStart(r)) \o (IF r <= reported THEN ChunkOf(r) ELSE Nothing)]
     /\ len' = [r \in Row |-> ChunkStart(r) + Len(ChunkOf(r))]
     /\ target' = [r \in Row |-> IF ChunkOf(r) # Nothing /\ r <= reported THEN Selects(Last(ChunkContexts(r)))
                                 ELSE IF Rewound(r) THEN Last(history[r]) ELSE target[r]]
     /\ kv' = [r \in Row |-> Written(kv[r], ChunkStart(r), ChunkContexts(r))]
     /\ mtpKv' = [r \in Row |-> IF ChunkOf(r) = Nothing THEN mtpKv[r]
                                ELSE Written(mtpKv[r], ChunkStart(r), Shifted(ChunkContexts(r), following(r)))]

CanPrefill == gen.phase = "idle" /\ \E r \in Row : todo[r] # Nothing

\* prefill
Prefill ==
  LET done(r) == ChunkOf(r) # Nothing /\ Takes[r] = Len(todo[r])
  IN /\ CanPrefill /\ device = "ok"
     /\ RunChunk(Rows)
     /\ todo' = [r \in Row |-> SubSeq(todo[r], Takes[r] + 1, Len(todo[r]))]
     /\ published' = [r \in Row |-> IF done(r) THEN <<target'[r]>> ELSE published[r]]
     /\ UNCHANGED <<prompt, seed, gen, flight, result, device>>

\* An exception in it: rows before the k-th have been rewound ...
PrefillRewindFails ==
  /\ \E k \in Row, torn \in BOOLEAN :
       Rewind({r \in Row : Rewound(r) /\ r < k}, {r \in Row : Rewound(r) /\ r = k /\ torn})
  /\ UNCHANGED <<kv, mtpKv>>

\* ... or all of them, and some have the positions of the chunk; or it has run.
PrefillPlanFails ==
  /\ \E reserved \in SUBSET {r \in Row : Takes[r] # 0} :
       len' = [r \in Row |-> ChunkStart(r) + (IF r \in reserved THEN Len(ChunkOf(r)) ELSE 0)]
  /\ history' = [r \in Row |-> SubSeq(history[r], 1, ChunkStart(r))]
  /\ target' = [r \in Row |-> IF Rewound(r) THEN Last(history[r]) ELSE target[r]]
  /\ UNCHANGED <<kv, mtpKv>>

\* Nothing is rolled back.
PrefillFails ==
  /\ CanPrefill
  /\ \/ PrefillRewindFails
     \/ PrefillPlanFails
     \/ device = "ok" /\ \E reported \in 0..Rows : RunChunk(reported)
  /\ gen' = [Idle EXCEPT !.phase = "failed"]
  /\ UNCHANGED <<requests, seed, flight, result, device>>

\* A finished row makes room for another request.
Replace(r, input) ==
  /\ gen.phase = "idle"
  /\ todo[r] = Nothing /\ Len(history[r]) + V > MaxLen
  /\ history' = [history EXCEPT ![r] = Nothing]
  /\ len' = [len EXCEPT ![r] = 0]
  /\ target' = [target EXCEPT ![r] = None]
  /\ prompt' = [prompt EXCEPT ![r] = input]
  /\ todo' = [todo EXCEPT ![r] = input]
  /\ published' = [published EXCEPT ![r] = Nothing]
  /\ UNCHANGED <<buffers, gen, flight, device>>
-----------------------------------------------------------------------------
(* The generator                                                         *)

CanStart ==
  /\ gen.phase = "idle"
  /\ \A r \in Row : todo[r] = Nothing /\ history[r] # Nothing /\ len[r] = Len(history[r]) /\ target[r] # None
  /\ \A r \in Row : len[r] + V <= MaxLen

Starting == [Idle EXCEPT !.phase = "starting", !.speculative = TRUE, !.next = target,
                         !.committed = [r \in Row |-> len[r] - 1],
                         !.seedRows = [r \in Row |-> r - 1]]

\* prepareDecodeInput, rewindMtpDecodeInput and the launch of the replay of the
\* last committed token, which gives the MTP layer its true boundary.
Start ==
  /\ CanStart /\ device = "ok"
  /\ history' = [r \in Row |-> Front(history[r])]
  /\ target' = [r \in Row |-> Last(history[r])]
  /\ len' = len
  /\ gen' = Starting
  /\ flight' = [op |-> "replay", input |-> [r \in Row |-> <<Last(history[r])>>]]
  /\ UNCHANGED <<requests, buffers, device>>

\* An exception in rewindMtpDecodeInput, which the try block does not cover.
RewindFails ==
  /\ \E k \in Row, torn \in BOOLEAN : Rewind({r \in Row : r < k}, {r \in Row : r = k /\ torn})
  /\ gen' = [Idle EXCEPT !.phase = "failed"]

\* An exception in the block, with the positions of some rows reserved.
PlanFails ==
  \E speculative \in BOOLEAN, reserved \in SUBSET Row :
    /\ ~speculative => reserved = {}
    /\ history' = [r \in Row |-> Front(history[r])]
    /\ target' = [r \in Row |-> Last(history[r])]
    /\ len' = [r \in Row |-> IF r \in reserved THEN len[r] ELSE len[r] - 1]
    /\ gen' = [Starting EXCEPT !.phase = "closing", !.failed = TRUE, !.speculative = speculative]

StartFails ==
  /\ CanStart
  /\ RewindFails \/ PlanFails
  /\ UNCHANGED <<requests, buffers, flight, device>>

RunReplay ==
  LET contexts == [r \in Row |-> Contexts(r, gen.committed[r], flight.input[r])]
      following(r) == <<gen.next[r]>>
  IN /\ flight.op = "replay" /\ device = "ok"
     /\ kv' = [r \in Row |-> Written(kv[r], gen.committed[r], contexts[r])]
     /\ mtpKv' = [r \in Row |-> Written(mtpKv[r], gen.committed[r], Shifted(contexts[r], following(r)))]
     /\ seed' = [row \in SeedRow |-> IF row + 1 \in Row THEN Shifted(contexts[row + 1], following(row + 1))[1]
                                     ELSE seed[row]]
     /\ flight' = [op |-> "none"]
     /\ UNCHANGED <<sequences, requests, gen, result, device>>

Failing == [gen EXCEPT !.phase = "closing", !.failed = TRUE]

\* reportTokens of the replayed token, row by row, unless an exception ends it.
Started ==
  /\ gen.phase = "starting" /\ flight.op = "none" /\ device = "ok"
  /\ \E reported \in 0..Rows :
       /\ history' = [r \in Row |-> IF r <= reported THEN Append(history[r], target[r]) ELSE history[r]]
       /\ target' = [r \in Row |-> IF r <= reported THEN gen.next[r] ELSE target[r]]
       /\ gen' = IF reported = Rows THEN [gen EXCEPT !.phase = "loop", !.speculative = FALSE, !.committed = len]
                 ELSE Failing
  /\ UNCHANGED <<len, requests, buffers, flight, device>>

\* A step: the drafts, each of which reserves a position, are planned and given
\* back, then the verification is planned over the same positions.
Launch(drafts) ==
  /\ gen.phase = "loop" /\ device = "ok"
  /\ \A r \in Row : len[r] = gen.committed[r] /\ len[r] + V <= MaxLen
  /\ len' = [r \in Row |-> gen.committed[r] + V]
  /\ gen' = [gen EXCEPT !.speculative = TRUE,
                        !.phase = IF gen.pending = Nothing THEN "waiting" ELSE "yielding"]
  /\ flight' = [op |-> "step", input |-> [r \in Row |-> <<gen.next[r]>> \o drafts[r]]]
  /\ UNCHANGED <<history, target, requests, buffers, device>>

RunStep ==
  LET contexts == [r \in Row |-> Contexts(r, gen.committed[r], flight.input[r])]
      following == [r \in Row |-> Selected(contexts[r])]
      shifted == [r \in Row |-> Shifted(contexts[r], following[r])]
  IN /\ flight.op = "step" /\ device = "ok"
     /\ kv' = [r \in Row |-> Written(kv[r], gen.committed[r], contexts[r])]
     /\ mtpKv' = [r \in Row |-> Written(mtpKv[r], gen.committed[r], shifted[r])]
     /\ seed' = [row \in SeedRow |-> shifted[(row \div V) + 1][(row % V) + 1]]
     /\ result' = [r \in Row |-> [input |-> flight.input[r], selected |-> following[r]]]
     /\ flight' = [op |-> "none"]
     /\ UNCHANGED <<sequences, requests, gen, device>>

\* The step before is yielded while this one runs.  The consumer publishes it
\* and goes on, or leaves the loop: a request has ended or another can be admitted.
Yield(goOn) ==
  /\ gen.phase = "yielding"
  /\ published' = [r \in Row |-> published[r] \o gen.pending[r]]
  /\ gen' = [gen EXCEPT !.pending = Nothing, !.phase = IF goOn THEN "waiting" ELSE "closing"]
  /\ UNCHANGED <<sequences, prompt, todo, buffers, flight, device>>

\* Mutant: the comparison is with what was selected at the draft's own position.
AcceptedShifted(input, selected) ==
  CHOOSE n \in 0..NumDrafts :
    /\ \A d \in 1..n : input[d + 1] = selected[d + 1]
    /\ n < NumDrafts => input[n + 2] # selected[n + 2]

\* Drafts the model has selected itself, up to the first it has not.
Accepted(input, selected) ==
  CHOOSE n \in 0..NumDrafts :
    /\ \A d \in 1..n : input[d + 1] = selected[d]
    /\ n < NumDrafts => input[n + 2] # selected[n + 1]

\* nextSeedRows
SeedRowOf(r, accepted) == (r - 1) * V + accepted

\* The verification inputs that become history: not the replacement.
CommittedInputs(r, accepted) == SubSeq(result[r].input, 1, accepted + 1)

\* Mutant: committedLens is set after the cuts, before the reports.
CommittedAtCut(newLen) == newLen

\* committedLens until every row has been cut and reported.
CommittedUntilReported(newLen) == gen.committed

\* The step has run.  The rows are cut to what was accepted, one after the other,
\* and then reported, one after the other, unless an exception ends it.
Complete ==
  LET accepted == [r \in Row |-> Accepted(result[r].input, result[r].selected)]
      replacement == [r \in Row |-> result[r].selected[accepted[r] + 1]]
      newLen == [r \in Row |-> gen.committed[r] + accepted[r] + 1]
  IN /\ gen.phase = "waiting" /\ flight.op = "none" /\ device = "ok"
     /\ \E cut, reported \in 0..Rows :
          /\ reported > 0 => cut = Rows
          /\ len' = [r \in Row |-> IF r <= cut THEN newLen[r] ELSE len[r]]
          /\ history' = [r \in Row |-> IF r <= reported THEN history[r] \o CommittedInputs(r, accepted[r]) ELSE history[r]]
          /\ target' = [r \in Row |-> IF r <= reported THEN replacement[r]
                                      ELSE IF r <= cut /\ newLen[r] < len[r] THEN None ELSE target[r]]
          /\ gen' = IF reported = Rows
                    THEN [gen EXCEPT !.phase = "loop", !.speculative = FALSE, !.committed = newLen,
                                     !.next = replacement,
                                     !.seedRows = [r \in Row |-> SeedRowOf(r, accepted[r])],
                                     !.pending = [r \in Row |-> Append(SubSeq(result[r].input, 2, accepted[r] + 1), replacement[r])]]
                    ELSE [Failing EXCEPT !.committed = CommittedUntilReported(newLen)]
     /\ result' = NoResult       \* read once
     /\ UNCHANGED <<requests, kv, mtpKv, seed, flight, device>>

\* Positions a row may have of a step that is planned: of drafts or of the verification.
Reserved == 0..(NumDrafts - 1) \cup {V}

\* An exception elsewhere: of planning, of the launch, of the consumer, or of
\* the device, whose synchronizeAsync rejects.
Fail ==
  /\ \/ /\ gen.phase \in {"starting", "loop", "yielding"} \cup (IF device = "lost" THEN {"waiting"} ELSE {})
        /\ gen' = Failing
        /\ len' = len
     \/ /\ gen.phase = "loop"
        /\ gen' = [Failing EXCEPT !.speculative = TRUE]
        /\ \E n \in [Row -> Reserved] : len' = [r \in Row |-> gen.committed[r] + n[r]]
  /\ UNCHANGED <<history, target, requests, buffers, flight, device>>

\* Whether the finally block truncates.
Rollback == gen.speculative

\* The finally block, once the device is done: every row goes back to its committed
\* length.  (No other Sequence shares the pages there: truncate copies none.)
Close ==
  LET cut(r) == Rollback /\ gen.committed[r] < Len(history[r])
  IN
  /\ gen.phase = "closing" /\ flight.op = "none" /\ device = "ok"
  /\ len' = [r \in Row |-> IF Rollback THEN gen.committed[r] ELSE len[r]]
  /\ history' = [r \in Row |-> IF cut(r) THEN SubSeq(history[r], 1, gen.committed[r]) ELSE history[r]]
  /\ target' = [r \in Row |-> IF cut(r) THEN history[r][gen.committed[r] + 1] ELSE target[r]]
  /\ gen' = [Idle EXCEPT !.phase = IF gen.failed THEN "rolledBack" ELSE "idle"]
  /\ seed' = NoSeed /\ result' = NoResult       \* the generator's own
  /\ UNCHANGED <<requests, kv, mtpKv, flight, device>>

\* The same when the device is lost: its synchronizeAsync rejects, and nothing is
\* truncated, whether an exception or the consumer has ended the loop.
CloseRejects ==
  /\ gen.phase = "closing" /\ device = "lost"
  /\ gen' = [Idle EXCEPT !.phase = "failed"]
  /\ seed' = NoSeed /\ result' = NoResult
  /\ UNCHANGED <<sequences, requests, kv, mtpKv, flight, device>>

\* run()'s catch block: every request has ended with the error, and no row, prefix
\* or page is kept.  The loop goes on with other requests, or a CUDA error ends it.
Recover(input) ==
  /\ gen.phase \in {"failed", "rolledBack"}
  /\ history' = [r \in Row |-> Nothing]
  /\ len' = [r \in Row |-> 0]
  /\ target' = [r \in Row |-> None]
  /\ prompt' = input
  /\ todo' = input
  /\ published' = [r \in Row |-> Nothing]
  /\ kv' = NoKv /\ mtpKv' = NoKv        \* pages of nobody
  /\ gen' = IF device = "ok" THEN Idle ELSE [Idle EXCEPT !.phase = "over"]
  /\ flight' = [op |-> "none"]
  /\ UNCHANGED <<seed, result, device>>

\* Bound: no step fits any more; the requests end.
Stop ==
  /\ gen.phase = "loop"
  /\ \E r \in Row : len[r] + V > MaxLen
  /\ gen' = [gen EXCEPT !.phase = "closing"]
  /\ published' = [r \in Row |-> published[r] \o gen.pending[r]]
  /\ UNCHANGED <<sequences, prompt, todo, buffers, flight, device>>

Next ==
  \/ LoseDevice
  \/ Prefill
  \/ PrefillFails
  \/ \E r \in Row, input \in Prompt : Replace(r, input)
  \/ Start
  \/ StartFails
  \/ Started
  \/ \E drafts \in [Row -> [1..NumDrafts -> Token]] : Launch(drafts)
  \/ \E goOn \in BOOLEAN : Yield(goOn)
  \/ Complete
  \/ Fail
  \/ Close
  \/ CloseRejects
  \/ \E input \in [Row -> Prompt] : Recover(input)
  \/ Stop
  \/ RunReplay
  \/ RunStep

Spec == Init /\ [][Next]_vars
-----------------------------------------------------------------------------
(* Properties                                                            *)

\* Everything a row holds or will consume next.
Text(r) == IF target[r] = None THEN history[r] ELSE Append(history[r], target[r])

\* Speculation changes nothing: what follows the prompt is, token by token, what
\* the model selects after all before it, whatever was drafted.  (A row whose
\* truncation has failed half-way has no next token to speak of.)
Lossless ==
  \A r \in Row :
    LET text == IF todo[r] = Nothing /\ len[r] >= Len(history[r]) THEN Text(r) ELSE history[r]
    IN \A p \in DOMAIN text :
         text[p] = IF p <= Len(prompt[r]) THEN prompt[r][p] ELSE Selects(SubSeq(text, 1, p - 1))

\* Below the committed length each position of the KV was computed from exactly
\* the history up to it: rejected drafts have left nothing there.
KvIsHistory ==
  \A r \in Row : \A p \in 1..MaxLen :
    (p <= len[r] /\ p <= Len(history[r])) => kv[r][p] = SubSeq(history[r], 1, p)

\* While the generator drafts, the MTP layer has at each committed position the
\* token that did follow, and the carried row is that of the last one.
DraftsConditioned ==
  gen.phase \in {"loop", "yielding", "waiting"} =>
    \A r \in Row :
      /\ flight.op = "step" \/ gen.phase = "loop" => seed[gen.seedRows[r]] = Text(r)
      /\ \A p \in 1..gen.committed[r] : mtpKv[r][p] = SubSeq(Text(r), 1, p + 1)

\* Between batches no row has a position that is not history, and each has every
\* token that was yielded of it and no other, wherever the consumer has left the
\* last generator and whatever has failed in between.  A generator that has failed
\* while the device works has itself given back all that was not committed, also if
\* it was cutting or reporting rows.  (If the device is lost, or what has failed is
\* a prefill or the rewinding, positions stay until run()'s catch drops the rows.)
ClosedClean ==
  /\ gen.phase \in {"idle", "rolledBack"} => \A r \in Row : len[r] = Len(history[r])
  /\ gen.phase = "idle" => \A r \in Row : todo[r] = Nothing => prompt[r] \o published[r] = Text(r)

\* All three: rejected drafts and closed generators leave nothing behind, in the
\* KV, in the MTP layer or with the consumer.
NothingLeftBehind == KvIsHistory /\ DraftsConditioned /\ ClosedClean
=============================================================================
