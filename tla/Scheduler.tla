----------------------------- MODULE Scheduler -----------------------------
(***************************************************************************)
(* GenerationScheduler (src/generation-scheduler.ts): run(), the one task  *)
(* that owns the batch, against its clients: the HTTP handlers that submit *)
(* requests and close them when the client goes away, the administrator's  *)
(* cache flushes, and shutdown.  JavaScript runs each piece of run()       *)
(* between two awaits without interruption, so the others move only while  *)
(* run() is suspended (pc in Suspended).  The device is an outcome: each   *)
(* await on it ends well or throws.  Tokens are counted, not computed, and *)
(* the cache is the order of its rows; PagedKV has the rest of it.         *)
(***************************************************************************)
EXTENDS Integers, Sequences, FiniteSets, SequencesExt

CONSTANTS Request,     \* GenerationRequests, by identity
          GpuFlush,    \* flush_gpu_cache events
          HostFlush,   \* flush_host_cache events
          None,        \* undefined
          MaxBatch,    \* maxBatchSize
          HasHost,     \* TRUE when there is a host tier (--max-host-pages)
          MaxTokens,   \* maxTokens of a request
          MaxChunks,   \* bound: prefill chunks of an uncached suffix
          StepTokens   \* bound: tokens one decode step yields for a row

Flush == GpuFlush \cup HostFlush
Event == Request \cup Flush

ASSUME EventAssumption ==
  /\ IsFiniteSet(Request)
  /\ Request \cap Flush = {}
  /\ GpuFlush \cap HostFlush = {}
  /\ None \notin Event
ASSUME BatchAssumption == MaxBatch \in Nat \ {0}
ASSUME HostAssumption == HasHost \in BOOLEAN
ASSUME BoundAssumption ==
  MaxTokens \in Nat \ {0} /\ MaxChunks \in Nat \ {0} /\ StepTokens \in Nat \ {0}

VARIABLES
  queue, queueEnded,     \* options.requests: what is queued, and end() called
  order,                 \* history: the accepted events in order
  tokens,                \* request.tokens: "open", or ended "done" or with "error"
  produced,              \* generatedTokenCount
  input,                 \* chunks of inputIds still to prefill
  flushes,               \* the promise of a flush: "new", "waiting", "resolved", "rejected"
  pendingFlush,          \* this.pendingFlush
  active,                \* this.active: the batch, in row order
  admitted,              \* this.admitted
  rows,                  \* PagedKVCache.sequences, each by the request it was made for
  saved, staged,         \* admit's saved rows, and their Sequences in cache staging
  running, success,      \* metrics: runningRequests, requestSuccessTotal
  broken,                \* history: planning or the device has thrown
  pc, item, incoming     \* where run() is, and its local variables

queueVars == <<queue, queueEnded, order>>
clientVars == <<tokens, produced, input>>
flushVars == <<flushes, pendingFlush>>
batchVars == <<active, admitted, rows, saved, staged, running, success>>
localVars == <<item, incoming>>
vars == <<queueVars, clientVars, flushVars, batchVars, broken, pc, localVars>>

Ended(r) == tokens[r] # "open"

\* The awaits of run().  At "woken" and "rejected" the awaited dequeue has
\* been settled and the continuation has yet to run.
Suspended == {"idle", "woken", "rejected", "collect", "admit", "admitted", "prefill",
              "prefilled", "decode", "yielded", "close", "drain", "flush",
              "returned", "threw", "stopped"}

\* seq at the indices of S, in their order: first the index with one at or
\* below it, then the one with two.
Rank(i, S) == Cardinality({j \in S : j <= i})
At(seq, S) == [k \in 1..Cardinality(S) |-> seq[CHOOSE i \in S : Rank(i, S) = k]]

Unfinished == {i \in DOMAIN active : ~Ended(active[i])}
-----------------------------------------------------------------------------
(* The other actors                                                      *)

\* createAsyncQueue: refused once ended; a waiting dequeue is handed the event.
Submit(e) ==
  /\ e \notin Range(order)
  /\ ~queueEnded
  /\ order' = Append(order, e)
  /\ IF pc = "idle" THEN pc' = "woken" /\ item' = e /\ UNCHANGED queue
                    ELSE queue' = Append(queue, e) /\ UNCHANGED <<pc, item>>
  /\ UNCHANGED <<queueEnded, incoming>>

\* handleChatCompletions
SubmitRequest(r) ==
  /\ tokens[r] = "open"
  /\ Submit(r)
  /\ UNCHANGED <<clientVars, flushVars, batchVars, broken>>

\* flushGpuCache, flushHostCache
SubmitFlush(f) ==
  /\ Submit(f)
  /\ flushes' = [flushes EXCEPT ![f] = "waiting"]
  /\ UNCHANGED <<clientVars, pendingFlush, batchVars, broken>>

\* The consumer of r is done with it: closed connection or stop sequence.
Disconnect(r) ==
  /\ r \in Range(order)
  /\ tokens[r] = "open"
  /\ tokens' = [tokens EXCEPT ![r] = "done"]
  /\ UNCHANGED <<queueVars, produced, input, flushVars, batchVars, broken, pc, localVars>>

\* Mutant: stop forgets the flush that waits for the batch.
StopKeepsPending ==
  /\ queueEnded' = TRUE
  /\ queue' = <<>>
  /\ tokens' = [r \in Request |-> IF tokens[r] = "open" /\ r \in Range(queue) \cup admitted
                                  THEN "error" ELSE tokens[r]]
  /\ flushes' = [f \in Flush |-> IF flushes[f] = "waiting" /\ f \in Range(queue)
                                 THEN "rejected" ELSE flushes[f]]
  /\ UNCHANGED pendingFlush

\* stop(): what is queued, pending or admitted fails.
Stop ==
  /\ queueEnded' = TRUE
  /\ queue' = <<>>
  /\ tokens' = [r \in Request |-> IF tokens[r] = "open" /\ r \in Range(queue) \cup admitted
                                  THEN "error" ELSE tokens[r]]
  /\ flushes' = [f \in Flush |-> IF flushes[f] = "waiting" /\ f \in Range(queue) \cup {pendingFlush}
                                 THEN "rejected" ELSE flushes[f]]
  /\ pendingFlush' = None

\* Shutdown of the server; a waiting dequeue rejects.
Shutdown ==
  /\ ~queueEnded
  /\ Stop
  /\ pc' = IF pc = "idle" THEN "rejected" ELSE pc
  /\ UNCHANGED <<order, produced, input, batchVars, broken, localVars>>

Environment ==
  /\ pc \in Suspended
  /\ \/ \E r \in Request : SubmitRequest(r) \/ Disconnect(r)
     \/ \E f \in Flush : SubmitFlush(f)
     \/ Shutdown
-----------------------------------------------------------------------------
(* run(): admission                                                      *)

\* removeFinished, with the finish() of each row it takes out of the batch.
RemoveFinished ==
  LET gone == {active[i] : i \in DOMAIN active \ Unfinished} \cap admitted
  IN /\ active' = At(active, Unfinished)
     /\ rows' = At(rows, Unfinished)
     /\ admitted' = admitted \ gone
     /\ running' = running - Cardinality(gone)
     /\ success' = success + Cardinality(gone)
     /\ UNCHANGED <<saved, staged>>

\* The head of the loop: finished rows leave, then one of the next five.
LoopHead ==
  /\ pc = "top"
  /\ RemoveFinished
  /\ UNCHANGED <<queueEnded, order, clientVars, flushVars, broken, incoming>>

ReturnFromRun ==
  /\ LoopHead
  /\ queueEnded
  /\ pc' = "returned"
  /\ UNCHANGED <<queue, item>>

\* Mutant: the flush does not wait for the batch.
BeginFlushEarly ==
  /\ LoopHead
  /\ ~queueEnded
  /\ pendingFlush # None
  /\ pc' = "flush"
  /\ item' = pendingFlush
  /\ UNCHANGED queue

BeginFlush ==
  /\ LoopHead
  /\ ~queueEnded
  /\ Unfinished = {}
  /\ pendingFlush # None
  /\ pc' = "flush"
  /\ item' = pendingFlush
  /\ UNCHANGED queue

Dequeue ==
  /\ LoopHead
  /\ ~queueEnded
  /\ Unfinished = {}
  /\ pendingFlush = None
  /\ IF queue = <<>> THEN pc' = "idle" /\ UNCHANGED <<queue, item>>
                     ELSE pc' = "woken" /\ item' = Head(queue) /\ queue' = Tail(queue)

KeepBatch ==
  /\ LoopHead
  /\ ~queueEnded
  /\ Unfinished # {}
  /\ pc' = "take"
  /\ UNCHANGED <<queue, item>>

\* Mutant: a flush dequeued during shutdown is left pending.
WakeToFlushAlways ==
  /\ pc = "woken"
  /\ item \in Flush
  /\ pendingFlush' = item
  /\ pc' = "top"
  /\ item' = None
  /\ UNCHANGED <<queueVars, clientVars, flushes, batchVars, broken, incoming>>

\* The awaited dequeue gave a flush: it waits in pendingFlush.
WakeToFlush ==
  /\ pc = "woken"
  /\ item \in Flush
  /\ IF queueEnded
     THEN /\ flushes' = [flushes EXCEPT ![item] = "rejected"]
          /\ UNCHANGED pendingFlush
     ELSE pendingFlush' = item /\ UNCHANGED flushes
  /\ pc' = "top"
  /\ item' = None
  /\ UNCHANGED <<queueVars, clientVars, batchVars, broken, incoming>>

\* ... or a request, dropped when its client has gone; then the loop yields.
WakeToRequest ==
  /\ pc = "woken"
  /\ item \in Request
  /\ incoming' = IF Ended(item) THEN <<>> ELSE <<item>>
  /\ pc' = "collect"
  /\ item' = None
  /\ UNCHANGED <<queueVars, clientVars, flushVars, batchVars, broken>>

WakeToShutdown ==
  /\ pc = "rejected"
  /\ pc' = "returned"
  /\ UNCHANGED <<queueVars, clientVars, flushVars, batchVars, broken, localVars>>

Collected ==
  /\ pc = "collect"
  /\ IF queueEnded
     THEN /\ tokens' = [r \in Request |-> IF r \in Range(incoming) /\ ~Ended(r) THEN "error" ELSE tokens[r]]
          /\ incoming' = <<>>
          /\ pc' = "top"
     ELSE pc' = "take" /\ UNCHANGED <<tokens, incoming>>
  /\ UNCHANGED <<queueVars, produced, input, flushVars, batchVars, broken, item>>

Room == Len(active) + Len(incoming) < MaxBatch

\* Mutant: the batch may be overfilled by one.
TakeOneMore ==
  /\ pc = "take"
  /\ pendingFlush = None /\ Len(active) + Len(incoming) <= MaxBatch /\ queue # <<>>
  /\ queue' = Tail(queue)
  /\ IF Head(queue) \in Flush
     THEN pendingFlush' = Head(queue) /\ UNCHANGED incoming
     ELSE /\ incoming' = IF Ended(Head(queue)) THEN incoming ELSE Append(incoming, Head(queue))
          /\ UNCHANGED pendingFlush
  /\ UNCHANGED <<queueEnded, order, clientVars, flushes, batchVars, broken, pc, item>>

\* Mutant: a pending flush does not close admission.
TakeOnePastFlush ==
  /\ pc = "take"
  /\ Room /\ queue # <<>>
  /\ queue' = Tail(queue)
  /\ IF Head(queue) \in Flush
     THEN pendingFlush' = Head(queue) /\ UNCHANGED incoming
     ELSE /\ incoming' = IF Ended(Head(queue)) THEN incoming ELSE Append(incoming, Head(queue))
          /\ UNCHANGED pendingFlush
  /\ UNCHANGED <<queueEnded, order, clientVars, flushes, batchVars, broken, pc, item>>

\* One turn of the take loop: a flush closes admission.
TakeOne ==
  /\ pc = "take"
  /\ pendingFlush = None /\ Room /\ queue # <<>>
  /\ queue' = Tail(queue)
  /\ IF Head(queue) \in Flush
     THEN pendingFlush' = Head(queue) /\ UNCHANGED incoming
     ELSE /\ incoming' = IF Ended(Head(queue)) THEN incoming ELSE Append(incoming, Head(queue))
          /\ UNCHANGED pendingFlush
  /\ UNCHANGED <<queueEnded, order, clientVars, flushes, batchVars, broken, pc, item>>

TakeNone ==
  /\ pc = "take"
  /\ ~(pendingFlush = None /\ Room /\ queue # <<>>)
  /\ incoming = <<>>
  /\ pc' = "prefilling"
  /\ UNCHANGED <<queueVars, clientVars, flushVars, batchVars, broken, localVars>>

\* admit up to the await in prefixMatch: the rows of the batch are staged and
\* the cache is reset to one row per incoming request.
BeginAdmit ==
  /\ pc = "take"
  /\ ~(pendingFlush = None /\ Room /\ queue # <<>>)
  /\ incoming # <<>>
  /\ admitted' = admitted \cup Range(incoming)
  /\ running' = running + Len(incoming)
  /\ saved' = active
  /\ staged' = rows
  /\ active' = <<>>
  /\ rows' = incoming
  /\ pc' = "admit"
  /\ UNCHANGED <<queueVars, clientVars, flushVars, success, broken, localVars>>

\* Mutant: the saved requests go first, their rows last.
FinishAdmitReversed ==
  /\ pc = "admit"
  /\ \E uncached \in [Range(incoming) -> 1..MaxChunks] :
       input' = [r \in Request |-> IF r \in Range(incoming) THEN uncached[r] ELSE input[r]]
  /\ rows' = rows \o staged
  /\ active' = saved \o incoming
  /\ saved' = <<>> /\ staged' = <<>> /\ incoming' = <<>>
  /\ pc' = "admitted"
  /\ UNCHANGED <<queueVars, tokens, produced, flushVars, admitted, running, success, broken, item>>

\* The rest of admit: how much of each prompt was cached is the cache's
\* affair, but a token is always left to prefill.
FinishAdmit ==
  /\ pc = "admit"
  /\ \E uncached \in [Range(incoming) -> 1..MaxChunks] :
       input' = [r \in Request |-> IF r \in Range(incoming) THEN uncached[r] ELSE input[r]]
  /\ rows' = rows \o staged
  /\ active' = incoming \o saved
  /\ saved' = <<>> /\ staged' = <<>> /\ incoming' = <<>>
  /\ pc' = "admitted"
  /\ UNCHANGED <<queueVars, tokens, produced, flushVars, admitted, running, success, broken, item>>
-----------------------------------------------------------------------------
(* run(): prefill and decode                                             *)

\* publish(): gain[r] tokens for each row r of its domain, the last an EOS
\* token for the rows of eos; nothing for a request that has ended.
Publish(gain, eos) ==
  LET takes(r) == r \in DOMAIN gain /\ ~Ended(r)
      total(r) == IF produced[r] + gain[r] < MaxTokens THEN produced[r] + gain[r] ELSE MaxTokens
  IN /\ produced' = [r \in Request |-> IF takes(r) THEN total(r) ELSE produced[r]]
     /\ tokens' = [r \in Request |-> IF takes(r) /\ (r \in eos \/ total(r) = MaxTokens)
                                     THEN "done" ELSE tokens[r]]

Unread == {r \in Range(active) : input[r] > 0}

BeginPrefill ==
  /\ pc \in {"prefilling", "admitted"}
  /\ pc' = IF Unread = {} THEN "prefilled" ELSE "prefill"
  /\ UNCHANGED <<queueVars, clientVars, flushVars, batchVars, broken, localVars>>

\* One chunk, for some of the rows: those it completes get their first token.
FinishPrefill ==
  /\ pc = "prefill"
  /\ \E chunk \in SUBSET Unread \ {{}} :
       LET complete == {r \in chunk : input[r] = 1}
       IN /\ input' = [r \in Request |-> IF r \in chunk THEN input[r] - 1 ELSE input[r]]
          /\ \E eos \in SUBSET complete : Publish([r \in complete |-> 1], eos)
  /\ pc' = "prefilled"
  /\ UNCHANGED <<queueVars, flushVars, batchVars, broken, localVars>>

\* Why the batch has to change before the next decode step.
BatchMustChange ==
  \/ queueEnded
  \/ \E r \in Range(active) : Ended(r)
  \/ pendingFlush = None /\ Len(active) < MaxBatch /\ queue # <<>>

BeginDecode ==
  /\ pc = "prefilled"
  /\ pc' = IF Unread # {} \/ BatchMustChange \/ active = <<>> THEN "top" ELSE "decode"
  /\ UNCHANGED <<queueVars, clientVars, flushVars, batchVars, broken, localVars>>

DecodeStep ==
  /\ pc = "decode"
  /\ \E gain \in [Range(active) -> 1..StepTokens], eos \in SUBSET Range(active) : Publish(gain, eos)
  /\ pc' = "yielded"
  /\ UNCHANGED <<queueVars, input, flushVars, batchVars, broken, localVars>>

\* Leaving the for-await closes the generator, which drains the device.
ContinueDecode ==
  /\ pc = "yielded"
  /\ pc' = IF BatchMustChange THEN "close" ELSE "decode"
  /\ UNCHANGED <<queueVars, clientVars, flushVars, batchVars, broken, localVars>>

CloseGenerator ==
  /\ pc = "close"
  /\ RemoveFinished
  /\ pc' = "top"
  /\ UNCHANGED <<queueVars, clientVars, flushVars, broken, localVars>>
-----------------------------------------------------------------------------
(* run(): errors and flushes                                             *)

\* Planning, admission or the device throws: the catch block drains it.
BatchError ==
  /\ \/ pc \in {"admit", "prefill", "decode", "close"}
     \/ pc \in {"prefilling", "admitted"} /\ Unread # {}
  /\ broken' = TRUE
  /\ pc' = "drain"
  /\ UNCHANGED <<queueVars, clientVars, flushVars, batchVars, localVars>>

\* The rest of the catch block: every admitted request fails and the cache is
\* emptied.  The error that counts is the drain's own when that fails too.
Recover ==
  /\ pc = "drain"
  /\ tokens' = [r \in Request |-> IF r \in admitted /\ ~Ended(r) THEN "error" ELSE tokens[r]]
  /\ running' = running - Cardinality(admitted)
  /\ admitted' = {}
  /\ active' = <<>> /\ rows' = <<>>
  /\ saved' = <<>> /\ staged' = <<>> /\ incoming' = <<>>
  /\ \E isFatal \in BOOLEAN : pc' = IF isFatal THEN "threw" ELSE "top"
  /\ UNCHANGED <<queueVars, produced, input, flushVars, success, broken, item>>

\* Mutant: a flush that is over stays pending.
SettleKeepsPending(f, outcome) ==
  /\ flushes' = [flushes EXCEPT ![f] = IF @ = "waiting" THEN outcome ELSE @]
  /\ UNCHANGED pendingFlush

Settle(f, outcome) ==
  /\ flushes' = [flushes EXCEPT ![f] = IF @ = "waiting" THEN outcome ELSE @]
  /\ pendingFlush' = None

\* The checks at the start of flushGpuCache and flushHostCache.
FlushRefused == IF item \in GpuFlush THEN rows # <<>> \/ staged # <<>> ELSE ~HasHost

FinishFlush ==
  /\ pc = "flush"
  /\ ~FlushRefused
  /\ Settle(item, "resolved")
  /\ pc' = "top"
  /\ item' = None
  /\ UNCHANGED <<queueVars, clientVars, batchVars, broken, incoming>>

\* A flush that throws ends run().
FailFlush ==
  /\ pc = "flush"
  /\ Settle(item, "rejected")
  /\ broken' = (broken \/ ~FlushRefused)
  /\ pc' = "threw"
  /\ item' = None
  /\ UNCHANGED <<queueVars, clientVars, batchVars, incoming>>

\* The server's handler of run()'s rejection.
StopAfterThrow ==
  /\ pc = "threw"
  /\ Stop
  /\ pc' = "stopped"
  /\ UNCHANGED <<order, produced, input, batchVars, broken, localVars>>

\* What run() does by itself: everything but the client's, the administrator's
\* and the operator's moves.
Scheduling ==
  \/ ReturnFromRun \/ BeginFlush \/ Dequeue \/ KeepBatch
  \/ WakeToFlush \/ WakeToRequest \/ WakeToShutdown \/ Collected
  \/ TakeOne \/ TakeNone \/ BeginAdmit \/ FinishAdmit
  \/ BeginPrefill \/ FinishPrefill \/ BeginDecode \/ DecodeStep \/ ContinueDecode
  \/ CloseGenerator \/ BatchError \/ Recover \/ FinishFlush \/ FailFlush \/ StopAfterThrow

Init ==
  /\ queue = <<>> /\ queueEnded = FALSE /\ order = <<>>
  /\ tokens = [r \in Request |-> "open"]
  /\ produced = [r \in Request |-> 0]
  /\ input = [r \in Request |-> 0]
  /\ flushes = [f \in Flush |-> "new"]
  /\ pendingFlush = None
  /\ active = <<>> /\ admitted = {} /\ rows = <<>> /\ saved = <<>> /\ staged = <<>>
  /\ running = 0 /\ success = 0 /\ broken = FALSE
  /\ pc = "top" /\ item = None /\ incoming = <<>>

Next == Environment \/ Scheduling

Spec == Init /\ [][Next]_vars

\* A suspended run() is resumed: timers and setImmediate fire, promises are
\* settled, and the device finishes its work or reports an error.
FairSpec == Spec /\ WF_vars(Scheduling)
-----------------------------------------------------------------------------
(* Properties                                                            *)

\* Types of the state; the gauge of running requests is never negative.
TypeOK ==
  /\ queue \in Seq(Event) /\ queueEnded \in BOOLEAN /\ order \in Seq(Event)
  /\ tokens \in [Request -> {"open", "done", "error"}]
  /\ produced \in [Request -> 0..MaxTokens]
  /\ input \in [Request -> 0..MaxChunks]
  /\ flushes \in [Flush -> {"new", "waiting", "resolved", "rejected"}]
  /\ pendingFlush \in Flush \cup {None}
  /\ active \in Seq(Request) /\ admitted \in SUBSET Request
  /\ rows \in Seq(Request) /\ saved \in Seq(Request) /\ staged \in Seq(Request)
  /\ running \in Nat /\ success \in Nat /\ broken \in BOOLEAN
  /\ pc \in Suspended \cup {"top", "take", "prefilling"}
  /\ item \in Event \cup {None} /\ incoming \in Seq(Request)

\* The i-th request of the batch owns the i-th row of the cache: its tokens
\* are read from, and reported to, the row that was made for it.
RowsMatchBatch ==
  pc \notin {"admit", "drain"} => rows = active /\ saved = <<>> /\ staged = <<>>

\* An admitted request is in the batch until it is finished, so that the loop
\* will end it, and the gauge counts exactly those: as many as fit the device
\* while run() goes on, none once it is over.
BatchAccounted ==
  /\ pc \notin {"admit", "drain"} => Range(active) = admitted /\ IsInjective(active)
  /\ running = Cardinality(admitted)
  /\ running <= MaxBatch
  /\ pc \in {"returned", "stopped"} => running = 0

\* Once run() is over nobody is left waiting: not a request, not a flush.
QuietEnd ==
  pc \in {"returned", "stopped"} =>
    /\ \A r \in Range(order) \cap Request : Ended(r)
    /\ \A f \in Flush : flushes[f] # "waiting"

\* "One lifetime-long scheduler task": run() is ended by shutdown or by an
\* error of the device, and by nothing a client or an administrator can ask.
OnlyDeviceStops == pc \in {"threw", "stopped"} => broken

\* vllm:request_success_total, "successfully completed requests": a request
\* that was ended with an error is not one of them.
SuccessMeansNoError == success <= Cardinality({r \in Request : tokens[r] # "error"})

\* Every accepted request is answered: with its tokens, or with an error.
EveryRequestAnswered == \A r \in Request : r \in Range(order) ~> Ended(r)

\* Every accepted flush is answered, the requests submitted after it notwithstanding.
EveryFlushAnswered ==
  \A f \in Flush : flushes[f] = "waiting" ~> flushes[f] \in {"resolved", "rejected"}

\* The promise about order: each step of the scheduler is one of
\* AdmissionBarrier or changes nothing it can see.
InHand ==
  Range(queue) \cup Range(incoming) \cup (IF pc = "woken" THEN {item} ELSE {})
    \cup ({pendingFlush} \ {None}) \cup admitted

Barrier == INSTANCE AdmissionBarrier
             WITH batch <- admitted, over <- Range(order) \ InHand, closed <- queueEnded

OrderKept == Barrier!AbstractSpec
=============================================================================
