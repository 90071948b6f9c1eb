# slopllm in TLA+

slopllm is a single-process LLM inference server: one Node.js thread schedules the
work, one or more GPUs execute it. This directory holds TLA+ models of the parts
whose correctness is a matter of state and order rather than arithmetic, TLC
configurations that check them on small instances, and TLAPS proofs of what
matters most. Source paths below are relative to the repository root.

## The system

| Component | State it keeps | Operations | Hard because | Correct when |
|---|---|---|---|---|
| Paged KV cache: `src/paged_sequence.ts`, `src/paged_kv.ts` | `Sequence` objects (pages, allocLen, targetToken), `Page` objects (refs, tokenIds), free list, batch rows, staging | reset, stage, unstage, remove, prefix match (share or resume), reserve, report, truncate, copy | pages are shared by reference count; `onPagePressure` may evict staged Sequences in the middle of a method; a method can fail halfway | counts are exact, a free page is held by nobody, a shared page is never written, histories are untouched by other Sequences |
| Generation scheduler: `src/generation-scheduler.ts` `GenerationScheduler` | event queue, batch (`active`), `admitted`, `pendingFlush`, metrics | `run()`, `stop()`, the two flushes | every `await` lets clients, flushes and shutdown in; the device can fail at each; local variables live across awaits | rows stay with their requests, order and flush barriers are kept, everybody is answered, at the end too |
| Prefix tier policy: same file, `PrefixTierPolicy` | `retainedKeys`, staging of the host cache | retain, match over both tiers, restore, offload, evict, flush | copies are asynchronous, pages are reused before they have run | a page restored holds the KV of the prefix it claims |
| HTTP server: `src/openai-server.ts`, `src/chat_model.ts` | per-request token queue, message, stop sequences | chat completion (streamed or not), flush routes, shutdown | the handler is tokens behind the scheduler; clients disconnect; a stop sequence is completed by several tokens | one terminal answer per request, whose reason is that of its text |
| Response parsers: `src/glm-parser.ts`, `src/chat-model-parser.ts` | tokens not yet sent as text, channel, tool call | `onToken`, `finish`, `continueFrom` | characters split over tokens, forgotten tokens, markers in between | the client hears the text as decoded in one piece |
| Heap and workspaces: `src/heap.ts`, `src/workspace.ts`, `src/execution-workspace.ts`, `src/tensor.ts` | free regions, per-stream blocks, tracked tensors | alloc, claim, free, drain at synchronize, export/capture | memory freed on one stream and reused on another | no two live tensors overlap; reuse across streams only after synchronization |
| Graph capture: `src/capture-manager.ts` | `captured` by key: warm-up count, executable, inputs | run (warm up, capture, replay), dispose | failure during capture, nested use, replay with other inputs | a replay happens only with the inputs captured |
| Model loader: `src/run_model_loader.ts` | worker process, lifecycle chain, followers | fork, spawn, stop, restart, shutdown | exit, error and close events in any order, kill timeout | at most one worker on the weights, weights freed after it is gone |
| Peer-to-peer collectives: `csrc/glm_p2p.cu`, `src/parallel_ops.ts` | sequence numbers in peer memory; retained sources; parallelism of every tensor | barrier, all-reduce, all-gather, merges; every tensor operation | 32-bit wrap-around, ranks one phase apart, memory reused by the host while ranks lag; sums counted once per rank | no rank reads a peer's buffer before it is written or after it is reused; split tensors are those of one device |
| Context parallelism: `src/execution-workspace.ts`, `src/parallel_ops.ts`, `csrc/glm_indexer.cu`, `csrc/glm_ops.cu`, `csrc/glm_flash.cu` | tokens of every page dealt out to ranks; plans | append, top-k, gather, attention, copies between tiers | positions, local positions and slots; pages partly filled; queries split too | selection and attention are those of one rank with the whole cache |
| MTP decode: `src/glm51_model.ts` | drafts, reservation, results of the previous step | draft, verify, accept, rewind | host bookkeeping runs a step behind the device | accepted tokens are those plain decoding gives |
| Checkpoints: `src/chat_model.ts`, `src/checkpoint_source.ts`, `src/model_cli.ts` | mapped files, temporaries, named tensors | batches of loads, replay by an executor | native workers enqueue in any order; allocations after a wait | an executor finds every weight where its own allocations say |
| Other models, sampling, numeric kernels, codecs, command line | tensors, files | forward passes, conversions | numeric | out of the reach of a model checker |

The HTTP handlers submit `GenerationRequest`s to the queue; `run()` dequeues them,
asks the tier policy for cached prefixes, which moves pages between the device cache
and the pinned host cache, then prefills and decodes through the model, which
reserves positions in the cache, launches kernels from workspace memory (or replays
a captured graph), and reports tokens back to the cache and to the request's token
queue. The cache calls the tier policy back when pages run out.

## Modules

| Module | Models | Builds on |
|---|---|---|
| `PagedCache` | values and operators of one cache: a record, and for every method an operator from a cache to the caches it can leave | |
| `PagedKV` | one cache as a state machine driven by its callers; `Pressure` says whether `onPagePressure` is installed | `PagedCache` |
| `PagedKV_proofs` | theorems about `PagedKV` | `PagedKV`, TLAPS |
| `AdmissionBarrier` | what the scheduler promises about order | |
| `Scheduler` | `run()` and everybody who can act while it is suspended; implements `AdmissionBarrier` | |
| `Scheduler_proofs` | theorems about `Scheduler` | `Scheduler`, TLAPS |
| `Loader` | the model loader: orders, executor processes and their events, followers, shutdown | |
| `Streams` | device memory over nested CUDA streams: tensors, views, heaps of streams, handles | |
| `Streams_proofs` | theorems about `Streams` | `Streams`, TLAPS |
| `PrefixTier` | `PrefixTierPolicy`: device and host cache with what their pages contain | `PagedCache`, twice |
| `Heap` | free lists: regions, aligned allocation, claims, drains | |
| `Capture` | CUDA graphs: warm-up, recording, replay, and the memory they record | `Heap` |
| `Heap_proofs` | lemmas about the free lists of `Heap` | `Heap`, TLAPS |
| `Capture_proofs` | theorems about `Capture` | `Capture`, `Heap_proofs` |
| `Rendezvous` | what a barrier promises | |
| `P2PBarrier` | the barrier kernel with its counters; implements `Rendezvous` | |
| `Collectives` | collectives of ranks that run in their own time, and the memory they exchange | `Rendezvous` |
| `Peers_proofs` | theorems about `P2PBarrier` and `Collectives` | both, TLAPS |
| `Sharding` | the algebra of split tensors | |
| `ContextParallel` | a paged cache split over ranks: plans, appends, selection, attention, copies | |
| `MtpDecode` | speculative decoding against its consumer | |
| `MtpDecode_proofs` | theorems about `MtpDecode` | `MtpDecode`, TLAPS |
| `WeightLoad` | loading a checkpoint and the replay by an executor | `Heap` |
| `Loader_proofs` | theorems about `Loader` and `WeightLoad` | both, `Heap_proofs` |
| `ChatCompletion` | one chat completion, from tokens to text | |
| `MCPagedKV`, `MCScheduler`, `MCContextParallel` | instances for TLC | one module each |
| `MCHistory`, `MCLoader`, `MCMemory`, `MCAnswers` | instances of several modules: `MtpDecode` and `PrefixTier`; `Loader` and `WeightLoad`; `Streams` and `Capture`; `P2PBarrier`, `Collectives`, `Sharding`, `ContextParallel`, `ChatCompletion` | those |

In the last four `part` is chosen in the initial state and says which machine the behaviour is
of. The machines share no state and none reads another's, so that a behaviour of `part` is
exactly a behaviour of that module; the others hold a fixed value or stay where they start.
A property of such a run names the part it is about; the definition itself is in the module of the part. Those of
`memory` are the definitions of `Streams` and `Capture` themselves, which hold of the other part's initial state too.

### PagedCache and PagedKV

A cache is one record. `pages`, `allocLen` and `target` are the fields of the
`Sequence` objects, indexed by object identity; `refs` and `tokenIds` the fields of
the `Page` objects, indexed by page id; `sequences` is the batch, `staging` the set of
staged Sequences (the keys of the Map only name them), `available` the free list as
a set: which free page an allocation takes is left open, where the code takes the
first. Each JavaScript method runs in one turn, so each is one action:

| Action | Code |
|---|---|
| `Reset_`, `StageSequence`, `UnstageSequence`, `RemoveStagedSequence`, `ClearStaging`, `RemoveRow` | methods of the same names of `PagedKVCache` |
| `PrefixMatch_` | `prefixMatch` / `matchPrefix`, with the three permissions to resume that occur |
| `CopyPrefixFrom` | `copyPrefixFrom`; the other cache is a history and its pending token |
| `CopySequence`, `AllocAppendPages`, `ReportTokens_`, `Truncate` | the methods |
| `RewindReservation` | `allocLen = reportedTokenCount()` in `generateMtpDecode` |

Ties between equally long matches are left open (the code takes the first). A new
`Sequence` that replaces a cleared one keeps its identity in the model. `failed` is
TRUE after `truncate` has thrown halfway: from there only the scheduler's error path
(`ClearStaging`, `Reset_`) goes on. `Reset_` is guarded by what its callers ensure
(`ResetAllowed`): no row that still holds pages is dropped while a staged Sequence is
kept. `ReportTokens_` requires room in the reservation, as its callers reserve first.
What the callback `evictGpuStaged` drops is any set of staged Sequences.

### Scheduler

`pc` is the place where `run()` stands; at the places in `Suspended` it awaits, and
only then can `Environment` act: a request or a flush is submitted, a client closes a
request, the server is shut down. The queue of `@scrypted/deferred` is modelled by
what the scheduler relies on: `submit` is refused after `end`, a waiting `dequeue` is
handed the event at once (`woken`), `end` rejects a waiting `dequeue` (`rejected`).
`rows` is the cache reduced to which request each row was made for. Each await on
the device ends well or throws (`BatchError`); whether an error is fatal is open.
Tokens are counted; prompts are numbers of chunks left to prefill, chosen at
admission because the cached part is not the scheduler's business, but at least one
(`MatchSound` of `PagedKV` is what justifies this). `order`, `broken` are history
variables.

| Actions | Code |
|---|---|
| `SubmitRequest`, `Disconnect` | `handleChatCompletions` |
| `SubmitFlush`, `BeginFlush`, `FinishFlush`, `FailFlush` | `flushGpuCache`, `flushHostCache`, head of the loop |
| `Shutdown`, `StopAfterThrow` | `stop()` from the signal handler, and from the handler of `run()`'s rejection |
| `Dequeue`, `WakeTo...`, `Collected`, `TakeOne`, `TakeNone` | admission in `run()` |
| `BeginAdmit`, `FinishAdmit` | `admit` before and after its await |
| `BeginPrefill`, `FinishPrefill`, `BeginDecode`, `DecodeStep`, `ContinueDecode`, `CloseGenerator` | the rest of the loop |
| `BatchError`, `Recover` | the catch block, before and after the drain |

### Loader

`chain` is `lifecycle`: the orders not finished, of which the first is executed (`step`
says whether it has begun, awaits `stopWorker`, or goes on after it). A process is the
number of its `ChildProcess` object; `os` and `helpers` are what the operating system knows of
it, `seen` the events its object has emitted. `Turn` is what Node guarantees of a turn of the event loop: settled
promises come first, and the first event of a new process ("spawn", or "error" when it could not be
made) before anything else. "close" follows "exit" or "error" once both
outputs have ended, which descendants of a spawned executor can hold back. A body is nothing,
or something that the parser turns into any command of the right mode or rejects.

| Actions | Code |
|---|---|
| `Request`, `BeginStart`, `BeginStop`, `BeginRestart`, `AfterStop` | the routes and `serializeLifecycle`, `startWorker` (`Launch`), `stopWorker` |
| `Shutdown`, `Free` | `shutdown`, before the chain and after `server.close` |
| `FirstTick`, `Exited`, `OutputEnded`, `Immediate`, `Closed` | listeners of the process and of its output, `finishOutput` |
| `KillTimeout`, `Die`, `Exit`, `HelpersExit` | the timer of `stopWorker`; the process itself |
| `Follow`, `Leave` | `GET /follow` |

### Streams

The host only enqueues: `after[t][i]` is the set of streams whose next operation comes
after the last use of tensor `t` on stream `i`, which is all that events and waits
change. `home` of a block is the heap its memory is in (that of a stream, or
the synchronized one), or `"held"`; a tensor is a root or a view of one, its disposal is
done, or pending in the stream that asked for it. `joined`, `pending` and `workspaces` are `streamResources`.

| Actions | Code |
|---|---|
| `Alloc`, `View`, `Dispose` | `WorkspaceBase._alloc`, `Tensor.reshape`, `GlmTensor[Symbol.dispose]` |
| `BeginStream`, `EndStream`, `FailStream` | `GlmOps.withStream` with a callback that returns or throws |
| `StreamWaitEvent`, `DisposeHandle` | the methods of its result |
| `Synchronize` | `synchronize`, `completeDeviceSynchronization` |
| `Use` | a kernel on the current stream |

What the callers owe is in the guards: a tensor object is disposed of on a stream that comes
after the uses made through that object, it is used on streams that come after its allocation, and
a synchronization, whose cleanup is for the whole device (a comment in the code says
this is intended), is called where the current stream comes after whatever has been disposed of.

### PrefixTier

`tiers.gpu` and `tiers.host` are caches of `PagedCache`; `gpuKV` and `hostKV` say which history's KV
is in each page. Everything the device does to pages is enqueued on one stream and the host reads none of
them, so that content changes when the operation is enqueued: what can go wrong is the order of enqueuing, which is
the order of the code. Ties in what to evict are left open. The recursions of the callbacks are
operators from the tiers to the tiers they can leave.

| Actions | Code |
|---|---|
| `Admit` | `admit` with `PrefixTierPolicy.prefixMatch`: staging of the host rows, matches on both tiers, restores, during which either tier may evict |
| `PrefillChunk`, `DecodeToken` | a chunk of `executePrefill`, a step of `generateDecode`: reserve (`Reserve`, with `EvictGpuStaged`, `Offload`, `EvictHostStaged`), compute, report |
| `Finish`, `BatchError` | `removeFinished` with `retainSequence`; the catch block with `clear` |
| `FlushGpuCache`, `FlushHostCache` | the methods |

### Heap and Capture

`Heap` has the operators of a free list on sequences of regions: `Manage` (a range comes back), `Found` (first fit, from either end), `Without` (a claim), `DrainTo`. `Capture`
runs programs that allocate and free in a fixed order: under a new key eagerly, for `WarmupSteps` runs, then
recorded, then replayed, at addresses recorded and with no allocation; between runs others acquire and dispose of
memory of the same workspace. `run` is the run in progress, `captured` the manager's map, `caller` where generator and scheduler are
with respect to the `assertClear` and `clearTracking` that precede every run with a key (`chat_model.ts:412`, `glm51_model.ts:1239`, `:1300`).

A replay that does not pass its check throws when its inputs are staged already (`capture-manager.ts:156`, `:164`). They stay so: a
staged tensor is not tracked, so that the check of a later replay would not see it, and it cannot be disposed of (`tensor.ts:273`).
`staged` has these inputs. What keeps a later replay from writing over one is elsewhere: the exception reaches `run()`'s catch block, whose
`clearTracking` finds the staged tensor and throws (`workspace.ts:65`), so that `run()` rejects and the process ends (`Recover`, `caller = "over"`). `ReplaySafe`
fails if that guard is replaced by TRUE, which TLC has found once, 29 steps deep. The mismatch of `:159` is not reached: the key holds shapes, types and addresses of the inputs.

| Actions | Code |
|---|---|
| `Replay`, `Refuse` | `run` on a captured key: nothing but the inputs is in use, and `Tensor.uncapture` claims the results; or it throws, with the inputs staged |
| `Begin`, `RunAlloc`, `RunFree`, `Finish` | `run` otherwise: beginning, the function's own allocations, the end |
| `Fail`, `FailLaunch` | an exception of the function or of `graphInstantiate`, which leaves no graph; of the first `graphLaunch`, which leaves one |
| `Acquire`, `EnsureAlloc`, `Release`, `SynchronizeAll` | other users of the workspace |
| `Clear`, `Throw`, `Recover` | `assertClear` and `clearTracking` before a run; an exception that changes nothing here; `run()`'s catch block, which rethrows what it finds staged |

### Rendezvous, P2PBarrier, Collectives

`P2PBarrier` counts modulo `2 * Half`: `Arrive` is the kernel up to its stores, `Deliver` the moment one
becomes visible at a peer, `Leave` its end of spinning. It implements `Rendezvous`, which
`Collectives` uses in place of it. There one host enqueues (`Operation`, `Control`), and every stream of
every rank runs the head of its queue (`Run`); a push writes the slot of its rank in the peers' block,
a pull reads the peers'. `heap`, `back`, `sources`, `pending`, `dropped` are what the host knows of
memory. `NoRace` asks about whatever can run at the same moment.

The discipline of callers is in `Usable` and `Writable`: a tensor whose memory a group retains, or has released on a stream
that the current one has not joined, is only read or disposed of. An earlier form asked only for the former and hid what it left out
behind a bound on how far the host runs ahead; the proof found it: the view of a tensor that peers pull from on the side
stream is released by that stream's next barrier, and an update on the main stream before the join would then race with the pull. No
caller in the code does this. `Slack` bounds the host for TLC only, and no proof uses it.

| Actions | Code |
|---|---|
| `AllReduce`, `AllGather`, `AllGatherInto`, `AllGatherOnStream`, `MergePush`, `MergePull` | the collectives of `ParallelTensor` and `ParallelOps`, on the current stream or on one of their own |
| `Compute`, `Update`, `Input`, `Dispose` | operations without communication, tensors and views of them |
| `BeginStream`, `EndStream`, `JoinStream`, `Synchronize` | `withStream` and its handle, `synchronize` |

### Sharding

A tensor is its shards and its parallelism, beside it `ref`, what one device has. Numbers are modulo a
prime and kernels mix all they read. Each action applies one operation of `ParallelTensor` to two
tensors, in place where the code reduces in place: `Move` (replicate, narrow, slice, reshape),
`DoLinear`, `DoGroupedLinear`, `DoAdd`, `DoMul`, `DoSiluAndMul`, `DoNorm`, `DoNormHeads`, `DoFusedAddRmsnorm`,
`DoEmbedding`, `DoCat`, `DoCut`, `DoIndexSelect`, `DoRotate`, `DoExperts`, `DoFill`.

### ContextParallel

A token is a number, its score. `gpu[r][slot]` is what rank r has in a slot of its physical
pages. A forward pass goes through the stages `Forward` (reserve, plan), `Gather`, `AppendCache`, `Score`, `Index` (merged,
merged by owner, and with queries split), `MapSlots`, `Attend`; between passes `Offload`, `Restore`, `Share` and `Clear` move pages
between Sequences and tiers, in runs divided as `memcpyBatchAsync` does. Attention gives all selected tokens the same weight, as
an exact fraction, so that a token lost, doubled or merged with the wrong sum shows.

### MtpDecode

A context is the sequence of tokens something was computed from; the model is the function `Selects` from
contexts to tokens, drafts are any tokens. `Prefill` and `Replace` are what the scheduler does between generators;
`Start`, `Started`, `Launch`, `Yield`, `Complete`, `Fail`, `Close` are the generator at its awaits and yields;
`RunReplay`, `RunStep` are the device, a step behind. `Yield` lets the consumer go on or close. `Stop` bounds the
length: when no step fits the requests end and the last result is published.

Exceptions are where the code has them. `Complete` cuts the rows one after the other and then reports them one after the other (`glm51_model.ts:1442-1453`),
and may end after any of these with an exception; so may the reports of `Started`, the rewinding of rows in `RewindFails`, whose last one may be cut only up to its
copy-on-write (`paged_sequence.ts:108`), planning (`PlanFails`, `PrefillPlanFails`, `Fail`) and a prefill (`PrefillFails`). The generator's finally block
waits for the device first (`:1462`): `Close` is the block when it can, `CloseRejects` when a CUDA error (`LoseDevice`, sticky) rejects that wait
and the truncation is skipped. So what holds of a failed generator is limited: it has given back all it had not committed if the device works and the exception
came from inside its try block (`rolledBack`). Otherwise positions stay (`failed`), and `Recover`, `run()`'s catch block, drops the rows, the prefixes and
the pages before the next batch; after a CUDA error there is none (`over`). That between batches no row has a position
too many therefore depends on both, and `ClosedClean` says both.

### WeightLoad

`StartTensor` starts the tensors of a batch in order, allocating what each allocates before its first wait; `Enqueue` is a
native worker, in any order; `DeviceStep` runs what it has enqueued; `Resume` is the rest of `loadMlaWeight`, which allocates `v_proj`;
`EndBatch`, `Drain` wait for all and free the temporaries. `StartExecutor` and `Judge` are the executor's replay, whose copies are skipped,
and the comparison of layouts. Every address has a content, so that a temporary freed too early or a replay that allocates in
another order shows. Memory can run out: the tensor that finds none fails, the others of its batch are waited for, and the
process gives up. `Another` is one allocation of several in a row, `AllocatedAll` the row.

### ChatCompletion

The scheduler side (`Publish`, `Fail`) and the handler (`Submit`, `TakeToken`, `EndOfTokens`, `FinishResponse`) meet in the token queue;
`Disconnect` and `CloseEvent` are the client. The alphabet has a character of two tokens, a byte order mark, a replacement
character, ordinary characters and the control tokens. The decoder is exact on it: what it keeps, how a character begun is held back, and what
it forgets. A step of several accepted drafts is several `Publish` in a row, between which the handler may or may not run. Tool
arguments that cannot be parsed are calls without a name.

## Checked with TLC

| Run | Instance | Shows |
|---|---|---|
| `cache_pressure` | 3 pages of 2 tokens, 3 Sequences, 2 rows, length up to 3, with the pressure callback | `RefsExact`, `LayoutSound` (only full pages are shared, and pages are filled in order), `OthersKeepHistory`, `LostOnlyByEviction` |
| `cache_shared` | 4 pages, 2 Sequences, length up to 4, two whole pages shared at once | `SharingIsPrefix`, `MatchSound` |
| `page_lost` | as `cache_pressure` | a violation of `NoPageLost` (below) |
| `scheduler` | 3 requests, a device and a host flush, batch of 2, 2 tokens, 2 chunks | `RowsMatchBatch`, `BatchAccounted`, `QuietEnd`, `OnlyDeviceStops`; `OrderKept`: every step implements `AdmissionBarrier` |
| `scheduler_live` | 2 requests, 2 flushes, batch of 2, no host tier | `EveryRequestAnswered`, `EveryFlushAnswered` |
| `success_metric` | 2 requests | a violation of `SuccessMeansNoError` (below) |
| `flush_without_host` | no host tier | a violation of `OnlyDeviceStops` (below) |
| `loader` | `Loader`: 2 commands to fork, 1 to spawn, 2 orders, a signal, 1 follower, 3 executors. `WeightLoad`: four checkpoints of 1 or 2 batches of at most 4 tensors, of all kinds, in 26 addresses | `OneExecutor`, `WeightsOutliveExecutor`, `StopMeansGone`, `NoFollowerCutShort`, `EveryOrderAnswered`, `ShutdownFrees` (with its followers released); `JudgedRightly` (`ExecutorHasWeights`, `RefusedOnlyForLate`), `MappedWhileCopied` |
| `history` | `MtpDecode`: 2 rows, prompts of 1 and 2 tokens, 2 drafts, length up to 5; any drafts, exceptions at any point, a device that may be lost. `PrefixTier`: a prompt of 3 tokens and one of 5 that continues it, 3 device pages, 2 host pages of 2 tokens, batch of 2 | `Lossless`, `NothingLeftBehind` (`KvIsHistory`, `DraftsConditioned`, `ClosedClean`); `KVSound`, `BooksKept`; `AdmissionReusesBest` |
| `memory` | `Streams`: 2 streams beside the main one, nested up to two deep, 1 block, 3 tensors. `Capture`: a decode and a draft program, one warm-up, 2 length buckets, 6 addresses, 3 keys | `Accounted`, `SafeReuse`; `HeapsExact`, `ReplaySafe`, `GraphsFit` |
| `answers` | `P2PBarrier`: 3 ranks, counters of 8 values. `Collectives`: 2 ranks, 3 blocks, 2 streams, the host at most an operation ahead (`Slack`) of any stream. `Sharding`: 2 ranks, 4 by 4, any 2 operations. `ContextParallel`: 2 ranks, 3 pages of 4 tokens, 2 rows of up to 7, top 2. `ChatCompletion`: 3 tokens of six texts and the control tokens, 2 stop sequences, answers from scratch and continued | `Fences`, `SomebodyRuns`, `NoRace`, `ShardsAgree`, `TokensInPlace`, `SelectionIsBest`, `AttentionIsWhole`, `TextWhole`, `EndsRightly` |
| `empty_row` | `ContextParallel` with 3 rows | a violation of `GatheredInOrder` (below) |

Why these bounds: three pages of two tokens and three Sequences are the least with
which a page is shared, a third Sequence competes for the last free page, and a
boundary page is cut in its middle; two rows and three Sequences give every mix of
row and staged holders. A batch of two with three requests has the batch full, partly
full and one request waiting; one flush of each kind lets a flush wait behind
another. Two chunks and two tokens are the least at which a request is prefilled in
several turns and decoded for several steps. Two orders beside the initial executor and the signal
let one be queued behind another and behind the shutdown, and give three executors, so that an
old one's events meet a newer one's; two fork commands tell a replaced command from the running one.
Two `kv_b_proj` in one batch are the least that can be served in either order, so that a replay may be refused; 26 addresses hold
three of the checkpoints and not the fourth, whose last `v_proj` finds no memory. Two nested streams have a join that
is not into the main stream; three tensors are a root with two views disposed of on different
streams, or three owners of one block after another.
A decode is one allocation there, a draft has scratch space that is free again when its result is returned. One tensor a caller has acquired beside the result of a run is enough for a replay to be refused with its input staged, and two rows for an exception after the first has been cut or reported.
In `history` the longer prompt fills the device, so that every admission beside a retained row evicts to a host that is itself
too small for both histories; an offload there finds no room, or takes that of a row matched by another. In `memory` six
addresses do not hold two runs and what others have acquired, so that a replay meets memory in use (an
arena of 7 and buckets of 1 and 3 have been checked once too). Three ranks are the least with which
a rank is ahead of one and behind another, and counters of eight values the least the theorem allows. Two operations are the least with
which an operation meets a form only another leaves, and reductions in place alias. Seven
tokens on two ranks with pages of four have every remainder of ranks and pages and a second page, filled in part; lengths of eight, a full second page, have been checked
once too. Two drafts are accepted none, one or both; length five is two steps after a prefill. Three tokens hold a character of two with
one before or behind it, a stop sequence, and an EOS or marker; four tokens over five texts have been checked once too.

TLC's deadlock check is off because
these systems may stop: `run()` returns, the process exits, the weights are freed, a program or a completion ends, and a cache whose pages
and permitted inputs are used up has nothing to do. That ranks never wait for each other for good is `SomebodyRuns`.

Fairness of `Scheduler` is `WF_vars(Scheduling)` only: a suspended `run()` is resumed. The code
justifies it: its awaits are timers, `setImmediate`, settled promises, and
`synchronizeAsync`, which completes or rejects. A step of `Scheduling` is not enabled
while `run()` waits for an event in an empty queue. Clients, administrators and
shutdown are not assumed to do anything, and within `Scheduling` nothing assumes that
the device succeeds rather than fails.

Fairness of `Loader` is `WF_vars(Progress)`, in `loader` for the behaviours of that part: promises are settled, timers fire, Node delivers
the events of a process that has ended, and SIGKILL ends a process (of a spawned executor the
whole group). Nothing is assumed of an executor that has not been killed, of its
descendants, of clients or administrators, nor of the output streams of a process that could not be made.
`ShutdownFrees` has the exception the code has: `server.close` waits for open responses, so
a follower of the console that follows no executor keeps the weights until its client leaves.

### What the code does not keep

- **A page lost in truncate** (`page_lost`). `Sequence.truncate` decides to copy the
  boundary page because `page.refs > 1`, then makes room with
  `ensureAvailablePages(1)`; the callback can evict the staged Sequence that shared
  the page. The page's count then goes from 1 to 0 by `page.refs--` without its return to
  the free list, and it stays lost until the next `reset`.
- **Success counter** (`success_metric`). `finish()` counts every row it takes out, also
  one whose request `stop()` ended with an error; the exported metric says
  "successfully completed requests".
- **Host flush without a host tier** (`flush_without_host`). The check in
  `PrefixTierPolicy.flushHostCache` throws inside `run()`, which rethrows, ends, and
  takes the server down with it.
- **A row without pages in a gathered batch** (`empty_row`). `gather_pages_kernel`
  (`csrc/glm_ops.cu:1668`) adds `(ps - 1) * page_size + min(last_page_len, page_size)` for every
  row before its own. For a row without pages that is `-page_size`, so that the rows behind it are gathered
  a page early, over those before it. Such a row is a request that `selectPrefillChunk` gave
  no tokens because those before it used up the chunk, with continued rows saved behind it.
  It takes three rows; `answers` has two.

Other places where the code is more delicate than it looks, met while modelling and
excluded by guards that say so:

- `ChatCompletion`: streamed text includes the stop sequence that the other answer is cut at, and
  the first stop of the list is cut, not the earliest in the text. After a stop `finish()` may append
  held fragments, or the raw text of an unfinished tool call, that no stop is looked for in.
  `continueFrom` with a finished tool call in its prefix leaves a hole in `toolCalls`.
- `Sharding`: `add` of a sum and a row or column tensor adds the gathered one on every rank;
  products of two sums, `layernorm` of a sum, `rowNormalize` of a row tensor, `reshape` of a column tensor per
  head, `gateSigmoidMul` of a row tensor with a replicated gate and `bmm` of two row tensors are not what one device
  would compute; `siluAndMul` of a row and a replicated tensor disposes of its caller's operand; an
  `allReduce` in place through one of several views leaves the others with partial sums. No model does any of these.
- `WeightLoad`: in `loadMlaWeight` and `mmapLoad` a `Promise.all` that rejects would not wait for the others.
  Native workers do not reject, so the failed tensor of the model is one refused before it starts.

## Proved with TLAPS

For every value of the constants:

- `PagedKV_proofs`: `Consistency` is `Spec => []Inv`. `RefsExact` by itself is not
  inductive: `truncate` pops pages, `clear` subtracts references, and both need to know
  that a Sequence holds a page at most once, that unreachable Sequences hold
  nothing, and that the free list has only pages without references. `Inv` is the
  conjunction: types, one home per Sequence, `Owned` (each Sequence's pages are
  distinct, the counts are exact over all Sequences, free pages have none), the
  reservation within the pages, nothing held outside the cache. `Owned` is stated for
  bare functions, so one lemma per way of dealing out pages (push, pop, clear, reset,
  copy-on-write) serves all operations. `TypeCorrectness`, `OneHomeHolds`, `RefsExactHolds` and
  `FreePagesUnheldHolds` follow.
- `PagedKV_proofs`, the layout: `LayoutInv`, from the references and free pages of `Inv`. What sharing
  relies on is not a property of one Sequence: `Shape` says that a page two Sequences hold has the same index in both,
  with the same pages before it, and is full. It is kept because only the last page of a Sequence that holds tokens is ever written
  (`Settled`), and one that is not full belongs to nobody else. After an operation was aborted one row of it is not settled (its pages
  hold a step it never reported), and `LayoutInv` says no more of that row. A page's tokens are related to a history by
  position, not by a recursive function: `FlattenIs` and `MatchIs` say what the two recursive functions of
  the model compute, and are proved by least counterexample. `LayoutSoundHolds`, `SharingIsPrefixHolds`, `OthersKeepHistoryHolds`,
  `MatchSoundHolds` and `LostOnlyByEvictionHolds` follow; `OthersKeepHistory` and `LostOnlyByEviction` are action properties.
- `Scheduler_proofs`: `SchedulerInvariant` is `Spec => []IInv`. `IInv` adds to
  the checked properties where each event can be: `RowsFollow` relates batch, rows, saved and
  staged rows at every place of `run()`, `OnePlace` says an accepted event is in at
  most one of queue, hand, incoming, batch, pending; `BatchHeld` and `BatchFits` account for
  the batch at the places in the middle of `admit` too; `Answerable` says who is
  unanswered is where `stop()` or the catch block will find it; `DeviceOnly` why a
  flush cannot be refused. From it: `SchedulerTypeCorrect`, `RowsAlwaysMatch`,
  `BatchAlwaysAccounted`, `NobodyLeftWaiting`, and, assuming a host tier,
  `HostServerStoppedByDeviceOnly`.
  `OrderAlwaysKept` is `Spec => OrderKept`: the scheduler implements `AdmissionBarrier`. The queue of the
  abstract specification is what is left of the submissions (`QueueIsRest`), which needs the places of `IInv`, as an
  event in hand is neither in the queue nor admitted.
- `Loader_proofs`: `LoaderInvariant` is `Spec => []IInv`. `OneExecutor` alone is not
  inductive: a start relies on `worker` being null, so `Processes` says that a process that is
  not the worker has gone, with its descendants, and that its output has ended; `WorkerPlace` that `worker` stays
  null between the end of `stopWorker` and the order awaiting it, and for good after
  the answer to the signal; `ChainOrdered` that the order of the signal is queued only after
  `shuttingDown` is set. It gives `LoaderTypeCorrect`, `OneExecutorHolds`, `WeightsOutlive`,
  `CommandAlwaysWorkers` and the action properties `StopAlwaysMeansGone`, `FollowersNeverCutShort`.

- `Peers_proofs`, `P2PBarrier`: `BarrierInvariant` is `Spec => []IInv`, for any set of ranks and any width of the
  counters whose half is more than 3. Counters wrap, so the invariant is about the history variable `lead`, by how many
  rounds a rank has entered more than another: at most one, and none while the other is outside (`LeadIsOne`); stores posted and not yet visible are at most as many
  as rounds between two visits (`PostedIsLead`); and what a rank sees of another's flag is
  its own count, plus the lead, less what is posted, in the arithmetic of the counters (`FlagsTell`). Three is then the largest distance
  between a flag and the count it is compared with, which is why the comparison of signs is right.
  `BarrierFences` is `Spec => Fences`: every step is a step of `Rendezvous` or a stutter. `BarrierReleases` is the other half (`ReleasedLeaves`):
  a rank whose round all have entered and which has seen their stores finds no flag behind, so that nobody spins for good.
- `Peers_proofs`, `Collectives`: `CollectivesHold` is `CollectivesSpec => []CollectivesInv`, for any set of ranks, any
  blocks, and a host that is any number of operations ahead. What is queued has an order of its own, before any of it runs:
  a `Cut` says how much of each stream is left, a `Closed` one has run what barriers and waits ask for, and one operation is `After` another
  if every closed cut agrees. The invariant has four parts. `Ordered`: of two queued operations of any ranks and streams that clash on a block, one is after the other.
  `Sound`: the books of the host account for every use that is still queued. Memory that is free in a heap has no uses but those the
  heap's stream is behind on all ranks (or, for a group's heap, whose next barrier will fence), scratch is used on its group's stream only, a tensor that
  peers pull from is retained, or dropped but pending, by the stream that does. `HostOK`: how far the current stream has joined the other.
  `Lines`: ranks queue the same, stand at their barriers as `Rendezvous` says, and queued operations have ages that
  barriers share and waits respect, so that the oldest one can run. Each operation of the host is proved as a chain of single steps (take a block, queue
  a push, a pull, a kernel or a barrier, retain), one lemma per step (`StepPush`, `StepBarrier`, `StepTaken`, ...). `NoRaceHolds` follows because two operations that
  are both ready are not ordered (the present is a closed cut), `SomebodyRunsHolds` from the least age. `BlocksAccountedHolds` adds `MemoryAccounted` to the invariant.

- `Streams_proofs`: `StreamsInvariant` is `Spec => []IInv`, with any number of streams, alternate workspaces, blocks and tensors.
  The order of the device is in the model: for each tensor and each stream it was used on, the streams whose next operation comes
  after that use. `SafeReuse` then says that whoever allocates a block is behind every use of it. The invariant must hold in the middle of an
  operation, because a disposal or a join first queues tensors on one stream and then reconciles it, which may dispose of
  others in turn; so it is a formula `Sound` about given books and a given order, less the streams `X` still
  to be reconciled. Its parts: memory is held exactly while a tensor in use stands for it (`Held`), a tensor waits on one stream
  (`Queued`) and only for a reason (`Settled`), that stream is behind all uses of it and of its disposed views (`Ordered`), and free memory is
  on a stream, or below one, that is behind all uses (`Reusable`, with `HeapsKnown` for the heaps). `AccountedHolds` and `SafeReuseHolds` follow.

- `MtpDecode_proofs`: `MtpInvariant` is `Spec => []IInv`, for any rows, drafts, chunk size, prompts and model. None of the checked
  properties is inductive: each says what is true of the host's history, and the generator commits only what the device has
  computed, often a step ago. `IInv` says for each phase what a row looks like. While a generator works, `BusyRow`: the text is `Right`, as long as the
  committed length, the KV below it is of the text (`KvOf`) and the MTP layer is one token ahead (`MtpOf`). Then `StartingRow` has the token
  taken back for the replay, `LoopRow` the carry row, `StepRow` what the step on its way will write or, if it has run (`Ran`), that
  every selected token follows from the history and the inputs before it, drafts that will be rejected included; `ClosingRow`, that
  whoever closes the generator knows what to give back; `PartRow`, a row that an exception has left cut or reported or neither, whose committed length is still that
  from before the step; `SoundRow`, all that holds when a truncation, a prefill or the device has failed: what the history has is right; `IdleRow`, a row of nobody, prefilled in part. `CommittedRow` is the heart of it: as `Accepted` drafts are what the model
  selected, what was computed after them is what would have been without drafts. The budget of a chunk (`Takes`, recursive over rows) is bounded by least
  counterexample. `TextIsTheModels` (`Lossless`), `KvHoldsHistory`, `DraftsAreConditioned` and `ClosedIsClean` follow, and the last
  three as `NothingIsLeftBehind`. `ClosedIsClean` is about generators whose finally block got past the device, and about the time between batches.

- `Loader_proofs`, `WeightLoad`: `LoadInvariant` is `LoadSpec => []LoadIInv`, for any checkpoint, any arena and any alignment. `ExecutorHasWeights` speaks of
  the end of two processes; what holds in between is that every address has an owner (`Owned`: free memory, a weight, a raw copy, the planes of a
  tensor, each where the books have it, temporaries apart from one another until they are returned), and that what is enqueued
  leads somewhere (`Leads`: the memory the stream ends in, computed operation by operation). For the loader that is every weight in its place, unless its copy is
  still with a worker or its planes are still to be decoded (`Delivered`); for an executor the loader's weights, except where it has taken memory that does not stay
  (`Kept`), and when it is admitted no name is there. A step of a tensor keeps this because an operation writes what the tensor owns and reads what
  is there by then. `ExecutorHasWeightsHolds` and `MappedWhileCopiedHolds` follow.
  Why an executor may be refused needs another argument, about two behaviours: `Spot` is what the next allocation depends on, `Onward` the
  function from a spot to the next, and if at most one tensor of each batch allocates after waiting, every step of either process goes along the path of
  that function or stays on it (`SpotNext`). Its end is unique (`ReachedOnce`), so both processes end with the same layout. `RefusedOnlyForLate` is the
  contrapositive, and `JudgedRightlyHolds` has both halves.
- `Capture_proofs`: `CaptureInvariant` is `CaptureSpec => []CaptureInv`, for any programs, lengths, arena, alignment and number of warm-ups.
  `MemoryInv` is about the free lists as they are: in order, with gaps between regions, and with the ranges in use sharing out the arena (`Books`). For each
  operator of `Heap` a lemma of `Heap_proofs` says which addresses a list has afterwards and that it keeps its form. `RunInv`: the run
  has done the first steps of its program, and what it has recorded is workspace memory (`Recorded`: apart from its input,
  and from what the device still has and named tensors, `Kept`). `GraphInv` says the same of every graph, and that its results are apart. `StandsInv`
  says whose run a graph is: one at the length of its key or, for a key without length, of a program that
  makes no difference between lengths, or is known by now to make one, so that the key is no longer looked up. `ReplaySafe` follows because memory never goes back to the device: what was recorded is
  in the workspace or in use, and if nothing but the input is in use, it is free, all of it in the drained heap, where
  free memory without a gap is one region (`FreeIsHeld`), as a claim requires. That nothing but the input is in use is more than the check of a replay says: it does not see staged tensors. `NothingStagedBetweenRuns`
  (`CaptureSpec => []CallerInv`) has the rest: where a staged input exists, no run begins. A recovery returns a set of ranges, finite because no two begin at one address (`InUseFinite`). Folds over
  the ranges of a scope and the regions of a heap are computed by least counterexample (`LoopExists`, `OneByOne`, `DrainSteps`, `SizesSteps`).
  `MemoryExact`, `ReplayIsSafe` and `GraphsStand` follow.

Assumptions are the named ones of the modules: finite sets of pages, Sequences and
requests, positive page size, batch size and bounds, disjoint kinds of events and of commands, half the range of a flag above 3, blocks that are numbers, and
names of streams that are not those of the other places a block can be, and, for `MtpDecode`, tokens that are integers with a largest one (the vocabulary), prompts that
are not empty and fit a row, and a model that selects a token after every context that fits, and, for `Heap`, a positive alignment, for `Capture`, a positive arena and
lengths, and programs with names of their own that allocate something and free what they have allocated, once, and, for `WeightLoad`, a positive arena and checkpoints of batches
that are not empty.
`TypeOK` of these modules, `OneHome`, `FreePagesUnheld` of `PagedKV`, `CommandIsWorkers` of `Loader`, `ReleasedLeaves` of `P2PBarrier` and `BlocksAccounted` of `Collectives` are proved and not in the runs any more.

Only model-checked: liveness (and the fairness it needs) and anything with ENABLED are
out of the prover's reach. What a recursive definition computes can be proved here only by least counterexample on
a number, and never for a RECURSIVE operator, which `PrefixTier` is built from; the properties of `Sharding`,
`ContextParallel` and `ChatCompletion` are about recursion over data and stay with TLC.
`KVSound`, `BooksKept` and `AdmissionReusesBest` of `PrefixTier` stay with TLC for the former reason.

## Not modelled

Numerics: kernels other than those whose index arithmetic decides where data goes, sampling and the acceptance of
sampled drafts, the layers of the models. File formats and codecs of checkpoints, JSON, chat templates and
validation of arguments as text, usage counts and timings, the command line and benchmarks. Of the loader: the
console's ring buffer, what `/status` reports of the last exit. Of memory: pinned
and staging buffers. Of `parallel_ops.ts`: NCCL and the choice between transports, `fusedNormRope`, `topk`, `moeRoute`, `allGatherTwo`. Of
speculative decoding: rope positions of drafts and what drafts write to the KV, which verification rewrites. Of loading: tied
`lm_head`, and the loaders of the other models. Recurrent state (gdn) of the hybrid models. Of attention
planning: the distribution of work over thread blocks. The text of an answer is checked for
decoders whose output for a prefix is a prefix of their output, as that of a byte-level BPE is.

Of streams: the two priorities of the pool (`glm_ops.ts:1411`), a second disposal of a tensor whose disposal is pending, and the forced clean-up at the
end of `startTracking`. Of the scheduler: the loop over indices in `removeFinished` is a filter, and a fatal CUDA error ends `Capture` no sooner than
any other (there it is a behaviour that stops). Of answers: `TextWhole` compares the message until the loop ends; what `finishOutput` adds behind the cut of a stop
sequence is in the model, and not in that property. `AdmissionReusesBest` and `MatchSound` bound what could have been reused by less than a page
more than was, which is the whole pages where the reused length is a multiple of the page.

Components are listed with the reason in `PROJECT.json`. The hazard no property covers has a note there: whether callers
of a stream handle keep its order on their error paths.

## What comes next

1. Recursive functions in place of the RECURSIVE operators of `PrefixTier`, so that `KVSound` can be proved.
2. Acceptance of sampled drafts, as a function over bounded distributions of integer weight.
