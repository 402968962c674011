# embeddinggemma.c: specifications

embeddinggemma.c is a C server and command-line program for the EmbeddingGemma
text and media embedding models. Many HTTP workers submit texts, equal texts are
computed once, a scheduler batches them into waves on several executors, media
requests share those executors, and caches, thread pools and device workspaces
live under all of it. This directory models those parts in TLA+, checks them
with TLC on small instances, and proves with TLAPS the safety properties of the
scheduler, the CPU pool, the caches, the connections and the engine handoff for
every number of threads, slots, requests, connections and cells.

Paths such as `inference_service.c` are relative to `src/src/`.

## 1. Inventory

| part | state | operations | shared with |
|---|---|---|---|
| inference service (`inference_service.c`) | entry table with reference counts, queue, LRU list, slot masks, arrival counters, one mutex, `queue_ready`, one `done` per entry | embed tokens / a batch, inline run, wave collection, wave execution, completion, release, free | HTTP workers and CLI (callers), one backend thread per slot, the engine (executor callback) |
| tokenizer threads (same file, 490-517, 1155-1188) | a list of jobs, a batch per call on the caller's stack | queue a batch, take, tokenize, report, stop | callers with several texts |
| scheduling rules (same file, 109-260, 402-490) | none: functions of queue and busy slots | pick a slot, class of a wave, membership, budget, end of a collection | backend threads and inline callers |
| persistent cache file (same file, 739-868) | a file of token sequences and vectors, a model fingerprint | load at creation, dump at shutdown | inference service, server |
| CPU thread pool (`parallel.c`) | a job descriptor, a shared index counter, assignment flags or a ticket, a count of helpers | parallel for, set cap, destroy | every CPU kernel; one caller at a time |
| response cache (`response_cache.c`) | table of byte strings with users, LRU list, byte count, one mutex | acquire, release, insert with eviction | HTTP workers (responses), media encoders (tower outputs and whole inputs) |
| connections (`server.c` 1900-2369) | ring of accepted sockets, keep-alive slots, stop flag, a receive buffer per connection | accept, push or 503, pop, request loop, shutdown | main thread, HTTP workers, signal handler |
| engine handoff (`server.c` 67-318) | `inference_mutex`, waiter counts, media slots, batches of nodes on submitters' stacks | text wave versus media tower, slot choice, batching of text passes and audio towers | backend threads, media requests |
| media decoding (`media.c`, `http_media.h`) | the lookup table of the base64 decoder, a shared frame index | decode the frames of a video with several threads | HTTP workers |
| engines (`engine.c`, `engine_cuda.cu`, `engine_xpu.cpp`) | a workspace per handle, recorded graphs per shape | create, reserve, a forward pass over a packed batch, free | called by the service, one call at a time per handle |
| EmbeddingGemma 2 engines (`gemma2.c`, `gemma2_fast.c`, `gemma2_cuda.cu`) | the same, for another model; the CPU's workspace belongs to a context with a lock | the same, and a pass over input rows made by the media towers | the service, media requests |
| requests and handlers, JSON (`server.c`) | per request only | parse, look up, embed, format | uses all of the above |
| tokenizer (`tokenizer.c`) | vocabulary, merges and special tokens, built once; symbols, heap and reverse map of one text | initialise, tokenize a text | callers and tokenizer threads, which only read the tables |
| GGUF reader, media towers, image and audio decoders | none between calls, or per call | functions of one call | - |

What is hard, and therefore what the properties are about:

- *Interleaving under one mutex that is given up in the middle.* A backend
  thread picks a slot, waits for more requests with the mutex released, and
  must not trust the pick afterwards. A media tower gives the engine to a text
  wave between two layers. A worker of the pool gives up polling while the next
  call is being published.
- *Shared ownership in C.* An entry is referred to by the queue, a wave, the
  LRU list and any number of callers; it is freed by hand when a count says so.
  A cached response is sent from the cache's own memory. Batchers link nodes
  that live on their submitters' stacks.
- *Two condition-variable populations on one variable*, signals that may reach
  a thread which cannot use them, and broadcasts that happen only in some
  layouts.
- *Rules computed twice.* The pick promises that a wave will have a member; the
  scan computes membership again with other code. The launch code of a backend
  chooses a path by the options, the size and every single length of a batch,
  and another place decides which buffers the path leaves filled.
- *State kept from call to call.* Device workspaces grow in parts and keep old
  contents, recorded graphs keep addresses, a cache file outlives the process
  and the model.
- *Partial failure.* An execution fails for all members of a wave; a call's
  tokenization fails after its arrival was announced; an insertion evicts and
  then finds no room; a dump is cut short; a device call fails in the middle of
  a forward pass.
- *Limits.* Budgets of a wave, capacity of the caches, a full ring of
  connections, keep-alive slots, shutdown while calls are in progress.

Correctness, per component: the service answers every item of every call once,
from one execution per distinct sequence in flight, never on a busy slot, never
beyond a slot's budget, without losing a wakeup, and frees exactly what nobody
refers to; the pools execute every index exactly once inside the call; the
response cache keeps what is in use, accounts for its bytes and fails an
insertion only for entries in use; the front end answers or refuses every
connection and answers pipelined requests in order; the cache file is replaced
whole and only serves what this model computed; the engine has one user at a
time and no batch is touched after its submitter left; a forward pass answers
the embeddings of its own sequences on every path.

`PROJECT.json` lists all components, modelled or not, and under `hazards` each
of these points at its source line with the properties that cover it.

## 2. Modules

| module | models | depends on |
|---|---|---|
| `WavePolicy` | the scheduling rules, as operators | - |
| `SharedAnswers` | what the service promises: one answer per token sequence, shared by the items that ask for it | - |
| `InferenceService`, `MCInferenceService` | callers, backend threads and the entry cache, implementing `SharedAnswers` | `WavePolicy`, `SharedAnswers` |
| `InferenceProofs` | theorems about `WavePolicy` and `InferenceService`: slots, the entry table, waves, the refinement of `SharedAnswers` | `InferenceService`, `ListProofs` |
| `ListProofs` | lemmas about lists, folds, counts, sums and totals, for all the proofs but those of the CPU pool | - |
| `ThreadPoolProofs`, `TokenizerPoolProofs` | theorems about `ThreadPool` and about `TokenizerPool`, each with the refinement of `ParallelFor` | the module named; `TokenizerPoolProofs` also `ListProofs` |
| `ServerProofs`, `MediaEngineProofs` | theorems about `Server` with `HttpFrontend` and `PersistentCache`, and about `ResponseCache`; about `MediaEngine` | the modules named, `ListProofs` |
| `Gemma2Proofs` | lemmas: the stages of a forward pass of EmbeddingGemma 2 and the parts of a call | `Gemma2Engine`, `ListProofs` |
| `BackendsProofs` | theorems about `Backends`: the recorded graphs, and the answers of EmbeddingGemma 2 | `Backends`, `Gemma2Proofs` |
| `ParallelFor` | what `ei_parallel_for`, and the tokenization of a batch, promise | - |
| `Tokenizer` | tokenization of one text, SentencePiece and byte-pair | - |
| `TokenizerReference` | what tokenization promises, without its data structures | `Tokenizer` |
| `TokenizerPool`, `MCTokenizerPool` | callers and tokenizer threads, implementing `ParallelFor` for every call | `ParallelFor`, both of the above |
| `ThreadPool`, `MCThreadPool` | the CPU pool, both modes, implementing `ParallelFor` | `ParallelFor` |
| `ResponseCache`, `MCResponseCache` | the response cache and its users | - |
| `HttpFrontend` | accept loop, ring, workers, keep-alive slots, request framing | - |
| `PersistentCache` | the cache file: load, dump, failed writes, crashes | - |
| `Server`, `MCServer` | lives of the server: both of the above, stop signal, shutdown, restart | `HttpFrontend`, `PersistentCache` |
| `MediaEngine`, `MCMediaEngine` | media requests and text waves sharing the engine | - |
| `MediaDecode`, `MCMediaDecode` | frames of a video decoded in parallel | - |
| `RowMemory` | tokens, buffers of rows, and the launches that read and write them | - |
| `ForwardGraph`, `Gemma2Graph` | the forward pass of each model as a flow of quantities | `RowMemory` |
| `Kernels` | what the launches do to the buffers, one after the other | `RowMemory`, a graph as its constants |
| `DeviceForward` | kernel geometry and tiled attention of the GPU backends | `ForwardGraph` |
| `CudaForward`, `XpuForward`, `CpuForward` | the kernels or loops a call launches, per backend | `DeviceForward`, `ForwardGraph`, `Kernels` |
| `Gemma2Forward` | the loops and kernels of EmbeddingGemma 2, CPU and CUDA | `Gemma2Graph`, `Kernels` |
| `BackendState` | what the engines have in common | `ForwardGraph` |
| `CudaEngine`, `XpuEngine`, `CpuEngine`, `Gemma2Engine` | workspaces, graphs, copies and failures, per backend | `BackendState`, a forward module |
| `Backends`, `MCBackends` | the life of one engine of any backend and model | the engines |

### WavePolicy

One operator per function of the source: `PickSlot` is `pick_slot_locked` (with
`IdleGroups`, `OpenGroups`, `LeastLoaded` for its three passes), `WaveClass` the
choice made in `backend_main`, `Member` and `Fits` the two tests of
`take_class_locked`, `QueueHasOverflow` and `InBacklog` the overflow rule,
`CollectionReady` is `batch_collection_ready`. The queue is a sequence of
lengths, a mask is a set of slots. The constants are the service's
configuration: slots, their devices, the overflow executors, budgets, the
bypass and overflow limits. `ShortBypassTokens = 0` and
`OverflowMaxSequenceTokens = 0` switch the features off, as in the source.

### InferenceService

Each action is a piece of code between two points where the mutex can change
hands. `lock` names its owner, so a critical section that loops (the scan of
`take_class_locked`, the eviction loop of `prune_cache`, the submission of a
batch) is a sequence of actions that nothing interleaves with. Waiting on a
condition variable is a program counter.

| variable | source |
|---|---|
| `entries`, `queue`, `lru`, `readyEntries` | bucket table, `queue_head`.., `lru_head`.., `ready_entries`; an entry is a heap cell, `NoEntry` once freed, so a stale pointer is a state |
| `pruning` | the owner of the mutex is in `prune_cache` |
| `slotMask`, `longMask` | `slot_mask`, `long_mask` |
| `arriving`, `active`, `activePeak` | the counters of announced and active requests |
| `stopping`, `lock` | `stopping`, the mutex |
| `pc`, `items`, `handles`, `index`, `soloSlot`, `ok` | locals of `ei_inference_service_embed_batch_with_usage` |
| `bpc`, `wave`, `slot`, `class`, `position` | locals of `backend_main` |

A call goes `Arrive` (announce) -> `Tokenized` or `NoTokens` -> `SubmitHit` /
`SubmitMiss` per item -> `LaunchSolo` (run inline) or `LaunchSignal` ->
`AwaitBlock` / `AwaitTake` per item -> `Return`. `EmbedTokens` is the entry
point that skips the announcement. A backend thread goes `QueueWait`, `Exit`,
`StartCollect` or `StartWave` -> `CollectAgain` / `EndCollect` -> `ScanTake` /
`ScanSkip` per queued entry -> `RunWave` -> `FinishWave`, which succeeds or
fails, wakes the callers and starts pruning (`Evict`, `Pruned`). `Stop` and
`Destroy` are `ei_inference_service_free`; with `DrainOnStop` it may begin while
calls wait for their answers, which the destructor allows for.

Abstracted: hashing and bucket chains (a search by key), embedding values,
statistics, the wave log, and time. The collection deadline may pass at any
moment; the "hot" test of the adaptive wait is nondeterministic. Spurious
wakeups are not modelled (every wait is in a loop that tests its condition).
`busy_slots` and `queued_requests` are derived from the mask and the queue.
Executors that cap their waves are those of models whose context is larger than
the cap, so a slot's cap may be below the context limit.

`Tokenized` stands for the tokenization of all texts of a call; what happens
inside it is `TokenizerPool`.

`SharedAnswers` is what all this amounts to for the callers. Each token sequence
has one answer: none, pending, ready or failed. A call joins the answers of all
its items (`Join`; only an item that finds none starts an execution), takes them
in order (`Take`) and succeeds if all of them were ready; a set of pending
sequences is executed with one outcome (`Execute`). An answer that an item still
has to take is never withdrawn; a failure is withdrawn by the last of these
items, a success may be forgotten when there are none (`Forget`).
`ImplementsSharedAnswers` maps the service to it: the answer of a sequence is the
state of its entry (`Answer`), the number of joined items the number of handles
(`Joined`), and a call is in one of five phases (`Phase`). There is no queue,
wave, slot, list, count or mutex left, so the refinement says what they must not
do together: compute a sequence twice, hand an item another's answer, drop an
item in a failed wave, or answer from an entry that was evicted or failed before
the call.

### ParallelFor, TokenizerPool and ThreadPool

`ParallelFor` says that between call and return every index is executed exactly
once, in ranges, and that nothing is executed outside a call. Two components keep this promise.

`TokenizerPool` has one action per critical section: a caller queues its jobs
(`Enqueue`) and waits for the count of its batch (`AwaitDone`), or tokenizes
alone (`Inline`); a thread takes a job, tokenizes it and counts it down (`Take`,
`Tokenize`, `Report`). A job carries the number of its call, because the batch
and the jobs are gone when the caller leaves the wait: a job that outlives them
is an execution outside a call, which `ImplementsParallelFor` forbids. The
caller then cuts every text to the context and fails the call if one has no
tokens (`Truncate`).

`Tokenizer` is `tokenizer.c`: `Specials` and `PartitionSpecial` cut a text at
special tokens, `EscapeWhitespace` and `TokenizeRuns` prepare what is between
them, `Session` links its characters, and `MergeAll` pops the best candidate
pair of a binary heap (`HeapPush`, `HeapPop`), drops it when `Outdated` or joins
it (`Merged`), which adds the pairs with both neighbours. `Resegment` turns each
symbol into its token, what it was joined from, or the tokens of its bytes.
`TokenAttr` gives the begin, end, padding and unknown tokens the attributes the
loader gives them, so that a text cannot spell them unless specials are parsed. A
merge never removes the candidates it makes obsolete: that the two size tests
of `Outdated` are enough is what `TokensMatch` asks. `TokenizerReference` says
the same with no heap: the best adjacent pair is joined for as long as there is
one, special tokens are cut out the longest first, and room is kept for the
final EOS. It shares with `Tokenizer` what is read from the model
(`VocabLookup`, `ByteId`, `MergeScores`), the split into characters and the
escaping of spaces.

`ThreadPool` has one action per atomic operation of `run_jobs` and per critical
section of the caller and the workers; `spin` chooses the mode when the pool is
created. The caller prepares the job (`Prepare`), publishes generation and
helpers together (`Publish`) or assigns (`Assign`), draws ranges with the
workers (`Fetch`, `Check`, `Function`) and leaves when they have (`Return`,
`WaitDone`). A polling worker may give up at any moment (`GiveUp`), parks only
after a second look under the mutex (`Park`) and decides by the ticket it read
(`Join`). `Destroy` and `WakeForStop` are two steps because the ticket and
`stop` are read without the mutex. Ranges that a thread draws remember their
call, so that a thread which outlives it is seen.

Not modelled: pinning and CPU topology, thread-count defaults, the
performance-core hint, concurrent callers (the pool has one caller at a time;
executors have pools of their own), a call of no indices (returns at once), the
wrap of the 32-bit index counter and of the generation (bounded by the calls of
an instance, `Generations` names the width).

### ResponseCache

`call` is what each worker is doing, with its local variables: idle, holding an
entry, a response computed after a miss, or in the loop of
`ei_response_cache_insert` with the mutex. Victims are evicted one step at a
time, so an insertion that drops some entries and then gives up is a behaviour.
A size may be any of `Sizes`, also for the same key. Not modelled: hash chains,
the bytes, and `ei_response_cache_free`, which only the unit test calls.

### HttpFrontend, PersistentCache and Server

`HttpFrontend` follows a connection from the kernel's backlog through the main
thread (`Accept`), the ring (`Push`, `Refuse` with 503) and a worker (`Pop`,
`TakeSlot`, the request loop, `GiveSlot`, `Close`). A client sends a script of
requests as a stream of units (parts of a header, its end, the body); `Receive`
returns any number of them up to the buffer, so bytes of the next request arrive
with this one. `ReadRequest` cuts the request off the buffer and keeps the rest,
`BadFraming`, an overlong header and `Silence` (timeout, end of stream, reset)
are the ways out. `MainTest` and `MainCalls` are the two moments of the accept
loop between which a signal interrupts nothing.

`PersistentCache` sees an entry as a state and the model and text its vector was
computed from. `DumpBegin` .. `DumpRename` are the steps of
`write_persistent_cache_locked`, which holds the service's mutex: entries do not
change state during it, but a wave writes its embedding before it takes the
mutex (`Computes`). `DumpFails` is any failing or short write; `Ends(TRUE)` is a
power loss that leaves a prefix of the file's records, as nothing is synced
before the rename. `Fingerprint` is what `model_fingerprint` hashes, the size and
the first 64 KiB, and two models may share it: a file is accepted by its
fingerprint, so what is served is `VectorsOfFingerprint`, and that it is this
model's (`VectorsGenuine`) is refuted (section 5).

`Server` runs both: `Start` loads the cache before the workers start, requests
submit texts and are answered from ready entries, a signal leads to the dump
beside workers and waves, `Exit` and `Crash` end the process and `Restart`
begins another life with the same or another model. The inference service is
present as the states of its entries (`Submit`, `Wave`, `Evicted`).

### MediaEngine

On the CPU backend a media request holds `cpu_media_mutex` and
`inference_mutex`, and its towers call `cpu_tower_yield` between layers. The
yield is eight actions, one per point where `handoff_mutex` or
`inference_mutex` changes hands, with spurious wakeups and the 50 ms timeout. On
a GPU a request is assigned to a media slot; the counters are read one by one
(`SlotLook`, `SlotCompare`, `SlotClaim`). On Metal the text pass and the audio
tower are submitted to a batcher: `head`, `tail` and the `next` and `done`
fields of nodes that go with their submitter's frame. The layout (slots,
batchers, media workers and plans of towers) is chosen at the beginning.

### MediaDecode

`video_decode_all` with the statics of the base64 decoder: taking a frame,
testing the flag, clearing and filling the table cell by cell, setting the flag
and looking characters up are steps of their own, under sequential consistency
(a weaker memory only adds behaviours). Image formats, resampling and the
decoder of the last quad are one step.

### The forward pass: ForwardGraph and the backends

The numbers are abstracted to where they come from. A row of a buffer holds a
quantity (`q`, `attn_in`, `mid`, ...) of one layer of one token of one call, or
`Garbage`. A weight applied to the quantities it belongs to gives the next
quantity of the same token; applied to anything else it gives `Garbage`.
Attention gives a context only from exactly the keys and values of the token's
window, pooling an embedding only from all tokens of one sequence. So a kernel
that is launched in the wrong order, on the wrong buffer, for too few rows or
columns, with a stale position or key range, shows in the answer.

`CudaForward` is `launch_forward`, `XpuForward` is `enqueue_forward` and
`CpuForward` is `ei_engine_embed_tokens` with its batch: which kernels run, in
which order, on which buffers, as functions of the options and of the lengths of
the packed sequences. The kernels' own index computations are kept where they
decide which rows, columns or keys are covered (`TaskRows`, `MmaRows`,
`PackedKeys`, `TileKeys`, `XeFlashKeys`, `Slice`, `TripleWhole`, `Segments`).
`CudaEngine`, `XpuEngine` and `CpuEngine` keep the workspace: which buffers are
allocated with which part, how a part grows, what a failed allocation leaves
behind, which uploads happen in which order, when a graph is recorded, replayed,
replaced or cleared. `mem` persists from call to call, and a failed call leaves
what it wrote, so a stale row of an earlier call is a state.

EmbeddingGemma 2 has a graph of its own (`Gemma2Graph`): a norm of the values,
windows of another shape, an input to every layer made of the embedding of the
token, and a projection of each row before the mean. `Gemma2Forward` holds its
CPU loops, packed (`gemma2_fast.c`) and for one sequence (`gemma2.c`), and the
CUDA kernels. Attention goes by blocks of queries that load the keys of all their
sequences once (`BlockKeys`); each query keeps the mask of its own sequence and
window (`QueryKeys`). `Gemma2Engine` cuts a CUDA wave above the limit into parts
at the ends of sequences (`WaveParts`), finds a graph by the numbers of tokens
and of sequences and by where the rows come from (`Gemma2Key`), and takes either
token ids or the input rows of a media request (`from`). Since a graph is shared
by calls of other lengths, everything else it needs is uploaded
(`Gemma2Uploads`); that this is enough is what `SoundCallsMatch` asks there. The
buffers grow one after the other (`Gemma2Order`), and the code takes over the new
capacities also when one of them could not be allocated (`Gemma2ReserveFails`):
from then on the handle is `Torn`, a copy to the missing buffer fails
(`Gemma2There`), and a write behind the end of one that kept its size may have hit
any other (`Gemma2Leaves`). A handle stays `Torn` when a
later growth succeeds, since such a write may have reached device memory outside the
workspace, such as the weights.
`GraphsCurrent` says of all three engines that record graphs that none outlives
the workspace whose addresses it holds, `KernelsCurrent` that what runs, recorded
or not, was called for the sequences of the present call; that a shape is stored
once and the table never exceeds its limit is proved besides (`GraphsKept` of
`BackendsProofs`).

| variable | source |
|---|---|
| `opts` | backend and options (the environment variables read at creation) |
| `mem`, `space` | the buffers of the workspace; capacities and which call allocated them, and whether an allocation of the handle failed (`torn`, EmbeddingGemma 2 on CUDA) |
| `graphs` | `graph_entry`, `xpu_graph_entry`: the shape, and the arguments and addresses in the executable |
| `phase`, `stage`, `run` | where a call is, the next layer, the arguments of what runs |
| `calls`, `lens`, `answer`, `failures` | the present call and its answer; device failures so far |

Abstracted: arithmetic, precision and quantization formats (a conversion keeps
the quantity), the vendor GEMM and its choice between oneDNN and oneMKL,
profiling (off), the asynchrony inside the one in-order queue, pipelines of
asynchronous copies inside a kernel. On the CPU a loop is one step, since
`ThreadPool` shows that its chunks are executed once each; the buffers a chunk
keeps on its thread's stack are rows `row_q8`, `row_out`, ...; the lock of an
EmbeddingGemma 2 context makes its calls sequential; a process that
runs out of memory ends, as in the source.

## 3. What is model-checked

All runs use TLC with deadlock checking; `Destroyed`, `Over` and similar steps
are explicit where a system may be over.

| run | instance | properties and what they show |
|---|---|---|
| `is_single` | one slot, every switch on, two callers with `<<k1>>`, `<<k2,k3>>`, `<<k1,k1>>`, four cells, cache of two | `TypeOK`; `OneEntryPerKey` single flight; `NoDanglingEntry` and `UsersCounted` ownership; `CacheBounded` what stays; `CountsBalanced` the counters collectors wait on; `EvictionOrder` least recently used, never in use; `ImplementsSharedAnswers` the whole service against its promise, which includes that no failure outlives its last user (`FailureNotCached`) |
| `is_overflow` | a device and an overflow executor capped at 3 tokens, five sequences of 1 to 3 tokens, six cells, threads that collect | `SlotsExclusive` a slot picked before the collection wait is picked again; `WaveWithinBudget`, `OverflowLeavesHead`, `PickPromisesMember`, `PendingInOnePlace` |
| `is_live` | one device, two slots, bypass, threads that collect, two callers with batches of a short and a long sequence, fairness, shutdown while calls wait | `BypassLanes` one long wave on the first slot, one short beside it; `ServiceLive`: a batch signals once for its two waves, and threads that collect share the condition variable with those that wait for work |
| `is_idle` | two idle devices, one batch of two | expects a violation of `IdleDeviceServed` (section 5) |
| `pool` | two workers, both modes, two calls out of four sizes, caps 0 to 2, destruction | `ImplementsParallelFor`; `CapRespected`; `CallsEnd`: calls and destruction return |
| `tokenizers` | two callers, two threads, two calls each, shutdown; a SentencePiece and a byte-pair model; one caller sends any of 55 short texts alone or a pair of texts, the other three texts at once | `TokensMatch`: every text of a call gets the tokens of the reference, in its place; `ImplementsParallelFor` per call; `TokenizersReturn` |
| `cache` | three workers, four keys, four bytes, sizes 1, 2, 4 and 5 | `BytesAccounted`; `HeldAlive`; `OneResponsePerKey`; `RoomMade`; `ResponseTypeOK` |
| `server` | four layouts: a full ring; two workers that share a keep-alive slot and pipelined requests; broken requests behind good ones; texts, stop or crash and a second life with any of three models, two of which share a fingerprint | `ConnectionsAccounted`; `AnswersInOrder`; `VectorsOfFingerprint`; `FileReplacedWhole`; `StopNoticed`: a stop signal, also one that interrupts nothing, is acted on with the next connection; `ConnectionsEnd` |
| `media` | five layouts: CPU with three requests and a wave; CUDA with two slots; Metal with the audio batcher, with both, and with three finishes for batches of two | `EngineExclusive`; `YieldHandsOver`; `NodesAlive`; `RequestsServed` |
| `decode_race` | two threads, two videos, three characters | expects a violation of `DecodeDeterministic` (section 5) |
| `backends` | two layers (one windowed, one full), warps of two rows, calls of one or two sequences of 1 to 7 tokens against a context of 6; every pair of the options of CUDA and XPU, two to four calls, one device failure; the CPU with its options; EmbeddingGemma 2 on CUDA, three calls with and without graphs and with one failure, and on the CPU, with texts and with input rows | `SoundCallsMatch`: `EmbeddingsMatch` but for the three cases of the next run, each named by its condition (`ShortSkipped`, `HalfUnwritten`, `Torn`); `GraphsCurrent`; `KernelsCurrent`; `IntactInBounds`: no write behind the end of a buffer unless `Torn` |
| `backends_exceptions` | the CUDA engine with the tensor-core threshold set between the lengths of a batch; the Xe2 flash attention with half-precision attention off; EmbeddingGemma 2 on CUDA with a failing allocation | expects a violation of `EmbeddingsMatch` (section 5) |

Bounds. Two callers reach every race of the service's entries: one holds, joins
or repeats what the other submitted, and a batch with a repeated text gives one
caller two references. Four cells are enough to have entries queued, in use
and ready at once; `is_overflow` needs six for a backlog above the devices'
next wave. Each run is small in what its question does not need (a single slot
where ownership is asked, two sequences and no cache where liveness is
asked, with inline runs left to `is_single` and `is_overflow`). Two slots
give a wave in flight beside a pick. Two pool workers give a participant and a
non-participant at the same time and two calls a ticket newer than the one a
worker read; sizes include one below the grain, one with grain 0 and one with a
short last range. The response cache holds four small entries or one large one,
so an insertion may need several victims, or find none after the first. The
server's ring takes one or two of up to three connections, the header limit is
two units and the buffer four, so a header may overflow and a receive may hold
two requests; three models, two of which share a fingerprint, and two lives show
a file of one read by another. A
CPU tower has two layers, so that it may yield, go on and yield again. In
`backends` the constants keep the proportions that decide a path: a window
shorter than the context, tiles that divide and do not divide a sequence,
thresholds between the lengths of `MCShapes`, a first workspace of two rows that
must grow, graph caches of two entries with more shapes than that; sessions set
any two options away from a default, since every path is chosen by a few tests,
and a threshold set by the environment is tried on both sides of the lengths of a
batch and between them.
For EmbeddingGemma 2 a call of 3 and 4 tokens is beyond the limit of 6 and is cut
in two by CUDA and refused by the packed CPU graph; two calls of equal totals
and other lengths share a graph; blocks of queries reach over the end of a
sequence (`MCBlocks`); one sequence fits the first workspace (`FirstBatch`), two
do not; two graphs are kept (`Gemma2GraphLimit`); three calls let one fit before, one grow
and fail, and one use what is left.
In `tokenizers` the texts are all strings of up to four of two letters that
the vocabulary joins in several ways, with equal scores and a duplicated token,
and texts picked for the rest: spaces, overlapping and nested special tokens,
runs of newlines, a character of two bytes that is no token, a cut one, texts
beyond the context of 6 (or 3) tokens and an empty one.
Symmetry is used over callers (`is_single`, `is_overflow`) and over workers, keys
and cells (`cache`), never with liveness.

Fairness. `InferenceService!FairSpec` has weak fairness for the pruning loop
(its owner runs on) and strong fairness for each caller and each backend
thread: a thread blocked on the mutex competes with others and is enabled again
and again rather than continuously, and POSIX mutexes do not starve a waiter for
ever in practice. Waiting again after the collection timeout is not fair: the
code caps the deadline, so a collection ends. `Arrive` and `Stop` are not fair.
`ThreadPool!FairSpec` and `TokenizerPool!FairSpec` have weak fairness per thread:
the caller's steps and a worker's steps stay enabled until taken. Giving up
polling is not fair, so the liveness holds for workers that spin for ever as for
those that park. `Server!FairSpec` has weak fairness for the main thread and for
`Silence` of each worker (every receive has a timeout) and strong fairness for each
worker, which competes for connections, and for the waves; a layout with one
worker asks this of that one only. `MediaEngine!FairSpec` has
strong fairness for waves and requests, which compete for mutexes, and weak
fairness for the batchers; beginning a request or a wave, a spurious wakeup and
the timeout of the yield are not fair, so `RequestsServed` does not count on the
timeout.

Every checked property has a mutant in `PROJECT.json`: a definition changed the
way a plausible slip would change the code (operators marked `Mutant` in the
modules), for which TLC finds the property violated.

## 4. What is proved

TLAPS checks every theorem from the named `ASSUME`s on the constants and nothing
else. These say what the code makes sure of: a configuration as
`ei_inference_service_create` accepts it, positive limits of the caches and of the tables of graphs, a null
pointer that is no entry, request or number, different names for clients, backend threads and
free mutexes, finitely many workers, requests and waves where the program counts
them; for the engines, that a shape is a sequence of lengths, a model has a layer,
the window is a number and the tiles of a kernel have one (`Gemma2Geometry`), and
that the content of unwritten memory (`Garbage`) is no token and no quantity of
one: a theorem that a row holds a quantity then says that it was written. The theorems hold for every number of clients, slots, devices, keys, cells,
workers and connections and every choice of switches; TLC evaluates the
assumptions on the instances of section 3.

| module | theorem | statement |
|---|---|---|
| `InferenceProofs` | `ExclusiveSlots` | `Spec => []SlotsExclusive` |
| | `LanesKept` | `Spec => []BypassLanes` |
| | `TypesKept` | `Spec => []TypeOK` |
| | `SingleFlight` | `Spec => []OneEntryPerKey` |
| | `CountedUsers` | `Spec => []UsersCounted` |
| | `NothingDangles` | `Spec => []NoDanglingEntry` |
| | `FailuresLeave` | `Spec => []FailureNotCached` |
| | `PlacedOnce` | `Spec => []PendingInOnePlace` |
| | `AnswersKept` | `Spec => AnsweredOnce` |
| | `BoundedCache` | `Spec => []CacheBounded` |
| | `PromiseKept` | `Spec => []PickPromisesMember` |
| | `BudgetKept` | `Spec => []WaveWithinBudget` |
| | `HeadLeft` | `Spec => OverflowLeavesHead` |
| | `BalancedCounts` | `Spec => []CountsBalanced` |
| | `ForgetsInOrder` | `Spec => EvictionOrder` |
| | `ServiceSharesAnswers` | `Spec => ImplementsSharedAnswers` |
| `ThreadPoolProofs` | `PoolImplementsParallelFor` | `Spec => ImplementsParallelFor` |
| | `PoolCapRespected` | `Spec => []CapRespected` |
| | `PoolFunctionsInCall` | `Spec => []FunctionsInCall` |
| `TokenizerPoolProofs` | `TokenizersImplementParallelFor` | `Spec => ImplementsParallelFor` |
| | `JobsAreInCall` | `Spec => []JobsInCall` |
| `ServerProofs` | `ResponseTypes`, `CacheBytesAccounted`, `CacheHeldAlive`, `CacheOneResponsePerKey` | `ResponseSpec => []` of `ResponseTypeOK`, `BytesAccounted`, `HeldAlive`, `OneResponsePerKey` |
| | `CacheRoomMade` | `ResponseSpec => RoomMade` |
| | `VectorsAreOfFingerprint` | `Spec => []VectorsOfFingerprint` |
| | `VectorsAreGenuine` | `FingerprintsTellModels /\ Spec => []VectorsGenuine` |
| | `FileIsReplacedWhole` | `Spec => FileReplacedWhole` |
| | `StopCostsOneConnection` | `Spec => []AtMostOneLate` |
| | `ConnectionsAreAccounted` | `Spec => []ConnectionsAccounted` |
| | `AnswersAreInOrder` | `Spec => []AnswersInOrder` |
| `MediaEngineProofs` | `EngineTypes`, `EngineIsExclusive`, `NodesAreAlive` | `Spec => []` of the types, `EngineExclusive`, `NodesAlive` |
| | `YieldHandsItOver` | `Spec => YieldHandsOver` |
| `BackendsProofs` | `GraphsAreCurrent`, `KernelsAreCurrent`, `GraphsAreKept` | `Spec => []` of `GraphsCurrent`, `KernelsCurrent`, `GraphsKept` |
| | `Gemma2Answers` | `Spec => [](opts.backend \in {"gemma2_cpu", "gemma2_cuda"} => SoundCallsMatch)` |

Each rests on an inductive invariant, proved by one lemma per action, or group
of actions, that disturbs it and one for the others; TLC was given each of them
as an invariant of its run before it was proved.

*Slots* (`InferenceProofs`). `SlotInv` is inductive: the types of the slot
state, `ScanHoldsLock` (a thread that scans owns the mutex, so the slot it
picked stays free until it claims it: this is what re-picking after the
collection wait buys), `SlotsExclusive` itself, and in bypass mode `Lanes` and
`ScanLanes`. The lanes need the lemmas about the scheduling rules at the start of
the module: a device's slots are never empty, the least number of a set of
naturals exists and is least, and `PickSlot` returns a free slot of an open
device (`PickedSlot`).

*Entries* (`InferenceProofs`). None of the entry properties is inductive
alone. That a count never drops below zero needs that it is the number of
references (`Counted`); that a freed entry has no pointer left needs this and
that queue, waves and inline runs hold only pending entries (`QueuePending`,
`WavesPending`, `SolosPending`); that they still do after a wave has changed
the state of its members needs that they are disjoint; that every pending entry
is somewhere (`PendingHeld`) and the LRU list is the ready entries (`LruReady`)
needs all of it; and a reference count over items needs the progress of each
call (`CallShape`: nothing is held before submission, and `index` is the next
item to await and within the submitted ones). `EntryInv` is the conjunction of these, of unique
keys, of `StopShape` (a service that stops gets no new work, and a thread exits only from
an empty queue) and of the
remaining types. `EntryStep` proves it by one lemma per action that touches the
table and one lemma for all the quiet ones. `CacheFull`, which `BoundedCache`
adds, is that after pruning only entries in use exceed the capacity; it needs
that the last unused entry exists when an unused entry does
(`EvictableExists`). `ListProofs` holds what appending, removing, reversing and
permuting do to lists without repetition.

*Waves* (`InferenceProofs`). The source computes membership twice: the pick
(`pick_slot_locked`, and `backend_main` for the class) promises that the wave has
a member, the scan of `take_class_locked` tests each request again, with a
running sum of the work it has passed. `ScanOf` says what the scan still knows:
while nothing is taken, a request at or after its position will join
(`Promised`); once something is, the wave is `Within` its budget; and the scan
of an overflow wave found all devices busy and stays in the backlog
(`LeavesHead`). Taking a request shortens the queue, so `Promised` is about the
work in front of a position (`WorkBefore`), and totals of sequences have to be
split and appended to. The members are sorted before they execute: `Total` does
not depend on the order (`FoldPermuted` in `ListProofs`), so the budget still
holds. `PruneAlone` keeps the pruning loop, which edits the LRU list, out of a
scan. `BalancedCounts` relates two counters with sums over the calls in
progress; these have no assumed bound, so `CountInv` also says that they are
finitely many. `ForgetsInOrder` follows from `EntryInv`: only ready entries are freed by
the pruning loop, from the end of the list.

*The promise of the service* (`InferenceProofs`). `HandlesInv` adds to `EntryInv`
that every item which still has to take its answer holds the entry of its own
sequence, and that a call which waits has one handle per item. Three facts make
the entry table one answer per sequence. Keys are unique, so `Answer`, which
chooses an entry of the sequence, chooses the only one (`TableAnswers`). A step changes only the answers of the
entries it adds, answers or frees (`AnswerStarted`, `AnswersCompleted`,
`AnswerWithdrawn`, `AnswersStay`). And the items that have not taken the answer of
a sequence are exactly the references of its entry (`HoldersHoldEntry`), so
`users = 1` in `release_entry` is "the last holder" and `users = 0` in
`prune_cache` "nobody". `SubmitHit` and `SubmitMiss` are `Join`, `FinishWave` and
`SoloDone` are `Execute`, `AwaitTake` is `Take`, `Evict` is `Forget`, `Stop` and
`Destroy` are `Close` and `Discard`; the wave collection, the scan, launching,
waiting and pruning are unseen (`ThreadsUnseen`, `CallerWaits`).

*Pool* (`ThreadPoolProofs`). `Places` says where the threads of a mode may be.
`Tickets`: a worker about to join has read the present ticket, or an old one of
which it was no helper; this is why a call need not wait for workers that were
not asked. `Owed`: the counter the caller waits for is the number of workers
that still have to leave (their set also counts helpers that have not seen
the ticket), so at zero nobody is inside. `Shared`: an index below the
shared counter was executed once or is held by exactly one thread. The
refinement maps the start of a call, each execution of a range, and the return
to the actions of `ParallelFor` and every other step to a stutter; a return is
allowed since every index was drawn and nobody holds one.

*Tokenizer threads* (`TokenizerPoolProofs`). `PoolInv`: the queued jobs are
distinct, and none of them is with a thread, nor one job with two threads
(`JobsPlaced`); a job is of a call that waits, and its text is the one the job
names (`JobsOfCall`); and for each call the counter is the number of its jobs
that are queued or in work, and the texts not tokenized are those of the jobs
queued or held before tokenizing (`CallOf`). So when the counter is zero no job points to the caller's
stack any more, and every text was tokenized once. In the refinement a call is
the start, each tokenized text an execution, and the return the moment the
caller goes on.

*Response cache* (`ServerProofs`). `ResponseInv`: the LRU list has each
linked entry once, users count the holders (so unlinking an entry of count zero
leaves no reader), keys are unique, and there is one insertion at a time whose
key was missing when the mutex was taken. The sum of the bytes is a fold over a
set; that it grows and shrinks by one entry's size is `SumOver` of `ListProofs`,
which holds for every finite set.

*Server* (`ServerProofs`). For the cache file, `CacheInv`: vectors of entries,
of the file and of the temporary file were computed for the sequence they are kept
under, by a model of the fingerprint of the server or of the file
(`EntriesGenuine`, `FilesGenuine`), the dump has written what it has passed (`DumpProgress`), and a server that is not up yet, or down, has no
entries (`DownIsEmpty`), so that the next life may have another model. Nothing is assumed of the
fingerprint; that a served vector is this model's own follows only from the
premise that no two models share one (`FingerprintsTellModels`), which the code
does not make sure of. A stop signal costs at most one more connection; that
`accept()` ever returns is not promised (section 5). For the
connections, `FrontInv`: the ring read from its first position is a sequence
of distinct connections (`Ring`), a connection is in one place (`OnePlace`), and
`active` counts the workers that hold a slot (`SlotsCounted`). For the answers,
`AnswerInv`, which builds on it (one worker has a connection, and no closed one):
buffer and network together are the stream from the next request on
(`RestInOrder`), all answers but the last are good, and say so to the client
(`RepliesInOrder`), so the number of the next request is the number of answers
(`Rank`), and a worker that handles a request has that one. `FirstRequest`: the
first empty line in the buffer ends the header of that request; `CutBehind`: what
`read_request` takes is its units, wherever the receives were cut.

*Engine handoff* (`MediaEngineProofs`). On the CPU, `Mutexes` ties each mutex to
the places of its owner, and `HandOver` says that `textWaiters` counts the waves
about to lock and that while a tower yields, either a wave has taken the engine
or one still wants it: a tower may then unlock without a test being lost. On the
GPU, `busy` counts the requests assigned to a slot. For the batchers,
`QueueOf` says that head, tail and next describe a sequence of distinct nodes
which together with the batch are the submitters that wait; that such a sequence
can be cut after any prefix, and appended to, is what taking a batch and queueing
do. That the walks of `NodesAlive` exist and end at the tail follows from it.

*Recorded graphs* (`BackendsProofs`). `Table` says that every entry is for one
shape, current, and within the limit; `KernelsCurrent` is part of the inductive
invariant because a graph is captured from what runs. Each engine has a lemma that
settling the workspace for a call either leaves it as it was, or empties the
table (`CudaSettles`, `XpuSettles`, `Gemma2ReserveStep`), and it is settled only
in front of the copies, so `EntrySame` carries the entries over all other steps.
The ways a table changes are four lemmas about sequences: the oldest entry
leaves, a new shape is added, an entry moves to the end, a graph is filled in.
What the kernels are called with (`Arguments`) and how large a call is (`Total`)
stay opaque: the theorems hold for whatever they compute.

*Answers of EmbeddingGemma 2* (`Gemma2Proofs`, `BackendsProofs`). What a call has to compute is a
quantity of one layer for the token of each row (`Carries`), and the rows of a
part are the tokens of its sequences one after the other (`Packs`, which needs
that running totals are increasing and that every row lies between two of them).
A launch of a kernel that reads the right quantities leaves the right one in the
buffers it writes and keeps all others (`Computes`): one lemma per kind of launch,
and for attention that the keys a row reads, by the row bounds and by the window, are
exactly the tokens of its own sequence its layer may see. Launches are folded into
the memory, so the lemmas are chained by `Leads`, from the fold over a prefix to the
fold over the whole list; a forward pass is the lemma of a layer, repeated over the
layers by least counterexample, between a beginning and a pooling
(`Gemma2CpuStage`, `Gemma2CudaStage`). In front of it stands the way from a shape
to the parts and waves in which the call is computed: `WavesLeft` says that they
take the sequences of the call in order, all of them and once. The invariants
(`Gemma2CpuInv`, `Gemma2CudaInv`) are about what lies between two steps: the answers
of the parts already run are in the result (`Answered`), and on CUDA the uploads
of the next part are in its buffers. Two facts of the code carry the CUDA case. A
replayed graph runs with the counts of its own capture: `KernelsCurrent`, from the
proof above, makes them those of the call, although the graph was recorded for an
earlier one. And the uploads alone suffice: nothing is assumed of any other buffer, so
neither a reallocated nor an old workspace can enter an answer. The theorem claims
nothing of a CUDA handle in which an allocation has failed: `Torn` is never
withdrawn (`TornForever`), and `Gemma2Inv` keeps `Gemma2CudaInv` until then. All
other failures, of copies, captures, launches and of the synchronization, are in it.

Counting and summing are recursive over finite sets. The induction theorems of
the library cannot be used (they take an operator as a parameter), so the lemmas
that need one argue by a least counterexample among the natural numbers
(`WFMin`), which needs none. `StreamFrom` is a recursive function over the
requests of a script; that it exists and is a sequence (`StreamSplits`) is
argued from the last request where it would not be.

Only model-checked:

- liveness, and the properties that speak of `ENABLED`: outside the prover;
- `TokensMatch`: it compares what two algorithms over a text compute, which needs
  induction over the text;
- `SoundCallsMatch` of the engines of the first model, which have many more
  paths, selected by options and by the shape of a batch; and `IntactInBounds`;
- what a run disproves (section 5).

## 5. Disagreements with the documentation, and bugs

Found by a run:

- `is_idle`: the README (224-225) says that waves on different executors run at
  the same time and each new wave goes to an idle device first. A batch signals
  `queue_ready` once for all its items (`inference_service.c:1217`) and a thread
  that takes a wave wakes no other, so the rest of a batch larger than a wave
  waits beside an idle executor until the first wave ends or another call
  signals.
- `decode_race`: the base64 decoder builds its static table behind a flag that is
  tested and set without a lock (`media.c:167`), and the frames of a video are
  decoded by several threads (`http_media.h:144`). In the first request a thread
  may clear the table while another reads it: a valid frame is refused.
- `backends_exceptions`: three cases in which a call is answered with what none of its
  kernels wrote. `SoundCallsMatch` names them, and each of `MCOverridden`, `MCUnwritten`
  and `Gemma2Failing`, given alone as `Sessions`, violates `EmbeddingsMatch`; the run
  ends with the first.
  - With `EI_CUDA_TENSOR_ATTENTION_MIN_TOKENS` set, a batch whose longest sequence
    reaches the value is given to the tensor cores alone (`engine_cuda.cu:2425`), which
    skip the shorter sequences (`ShortSkipped`). The tuned thresholds, which depend on
    the size of the batch, do not have the problem: `backends` includes them.
  - With `EI_XPU_FP16_ATTENTION=0` and the Xe2 flash attention on, the flash kernel reads
    the half-precision queries, keys and values (`engine_xpu.cpp:1880`), while the
    projections write the single-precision ones only (`HalfUnwritten`).
  - `reserve` of EmbeddingGemma 2 on CUDA (`gemma2_cuda.cu:609-636`) takes over the new
    capacities also when an allocation failed (`Torn`). The call fails, but a later one
    that fits the capacities uses a null buffer and buffers of the old size: it writes
    behind their end.

Seen by TLC in the instance of `server`, without a run of their own:

- The comment at `server.c:2319-2320` says that a stop signal makes `accept()` return, so
  that the cache is flushed: `stop ~> mpc \in {"dump", "down"}`. A signal between the test
  of the flag and `accept()` interrupts nothing, and the server waits for the next
  connection. What holds is `StopNoticed`.
- `server.c:1647-1648` and CONTRIBUTING.md (664-665) say that a cache of a different model is
  never served: `VectorsGenuine`. `model_fingerprint` (`server.c:1651-1671`) hashes the size
  and the first 64 KiB, which two models may have in common. What holds is
  `VectorsOfFingerprint`.

Met while modelling:

- The audio tower of EmbeddingGemma 2 on CUDA allocates the table of a layer
  (`gemma2_cuda.cu:1209-1228`) before the upload and the product that fill it. If
  one of them fails, later requests take the table for computed. The tower is not
  modelled.
- `short_bypass_tokens` and `overflow_max_sequence_tokens` set together:
  `inference_service.h:33-36` says that waves never mix the two classes, but an
  overflow wave selects its members by length alone.
- An XPU call that fails while it is submitted returns with copies from its own
  vectors still queued (`engine_xpu.cpp:1796-1806`, `2052`).
- Two places inside CUDA kernels below the level of this model: the last loop of
  the w4a8 product waits for all but the newest copies (`engine_cuda.cu:601`),
  and `block_max` returns a shared value that the next reduction overwrites
  without a barrier (`1460-1489`). Both are modelled by their intended result.

## 6. Not modelled, and the plan

Not modelled: the Metal and ROCm backends (the same forward pass over other
APIs); the vision and audio towers of EmbeddingGemma 2 (their rows arrive as
inputs of a call); arithmetic, SIMD kernels and the tiling of matrix products, which the repository tests
against reference embeddings; image, audio and WAV decoding and resampling; JSON parsing and response
formatting; start-up options, the choice of devices, model download; the GGUF
parser. These run in one thread, and their state ends with the call. Vendored
code and benchmarks are not part of the program.

Done: the service and its promise, the pools with `ParallelFor`, the response
cache, the persistent cache, the front end and the life of the server, the
engine handoff, video decoding, the CUDA, XPU and CPU engines of both models (XPU
has one), and the tokenizer; the proofs of the service, of the two pools of threads, of both
caches, of the connections, of the engine handoff, of the recorded graphs, and of the
answers of EmbeddingGemma 2.

Left: pure functions worth a reference definition over bounded inputs (GGUF
bounds).
