# ScaleLLM in TLA+

TLA+ models of ScaleLLM, a server for large language models: how requests are
scheduled, how the key-value cache is shared, how weights are loaded, sharded and
used by the workers, how the next token is chosen, and how answers are streamed
back. TLC checks the models on small instances, TLAPS proves theorems
about them for every instance. Source paths are relative to the repository's
root; the C++ code is in `src/`. `PROJECT.json` maps every definition to the lines it
models.

## The system

A client calls the server through gRPC (or through the REST gateway). One
`CallData` object serves one call. The completion or chat handler verifies the
call's arguments and turns it into a `Request` with its `Sequence`s, and hands it
to the scheduler. The main thread calls `step()` in a loop: it builds a batch of
sequences, gives each the cache blocks it needs (preempting other requests when
there are too few), executes the model once, and appends one new token to each
sequence. Text goes back through tasks on a single-threaded executor, which
call the handler's callbacks, which write to the `CallData`.

| Component | State it keeps | Operations | Interacts through |
|---|---|---|---|
| Scheduler (`src/scheduler`) | request queue, priority queue, current batch, preemptable requests | `schedule`, `build_sequence_batch`, `step`, `on_request_finish`, `on_sequence_stream` | bounded queue from the handlers, tasks to the response executor, calls to block manager and engine |
| Block manager (`src/memory`) | free list of block ids | allocate and release slots | called by the main thread only |
| Request and Sequence (`src/request`) | tokens, block table, cache position, finish and cancel flags, output offsets | append token, check stopping criteria, decode and stream deltas | shared by main and response thread |
| Engine (`src/engine`) | workers | `prepare_inputs`, `execute_model` | called by the main thread; workers have a thread each |
| Executor, ConcurrentQueue (`src/common`) | queue of tasks | `schedule`, thread loop | any thread to its own threads |
| CallData, gRPC server (`src/server`) | status of a call, response queue, rpc flag | `write`, `finish`, `proceed` | completion queue with one tag per call |
| Handlers (`src/server/handlers`, `src/models/dialog`) | none | verify, convert, make the prompt of a chat, callbacks | converter executor, scheduler, CallData |
| Gateway (`gateway`) | none | forward a call or a stream | HTTP to gRPC |
| Workers, process groups (`src/engine/worker`, `src/common/process_group`) | model shard, KV-cache tensors | construct, load, allocate, forward pass, collectives | one executor per worker, NCCL between them |
| Model loader, state dicts (`src/model_loader`) | the files of a checkpoint | views, transforms, shards | read by every worker |
| Models and layers (`src/models`, `src/layers`) | weights and flags of what is loaded | `load_state_dict`, `verify_loaded_weights`, `forward` | called by the workers |
| Sampling (`src/sampling`) | none | processors of logits, sampler | called by the first worker |
| Tokenizers, kernels, HTTP server | third-party state, tensors | encode, decode, arithmetic, metrics | called in place |

What is hard here:

- three kinds of threads share a sequence: handlers create it, the main thread
  appends tokens, the response thread decodes, streams and cancels it;
- requests move between four containers as raw pointers while tasks hold more of
  them; ownership is by convention;
- preemption takes the memory of a running request, whose cache must be
  recomputed from the tokens generated so far;
- a call's events (alarms, completed writes, the finish) share one tag, so the
  call cannot tell them apart;
- bounded queues block or refuse; clients disappear at any time;
- a tensor that was sharded, packed or fused in the wrong order has the right size,
  so nothing fails: the server answers with nonsense, often only on several devices;
- a worker blocks in a collective until every other has come to it, and the engine
  until every worker has answered.

What makes each component correct: the scheduler keeps the priority order,
preempts only lower requests, loses neither blocks nor requests, and answers every
request it accepted; the pool never hands a block out twice; what a sequence
believes to be cached is cached; a client sees its deltas in order, then the
finish reason, then the end of the call; a call is released exactly once, after
everything that refers to it; what all ranks compute together is what one device
would compute; a checkpoint that lacks a tensor is never served; one sequence's token
does not depend on its neighbours in the batch; the deltas of an answer add up to its
text. `PROJECT.json` lists the hazards line by line.

## Modules

| Module | Models | Notes |
|---|---|---|
| `BlockPool` | what the block manager promises | abstract: free blocks, block tables; with its proofs |
| `CompletionService` | what a client may observe | abstract: accepted, deltas, finish reason, end |
| `Scheduler` | `ContinuousBatchingScheduler`, `Request`, `Sequence`, the checks and cache writes of `prepare_inputs`, the response thread | uses `BlockPool`, implements `CompletionService` |
| `MCScheduler` | constants for TLC | |
| `SchedulerProofs` | theorems about `Scheduler`: types, blocks, ownership, the refinement of `CompletionService`, the batch | |
| `CallData` | `CallData` and `GrpcServer::handle_rpcs`, with gRPC's completion queue as environment | |
| `MCCallData`, `CallDataProofs` | constants for TLC, theorems | |
| `BlockManager` | `BlockManager` and `BlockAllocator`: the free-list vector, its count, the four operations | implements `BlockPool` |
| `MCBlockManager`, `BlockManagerProofs` | constants for TLC, theorems | |
| `Dialog` | the prompt of a chat | operators |
| `SequenceText` | `Sequence::decode_delta_text` | operators |
| `RequestHandlers` | `CompletionHandler`, `ChatHandler`: verification, conversion, submission, callbacks | extends `Dialog` and `SequenceText`; uses `CompletionService` for the scheduler |
| `MCRequestHandlers`, `RequestHandlersProofs` | kinds of calls for TLC, theorems | |
| `Sampling` | logits processors and sampler | operators |
| `PrepareInputs` | `prepare_inputs`, `execute_model`, and how attention, the cache, sampling and `index_select` consume the inputs | extends `Sampling`; one execution for every small batch |
| `MCPrepareInputs`, `PrepareInputsProofs` | the batches for TLC, theorems | |
| `StateDict` | `StateDict`: views, transforms, shards of a tensor | operators |
| `Layers` | linear, quantized, embedding, norm and attention layers: constructor, load, forward on one rank | extends `StateDict` |
| `Architectures` | the eleven model classes, as programs over the layers | extends `Layers` |
| `ModelEngine` | `Engine::init`, the workers and their forward passes | extends `Architectures`, implements `WorkerGroup` |
| `MCModelEngine`, `ModelEngineProofs` | small models for TLC, theorems | |
| `WorkerGroup` | how engine and workers wait for each other | abstract |
| `MCWorkerGroup`, `WorkerGroupProofs` | plans for TLC, theorem | |

### Scheduler

Variables carry the names of the members they model (`request_queue`,
`priority_queue`, `request_batch`, `sequences_batch`, `preemptable_candidates`), and
`pc`, `idx`, `candidate`, `has_enough_slots`, `sequence_candidates` are the main
thread's position and local variables in `step()`. `owner[r]` says who has to
destroy request `r`.

`build_sequence_batch` is one action per loop iteration or branch: `DrainRequestQueue`,
`RequeueRequest`, `ClearBatch`, `PickCandidate`, `ConsiderSequence`,
`AllocateSlotsForSequence`, `ScheduleCandidate`, `PreemptLowest`, `PreemptDestroyed` (a
destroyed request is still listed, and reading it may crash), `PartiallySchedule`, `GiveUp`.
`ExecuteModel` is `Engine::execute_model` with the checks of `prepare_inputs`, and
`ProcessToken` one iteration of the loop at the end of `step()`. The response thread runs `DecodeDelta`, `StreamDelta` (the two halves of a
delta task, which share data with the main thread at different moments) and
`RunFinishTask`. `Schedule` is called by handler threads, `ClientFails` is the
environment.

Abstractions: tokens are counted; whether a token ends the sequence and whether
decoding finds text to send are free choices; the cache is a function from slots to
"keys and values of token p of sequence s"; the priority queue is a set whose top
may be any of the requests that no other precedes (the heap's order of equal
elements depends on the library). `created_time_` counts seconds, so equal keys are normal.
The history variable `overtaken` records the one thing they spoil: a request was scheduled
while another of the same key was in front of it in `preemptable_candidates_`
(`Overtakes`), so that the list keeps it. It is set in that step, and false again when a
build begins with an empty list; no action reads it. The handlers create requests with one
sequence today (`n > 1` is refused); `Request` and the scheduler support several, and
so does the model, since partial scheduling exists only for them.

### CallData

`write()` and `finish()` are split at the points where the handler thread may run
in between: the check of `rpc_ok_`, the push, the alarm, and the last read of
`rpc_ok_`. `Proceed` is `proceed()` with its four states, together with the `delete` in
`handle_rpcs`. gRPC is external: a started operation completes later, each
completion and each alarm puts one event on the queue, in any order.

### BlockManager

`free_blocks` and `free_block_count` are the members of `BlockAllocator`; the part
of the vector behind the count is stale, as in the code. `AllocateSlotsForSequence`
and `ReleaseSlotsForSequence` are one step each, since only the main thread calls
them. `allocate_slots_for_request` asks each sequence twice how many blocks it lacks
(`CountBlocks`, `AllCounted`, `AllocateNext`), and the response thread may cancel a
sequence in between (`SetCancelled`). A failed GCHECK sets `pc` to "crashed".
`AppendNewTokenId` is what the scheduler does between two calls; its guard is the
check of `prepare_inputs`.

### RequestHandlers

Each handler has one converter thread that takes calls in order: `Reject`, or `Convert`
and `Submit`. The scheduler is reduced to what `CompletionService` promises of it
(`Scheduler` is checked to implement that): `Drain` empties the queue, `Generate`
appends a token and applies the stopping criteria, `OnStream` and `OnFinish` run the
callbacks. A call's arguments are a record of what the handlers look at; the range
checks of the sampling parameters are one flag. The tokens the model will generate are
part of a call's arguments too, since the handlers' side cannot influence them.

A prompt made of messages (`Dialog`) is the list of turns with the role each is printed
under: `add_message` and the parity rule of `get_prompt` are modelled, the wording of
the template is not. `decode_delta_text` (`SequenceText`) works on tokens of the kinds
its comments speak of: words with a leading space, which a decoder drops at the
beginning of a text, bytes of a character, the end token. The tokenizers' libraries are
external; a token that is nothing but a space is left out, because the libraries differ
in how many of them they drop.

### PrepareInputs

One step per iteration of the two loops, then padding, execution, and
`index_select`. A token is the pair of its sequence and its position; the hidden
state of a token is the list of tokens attention lets it see, so that "computed from
the right tokens" is an equation. Batches are what the scheduler builds: tables with
exactly the blocks needed and all but the newest token of a decoding sequence cached
(`BatchReady` of `Scheduler`, `NoSurplusBlocks` of `BlockManager`). The generic attention
code is modelled; the CUDA kernels replace it with the same inputs.

The logits of the last tokens then go through the processors `LogitsProcessor::create`
picks for the whole batch, one step each, and the sampler (`Sampling`). Logits are small
integers, softmax has base 2, `top_p` counts in tenths, so that everything is exact; the
order of equal logits in a sort is free. The sampler's result is the set of tokens it
may return.

### StateDict, Layers, Architectures

A tensor is the list of its axes, an axis the list of labels of its rows, so that
slicing, concatenating, transposing, packing and permuting are operations on labels, and
a loaded parameter tells which part of which tensor of the checkpoint it is. A feature
(one number of a layer's output) is `<<k, part, j>>`, feature `j` of instruction `k`, or
`Wrong` if a weight row, an input feature, a scale or a head does not belong together. So
"the network computes the right thing" is an equation, without any arithmetic.

`Layers` has for each class what its constructor checks (`ConstructorFails`), the shape and
the slice of each parameter (`ParamShape`, `ShardDim`), how a file's tensors are taken or
merged (`Loaded`, `LoadFails`, `Merged` for fused weights whose parts come in different
files), and its forward (`ColumnOut`, `RowPartial` with the all-reduce in `RowOut`,
`EmbeddingOut`, `NormOut`, `AttentionOut`). Quantized classes are records of what tells them
apart: the widths they accept, the axis they pack, whether they need the thread's
scratch buffer `tl_temp_dq`. `Architectures` writes each class of `src/models` as the list
of layers its forward runs, with the names its `load_state_dict` selects; the prefixes,
the fusing of projections, the splitting of packed ones, the residual connections and the
transforms for GPT-NeoX, Bloom, MPT and GPT-2 are those of the code.

### ModelEngine and WorkerGroup

`stage` and `todo` are the position of the engine's thread in `Engine::init` and
`execute_model`, `queue[r]` is the executor of worker `r`. `Schedule` is a call of an
`_async` method, `Collect` is `collectAll`, `InitModel`, `LoadStateDict`, `InitKVCache`, `Forward`
and `Return` are a worker's tasks, `Forward` one instruction at a time; `Exchange` is a
collective. `VerifyWeights` runs on the engine's thread, with the sizing of the cache
(`BlockBytes`, `CacheBytes`, `NumBlocks`) that follows it. A failed CHECK sets `fatal`. With
one device everything runs on the engine's thread, which matters for `tl_temp_dq`.
The initial states are all checkpoints of a configuration: one file, one tensor in a file
of its own before or after the others, Meta's shards, and each of them without one
tensor.

`WorkerGroup` is what remains without the data: rounds of tasks, each a plan of own steps
and collectives. `ModelEngine` is checked to implement it, and the liveness of the
rounds is checked there, where the plan can be longer.

## Runs

| Run | Result | What it shows |
|---|---|---|
| `scheduler_strict` | pass | three requests, two of the same second that outgrow the memory and one of higher priority, and three blocks of two slots: types, `BlocksPartition`, `BatchReady`, `PreemptableSound`, `BatchInPriorityOrder`, `PreemptsOnlyLower` |
| `scheduler_cancel` | pass | two requests, one streaming with two sequences, three blocks, clients that fail at any moment, so that requests are preempted, partially scheduled, cancelled and answered for lack of memory: `NoBlockLeak`, `BatchReady`, `NoDanglingPointer`, `ToldBeforeFinish`, `ImplementsService`, `EveryRequestAnswered` |
| `scheduler_race` | violation | `NoCrash` fails: cancellation between allocation and `prepare_inputs` |
| `calldata` | pass | queue of three, eight responses, failing operations: `EventsMatchWork`, `DeletedLast`, `ResponsesInOrder`, `CallReleased` |
| `calldata_writes` | violation | `OneWriteAtATime` fails |
| `block_manager` | pass | a request with two sequences and four blocks: `FreeListDistinct`, `AllocatorChecksHold`, `NoSurplusBlocks`, `RequestFullyServed`, `ImplementsPool` |
| `handlers` | pass | two calls of fourteen kinds (served, faulty, a prompt that fills the context, answers with cut characters), a queue of one: `LimitHonoured`, `ArrivalOrder`, `PromptAttributed`, `WellFormedAnswer`, `TextDelivered`, `AnswerIsFinal`, `EveryCallAnswered` |
| `handlers_context` | violation | `ContextRespected` fails: `max_tokens` 0 means no limit |
| `execute_model` | pass | all batches of up to three sequences of up to four tokens in four blocks, and pairs of sequences with nine kinds of sampling parameters each: `OwnContext`, `OwnSampling`, `CacheExtended`, `SampledAsAlone` |
| `model` | pass | small models of all eleven types on one or two devices (GPT-2 on one, Meta's llama also on four), llama and GPT-J in ten kinds of quantization, complete and incomplete checkpoints, sizes the layers refuse, devices with too little memory, two forward passes: `LogitsCorrect`, `MissingWeightDetected`, `CompleteCheckpointServed`, `ImplementsWorkerGroup` |
| `gpt2` | violation | `LogitsCorrect` fails for GPT-2 on two devices: `c_attn` is sharded as one matrix |
| `workers` | pass | two or three workers, three rounds: `SameCollective`, `RoundsEnd` |

Equal keys. Three of the scheduler's invariants and `PreemptsOnlyLower` hold for
requests of the same second as long as none is overtaken, and say so: `BatchReady` about
blocks (not about the cached prefix), `NoDanglingPointer` about
`preemptable_candidates_` (not about the heap, the batch, the queue and the tasks),
`PreemptableSound` and `PreemptsOnlyLower` as a whole. What follows when one is overtaken is the
first of the divergences below.

What is served. `CompleteCheckpointServed` speaks of the configurations that satisfy `Servable` and
`Roomy`, which are arithmetic on the sizes of the configuration:

- `Shardable`: the devices divide heads, key-value heads, the MLP and the vocabulary, and are a
  multiple of the checkpoint's shards;
- `LongAxes`: no sharded axis is as small as the number of ranks that share it, since it is then
  returned whole (`src/src/model_loader/state_dict.cpp:218`) and refused as a size mismatch;
- `MPTServable`: a power of two of heads (`src/src/models/huggingface/mpt.h` makes too many alibi
  slopes otherwise), and no norms of query and key on several devices;
- `QuantServable`: a type whose loader uses no transform, a known method and width, and packed
  words and groups that are whole on every rank;
- `Roomy`: every device has room for what the first one can give away.

The run has configurations on both sides of each of these lines.

The violations are described under `findings` in `PROJECT.json`, with the comment or
assertion of the source each one contradicts. Divergences the models show, or had to
exclude, and that have no run of their own:

- A scheduled request is taken out of `preemptable_candidates_` only if it is the first
  (`src/src/scheduler/continuous_batching_scheduler.cpp:161`). Requests of the same second have
  equal keys, and the heap may give them in the other order than the list has them. The
  scheduled one then stays in the list, although line 163 says it "can't be preempted": it can lose
  the blocks it has just been given and fail the check at `src/src/engine/utils.cpp:73`, or
  finish and be read by the next build after it was destroyed (`PreemptDestroyed`, which
  `scheduler_strict` reaches). `NoCrash` fails so with two requests of equal keys, prompts of one
  and two tokens, three new tokens each, three blocks and no client that fails.
- The table of models of the repository's README says "Yes" to quantized Bloom, GPT-NeoX and MPT
  (`src/README.md:241`, 243, 247). Their attention loads its weights with a transform, which no
  quantized layer implements (`src/src/layers/linear.h:28`): the process ends. It says "Yes" to MPT
  on several devices; with `qk_ln`, the norms of the whole hidden size
  (`src/src/models/huggingface/mpt.h:107`) refuse a rank's part of it. Both are in `model`, as
  configurations outside `Servable`.
- The number of cache blocks comes from the first device's memory
  (`src/src/engine/engine.cpp:186`). On a device with less free memory the cache takes more than
  `max_memory_utilization` allows, or does not fit. `Roomy` leaves out the second case.
- "Not enough memory to schedule one sequence" (`src/src/scheduler/continuous_batching_scheduler.cpp:193`)
  is also answered to a request while another one, dropped from the preemptable list at
  line 172, still holds blocks.
- `finish()` reads `rpc_ok_` after it has set the alarm (`src/src/server/call_data.h:104`), when
  the handler thread may already have deleted the call.
- Rows of token ids are padded with id 0 (`src/src/engine/utils.cpp:140`) and the frequency and
  presence penalties count whole rows (`src/src/sampling/logits_processor.h:102`), so a
  sequence shorter than the longest of its batch is penalised for token 0.
  `SampledAsAlone` leaves out padded rows with a penalty.
- Text that ends in the middle of a character is never sent (`src/src/request/sequence.cpp:67`). A
  call that does not stream decodes once, at the end, and then gets no text at all.
  `TextDelivered` speaks of the end of a call only if the text does not end so.
- A chat that begins with the assistant is printed with the roles exchanged
  (`src/src/models/dialog.cpp:46`). `PromptAttributed` speaks of chats the user begins.

Bounds. Two or three requests suffice for every pair (candidate, preempted) and a
third that changes the order between; prompts of one and two tokens and blocks
of two slots put sequences on both sides of a block boundary; two or three new
tokens (four for those that outgrow the memory) make each sequence cross it while others run; two or three blocks are fewer
than the requests need together. `QueueSize` 1 or 2 lets `schedule()` refuse.
Block ids are interchangeable (`BlockSymmetry`), except in the runs with liveness, which
use no symmetry. `CallData` is checked with more responses than its queue holds, so that
`blockingWrite` waits. In `RequestHandlers`, `MaxLen` is larger than `MaxContextLen`, so that a
missing limit shows, and one tick of the clock tells two creation times apart; three
generated tokens are enough for a delta, a held-back byte and its completion.

A model of `ModelEngine` has one or two layers, four heads (three or six where a number that
is no power of two matters) of two features, four to eight features inside the MLP, a
vocabulary of four to eight. Every loading and sharding rule is the same for every layer, and
two layers show whether names and caches of layers are kept apart. Two devices tell the
slices of ranks apart, four devices with two shards make two ranks share a file. A
word has 8 bits instead of 32 so that a packed axis needs only a few features; groups of
two rows give several groups per rank. Files are two at most (`MaxFiles`): a file either has
everything a fused layer needs, or some part of it comes before or after. Two passes are a
prefill and a decode that reads the cache.

Deadlock. The main thread never stops, so deadlock is checked in the scheduler's
runs and in `block_manager`. A call, a set of calls and one execution end, so those runs do not
check it. An aborted process in `Scheduler` and the end in `model` and `workers` are explicit
steps (`Stopped`, `Stop`), so that threads or ranks that wait for each other would be a deadlock.

Fairness. `FairSpec` of `Scheduler` assumes that the main thread keeps calling `step()` and
that the executor's thread keeps running (weak fairness of each thread as a whole);
nothing is assumed of clients or handlers. `FairSpec` of `CallData` assumes that both
threads run, that gRPC completes what was started, and that a producer finishes
its call in the end, which is `EveryRequestAnswered` seen from the other side. `FairSpec` of
`RequestHandlers` assumes that the converter threads run and that the scheduler drains its
queue, generates, streams and finishes, which is again `EveryRequestAnswered`; nothing is
assumed of the arrival of calls. `GSpec` of `WorkerGroup` assumes that the engine's thread
and every executor's thread run and that NCCL completes a collective in which all ranks
have met; `model` checks safety only.

## Proofs

| Theorem | Module | States |
|---|---|---|
| `TypeCorrect` | `SchedulerProofs` | `Spec => [](TypeOK /\ LoopBounds)` |
| `SchedulerUsesPool` | `SchedulerProofs` | `Spec => Pool!PoolSpec` |
| `BlocksArePartitioned` | `SchedulerProofs` | `Spec => []BlocksPartition` |
| `OwnershipHolds`, `NoBlockLeaks` | `SchedulerProofs` | `Spec => []OwnershipInv`, `[]NoBlockLeak` |
| `ReasonToldBeforeFinish` | `SchedulerProofs` | `Spec => ToldBeforeFinish` |
| `SchedulerImplementsService` | `SchedulerProofs` | `Spec => ImplementsService`, the refinement of `CompletionService` |
| `BatchFollowsPriority` | `SchedulerProofs` | `Spec => []BatchInPriorityOrder` |
| `CacheStaysValid` | `SchedulerProofs` | what a sequence believes to be cached is in its slots |
| `PreemptableIsSound`, `NoPointerDangles`, `PreemptionTakesFromLower`, `BatchIsReady` | `SchedulerProofs` | `Spec => []PreemptableSound`, `[]NoDanglingPointer`, `PreemptsOnlyLower`, `[]BatchReady` |
| `PoolPartition` | `BlockPool` | `PoolSpec => []BlocksPartition` |
| `TypeCorrect`, `WakeupsMatchWork`, `StreamInOrder`, `NothingOutlivesCall` | `CallDataProofs` | `Spec => []TypeOK`, `[]EventsMatchWork`, `[]ResponsesInOrder`, `[]DeletedLast` |
| `TypeCorrect`, `FreeListSound` | `BlockManagerProofs` | `Spec => []TypeOK`, `[](TypeOK /\ FreeListDistinct)` |
| `BlockManagerImplementsPool` | `BlockManagerProofs` | `Spec => Pool!PoolSpec` |
| `FreeNeverOverflows` | `BlockManagerProofs` | what a sequence gives back fits behind the free part |
| `TablesNeverTooLong` | `BlockManagerProofs` | `Spec => []NoSurplusBlocks` |
| `AllocatorNeverAborts`, `WholeRequestServed` | `BlockManagerProofs` | `Spec => []AllocatorChecksHold`, `RequestFullyServed` |
| `HandlersHold`, `CallAnsweredOnce` | `RequestHandlersProofs` | `Spec => []HandlersInv`, `AnswerIsFinal` |
| `LimitKept`, `CreatedInArrivalOrder`, `AnswersAreWellFormed` | `RequestHandlersProofs` | `Spec => []LimitHonoured`, `[]ArrivalOrder`, `[]WellFormedAnswer` |
| `TextIsDelivered`, `PromptIsAttributed` | `RequestHandlersProofs` | `Spec => []TextDelivered`, `[]PromptAttributed` |
| `ExecutionHolds` | `PrepareInputsProofs` | `Spec => []ExecutionInv` |
| `ContextIsOwn`, `SamplingIsOwn`, `CacheIsExtended` | `PrepareInputsProofs` | `Spec => []OwnContext`, `[]OwnSampling`, `[]CacheExtended` |
| `EngineImplementsGroup` | `ModelEngineProofs` | `Spec => ImplementsWorkerGroup`, the refinement of `WorkerGroup` |
| `MissingWeightIsDetected` | `ModelEngineProofs` | `Spec => []MissingWeightDetected` |
| `SharesOfOneInstruction` | `ModelEngineProofs` | `Spec => []SameInstruction`: ranks that wait in a collective are at the same instruction |
| `CollectivesMatch` | `WorkerGroupProofs` | `GSafety => []SameCollective` |

They hold for every value of the constants that satisfies `SchedulerAssumption`,
`CallDataAssumption`, `BlockManagerAssumption`, `HandlersAssumption`, `SamplingAssumption` and
`BatchesAssumption` of `PrepareInputs`, `PassesAssumption`, `ConfigsAssumption` and
`ProgramsAssumption` of `ModelEngine`, and `NAssumption` and `SchedulesAssumption` of
`WorkerGroup`: any number of requests, blocks, calls, sequences of a batch, workers, files and
forward passes.
`BatchesAssumption` says of a batch what `BatchReady` and `NoSurplusBlocks` say of what the
scheduler hands to the engine, and those are theorems too. `ProgramsAssumption` says that the
forward of a configured model is a list of instructions whose layers are loaded from tensors with
dotted names; TLC evaluates it for every model of the runs.

**Scheduler.** `TypeOK` alone is not inductive: the main thread indexes `request_batch` and
`sequences_batch` and calls the block manager for a sequence of `candidate`, so the
invariant is `TypeOK /\ LoopBounds`. `BlocksArePartitioned` goes through the
abstract pool: `BlockPool` is proved to keep its blocks apart (a table that grows by
blocks that were free stays without repetition, and whole tables come back), and
every step of the scheduler is a step of `BlockPool` or leaves it alone.

`OwnershipInv` says where a request may be. The heap, the batch and the queue hold requests the
scheduler owns, no request is in two of them, blocks are held only from the heap and the batch
(`ContainerInv`), and every task of the response thread points to a request that exists, with the
finish task of a request behind all its other tasks (`TaskInv`). The leak theorem, `ToldBeforeFinish` and the refinement of
`CompletionService` follow from it, the refinement step by step: a delta or an answer is given
by a task, and a task is of a request that was accepted and has not ended.

The batch follows the priorities because nothing in the heap comes before what was taken out of
it (`InHeapOrder`), also with equal keys. `PreemptableInv` relates the list of preemptable
candidates to the heap: it is sorted, all it lists waits in the heap, and it is empty when the
build has ended. Keeping it when the candidate is scheduled needs that a listed candidate is the
first of the list, the only place the code looks at. The heap gives it before the first one only
if neither comes before the other (`NeitherBefore`), that is, if they have the same key, and that
step sets `overtaken`. So the invariant is `overtaken \/ ListSound`, for any keys; the list
is sound again from the first build that begins with an empty one. `BatchIsReady` also needs that no table is too long
(`NoSurplus`), that a sequence picked for the batch keeps its blocks until the batch is executed,
as long as the list is sound (`PickedHaveBlocks`), and `CacheInv`: the slots of a cached prefix hold the sequence's own tokens,
because a block changes hands only after the table that had it was given up as a whole.

**CallData.** `CallDataInv` is the inductive invariant. The count of events
(`EventsMatchWork`) is not inductive alone: it needs to know which phases of the
producer go with which states of the call (`Phases`), for instance that the final
status is the last item ever queued, so that a call is deleted only when its queue
is empty and no alarm is owed.

**BlockManager.** `BlockManagerInv` joins `FreeListDistinct` with the partition of the blocks: ids
that come back are new to the free part because they were in a table, and ids that go out
differ because the free part has none twice. That the free part never overflows
follows by counting: the table and the free part are disjoint subsets of the block
ids. `TablesNeverTooLong` needs that rounding up is monotonic (`Division`).

`AllocatorChecksHold` is about a sum over a loop, which no installed prover can do induction on.
`AllocationInv` carries the sum along instead: while the request's sequences are counted, there
are partial counts, one per sequence, that grow by at least what each sequence still lacks
(`Counting`); once all are counted, what was counted for the sequences still to be served is free
(`Reserved`), also when one of them is cancelled meanwhile, since it then takes
nothing; and the sequences before have what they need (`Served`).

**RequestHandlers.** `HandlersInv` says that a call arrives once and that each converter's queue is the
end of the list of arrivals (`Fifo`), and that a call that waits or is accepted has no answer yet,
with only the head of a queue converted already (`CallsInv`).
`LimitKept` adds that a request with a limit is below it whenever a
token may still be generated (`BelowLimit`), `AnswersAreWellFormed` what a client has read so far in
each phase (`MessagesSoFar`). `TextIsDelivered` adds `TextInv`: the two offsets of
`decode_delta_text` lie within the tokens, and what the client has read is the text up to the second
of them, so that the next delta continues it (`DeltaContinues`). `PromptIsAttributed` is an induction
over the messages of a chat: after each of them the dialog's odd turns, read as the user's, and its
even ones, read as the assistant's, tell what the messages have said so far (`Attributed`).

**PrepareInputs.** None of the three properties is inductive: each speaks of the end. `ExecutionInv`
follows the inputs while they are built. `Placed(j)` tells from the position of the loops whether
sequence `j` has its row; exactly the placed sequences have one, where `seq_indices` says
(`RowsInv`); a row of token ids is the sequence followed by padding (`TokensInv`); `cu_seq_lens`
grows strictly and the rows of prompts come first (`LengthsInv`); each flat token is a token of a
placed sequence with its position and slot, and none is there twice (`FlatInv`); each row is
sampled at its last token, and finds its tokens in its range of `cu_seq_lens` or its blocks in its
row of the padded tables (`SelectionInv`). With that, `set_kv_cache` writes each slot once, since
different tokens have different slots (`SlotFacts`, by uniqueness of quotient and remainder), the
range of `cu_seq_lens` an attention kernel looks up is unique, and a token that is decoded reads
tokens cached before (`CachedFacts`) or just written (`CacheWritten`). That rows of any lengths
have a longest one (`LongestExists`) is proved from the well-foundedness of the naturals.

**WorkerGroup.** `SameCollective` is not inductive: a rank that comes to a collective could find
another one waiting in the next. `GroupInv` adds that the plan has no collective between the
positions of two ranks (`LockStep`), since all ranks take a collective in one step, that a waiting
rank is in front of one, and that a finished rank is at the end (`Positions`).

**ModelEngine.** `EngineInv` says where the engine's thread and the workers are. The engine calls the
ranks in order, and a rank not yet called has no task and no answer; the only task a rank can have
is that of the current stage (`Calls`); the number of files and the pass fit the stage (`Rounds`);
and what a rank posted is its share of the instruction it is at (`Forwards`). With it each action is
a step of `WorkerGroup` or, for the weights that pass `verify_loaded_weights`, none: what remains of
the plans after a collected stage is the tail of what was there (`SetupPlans`, `PassPlans`).

`MissingInv` follows a tensor that no file has. While files are loaded, its part of the parameter is
undefined on every rank that constructed its model, whether the layer is fused or not, sharded or
not, so that `is_loaded_` stays false (`NothingFetched`, `StillLacks`); a rank that
has not answered in the first stage has no parameters yet.

`SharesOfOneInstruction` is `SameCollective` again, of the engine itself and with the data: `InStep`
says that a rank is ahead of another only through instructions without a collective, which
`Exchange` keeps because all ranks that have posted are then at one instruction.

Induction over data. The library's induction theorems cannot be used with the installed
provers, since they take an operator. `LeastNatural` (a set of naturals that is not empty has a least
element) follows from the well-foundedness of the naturals and takes a set; `LongestExists`, the
recursive functions `Joined` and `DialogOf` and the facts about their values rest on it.

Only model-checked:

- liveness (`EveryRequestAnswered`, `CallReleased`, `EveryCallAnswered`, `RoundsEnd`), since fairness and
  ENABLED are outside the prover's reach;
- `SampledAsAlone`, which compares sums of softmax weights over sets of tokens (a fold of the
  community modules that takes an operator), and holds where no score is as low as the filter value;
- `LogitsCorrect` and `CompleteCheckpointServed`: they depend on the sizes and the instructions of the
  architectures, which the proofs about `ModelEngine` leave closed.

## Plan

What is left, in this order:

1. `Server`: `Scheduler` composed with `CallData`, so that a full response queue blocks the
   response thread.
2. Shutdown: `GrpcServer::stop`, the scheduler's destructor, the poison pills of the executor.

## Not modelled

- Shutdown. After a signal the process ends; the repository promises nothing to the calls in
  flight.
- The REST gateway, which keeps no state, and the HTTP server, which serves metrics and health.
- CUDA kernels and the values of tensors: activations, norms, rotary and alibi embeddings,
  scores. Of attention only which tokens and heads it reads is modelled, of quantization
  only which words, groups and slices belong together.
- Parsing: safetensors and pickled files, `config.json`, the tokenizers' libraries.
- The mapping of priorities in the handlers, and the models handler, a reply without state.

Within the modelled parts, the following options are left out, because the code refuses them
or has no behaviour for them that could be stated:

- MPT without alibi, which its constructor refuses (`src/src/models/huggingface/mpt.h:133`), and its
  clipping of query, key and value, which changes numbers only; MPT with a bias in `lm_head`;
- quantized GPT-2, and Bloom, GPT-NeoX and MPT quantized, beyond that they are refused;
- act-order (`desc_act`, `g_idx` is registered and not loaded) and 3-bit words;
- models of type `qwen`, for which no factory is registered, other than that they are refused.
