----------------------------- MODULE ModelEngine -----------------------------
(***************************************************************************)
(* Engine::init and the forward passes of Engine::execute_model: the       *)
(* engine's thread, one worker per device with an executor of its own, and *)
(* the collectives through which the workers' forwards wait for each       *)
(* other (engine/engine.cpp, engine/worker.cpp, common/process_group.cpp). *)
(*                                                                         *)
(* What is checked is the model the workers run together: every rank's     *)
(* logits are those of the same network on one device, whatever files the  *)
(* weights came in.                                                        *)
(***************************************************************************)
EXTENDS Architectures

CONSTANTS Configs,   \* the model configurations tried
          Passes,    \* forward passes: one prefill, then decodes
          MaxFiles   \* bound: files of a checkpoint

ASSUME PassesAssumption == Passes \in Nat \ {0}

ASSUME ConfigsAssumption ==
    /\ MaxFiles \in Nat /\ MaxFiles >= 2
    /\ \A c \in Configs : c.ws \in Nat \ {0} /\ c.shards \in 0..MaxFiles

VARIABLES config,    \* model and quantization arguments, number of devices
          files,     \* state dicts of the checkpoint not yet loaded
          complete,  \* the checkpoint had every tensor
          stage,     \* what the engine's thread is doing, see Stages
          todo,      \* ranks it has yet to call for this stage
          queue,     \* rank -> tasks scheduled on the worker's executor
          done,      \* ranks whose future of this stage is fulfilled
          params,    \* rank -> layer -> parameter -> [tensor, parts, ok]
          temp_dq,   \* thread -> size of its tl_temp_dq, 0 if not defined
          kv_caches, \* rank -> layer -> pass -> <<key, value>> stored
          env,       \* rank -> outputs of the instructions run so far
          posted,    \* rank -> what it brought to the collective it waits in
          pass,      \* number of the current forward pass
          fatal      \* a CHECK failed: the process is gone

vars == <<config, files, complete, stage, todo, queue, done, params, temp_dq,
          kv_caches, env, posted, pass, fatal>>

Ranks == 0..(config.ws - 1)

\* The programs and checkpoints of the configurations, computed once
Programs == [c \in Configs |->
                IF c.model_type \in Registered THEN Program(c) ELSE <<>>]
Prog == Programs[config]

\* The forward of a model is a list of instructions, and a layer is loaded from
\* tensors with dotted names.
ASSUME ProgramsAssumption ==
    \A c \in Configs :
        /\ Len(Programs[c]) \in Nat /\ DOMAIN Programs[c] = 1..Len(Programs[c])
        /\ \A k \in LayersOf(Programs[c]) :
              /\ Programs[c][k].mod.names \in Seq(Seq(STRING))
              /\ Programs[c][k].mod.names # <<>>

(***************************************************************************)
(* Checkpoints                                                             *)
(***************************************************************************)
TensorsOf(prog) ==
    UNION {{<<k, i, p>> : i \in DOMAIN prog[k].mod.names, p \in Params(prog[k].mod)}
               : k \in LayersOf(prog)}

TensorName(prog, t) == Append(prog[t[1]].mod.names[t[2]], t[3])

CheckpointOf(prog) ==
    LET ts == TensorsOf(prog)
        Of(n) == CHOOSE t \in ts : TensorName(prog, t) = n
    IN [n \in {TensorName(prog, t) : t \in ts} |->
           LET t == Of(n) IN CheckpointTensor(prog[t[1]].mod, t[2], t[3])]

Checkpoints == [c \in Configs |-> CheckpointOf(Programs[c])]

Only(dict, names) == [n \in names |-> dict[n]]

\* A checkpoint in HuggingFace's format: one file, or one tensor in a file of
\* its own that is read first or last.
HFCheckpoints(dict) ==
    LET all == DOMAIN dict IN
    {<<View(dict, 0, 1)>>}
    \cup UNION {{<<View(Only(dict, {n}), 0, 1), View(Only(dict, all \ {n}), 0, 1)>>,
                 <<View(Only(dict, all \ {n}), 0, 1), View(Only(dict, {n}), 0, 1)>>}
                    : n \in all}

\* Meta's format: consolidated.<i>.pth holds shard i of every tensor that is
\* sharded and a copy of the others.
ShardOf(prog, dict, n, i) ==
    [name \in DOMAIN dict |->
        LET t == CHOOSE t \in TensorsOf(prog) : TensorName(prog, t) = name
            dim == ShardDim(prog[t[1]].mod, t[3])
        IN IF dim = Whole THEN dict[name] ELSE Chunk(dict[name], dim, n, i)]

PTCheckpoint(c) ==
    [i \in 1..c.shards |->
        View(ShardOf(Programs[c], Checkpoints[c], c.shards, i - 1), i - 1, c.shards)]

\* The same checkpoint without one of its tensors
Without(sds, n) ==
    [i \in DOMAIN sds |-> [sds[i] EXCEPT !.dict = Only(@, DOMAIN @ \ {n})]]

CompleteCheckpoints(c) ==
    IF c.shards > 0 THEN {PTCheckpoint(c)} ELSE HFCheckpoints(Checkpoints[c])

IncompleteCheckpoints(c) ==
    {Without(IF c.shards > 0 THEN PTCheckpoint(c)
             ELSE <<View(Checkpoints[c], 0, 1)>>, n) : n \in DOMAIN Checkpoints[c]}

(***************************************************************************)
(* The engine's thread.  A stage calls every worker, then collects the     *)
(* futures (collectAll).  A single worker is called directly, on the       *)
(* engine's thread.                                                        *)
(***************************************************************************)
Stages == {"init_model", "load_state_dict", "verify_loaded_weights",
           "init_kv_cache", "execute_model", "stopped"}

EngineThread == -1
ThreadOf(r) == IF config.ws = 1 THEN EngineThread ELSE r
Threads == {EngineThread} \cup Ranks

NoParams == [k \in {} |-> <<>>]

Init ==
    /\ config \in Configs
    /\ \/ complete = TRUE /\ files \in CompleteCheckpoints(config)
       \/ complete = FALSE /\ files \in IncompleteCheckpoints(config)
    /\ stage = "init_model"
    /\ todo = [i \in 1..config.ws |-> i - 1]
    /\ queue = [r \in Ranks |-> <<>>]
    /\ done = {}
    /\ params = [r \in Ranks |-> NoParams]
    /\ temp_dq = [t \in Threads |-> 0]
    /\ kv_caches = [r \in Ranks |-> <<>>]
    /\ env = [r \in Ranks |-> <<>>]
    /\ posted = [r \in Ranks |-> <<>>]
    /\ pass = 1
    /\ fatal = FALSE

Running == ~fatal /\ stage # "stopped"

\* worker->..._async(...): the task goes to the worker's executor
Schedule ==
    /\ Running /\ stage # "verify_loaded_weights" /\ todo # <<>>
    /\ queue' = [queue EXCEPT ![Head(todo)] = Append(@, stage)]
    /\ todo' = Tail(todo)
    /\ UNCHANGED <<config, files, complete, stage, done, params, temp_dq,
                   kv_caches, env, posted, pass, fatal>>

\* The stage after this one, once all its futures are fulfilled
NextStage ==
    CASE stage = "init_model"            -> "load_state_dict"
      [] stage = "load_state_dict"       -> IF Len(files) > 1 THEN stage
                                            ELSE "verify_loaded_weights"
      [] stage = "init_kv_cache"         -> "execute_model"
      [] stage = "execute_model"         -> IF pass < Passes THEN stage
                                            ELSE "stopped"

\* Faulty variant: goes on with the first answer.
CollectAny ==
    /\ Running /\ stage # "verify_loaded_weights" /\ todo = <<>> /\ done # {}
    /\ stage' = NextStage
    /\ todo' = [i \in 1..config.ws |-> i - 1]
    /\ done' = {}
    /\ files' = IF stage = "load_state_dict" THEN Tail(files) ELSE files
    /\ pass' = IF stage = "execute_model" /\ pass < Passes THEN pass + 1 ELSE pass
    /\ env' = IF stage' = "execute_model" THEN [r \in Ranks |-> <<>>] ELSE env
    /\ UNCHANGED <<config, complete, queue, params, temp_dq, kv_caches, posted, fatal>>

\* collectAll, then the next stage
Collect ==
    /\ Running /\ stage # "verify_loaded_weights" /\ todo = <<>> /\ done = Ranks
    /\ stage' = NextStage
    /\ todo' = [i \in 1..config.ws |-> i - 1]
    /\ done' = {}
    /\ files' = IF stage = "load_state_dict" THEN Tail(files) ELSE files
    /\ pass' = IF stage = "execute_model" /\ pass < Passes THEN pass + 1 ELSE pass
    /\ env' = IF stage' = "execute_model" THEN [r \in Ranks |-> <<>>] ELSE env
    /\ UNCHANGED <<config, complete, queue, params, temp_dq, kv_caches, posted, fatal>>

\* Faulty variant: the flag of the bias is not looked at.
AllLoadedButBias(r) ==
    \A k \in LayersOf(Prog) : \A p \in Params(Prog[k].mod) \ {"bias"} : params[r][k][p].ok

\* verify_loaded_weights of every layer, on the engine's thread
AllLoaded(r) ==
    \A k \in LayersOf(Prog) : \A p \in Params(Prog[k].mod) : params[r][k][p].ok

(***************************************************************************)
(* Engine::init_kv_cache.  Bytes are counted in units of block_size times  *)
(* the size of a number.  c.free has the free memory of every device,      *)
(* c.reserve is what max_memory_utilization leaves alone, c.cap is         *)
(* max_cache_size (0: not set).                                            *)
(***************************************************************************)
BlockBytes(c) == 2 * (c.kv \div c.ws) * c.d * c.layers

\* Only the first device is asked.
CacheBytes(c) ==
    LET room == c.free[1] - c.reserve IN
    CASE ~c.cuda                 -> c.cap
      [] c.cuda /\ c.cap > 0     -> Min({room, c.cap})
      [] c.cuda /\ c.cap = 0     -> room

NumBlocks(c) == CacheBytes(c) \div BlockBytes(c)

\* A division by zero, or one of the CHECKs
SizingFails(c) == BlockBytes(c) = 0 \/ CacheBytes(c) <= 0 \/ NumBlocks(c) = 0

\* The weights of every worker, then the size of the cache, both on the
\* engine's thread
VerifyWeights ==
    /\ Running /\ stage = "verify_loaded_weights"
    /\ IF (\A r \in Ranks : AllLoaded(r)) /\ ~SizingFails(config)
       THEN stage' = "init_kv_cache" /\ UNCHANGED fatal
       ELSE fatal' = TRUE /\ UNCHANGED stage
    /\ UNCHANGED <<config, files, complete, todo, queue, done, params, temp_dq,
                   kv_caches, env, posted, pass>>

(***************************************************************************)
(* The workers                                                             *)
(***************************************************************************)
Runs(r, task) == Running /\ r \in Ranks /\ queue[r] # <<>> /\ Head(queue[r]) = task

\* The task returns and its promise is set.
Fulfil(r) == /\ queue' = [queue EXCEPT ![r] = Tail(@)]
             /\ done' = done \cup {r}

Die == /\ fatal' = TRUE
       /\ UNCHANGED <<config, files, complete, stage, todo, queue, done, params,
                      temp_dq, kv_caches, env, posted, pass>>

\* Worker::init_model constructs the layers and the attention of the model.
CreateFails(r) ==
    \/ config.model_type \notin Registered
    \/ \E k \in LayersOf(Prog) : ConstructorFails(Prog[k].mod, config.ws)
    \/ \E k \in DOMAIN Prog :
          Prog[k].op = "attention" /\ AttentionFails(Prog[k].attn, r, config.ws)

InitModel(r) ==
    /\ Runs(r, "init_model")
    /\ IF CreateFails(r) THEN Die
       ELSE /\ params' = [params EXCEPT ![r] =
                  [k \in LayersOf(Prog) |->
                      [p \in Params(Prog[k].mod) |-> Unloaded(Prog[k].mod)]]]
            /\ temp_dq' = [temp_dq EXCEPT ![ThreadOf(r)] =
                  Max({@} \cup {TempDq(Prog[k].mod) : k \in LayersOf(Prog)})]
            /\ Fulfil(r)
            /\ UNCHANGED <<config, files, complete, stage, todo, kv_caches, env,
                           posted, pass, fatal>>

\* Worker::load_state_dict: every layer takes what the file has for it.
LoadStateDict(r) ==
    LET sd == Head(files) IN
    /\ Runs(r, "load_state_dict")
    /\ IF \E k \in LayersOf(Prog) : \E p \in Params(Prog[k].mod) :
             LoadFails(Prog[k].mod, sd, p, r, config.ws, params[r][k][p])
       THEN Die
       ELSE /\ params' = [params EXCEPT ![r] =
                  [k \in DOMAIN @ |-> [p \in DOMAIN @[k] |->
                      Loaded(Prog[k].mod, sd, p, r, config.ws, @[k][p])]]]
            /\ Fulfil(r)
            /\ UNCHANGED <<config, files, complete, stage, todo, temp_dq,
                           kv_caches, env, posted, pass, fatal>>

\* Worker::init_kv_cache: one cache per layer, of the same size on every
\* device
InitKVCache(r) ==
    /\ Runs(r, "init_kv_cache")
    /\ IF NumBlocks(config) * BlockBytes(config) > config.free[r + 1] THEN Die
       ELSE /\ kv_caches' = [kv_caches EXCEPT ![r] =
                   [i \in 1..config.layers |-> [n \in 1..Passes |-> <<>>]]]
            /\ Fulfil(r)
            /\ UNCHANGED <<config, files, complete, stage, todo, params, temp_dq,
                           env, posted, pass, fatal>>

\* k/v of this pass go to the layer's cache; a prefill attends to them, a
\* decode to everything the cache holds.
Stored(r, inst) ==
    [kv_caches EXCEPT ![r][inst.layer][pass] =
        <<ArgValue(env[r], inst.args[2]), ArgValue(env[r], inst.args[3])>>]

Attended(r, inst) ==
    {Stored(r, inst)[r][inst.layer][n] : n \in (IF pass = 1 THEN {1} ELSE 1..pass)}

\* One instruction of the model's forward.  One that ends in a collective
\* only posts its share.
Forward(r) ==
    LET k == Len(env[r]) + 1
        inst == Prog[k]
        ws == config.ws
        par == IF k \in LayersOf(Prog) THEN params[r][k] ELSE <<>>
    IN /\ Runs(r, "execute_model") /\ k <= Len(Prog) /\ posted[r] = <<>>
       /\ IF ForwardFails(inst, env[r], temp_dq[ThreadOf(r)], ws) THEN Die
          ELSE LET out == LocalOut(k, inst, par, r, ws, env[r],
                              IF inst.op = "attention" THEN Attended(r, inst) ELSE {})
               IN /\ IF Collective(inst, ws) = "none"
                     THEN /\ env' = [env EXCEPT ![r] =
                                Append(@, Combined(k, inst, par, <<out>>))]
                          /\ UNCHANGED posted
                     ELSE /\ posted' = [posted EXCEPT ![r] =
                                <<Collective(inst, ws), out>>]
                          /\ UNCHANGED env
                  /\ kv_caches' = IF inst.op = "attention" THEN Stored(r, inst)
                                  ELSE kv_caches
                  /\ UNCHANGED <<config, files, complete, stage, todo, queue, done,
                                 params, temp_dq, pass, fatal>>

\* ncclAllReduce and ncclAllGather: nobody returns before everybody came.
Exchange ==
    /\ Running
    /\ \A r \in Ranks : posted[r] # <<>> /\ posted[r][1] = posted[0][1]
    /\ env' = [r \in Ranks |->
           LET k == Len(env[r]) + 1 IN
           Append(env[r], Combined(k, Prog[k], params[r][k],
                              [i \in 1..config.ws |-> posted[i - 1][2]]))]
    /\ posted' = [r \in Ranks |-> <<>>]
    /\ UNCHANGED <<config, files, complete, stage, todo, queue, done, params,
                   temp_dq, kv_caches, pass, fatal>>

\* execute_model returns with the logits; the engine takes rank 0's.
Return(r) ==
    /\ Runs(r, "execute_model") /\ Len(env[r]) = Len(Prog)
    /\ Fulfil(r)
    /\ UNCHANGED <<config, files, complete, stage, todo, params, temp_dq,
                   kv_caches, env, posted, pass, fatal>>

Worker(r) == InitModel(r) \/ LoadStateDict(r) \/ InitKVCache(r) \/ Forward(r) \/ Return(r)

Stop == ~Running /\ UNCHANGED vars

Next == Schedule \/ Collect \/ VerifyWeights \/ Exchange
        \/ (\E r \in Ranks : Worker(r)) \/ Stop

Spec == Init /\ [][Next]_vars

(***************************************************************************)
(* Properties                                                              *)
(***************************************************************************)
\* However its layers are sharded, fused, packed or quantized, and whatever
\* files the weights came in, the model computes on every rank the logits of
\* the network run on one device, in the prefill and with the cached keys and
\* values of a decode (the classes of models/, the load and forward of layers/).
LogitsCorrect ==
    \A r \in Ranks :
        stage = "execute_model" /\ Len(env[r]) = Len(Prog)
            => env[r][Len(Prog)] = [j \in 1..config.vocab |-> <<Len(Prog), 1, j>>]

\* A checkpoint that lacks a tensor some layer needs is never served: the
\* engine stops before it allocates the cache (verify_loaded_weights).
MissingWeightDetected ==
    ~complete => stage \notin {"init_kv_cache", "execute_model", "stopped"}

(***************************************************************************)
(* Which configurations can be served, by the arithmetic of their sizes    *)
(***************************************************************************)
\* Heads share key-value heads evenly, and the number of devices divides
\* everything a layer shards, and is a multiple of the checkpoint's shards.
Shardable(c) ==
    /\ c.model_type \in Registered
    /\ c.heads % c.kv = 0
    /\ \A n \in {c.heads, c.kv, c.inter, c.vocab} : n % c.ws = 0
    /\ c.shards > 0 => c.ws % c.shards = 0

\* Every device has room for a block, and none has less free memory than the
\* first one can give away.
Roomy(c) ==
    /\ \A i \in 1..c.ws :
          /\ c.free[i] >= c.reserve + BlockBytes(c)
          /\ c.free[i] >= c.free[1] - c.reserve
          /\ c.cuda \/ c.cap <= c.free[i]
    /\ c.cap >= BlockBytes(c) \/ (c.cuda /\ c.cap = 0)

\* An axis no longer than the ranks that read it is not sharded ("too small to
\* shard"), which the layers refuse.
LongAxes(c, axes) ==
    \/ c.ws = Max({1, c.shards})
    \/ \A n \in axes : n > c.ws

WeightAxes(c) == {Hidden(c), c.kv * c.d, c.inter, c.vocab}

\* MPT makes too many slopes for other numbers of heads, and its norms of q and
\* k need all of them.
MPTServable(c) == c.heads \in PowersOf2 /\ (c.qk_ln => c.ws = 1)

\* The models whose layers load without a transform, the only ones quantized
\* layers implement
QuantizedTypes == {"llama", "llama2", "aquila", "mistral", "Yi", "internlm", "gptj"}

\* The method is known and its kernels take the width; the packed axes and the
\* groups of the inputs are whole, and long, on every rank.
QuantServable(c) ==
    LET q  == c.quant
        pf == PackFactor(q)
        column == create_column_parallel_qlinear(q)
        row    == create_row_parallel_qlinear(q)
        sizes  == {Hidden(c), c.kv * c.d, c.inter}
        Splits(n, unit) == n % (unit * c.ws) = 0 /\ LongAxes(c, {n \div unit})
    IN /\ c.model_type \in QuantizedTypes /\ c.shards = 0
       /\ q.method \in {"gptq", "awq", "GEMM"}
       /\ q.impl \in NamedImpls => q.method = "gptq"
       /\ q.bits \in column.bits \cap row.bits \cap column.matmul \cap row.matmul
       /\ WordBits % q.bits = 0
       /\ column.aligned \/ row.aligned => \A n \in sizes : n % MatmulAlign = 0
       /\ \A n \in sizes : Splits(n, pf)
       /\ q.group > 0 =>
              \A n \in {Hidden(c), c.inter} : n <= q.group \/ Splits(n, q.group)

Servable(c) ==
    /\ Shardable(c) /\ LongAxes(c, WeightAxes(c))
    /\ c.model_type = "mpt" => MPTServable(c)
    /\ c.quant.method # "" => QuantServable(c)

\* A complete checkpoint of a model the layers implement passes every CHECK on
\* devices with room: sizes match, no part is set twice, every forward finds
\* its thread's scratch buffer and every device holds the cache, in any order
\* the files and the workers come (the constructors and load_state_dict of
\* layers/, get_sharded_tensor, init_kv_cache).  Models outside Servable may be
\* refused; most of them are.
CompleteCheckpointServed ==
    complete /\ Servable(config) /\ Roomy(config) => ~fatal

(***************************************************************************)
(* Refinement: seen without what is computed, this is WorkerGroup, whose   *)
(* rounds end.  Verifying the weights is no step of it.                    *)
(***************************************************************************)
PlanOf(c) == [k \in DOMAIN Programs[c] |-> Collective(Programs[c][k], c.ws)]

Plans(c, setup, passes) ==
    [i \in 1..setup |-> <<>>] \o [i \in 1..passes |-> PlanOf(c)]

SetupRounds ==
    CASE stage = "init_model"      -> Len(files) + 2
      [] stage = "load_state_dict" -> Len(files) + 1
      [] stage \in {"verify_loaded_weights", "init_kv_cache"} -> 1
      [] OTHER -> 0

PassesLeft == CASE stage = "stopped"       -> 0
                [] stage = "execute_model" -> Passes - pass + 1
                [] OTHER                   -> Passes

Group == INSTANCE WorkerGroup WITH
    N         <- Max({c.ws : c \in Configs}),
    Schedules <- {[ws |-> c.ws, plans |-> Plans(c, f + 2, Passes)] :
                      c \in Configs, f \in 1..MaxFiles},
    ws        <- config.ws,
    plans     <- Plans(config, SetupRounds, PassesLeft),
    todo      <- config.ws - Len(todo),
    called    <- {r \in Ranks : queue[r] # <<>>},
    ip        <- [r \in Ranks |-> IF stage = "execute_model" THEN Len(env[r]) ELSE 0],
    waiting   <- {r \in Ranks : posted[r] # <<>>},
    dead      <- fatal

\* The engine and its workers call, wait for and release each other as in
\* WorkerGroup: a rank runs only the task of the current round, meets the
\* others in every collective of the model's forward, and the engine goes on
\* only when all of them have answered (collectAll, ProcessGroupNCCL).
ImplementsWorkerGroup == Group!GSafety
=============================================================================
