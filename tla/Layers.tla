------------------------------- MODULE Layers -------------------------------
(***************************************************************************)
(* The layers the models are built from (layers/ and                       *)
(* layers/quantization/): which slice of which checkpoint tensor a rank    *)
(* loads into each parameter, and what one rank's forward computes from    *)
(* it.                                                                     *)
(*                                                                         *)
(* A layer is a record                                                     *)
(*   kind   "column", "row", "parallel_embedding", "embedding" or "norm"   *)
(*   names  the checkpoint prefixes it is loaded from, several when fused  *)
(*   ins    its number of inputs (of rows, for an embedding)               *)
(*   outs   the number of outputs of each fused part                       *)
(*   bias, gather, quant   as given to the constructor                     *)
(*   tf     the transform of the state dict it is loaded through           *)
(*   after  the transform applied to its slice                             *)
(*   heads  d, if its rows are ordered [n_heads, 3, d]; 0 if in parts      *)
(***************************************************************************)
EXTENDS StateDict, SequencesExt

CONSTANTS WordBits,     \* width of the integers weights are packed in, 32
          MatmulAlign   \* sizes the GPTQ kernels need a multiple of, 64

ASSUME WordsAssumption == WordBits \in Nat \ {0} /\ MatmulAlign \in Nat \ {0}

Total(outs) == FoldSeq(+, 0, outs)

Upto(n) == [i \in 1..n |-> i]

CeilDiv(a, b) == (a + b - 1) \div b

(***************************************************************************)
(* Quantization                                                            *)
(***************************************************************************)
NoQuant == [method |-> "", bits |-> 4, group |-> 0, impl |-> "auto"]

\* A class of quantized layers:
\*   bits      widths its constructor accepts
\*   matmul    widths its kernel unpacks
\*   pack_dim  qweight_pack_dim, the axis of qweight that is packed
\*   g_idx     the kernel takes the group of an input from g_idx
\*   aligned   both sizes must be a multiple of MatmulAlign
\*   scratch   the kernel uses the buffer tl_temp_dq of its thread
QClass(bits) == [bits |-> bits, matmul |-> bits, pack_dim |-> 0, g_idx |-> FALSE,
                 aligned |-> FALSE, scratch |-> FALSE]

Unsupported == QClass({})

\* The portable implementation: construct_weights, then torch::matmul
ColumnParallelQLinear == [QClass(1..WordBits) EXCEPT !.matmul = {2, 4, 8}]
RowParallelQLinear    == [QClass(1..WordBits) EXCEPT !.matmul = {2, 4, 8}]

ColumnParallelQLinearGPTQ ==
    [QClass({2, 3, 4, 8}) EXCEPT !.g_idx = TRUE, !.aligned = TRUE]
RowParallelQLinearGPTQ ==
    [QClass({2, 3, 4, 8}) EXCEPT !.g_idx = TRUE, !.aligned = TRUE]

\* g_idx is made but not given to make_q4.
ColumnParallelQLinearExllama == QClass({4})
RowParallelQLinearExllama    == QClass({4})

ColumnParallelQLinearExllamav2 == [QClass({4}) EXCEPT !.scratch = TRUE]
RowParallelQLinearExllamav2    == [QClass({2, 3, 4, 8}) EXCEPT !.scratch = TRUE]

ColumnParallelQLinearAWQ == [QClass({4}) EXCEPT !.pack_dim = 1]
RowParallelQLinearAWQ    == [QClass({4}) EXCEPT !.pack_dim = 1]

\* The implementation the flag qlinear_gptq_impl names, whatever the method
NamedImpls == {"slow", "cuda", "exllamav2", "exllama"}

create_column_parallel_qlinear_by_impl(q) ==
    CASE q.impl = "slow"      -> ColumnParallelQLinear
      [] q.impl = "cuda"      -> ColumnParallelQLinearGPTQ
      [] q.impl = "exllamav2" -> ColumnParallelQLinearExllamav2
      [] q.impl = "exllama"   -> ColumnParallelQLinearExllama

create_row_parallel_qlinear_by_impl(q) ==
    CASE q.impl = "slow"      -> RowParallelQLinear
      [] q.impl = "cuda"      -> RowParallelQLinearGPTQ
      [] q.impl = "exllamav2" -> RowParallelQLinearExllamav2
      [] q.impl = "exllama"   -> RowParallelQLinearExllama

\* ... else the one for the quantization method
create_column_parallel_qlinear(q) ==
    CASE q.impl \in NamedImpls -> create_column_parallel_qlinear_by_impl(q)
      [] q.impl \notin NamedImpls /\ q.method = "gptq" ->
            IF q.bits = 4 THEN ColumnParallelQLinearExllamav2
            ELSE ColumnParallelQLinearGPTQ
      [] q.impl \notin NamedImpls /\ q.method \in {"awq", "GEMM"} ->
            ColumnParallelQLinearAWQ
      [] OTHER -> Unsupported

create_row_parallel_qlinear(q) ==
    CASE q.impl \in NamedImpls -> create_row_parallel_qlinear_by_impl(q)
      [] q.impl \notin NamedImpls /\ q.method = "gptq" ->
            IF q.bits = 4 THEN RowParallelQLinearExllamav2
            ELSE RowParallelQLinearGPTQ
      [] q.impl \notin NamedImpls /\ q.method \in {"awq", "GEMM"} ->
            RowParallelQLinearAWQ
      [] OTHER -> Unsupported

Quantized(m) == m.kind \in {"column", "row"} /\ m.quant.method # ""

ClassOf(m) == IF m.kind = "column" THEN create_column_parallel_qlinear(m.quant)
              ELSE create_row_parallel_qlinear(m.quant)

\* Values packed in one word
PackFactor(q) == WordBits \div q.bits

PacksOutputs(m) == ClassOf(m).pack_dim = 1

GroupSize(m) == IF m.quant.group > 0 THEN m.quant.group ELSE m.ins

(***************************************************************************)
(* Construction: the CHECKs of the constructors and the parameters they    *)
(* register.                                                               *)
(***************************************************************************)
ConstructorFails(m, ws) ==
    \/ m.kind \in {"column", "parallel_embedding"} /\ Total(m.outs) % ws # 0
    \/ m.kind = "row" /\ m.ins % ws # 0
    \/ /\ Quantized(m)
       /\ \/ m.quant.bits \notin ClassOf(m).bits
          \/ /\ ClassOf(m).aligned
             /\ m.ins % MatmulAlign # 0 \/ Total(m.outs) % MatmulAlign # 0

Params(m) ==
    (IF Quantized(m) THEN {"qweight", "qzeros", "scales"} ELSE {"weight"})
        \cup (IF m.bias THEN {"bias"} ELSE {})

LocalIns(m, ws)  == IF m.kind = "row" THEN m.ins \div ws ELSE m.ins
LocalOuts(m, ws) == IF m.kind \in {"column", "parallel_embedding"}
                    THEN Total(m.outs) \div ws ELSE Total(m.outs)

ParamShape(m, p, ws) ==
    LET i == LocalIns(m, ws)
        o == LocalOuts(m, ws)
        pf == PackFactor(m.quant)
    IN CASE p = "bias" \/ m.kind = "norm" -> <<o>>
         [] p = "weight" /\ m.kind # "norm" ->
                IF m.kind \in {"column", "row"} THEN <<o, i>> ELSE <<i, o>>
         [] p = "qweight" -> IF PacksOutputs(m) THEN <<i, o \div pf>>
                             ELSE <<i \div pf, o>>
         [] p = "qzeros"  -> <<CeilDiv(i, GroupSize(m)), o \div pf>>
         [] p = "scales"  -> <<CeilDiv(i, GroupSize(m)), o>>

\* exllamav2: the scratch buffer its thread must hold, see allocate_temp_dq
TempDq(m) == IF Quantized(m) /\ ClassOf(m).scratch
             THEN m.ins * Total(m.outs) * 2 ELSE 0

(***************************************************************************)
(* load_state_dict.  A parameter is its tensor, the parts of a fused one   *)
(* that were seen so far, and its is_loaded_ flag.                         *)
(***************************************************************************)
Unloaded(m) == [tensor |-> Undefined, ok |-> FALSE,
                parts |-> [i \in DOMAIN m.names |-> Undefined]]

Whole == -1

\* The dimension a parameter is sharded along.
ShardDim(m, p) ==
    CASE m.kind \in {"embedding", "norm"}   -> Whole
      [] m.kind = "parallel_embedding"      -> 1
      [] m.kind = "row"    -> CASE p = "bias"   -> Whole
                                [] p = "weight" -> 1
                                [] OTHER        -> 0
      [] m.kind = "column" -> IF p \in {"weight", "bias"} THEN 0 ELSE 1

Selected(m, sd, i) == select_with_transform(sd, m.names[i], m.tf)

Fetched(m, sd, i, p, rank, ws) ==
    IF ShardDim(m, p) = Whole THEN get_tensor(Selected(m, sd, i), <<p>>)
    ELSE get_sharded_tensor(Selected(m, sd, i), <<p>>, ShardDim(m, p), rank, ws)

FetchFails(m, sd, i, p, rank, ws) ==
    /\ ShardDim(m, p) # Whole
    /\ ShardCheckFails(Selected(m, sd, i), <<p>>, ShardDim(m, p), rank, ws)

\* torch::cat of the parts along the dimension they are sharded along
Cat(parts, dim) ==
    [parts[1] EXCEPT ![dim + 1] =
        FlattenSeq([i \in DOMAIN parts |-> parts[i][dim + 1]])]

\* Faulty variant: the parts of one file are not kept for the next.
MergedFromOneFile(param, parts, dim) ==
    IF param.ok \/ \E i \in DOMAIN parts : parts[i] = Undefined THEN param
    ELSE [param EXCEPT !.tensor = Cat(parts, dim), !.ok = TRUE]

\* merge_weights: parts may come from different files; the last one to
\* arrive completes the parameter.
Merged(param, parts, dim) ==
    IF param.ok THEN param
    ELSE LET all == [i \in DOMAIN parts |->
                        IF param.parts[i] # Undefined THEN param.parts[i]
                        ELSE parts[i]]
         IN IF \A i \in DOMAIN all : all[i] # Undefined
            THEN [tensor |-> Cat(all, dim), ok |-> TRUE,
                  parts |-> [i \in DOMAIN all |-> Undefined]]
            ELSE [param EXCEPT !.parts = all]

MergeFails(param, parts) ==
    ~param.ok /\ \E i \in DOMAIN parts :
                    param.parts[i] # Undefined /\ parts[i] # Undefined

Loaded(m, sd, p, rank, ws, param) ==
    IF Len(m.names) > 1
    THEN Merged(param,
                [i \in DOMAIN m.names |-> Fetched(m, sd, i, p, rank, ws)],
                ShardDim(m, p))
    ELSE LET t == Fetched(m, sd, 1, p, rank, ws)
         IN IF t = Undefined THEN param
            ELSE [param EXCEPT !.tensor = Apply(m.after, t), !.ok = TRUE]

\* Quantized column layers refuse a tensor they already have; every layer
\* refuses one of another size; the quantized ones take no transform.
LoadFails(m, sd, p, rank, ws, param) ==
    LET got == [i \in DOMAIN m.names |-> Fetched(m, sd, i, p, rank, ws)]
        new == Loaded(m, sd, p, rank, ws, param)
    IN \/ \E i \in DOMAIN m.names : FetchFails(m, sd, i, p, rank, ws)
       \/ Quantized(m) /\ m.after # NoTransform
       \/ /\ Quantized(m) /\ m.kind = "column" /\ param.ok
          /\ Len(m.names) > 1 \/ p # "qzeros"
          /\ \E i \in DOMAIN got : got[i] # Undefined
       \/ Len(m.names) > 1 /\ MergeFails(param, got)
       \/ new # param /\ new.ok /\ Sizes(new.tensor) # ParamShape(m, p, ws)

(***************************************************************************)
(* The checkpoint a layer expects: row and column labels count through the *)
(* layer's whole, unsharded matrix.                                        *)
(***************************************************************************)
Labels(from, n) == [i \in 1..n |-> from + i]

CheckpointTensor(m, i, p) ==
    LET from == Total(SubSeq(m.outs, 1, i - 1))
        n    == IF Len(m.names) = 1 THEN Total(m.outs) ELSE m.outs[i]
        rows == Labels(from, n)
        pf   == PackFactor(m.quant)
        packs == Labels(from \div pf, n \div pf)
        groups == Upto(CeilDiv(m.ins, GroupSize(m)))
        stored == IF m.tf.kind = "t" THEN <<Upto(m.ins), rows>>
                  ELSE <<rows, Upto(m.ins)>>
    IN CASE p = "bias" \/ m.kind = "norm" -> <<rows>>
         [] p = "weight" /\ m.kind \in {"column", "row"} -> stored
         [] p = "weight" /\ m.kind \in {"embedding", "parallel_embedding"} ->
                <<Upto(m.ins), rows>>
         [] p = "qweight" -> IF PacksOutputs(m) THEN <<Upto(m.ins), packs>>
                             ELSE <<Upto(m.ins \div pf), rows>>
         [] p = "qzeros"  -> <<groups, packs>>
         [] p = "scales"  -> <<groups, rows>>

(***************************************************************************)
(* Weights.  The matrix a linear layer multiplies with: its row and column *)
(* labels.  Label 0 is a number that belongs to no entry of the checkpoint.*)
(***************************************************************************)
Unpacked(axis, pf) ==
    FlattenSeq([i \in DOMAIN axis |-> Labels((axis[i] - 1) * pf, pf)])

\* The group whose scale and zero the kernel uses for its i-th input: g_idx
\* of the GPTQ kernels, in_features / n_groups of the others.
GroupUsed(m, i, n, groups) ==
    IF ClassOf(m).g_idx THEN (i - 1) \div GroupSize(m) + 1
    ELSE (i - 1) \div (n \div groups) + 1

Dequantized(m, par) ==
    LET pf == PackFactor(m.quant)
        w  == par["qweight"].tensor
        s  == par["scales"].tensor
        z  == par["qzeros"].tensor
        cols == IF PacksOutputs(m) THEN w[1] ELSE Unpacked(w[1], pf)
        rows == IF PacksOutputs(m) THEN Unpacked(w[2], pf) ELSE w[2]
        GroupOK(i) ==
            LET g == GroupUsed(m, i, Len(cols), Len(s[1]))
                own == (cols[i] - 1) \div GroupSize(m) + 1
            IN g \in DOMAIN s[1] /\ s[1][g] = own /\ z[1][g] = own
    IN << [j \in DOMAIN rows |->
              IF s[2][j] = rows[j] /\ Unpacked(z[2], pf)[j] = rows[j]
              THEN rows[j] ELSE 0],
          [i \in DOMAIN cols |-> IF GroupOK(i) THEN cols[i] ELSE 0] >>

Weights(m, par) ==
    IF Quantized(m) THEN Dequantized(m, par) ELSE par["weight"].tensor

\* construct_weights knows fewer widths than its constructors accept.
MatmulFails(m) == Quantized(m) /\ m.quant.bits \notin ClassOf(m).matmul

(***************************************************************************)
(* Values.  A feature of the network is <<k, part, idx>>: what entry idx   *)
(* of the given part of instruction k is in the network run on one device. *)
(***************************************************************************)
Wrong == <<0, 0, 0>>

\* Part and index of row r of a layer's matrix.
Feature(m, r) ==
    IF m.heads > 0
    THEN <<(((r - 1) \div m.heads) % 3) + 1,
           ((r - 1) \div (3 * m.heads)) * m.heads + ((r - 1) % m.heads) + 1>>
    ELSE LET part == CHOOSE i \in DOMAIN m.outs :
                        /\ Total(SubSeq(m.outs, 1, i - 1)) < r
                        /\ r <= Total(SubSeq(m.outs, 1, i))
         IN <<part, r - Total(SubSeq(m.outs, 1, part - 1))>>

\* The whole of an argument, in order
Proper(x, arg, cols) ==
    /\ Len(x) = Len(cols)
    /\ \A i \in DOMAIN x : x[i] = <<arg.reg, arg.part, cols[i]>>

\* F::linear with the rows of a column parallel layer
ColumnOut(k, m, par, x, arg) ==
    LET w == Weights(m, par) IN
    [j \in DOMAIN w[1] |->
        IF /\ w[2] = Upto(m.ins) /\ w[1][j] # 0
           /\ Proper(x, arg, w[2])
           /\ m.bias => par["bias"].tensor[1][j] = w[1][j]
        THEN <<k>> \o Feature(m, w[1][j]) ELSE Wrong]

\* The partial sums of a row parallel layer: rows, and the columns summed.
RowPartial(m, par, x, arg) ==
    LET w == Weights(m, par)
    IN [rows |-> w[1], cols |-> IF Proper(x, arg, w[2]) THEN w[2]
                                ELSE [i \in DOMAIN w[2] |-> 0]]

\* allreduce: every column exactly once; the bias is added afterwards.
RowOut(k, m, par, partials) ==
    LET cols == FlattenSeq([r \in DOMAIN partials |-> partials[r].cols])
        rows == partials[1].rows
    IN [j \in DOMAIN rows |->
           IF /\ Len(cols) = m.ins /\ ToSet(cols) = 1..m.ins /\ rows[j] # 0
              /\ \A r \in DOMAIN partials : partials[r].rows = rows
              /\ m.bias => par["bias"].tensor[1][j] = rows[j]
           THEN <<k, 1, rows[j]>> ELSE Wrong]

EmbeddingOut(k, m, par) ==
    LET t == par["weight"].tensor
    IN [j \in DOMAIN t[2] |->
           IF t[1] = Upto(m.ins) /\ t[2][j] # 0 THEN <<k, 1, t[2][j]>> ELSE Wrong]

\* LayerNorm and RMSNorm need the whole vector.
NormOut(k, m, par, x, arg) ==
    LET whole == Upto(Len(x)) IN
    [j \in DOMAIN x |->
        IF /\ Proper(x, arg, whole)
           /\ \A p \in Params(m) : par[p].tensor = <<whole>>
        THEN <<k, 1, j>> ELSE Wrong]

\* Activations, products and residual sums act feature by feature.
PointwiseOut(k, xs, args) ==
    [j \in DOMAIN xs[1] |->
        IF \A i \in DOMAIN xs : xs[i][j] = <<args[i].reg, args[i].part, xs[1][j][3]>>
        THEN <<k, 1, xs[1][j][3]>> ELSE Wrong]

(***************************************************************************)
(* Attention.  a.n and a.kv are the heads of one rank, a.heads and         *)
(* a.kv_heads those of the model, a.slopes the ALiBi slopes of all heads   *)
(* (none: rotary embedding).                                               *)
(***************************************************************************)
\* Local head h holds global head g of an argument.
HoldsHead(x, arg, d, h, g) ==
    \A y \in 1..d : x[h * d + y] = <<arg.reg, arg.part, g * d + y>>

\* prepare_kv_head_mapping: consecutive heads share a key-value head
KVHead(h, n, kv) == h \div (n \div kv)

\* cached is the set of <<key, value>> pairs attended to.
AttentionOut(k, a, rank, ws, q, cached, args) ==
    LET slopes == Piece(a.slopes, ws, rank)
        Right(h, g) ==
            /\ HoldsHead(q, args[1], a.d, h, g)
            /\ \A kv \in cached : \A i \in {1, 2} :
                   HoldsHead(kv[i], args[i + 1], a.d, KVHead(h, a.n, a.kv),
                             KVHead(g, a.heads, a.kv_heads))
            /\ a.slopes # <<>> => slopes[h + 1] = a.slopes[g + 1]
    IN [j \in 1..Len(q) |->
           IF Right((j - 1) \div a.d, (q[j][3] - 1) \div a.d)
           THEN <<k, 1, q[j][3]>> ELSE Wrong]

\* The CHECKs of the attention constructors.
AttentionFails(a, rank, ws) ==
    \/ a.kv = 0 \/ a.n % a.kv # 0
    \/ a.slopes # <<>> /\ Len(Piece(a.slopes, ws, rank)) # a.n

(***************************************************************************)
(* One instruction of a model's forward, on one rank.  An argument names   *)
(* the instruction it comes from and, when that one's output is split,     *)
(* the local sizes of the parts.                                           *)
(***************************************************************************)
ArgValue(env, a) ==
    IF a.split = <<>> THEN env[a.reg]
    ELSE LET from == Total(SubSeq(a.split, 1, a.part - 1))
         IN SubSeq(env[a.reg], from + 1, from + a.split[a.part])

ArgFails(env, a) == a.split # <<>> /\ Total(a.split) # Len(env[a.reg])

\* embeddings and gathered columns end in an allgather, rows in an allreduce
Collective(inst, ws) ==
    IF ws = 1 THEN "none"
    ELSE CASE inst.op = "row" -> "allreduce"
           [] inst.op = "embed" /\ inst.mod.kind = "parallel_embedding"
                -> "allgather"
           [] inst.op = "column" /\ inst.mod.gather -> "allgather"
           [] OTHER -> "none"

ForwardFails(inst, env, temp_dq, ws) ==
    \/ \E i \in DOMAIN inst.args : ArgFails(env, inst.args[i])
    \/ LET xs == [i \in DOMAIN inst.args |-> ArgValue(env, inst.args[i])]
       IN CASE inst.op \in {"column", "row"} ->
                 \/ Len(xs[1]) # LocalIns(inst.mod, ws)
                 \/ MatmulFails(inst.mod)
                 \/ TempDq(inst.mod) > temp_dq
            [] inst.op = "norm" -> Len(xs[1]) # Total(inst.mod.outs)
            [] inst.op = "pointwise" ->
                 \E i \in DOMAIN xs : Len(xs[i]) # Len(xs[1])
            [] inst.op = "attention" ->
                 \/ Len(xs[1]) # inst.attn.n * inst.attn.d
                 \/ \E i \in {2, 3} : Len(xs[i]) # inst.attn.kv * inst.attn.d
            [] OTHER -> FALSE

\* What the rank computes by itself; cached is used by attention only.
LocalOut(k, inst, par, rank, ws, env, cached) ==
    LET xs == [i \in DOMAIN inst.args |-> ArgValue(env, inst.args[i])]
        m  == inst.mod
    IN CASE inst.op = "embed"     -> EmbeddingOut(k, m, par)
         [] inst.op = "norm"      -> NormOut(k, m, par, xs[1], inst.args[1])
         [] inst.op = "column"    -> ColumnOut(k, m, par, xs[1], inst.args[1])
         [] inst.op = "row"       -> RowPartial(m, par, xs[1], inst.args[1])
         [] inst.op = "pointwise" -> PointwiseOut(k, xs, inst.args)
         [] inst.op = "attention" ->
                AttentionOut(k, inst.attn, rank, ws, xs[1], cached, inst.args)

\* The result of an instruction from what every rank in it computed.
Combined(k, inst, par, outs) ==
    IF inst.op = "row" THEN RowOut(k, inst.mod, par, outs) ELSE FlattenSeq(outs)
=============================================================================
