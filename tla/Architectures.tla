--------------------------- MODULE Architectures ---------------------------
(***************************************************************************)
(* The models of models/llama.h and models/huggingface/.  A class is an    *)
(* operator that returns the instructions of its forward, in order; the    *)
(* layers the class registers are the ones its instructions carry, with    *)
(* the checkpoint names its load_state_dict selects.                       *)
(*                                                                         *)
(* Instructions are numbered from 1 through the whole model and write the  *)
(* register of their number.  An operator for a class takes the model's    *)
(* configuration c, the prefix P of its names and the number k of its      *)
(* first instruction; its input is register x, or k - 1 when it takes no   *)
(* x.  Its output is the register of its last instruction.                 *)
(***************************************************************************)
EXTENDS Layers

Hidden(c) == c.heads * c.d

(***************************************************************************)
(* Arguments and single instructions                                       *)
(***************************************************************************)
Reg(r) == [reg |-> r, part |-> 1, split |-> <<>>]

\* The parts of register r: tensor.split(sizes)
Split(r, sizes) ==
    [i \in DOMAIN sizes |-> [reg |-> r, part |-> i, split |-> sizes]]

\* n equal parts of a local vector that is total / ws long: tensor.chunk(n)
Chunks(c, r, n, total) ==
    Split(r, [i \in 1..n |-> (total \div c.ws) \div n])

Layer(kind, names, ins, outs, bias, quant) ==
    [kind |-> kind, names |-> names, ins |-> ins, outs |-> outs, bias |-> bias,
     gather |-> FALSE, quant |-> quant, tf |-> NoTransform,
     after |-> NoTransform, heads |-> 0]

Op(op, args, mod) == [op |-> op, args |-> args, mod |-> mod]

Column(c, names, ins, outs, bias, x) ==
    Op("column", <<Reg(x)>>, Layer("column", names, ins, outs, bias, c.quant))

Row(c, name, ins, outs, bias, x) ==
    Op("row", <<Reg(x)>>, Layer("row", <<name>>, ins, <<outs>>, bias, c.quant))

RMSNorm(c, name, x) ==
    Op("norm", <<Reg(x)>>,
       Layer("norm", <<name>>, Hidden(c), <<Hidden(c)>>, FALSE, NoQuant))

LayerNorm(c, name, bias, x) ==
    Op("norm", <<Reg(x)>>,
       Layer("norm", <<name>>, Hidden(c), <<Hidden(c)>>, bias, NoQuant))

LayerNormWithBias(c, name, x) == LayerNorm(c, name, TRUE, x)

Embedding(c, name, rows) ==
    Op("embed", <<>>,
       Layer("embedding", <<name>>, rows, <<Hidden(c)>>, FALSE, NoQuant))

ParallelEmbedding(c, name) ==
    Op("embed", <<>>,
       Layer("parallel_embedding", <<name>>, c.vocab, <<Hidden(c)>>, FALSE, NoQuant))

\* The head of every model: gathered and never quantized
LMHead(c, name, bias, x) ==
    Op("column", <<Reg(x)>>,
       [Layer("column", <<name>>, Hidden(c), <<c.vocab>>, bias, NoQuant)
            EXCEPT !.gather = TRUE])

Elementwise(args) == Op("pointwise", args, <<>>)
Add(x, y) == Elementwise(<<Reg(x), Reg(y)>>)

\* The attention of layer i, which uses kv_caches[i]
Attention(c, i, kv_heads, args) ==
    [op |-> "attention", args |-> args, mod |-> <<>>, layer |-> i,
     attn |-> [n |-> c.heads \div c.ws, kv |-> kv_heads \div c.ws, d |-> c.d,
               heads |-> c.heads, kv_heads |-> kv_heads, slopes |-> <<>>]]

\* q and k are rotated head by head, which moves nothing between features.
AttentionWithRoPE(c, i, kv_heads, args) == Attention(c, i, kv_heads, args)

AttentionWithAlibi(c, i, slopes, args) ==
    [Attention(c, i, c.heads, args) EXCEPT !.attn.slopes = slopes]

(***************************************************************************)
(* Shapes the classes share                                                *)
(***************************************************************************)
\* down(act(gate(x)) * up(x)), gate and up fused in one column layer
GatedMLP(c, P, gate, up, down, x, k) ==
    << Column(c, <<P \o gate, P \o up>>, Hidden(c), <<c.inter, c.inter>>, FALSE, x),
       Elementwise(Chunks(c, k, 2, 2 * c.inter)),
       Row(c, P \o down, c.inter, Hidden(c), FALSE, k + 1) >>

\* down(act(up(x)))
PlainMLP(c, P, up, down, bias, x, k) ==
    << Column(c, <<P \o up>>, Hidden(c), <<c.inter>>, bias, x),
       Elementwise(<<Reg(k)>>),
       Row(c, P \o down, c.inter, Hidden(c), bias, k + 1) >>

\* q, k and v projections fused in one column layer, grouped key-value heads
GroupedAttention(c, P, names, out, i, k) ==
    LET q  == Hidden(c)
        kv == c.kv * c.d
        l  == c.d * (c.kv \div c.ws)
    IN << Column(c, [j \in 1..3 |-> P \o names[j]], q, <<q, kv, kv>>, FALSE, k - 1),
          AttentionWithRoPE(c, i, c.kv, Split(k, <<c.d * (c.heads \div c.ws), l, l>>)),
          Row(c, P \o out, q, q, FALSE, k + 1) >>

\* The same with as many key-value heads as heads: 3 * hidden, chunk(3)
FusedAttention(c, P, names, out, i, k) ==
    LET h == Hidden(c) IN
    << Column(c, [j \in 1..3 |-> P \o names[j]], h, <<h, h, h>>, FALSE, k - 1),
       AttentionWithRoPE(c, i, c.heads, Chunks(c, k, 3, 3 * h)),
       Row(c, P \o out, h, h, FALSE, k + 1) >>

\* One checkpoint tensor holds q, k and v.
PackedQKV(c, name, bias) ==
    LET h == Hidden(c) IN Column(c, <<name>>, h, <<3 * h>>, bias, 0).mod

\* Rows of the packed tensor ordered [n_heads, 3, d] (rather than
\* [3, n_heads, d])
ByHeads(c, mod)  == [mod EXCEPT !.heads = c.d]
ByParts(c, mod)  == [mod EXCEPT !.outs = <<Hidden(c), Hidden(c), Hidden(c)>>]

\* x + attn(norm1(x)), then h + mlp(norm2(h))
SequentialLayer(c, P, Attn(_, _, _, _), MLP(_, _, _, _), Norm(_, _, _),
                attn, mlp, norm1, norm2, i, k) ==
    LET a  == Attn(c, P \o attn, i, k + 1)
        ka == k + 1 + Len(a)                  \* the register of h
        m  == MLP(c, P \o mlp, ka + 1, ka + 2)
    IN <<Norm(c, P \o norm1, k - 1)>> \o a \o <<Add(k - 1, ka - 1)>>
       \o <<Norm(c, P \o norm2, ka)>> \o m
       \o <<Add(ka, ka + 1 + Len(m))>>

Digits == <<"0", "1", "2", "3">>

\* for (i = 0; i < layers_.size(); i++) h = layers_[i](h, kv_caches[i])
Stack(c, P, DecoderLayer(_, _, _, _), k) ==
    LET n == Len(DecoderLayer(c, P, 0, k))
    IN FlattenSeq([i \in 1..c.layers |->
           DecoderLayer(c, P \o <<Digits[i]>>, i, k + (i - 1) * n)])

\* Append the instruction that reads the last register.
Then(prog, Next1(_)) == Append(prog, Next1(Len(prog)))

\* Embedding, layers and final norm of the models with llama's names
LlamaShaped(c, P, embed, DecoderLayer(_, _, _, _)) ==
    Then(<<ParallelEmbedding(c, P \o embed)>> \o Stack(c, P \o <<"layers">>, DecoderLayer, 2),
         LAMBDA x : RMSNorm(c, P \o <<"norm">>, x))

WithHead(c, name, model) == Then(model, LAMBDA x : LMHead(c, name, FALSE, x))

QKVProj == << <<"q_proj">>, <<"k_proj">>, <<"v_proj">> >>

(***************************************************************************)
(* llama.h, aquila.h and mistral.h of models/huggingface                   *)
(***************************************************************************)
LlamaMLP(c, P, x, k) ==
    GatedMLP(c, P, <<"gate_proj">>, <<"up_proj">>, <<"down_proj">>, x, k)
LlamaAttention(c, P, i, k) == GroupedAttention(c, P, QKVProj, <<"o_proj">>, i, k)
LlamaDecoderLayer(c, P, i, k) ==
    SequentialLayer(c, P, LlamaAttention, LlamaMLP, RMSNorm, <<"self_attn">>,
        <<"mlp">>, <<"input_layernorm">>, <<"post_attention_layernorm">>, i, k)
LlamaModel(c, P) == LlamaShaped(c, P, <<"embed_tokens">>, LlamaDecoderLayer)
LlamaForCausalLM(c) == WithHead(c, <<"lm_head">>, LlamaModel(c, <<"model">>))

AquilaMLP(c, P, x, k) ==
    GatedMLP(c, P, <<"gate_proj">>, <<"up_proj">>, <<"down_proj">>, x, k)
AquilaAttention(c, P, i, k) == GroupedAttention(c, P, QKVProj, <<"o_proj">>, i, k)
AquilaDecoderLayer(c, P, i, k) ==
    SequentialLayer(c, P, AquilaAttention, AquilaMLP, RMSNorm, <<"self_attn">>,
        <<"mlp">>, <<"input_layernorm">>, <<"post_attention_layernorm">>, i, k)
AquilaModel(c, P) == LlamaShaped(c, P, <<"embed_tokens">>, AquilaDecoderLayer)
AquilaForCausalLM(c) == WithHead(c, <<"lm_head">>, AquilaModel(c, <<"model">>))

MistralMLP(c, P, x, k) ==
    GatedMLP(c, P, <<"gate_proj">>, <<"up_proj">>, <<"down_proj">>, x, k)
MistralAttention(c, P, i, k) == GroupedAttention(c, P, QKVProj, <<"o_proj">>, i, k)
MistralDecoderLayer(c, P, i, k) ==
    SequentialLayer(c, P, MistralAttention, MistralMLP, RMSNorm, <<"self_attn">>,
        <<"mlp">>, <<"input_layernorm">>, <<"post_attention_layernorm">>, i, k)
MistralModel(c, P) == LlamaShaped(c, P, <<"embed_tokens">>, MistralDecoderLayer)
MistralForCausalLM(c) == WithHead(c, <<"lm_head">>, MistralModel(c, <<"model">>))

(***************************************************************************)
(* internlm.h has no grouped heads, yi.h other names for the norms.        *)
(***************************************************************************)
InternlmMLP(c, P, x, k) ==
    GatedMLP(c, P, <<"gate_proj">>, <<"up_proj">>, <<"down_proj">>, x, k)
InternlmAttention(c, P, i, k) == FusedAttention(c, P, QKVProj, <<"o_proj">>, i, k)
InternlmDecoderLayer(c, P, i, k) ==
    SequentialLayer(c, P, InternlmAttention, InternlmMLP, RMSNorm, <<"self_attn">>,
        <<"mlp">>, <<"input_layernorm">>, <<"post_attention_layernorm">>, i, k)
InternlmModel(c, P) == LlamaShaped(c, P, <<"embed_tokens">>, InternlmDecoderLayer)
InternlmForCausalLM(c) == WithHead(c, <<"lm_head">>, InternlmModel(c, <<"model">>))

YiMLP(c, P, x, k) ==
    GatedMLP(c, P, <<"gate_proj">>, <<"up_proj">>, <<"down_proj">>, x, k)
YiAttention(c, P, i, k) == GroupedAttention(c, P, QKVProj, <<"o_proj">>, i, k)
YiDecoderLayer(c, P, i, k) ==
    SequentialLayer(c, P, YiAttention, YiMLP, RMSNorm, <<"self_attn">>,
        <<"mlp">>, <<"ln1">>, <<"ln2">>, i, k)
YiModel(c, P) == LlamaShaped(c, P, <<"embed_tokens">>, YiDecoderLayer)
YiForCausalLM(c) == WithHead(c, <<"lm_head">>, YiModel(c, <<"model">>))

(***************************************************************************)
(* models/llama.h: Meta's own checkpoints                                  *)
(***************************************************************************)
LlamaFeedForward(c, P, x, k) == GatedMLP(c, P, <<"w1">>, <<"w3">>, <<"w2">>, x, k)
Llama2Attention(c, P, i, k) ==
    GroupedAttention(c, P, << <<"wq">>, <<"wk">>, <<"wv">> >>, <<"wo">>, i, k)
LlamaTransformerBlock(c, P, i, k) ==
    SequentialLayer(c, P, Llama2Attention, LlamaFeedForward, RMSNorm, <<"attention">>,
        <<"feed_forward">>, <<"attention_norm">>, <<"ffn_norm">>, i, k)
LlamaTransformer(c, P) ==
    LlamaShaped(c, P, <<"tok_embeddings">>, LlamaTransformerBlock)
Llama2ForCausalLM(c) == WithHead(c, <<"output">>, LlamaTransformer(c, <<>>))

(***************************************************************************)
(* gpt_j.h: one norm, attention and MLP both read it                       *)
(***************************************************************************)
GPTJMLP(c, P, x, k) == PlainMLP(c, P, <<"fc_in">>, <<"fc_out">>, TRUE, x, k)
GPTJAttention(c, P, i, k) == FusedAttention(c, P, QKVProj, <<"out_proj">>, i, k)
GPTJBlock(c, P, i, k) ==
    LET a == GPTJAttention(c, P \o <<"attn">>, i, k + 1)
        m == GPTJMLP(c, P \o <<"mlp">>, k, k + 1 + Len(a))
    IN <<LayerNorm(c, P \o <<"ln_1">>, TRUE, k - 1)>> \o a \o m
       \o <<Elementwise(<<Reg(k - 1), Reg(k + Len(a)), Reg(k + Len(a) + Len(m))>>)>>
GPTJModel(c, P) ==
    Then(<<ParallelEmbedding(c, P \o <<"wte">>)>> \o Stack(c, P \o <<"h">>, GPTJBlock, 2),
         LAMBDA x : LayerNorm(c, P \o <<"ln_f">>, TRUE, x))
GPTJForCausalLM(c) ==
    Then(GPTJModel(c, <<"transformer">>), LAMBDA x : LMHead(c, <<"lm_head">>, TRUE, x))

(***************************************************************************)
(* gpt_neox.h: q, k and v packed by head, optional parallel residual       *)
(***************************************************************************)
\* column(x), attention, row of a packed q, k and v
PackedAttention(c, mod, Attn(_, _), out, i, k) ==
    << Op("column", <<Reg(k - 1)>>, mod),
       Attn(i, Chunks(c, k, 3, 3 * Hidden(c))),
       Row(c, out, Hidden(c), Hidden(c), mod.bias, k + 1) >>

\* Faulty variant: the slice keeps the order of the checkpoint.
KeepHeadOrder(c, mod) == ByHeads(c, mod)

\* Sharded by head, then the slice is put in the order [3, n_heads, d].
\* GPTNeoXAttention::reshape_qkv_tensor, BloomAttention::reshape_qkv_tensor
reshape_qkv_tensor(c, mod) == [ByHeads(c, mod) EXCEPT !.after = PartsFirst(c.d)]

GPTNeoXMLP(c, P, x, k) ==
    PlainMLP(c, P, <<"dense_h_to_4h">>, <<"dense_4h_to_h">>, TRUE, x, k)
GPTNeoXAttention(c, P, i, k) ==
    PackedAttention(c, reshape_qkv_tensor(c, PackedQKV(c, P \o <<"query_key_value">>, TRUE)),
                    LAMBDA l, args : AttentionWithRoPE(c, l, c.heads, args),
                    P \o <<"dense">>, i, k)
GPTNeoXLayer(c, P, i, k) ==
    IF c.parallel_residual
    THEN LET a  == GPTNeoXAttention(c, P \o <<"attention">>, i, k + 1)
             ka == k + 1 + Len(a)
             m  == GPTNeoXMLP(c, P \o <<"mlp">>, ka, ka + 1)
         IN <<LayerNorm(c, P \o <<"input_layernorm">>, TRUE, k - 1)>> \o a
            \o <<LayerNorm(c, P \o <<"post_attention_layernorm">>, TRUE, k - 1)>> \o m
            \o <<Elementwise(<<Reg(k - 1), Reg(ka - 1), Reg(ka + Len(m))>>)>>
    ELSE SequentialLayer(c, P, GPTNeoXAttention, GPTNeoXMLP, LayerNormWithBias,
             <<"attention">>, <<"mlp">>, <<"input_layernorm">>,
             <<"post_attention_layernorm">>, i, k)
GPTNeoXModel(c, P) ==
    Then(<<ParallelEmbedding(c, P \o <<"embed_in">>)>>
            \o Stack(c, P \o <<"layers">>, GPTNeoXLayer, 2),
         LAMBDA x : LayerNorm(c, P \o <<"final_layer_norm">>, TRUE, x))
GPTNeoXForCausalLM(c) == WithHead(c, <<"embed_out">>, GPTNeoXModel(c, <<"gpt_neox">>))

(***************************************************************************)
(* bloom.h: as GPT-NeoX with ALiBi; the residual may be taken after the    *)
(* norm; the head is the embedding                                         *)
(***************************************************************************)
PowersOf2 == {1, 2, 4, 8, 16, 32, 64, 128}

\* A slope is the negated exponent of 2, in units of 8 / (2 * closest).
BloomSlopes(n) ==
    LET closest == Max({p \in PowersOf2 : p <= n})
    IN [i \in 1..closest |-> 2 * i]
       \o [j \in 1..Min({closest, n - closest}) |-> 2 * j - 1]

BloomMLP(c, P, x, k) ==
    PlainMLP(c, P, <<"dense_h_to_4h">>, <<"dense_4h_to_h">>, TRUE, x, k)
BloomAttention(c, P, i, k) ==
    PackedAttention(c, reshape_qkv_tensor(c, PackedQKV(c, P \o <<"query_key_value">>, TRUE)),
                    LAMBDA l, args : AttentionWithAlibi(c, l, BloomSlopes(c.heads), args),
                    P \o <<"dense">>, i, k)
BloomBlock(c, P, i, k) ==
    LET a  == BloomAttention(c, P \o <<"self_attention">>, i, k + 1)
        ka == k + 1 + Len(a)
        m  == BloomMLP(c, P \o <<"mlp">>, ka + 1, ka + 2)
        Residual(x, ln) == IF c.residual_post_layernorm THEN ln ELSE x
    IN <<LayerNorm(c, P \o <<"input_layernorm">>, TRUE, k - 1)>> \o a
       \o <<Add(ka - 1, Residual(k - 1, k)),
            LayerNorm(c, P \o <<"post_attention_layernorm">>, TRUE, ka)>> \o m
       \o <<Add(ka + 1 + Len(m), Residual(ka, ka + 1))>>
BloomModel(c) ==
    Then(<<ParallelEmbedding(c, <<"word_embeddings">>),
           LayerNorm(c, <<"word_embeddings_layernorm">>, TRUE, 1)>>
            \o Stack(c, <<"h">>, BloomBlock, 3),
         LAMBDA x : LayerNorm(c, <<"ln_f">>, TRUE, x))
BloomForCausalLM(c) == WithHead(c, <<"word_embeddings">>, BloomModel(c))

(***************************************************************************)
(* gpt2.h: transposed weights, position embedding; the head is wte         *)
(***************************************************************************)
Conv1D(inst) == [inst EXCEPT !.mod.tf = Transpose]

GPT2MLP(c, P, x, k) ==
    LET m == PlainMLP(c, P, <<"c_fc">>, <<"c_proj">>, TRUE, x, k)
    IN <<Conv1D(m[1]), m[2], Conv1D(m[3])>>
GPT2Attention(c, P, i, k) ==
    LET a == PackedAttention(c, ByParts(c, PackedQKV(c, P \o <<"c_attn">>, TRUE)),
                             LAMBDA l, args : Attention(c, l, c.heads, args),
                             P \o <<"c_proj">>, i, k)
    IN <<Conv1D(a[1]), a[2], Conv1D(a[3])>>
GPT2Block(c, P, i, k) ==
    SequentialLayer(c, P, GPT2Attention, GPT2MLP, LayerNormWithBias, <<"attn">>,
        <<"mlp">>, <<"ln_1">>, <<"ln_2">>, i, k)
GPT2Model(c) ==
    Then(<<ParallelEmbedding(c, <<"wte">>), Embedding(c, <<"wpe">>, c.positions),
           Add(1, 2)>> \o Stack(c, <<"h">>, GPT2Block, 4),
         LAMBDA x : LayerNorm(c, <<"ln_f">>, TRUE, x))
GPT2ForCausalLM(c) == WithHead(c, <<"wte">>, GPT2Model(c))

(***************************************************************************)
(* mpt.h: q, k and v packed in parts, reordered by head before sharding    *)
(* and back after; ALiBi; optional norms of q and k                        *)
(***************************************************************************)
\* A slope is the negated exponent of 2, in units of bias_max / next.
MPTSlopes(n) ==
    LET next == Min({p \in PowersOf2 : p >= n})
    IN IF next = n THEN Upto(n)
       ELSE [i \in 1..(next \div 2) |-> 2 * i] \o [i \in 1..(next \div 2) |-> 2 * i - 1]

\* reshape_qkv_before_sharding, reshape_qkv_after_sharding
MPTWqkv(c, name) ==
    [ByParts(c, PackedQKV(c, name, ~c.no_bias))
        EXCEPT !.tf = HeadsFirst(c.d), !.after = PartsFirst(c.d)]

MPTMLP(c, P, x, k) == PlainMLP(c, P, <<"up_proj">>, <<"down_proj">>, ~c.no_bias, x, k)

\* q_ln and k_ln are layer norms over the whole hidden size.
MPTAttention(c, P, i, k) ==
    LET a == PackedAttention(c, MPTWqkv(c, P \o <<"Wqkv">>),
                             LAMBDA l, args : AttentionWithAlibi(c, l, MPTSlopes(c.heads), args),
                             P \o <<"out_proj">>, i, k)
        qkv == a[2].args
        QKNorm(n) == [LayerNorm(c, P \o <<IF n = 1 THEN "q_ln" ELSE "k_ln">>, ~c.no_bias, 0)
                        EXCEPT !.args = <<qkv[n]>>]
    IN IF c.qk_ln
       THEN <<a[1], QKNorm(1), QKNorm(2),
              [a[2] EXCEPT !.args = <<Reg(k + 1), Reg(k + 2), qkv[3]>>],
              [a[3] EXCEPT !.args = <<Reg(k + 3)>>]>>
       ELSE a
MPTBlock(c, P, i, k) ==
    SequentialLayer(c, P, MPTAttention, MPTMLP,
        LAMBDA cc, name, x : LayerNorm(cc, name, ~c.no_bias, x), <<"attn">>,
        <<"ffn">>, <<"norm_1">>, <<"norm_2">>, i, k)
MPTModel(c, P) ==
    Then(<<ParallelEmbedding(c, P \o <<"wte">>)>> \o Stack(c, P \o <<"blocks">>, MPTBlock, 2),
         LAMBDA x : LayerNorm(c, P \o <<"norm_f">>, ~c.no_bias, x))
MPTForCausalLM(c) ==
    Then(MPTModel(c, <<"transformer">>),
         LAMBDA x : LMHead(c, <<"transformer", "wte">>, ~c.no_bias, x))

(***************************************************************************)
(* CausalLM::create: the factory registered for the model type.  A type    *)
(* without one gives no model.                                             *)
(***************************************************************************)
Registered == {"llama", "aquila", "mistral", "internlm", "Yi", "llama2", "gptj",
               "gpt_neox", "bloom", "gpt2", "mpt"}

Program(c) ==
    CASE c.model_type = "llama"    -> LlamaForCausalLM(c)
      [] c.model_type = "aquila"   -> AquilaForCausalLM(c)
      [] c.model_type = "mistral"  -> MistralForCausalLM(c)
      [] c.model_type = "internlm" -> InternlmForCausalLM(c)
      [] c.model_type = "Yi"       -> YiForCausalLM(c)
      [] c.model_type = "llama2"   -> Llama2ForCausalLM(c)
      [] c.model_type = "gptj"     -> GPTJForCausalLM(c)
      [] c.model_type = "gpt_neox" -> GPTNeoXForCausalLM(c)
      [] c.model_type = "bloom"    -> BloomForCausalLM(c)
      [] c.model_type = "gpt2"     -> GPT2ForCausalLM(c)
      [] c.model_type = "mpt"      -> MPTForCausalLM(c)

\* The instructions of a program that carry a layer
LayersOf(prog) == {k \in DOMAIN prog : prog[k].op \in {"embed", "norm", "column", "row"}}
=============================================================================
