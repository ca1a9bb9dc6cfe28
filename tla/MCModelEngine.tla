--------------------------- MODULE MCModelEngine ---------------------------
(* Small models of every architecture, on one and on two devices.          *)
EXTENDS ModelEngine

Base == [model_type |-> "llama", ws |-> 1, heads |-> 4, kv |-> 4, d |-> 2,
         inter |-> 4, vocab |-> 4, layers |-> 2, quant |-> NoQuant,
         no_bias |-> TRUE, qk_ln |-> FALSE, residual_post_layernorm |-> FALSE,
         parallel_residual |-> FALSE, positions |-> 2, shards |-> 0,
         cuda |-> TRUE, free |-> <<90, 90, 90, 90>>, reserve |-> 10, cap |-> 0]

On(ws, cs) == {[c EXCEPT !.ws = ws] : c \in cs}

\* Four heads sharing two key-value heads
Grouped == {[Base EXCEPT !.model_type = t, !.kv = 2] :
                t \in {"llama", "aquila", "mistral", "Yi"}}

\* The options of the other architectures
Others == {[Base EXCEPT !.model_type = t] : t \in {"internlm", "gptj", "mpt"}}
    \cup {[Base EXCEPT !.model_type = "gpt_neox", !.parallel_residual = b] : b \in BOOLEAN}
    \cup {[Base EXCEPT !.model_type = "bloom", !.residual_post_layernorm = b] : b \in BOOLEAN}

\* Meta's llama in one or two shards
Sharded == {[Base EXCEPT !.model_type = "llama2", !.kv = 2, !.ws = 1, !.shards = 1],
            [Base EXCEPT !.model_type = "llama2", !.kv = 2, !.ws = 2, !.shards = 1],
            [Base EXCEPT !.model_type = "llama2", !.kv = 2, !.ws = 2, !.shards = 2],
            [Base EXCEPT !.model_type = "llama2", !.vocab = 8, !.inter = 8,
                         !.ws = 4, !.shards = 2, !.layers = 1]}

\* Numbers of heads that are no power of two, and norms of q and k
Odd == {[Base EXCEPT !.model_type = "bloom", !.heads = 3, !.kv = 3, !.layers = 1],
        [Base EXCEPT !.model_type = "bloom", !.heads = 6, !.kv = 6, !.layers = 1, !.ws = 2],
        [Base EXCEPT !.model_type = "mpt", !.qk_ln = TRUE, !.layers = 1],
        [Base EXCEPT !.model_type = "gpt2"]}

Quants == {[method |-> "gptq", bits |-> 4, group |-> g, impl |-> i] :
               g \in {2, -1}, i \in {"auto", "slow", "cuda", "exllama"}}
    \cup {[method |-> "gptq", bits |-> 8, group |-> 2, impl |-> "auto"],
          [method |-> "awq",  bits |-> 4, group |-> 2, impl |-> "auto"]}

Quantized4 == {[Base EXCEPT !.quant = q, !.inter = 8, !.layers = 1] : q \in Quants}
    \cup {[Base EXCEPT !.model_type = "gptj", !.quant = q, !.inter = 8, !.layers = 1] :
              q \in {x \in Quants : x.impl = "auto"}}

\* Sizes two devices do not divide, and a type no factory is registered for
Refused == {[Base EXCEPT !.ws = 2, !.layers = 1, !.kv = 1],
            [Base EXCEPT !.ws = 2, !.layers = 1, !.heads = 3, !.kv = 3],
            [Base EXCEPT !.ws = 2, !.layers = 1, !.inter = 3],
            [Base EXCEPT !.model_type = "qwen"]}

\* A vocabulary and a hidden size no larger than the number of ranks, MPT with
\* other numbers of heads and with norms of q and k on two devices, fewer devices
\* than shards, a width the portable kernel does not unpack, groups that two
\* devices do not divide, quantized layers loaded with a transform
Unserved == {[Base EXCEPT !.ws = 2, !.layers = 1, !.vocab = 2],
             [Base EXCEPT !.ws = 4, !.layers = 1, !.d = 1, !.vocab = 8, !.inter = 8],
             [Base EXCEPT !.model_type = "mpt", !.layers = 1, !.heads = 6, !.kv = 6],
             [Base EXCEPT !.model_type = "mpt", !.layers = 1, !.qk_ln = TRUE, !.ws = 2],
             [Base EXCEPT !.model_type = "llama2", !.layers = 1, !.shards = 2],
             [Base EXCEPT !.layers = 1, !.inter = 8, !.quant =
                 [method |-> "gptq", bits |-> 1, group |-> 2, impl |-> "slow"]],
             [Base EXCEPT !.layers = 1, !.inter = 8, !.ws = 2, !.quant =
                 [method |-> "gptq", bits |-> 4, group |-> 8, impl |-> "auto"]]}
    \cup {[Base EXCEPT !.model_type = t, !.layers = 1, !.inter = 8, !.quant =
              [method |-> "gptq", bits |-> 4, group |-> 2, impl |-> "auto"]] :
              t \in {"bloom", "gpt_neox", "mpt"}}

\* A capped cache, a device with less memory than the first one would give
\* away, one that has less but enough, and no room at all
Memory == {[Base EXCEPT !.ws = 2, !.layers = 1, !.cap = 30],
           [Base EXCEPT !.ws = 2, !.layers = 1, !.free = <<90, 70>>],
           [Base EXCEPT !.ws = 2, !.layers = 1, !.free = <<90, 80>>],
           [Base EXCEPT !.layers = 1, !.free = <<20>>],
           [Base EXCEPT !.layers = 1, !.free = <<5>>],
           [Base EXCEPT !.layers = 1, !.cuda = FALSE, !.cap = 40],
           [Base EXCEPT !.layers = 1, !.cuda = FALSE]}

SmallConfigs ==
    On(1, Grouped \cup Others) \cup On(2, Grouped \cup Others) \cup Sharded \cup Odd
        \cup Quantized4 \cup On(2, Quantized4) \cup Refused \cup Unserved
        \cup Memory

\* GPT-2 on two devices
GPT2Config == {[Base EXCEPT !.model_type = "gpt2", !.ws = 2, !.layers = 1]}
=============================================================================
