-------------------------- MODULE MCPrepareInputs --------------------------
(* An instance of PrepareInputs for TLC. *)
EXTENDS PrepareInputs

CONSTANTS MaxTokens, MaxBatch

Shapes == {s \in [n : 1..MaxTokens, prefill : BOOLEAN] : s.prefill \/ s.n > 1}

\* Blocks of the sequences before the k-th.
Before(shape, k) ==
    FoldLeft(LAMBDA sum, s : sum + BlocksNeeded(s.n), 0, SubSeq(shape, 1, k - 1))

Default == [frequency_penalty |-> 0, presence_penalty |-> 0, repetition_penalty |-> 1,
            temperature |-> 1, top_p |-> TopPUnit, top_k |-> 0, do_sample |-> FALSE]

\* Logits with a tie, and negative ones
SomeLogits == {(0 :> 2) @@ (1 :> 4) @@ (2 :> 4), (0 :> 0) @@ (1 :> -2) @@ (2 :> 4)}

\* The blocks in some order are dealt out to the sequences.
Deal(shape, order) ==
    [k \in DOMAIN shape |->
       [n |-> shape[k].n, prefill |-> shape[k].prefill,
        blocks |-> SubSeq(order, Before(shape, k) + 1, Before(shape, k + 1)),
        ids |-> [p \in 1..shape[k].n |-> 1], params |-> Default,
        logits |-> CHOOSE l \in SomeLogits : TRUE]]

\* All batches of at most MaxBatch sequences of at most MaxTokens tokens, with
\* their blocks anywhere in the cache.
PlacedBatches ==
    UNION {{Deal(shape, order) :
              shape \in {sh \in [1..k -> Shapes] : Before(sh, k + 1) <= NumBlocks},
              order \in SetToSeqs(0..NumBlocks - 1)} : k \in 1..MaxBatch}

SomeParams ==
    {Default,
     [Default EXCEPT !.temperature = 0],
     [Default EXCEPT !.temperature = 2, !.frequency_penalty = 2],
     [Default EXCEPT !.presence_penalty = -2, !.top_p = TopPUnit \div 2],
     [Default EXCEPT !.temperature = 0, !.repetition_penalty = 2],
     [Default EXCEPT !.top_k = 1], [Default EXCEPT !.top_k = 2, !.top_p = 1],
     [Default EXCEPT !.top_k = VocabSize + 1, !.frequency_penalty = 2, !.repetition_penalty = 2],
     [Default EXCEPT !.top_p = 0]}

Sampled(ids, prefill, block, p, l) ==
    [n |-> Len(ids), prefill |-> prefill, blocks |-> <<block>>, ids |-> ids,
     params |-> p, logits |-> l]

\* Two sequences with parameters of their own, the second decoding or not.
SampledBatches ==
    {<<Sampled(x, TRUE, 0, p, l), Sampled(<<1, 2>>, f, 1, q, m)>> :
        x \in {<<1>>, <<0, 1>>, <<1, 1>>}, p \in SomeParams, q \in SomeParams,
        l \in SomeLogits, m \in SomeLogits, f \in BOOLEAN}

SmallBatches == PlacedBatches \cup SampledBatches
=============================================================================
