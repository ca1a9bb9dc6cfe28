--------------------------- MODULE PrepareInputs ---------------------------
(***************************************************************************)
(* One execution of the model for a batch (src/src/engine, with the parts  *)
(* of src/src/layers, src/src/memory and src/src/models that consume its   *)
(* inputs).  prepare_inputs flattens the batch, first the sequences whose  *)
(* cache is empty (prefill), then the others (decode); attention reads the *)
(* flat arrays or the KV cache; index_select brings the results back into  *)
(* the order of the batch.  In between, the logits of the last tokens pass *)
(* through the batch's processors and the sampler (Sampling).              *)
(*                                                                         *)
(* Token p of the batch's sequence i is <<i, p>>.  The hidden state of a   *)
(* token is the sequence of tokens, with their positions, that attention   *)
(* lets it see.  Ids, indices and positions count from 0, as in the code.  *)
(***************************************************************************)
EXTENDS Sampling

CONSTANTS
    Batches,     \* the batches considered
    NumBlocks, BlockSize

\* A sequence of a batch: n tokens, is_prefill(), its block table, the ids of
\* its tokens, its sampling parameters and the logits the model has for it.
Sequence == [n : Nat \ {0}, prefill : BOOLEAN, blocks : Seq(0..NumBlocks - 1),
             ids : Seq(Vocab), params : SamplingParameter, logits : [Vocab -> Int]]
BlocksNeeded(n) == (n + BlockSize - 1) \div BlockSize

\* The batches the scheduler builds: a sequence that decodes has at least one
\* cached token; every table has exactly the blocks it needs (BatchHasSlots of
\* Scheduler, NoSurplusBlocks of BlockManager), and no block is in two tables.
ASSUME BatchesAssumption ==
    /\ NumBlocks \in Nat /\ BlockSize \in Nat \ {0}
    /\ \A b \in Batches :
         /\ b # <<>> /\ b \in Seq(Sequence)
         /\ \A j \in DOMAIN b :
              /\ Len(b[j].blocks) = BlocksNeeded(b[j].n)
              /\ Len(b[j].ids) = b[j].n
              /\ IsInjective(b[j].blocks)
              /\ b[j].prefill \/ b[j].n > 1
              /\ \A k \in DOMAIN b : j # k =>
                   ToSet(b[j].blocks) \cap ToSet(b[k].blocks) = {}

Pad == <<0, 0>>                   \* padding, which no sequence owns
Empty == [token |-> Pad, pos |-> 0]   \* a slot nothing was written to
Slots == 0..NumBlocks * BlockSize - 1

VARIABLES
    batch,            \* the batch, which does not change
    kv,               \* the KV cache: what each slot holds
    pc, i,            \* the step of the execution, the sequence a loop is at
    seq_indices,      \* seq_indices_vec
    token_ids,        \* the tokens of each sequence, in the new order
    flat_tokens, flat_positions,
    num_prompt_tokens, cu_seq_lens, slot_ids,
    context_lens, block_tables, sample_idx,
    sampling_params,  \* whose parameters they are
    processors,       \* logits processors still to be applied
    logits,           \* a row per sequence, in the new order
    next_tokens       \* what the sampler draws each new token from

decodeVars == <<context_lens, block_tables>>
inputs == <<seq_indices, token_ids, flat_tokens, flat_positions, num_prompt_tokens,
            cu_seq_lens, slot_ids, decodeVars, sample_idx, sampling_params>>
outputs == <<processors, logits, next_tokens>>
vars == <<batch, kv, pc, i, inputs, outputs>>

\* Slot of the token at position p of s.
SlotAt(s, p) == s.blocks[(p \div BlockSize) + 1] * BlockSize + (p % BlockSize)

\* The cache before the execution: all tokens but the newest of the sequences
\* that decode, and nothing of the others.
Cached(b, slot) ==
    LET held == UNION {{[token |-> <<j, p>>, pos |-> p - 1] :
                           p \in {q \in 1..b[j].n - 1 : SlotAt(b[j], q - 1) = slot}} :
                         j \in {k \in DOMAIN b : ~b[k].prefill}}
    IN IF held = {} THEN Empty ELSE CHOOSE e \in held : TRUE

Init ==
    /\ batch \in Batches
    /\ kv = [slot \in Slots |-> Cached(batch, slot)]
    /\ pc = "prefill" /\ i = 1
    /\ seq_indices = [j \in DOMAIN batch |-> 0]
    /\ token_ids = <<>> /\ flat_tokens = <<>> /\ flat_positions = <<>>
    /\ num_prompt_tokens = 0 /\ cu_seq_lens = <<0>> /\ slot_ids = <<>>
    /\ context_lens = <<>> /\ block_tables = <<>>
    /\ sample_idx = <<>> /\ sampling_params = <<>>
    /\ processors = <<>> /\ logits = <<>> /\ next_tokens = <<>>

-----------------------------------------------------------------------------
(* prepare_inputs *)

TokensOf(j) == [p \in 1..batch[j].n |-> <<j, p>>]

\* cache_slots: the slots of the tokens.  The break leaves only the loop over
\* one block: of the blocks behind it, if there are any, all slots follow.
CacheSlots(s) ==
    LET needed == BlocksNeeded(s.n)
        surplus == (Len(s.blocks) - needed) * BlockSize
    IN [k \in 1..s.n + surplus |->
          SlotAt(s, IF k <= s.n THEN k - 1 ELSE needed * BlockSize + (k - s.n - 1))]

\* Faulty variant: the slot after the newest token.
NextSlotId(s) == Last(s.blocks) * BlockSize + (s.n % BlockSize)

LastSlotId(s) == Last(s.blocks) * BlockSize + ((s.n - 1) % BlockSize)

\* Faulty variant: the parameters keep the order of the batch.
AddRowParamsUnordered(j, tokens, positions) ==
    /\ seq_indices' = [seq_indices EXCEPT ![j] = Len(token_ids)]
    /\ token_ids' = Append(token_ids, TokensOf(j))
    /\ flat_tokens' = flat_tokens \o tokens
    /\ flat_positions' = flat_positions \o positions
    /\ sampling_params' = Append(sampling_params, Len(sampling_params) + 1)
    /\ sample_idx' = Append(sample_idx, Len(flat_tokens') - 1)

\* What both loops do: a sequence gets the next row of the new order, and is
\* sampled at its last flat token with its own parameters.
AddRow(j, tokens, positions) ==
    /\ seq_indices' = [seq_indices EXCEPT ![j] = Len(token_ids)]
    /\ token_ids' = Append(token_ids, TokensOf(j))
    /\ flat_tokens' = flat_tokens \o tokens
    /\ flat_positions' = flat_positions \o positions
    /\ sampling_params' = Append(sampling_params, j)
    /\ sample_idx' = Append(sample_idx, Len(flat_tokens') - 1)

Skip == UNCHANGED inputs

\* The step a loop goes on with.
Advance(next) ==
    IF i = Len(batch) THEN pc' = next /\ i' = 1 ELSE i' = i + 1 /\ UNCHANGED pc

PrefillStep ==
    /\ pc = "prefill"
    /\ LET s == batch[i] IN
       \/ ~s.prefill /\ Skip
       \/ /\ s.prefill
          /\ AddRow(i, TokensOf(i), [p \in 1..s.n |-> p - 1])
          /\ num_prompt_tokens' = num_prompt_tokens + s.n
          /\ cu_seq_lens' = Append(cu_seq_lens, num_prompt_tokens')
          /\ slot_ids' = slot_ids \o CacheSlots(s)
          /\ UNCHANGED decodeVars
    /\ Advance("decode")
    /\ UNCHANGED <<batch, kv, outputs>>

DecodeStep ==
    /\ pc = "decode"
    /\ LET s == batch[i] IN
       \/ s.prefill /\ Skip
       \/ /\ ~s.prefill
          /\ AddRow(i, <<Last(TokensOf(i))>>, <<s.n - 1>>)
          /\ context_lens' = Append(context_lens, s.n)
          /\ block_tables' = Append(block_tables, s.blocks)
          /\ slot_ids' = Append(slot_ids, LastSlotId(s))
          /\ UNCHANGED <<num_prompt_tokens, cu_seq_lens>>
    /\ Advance("pad")
    /\ UNCHANGED <<batch, kv, outputs>>

\* resize(): all rows get the length of the longest.
Resize(rows, pad) ==
    LET longest == Max({0} \cup {Len(rows[r]) : r \in DOMAIN rows}) IN
    [r \in DOMAIN rows |-> rows[r] \o [k \in 1..longest - Len(rows[r]) |-> pad]]

PadRows ==
    /\ pc = "pad"
    /\ token_ids' = Resize(token_ids, Pad)
    /\ block_tables' = Resize(block_tables, 0)
    /\ pc' = "forward"
    /\ UNCHANGED <<batch, kv, i, outputs, seq_indices, flat_tokens, flat_positions,
                   num_prompt_tokens, cu_seq_lens, slot_ids, context_lens, sample_idx,
                   sampling_params>>

-----------------------------------------------------------------------------
(* The model *)

Entry(t) == [token |-> flat_tokens[t], pos |-> flat_positions[t]]

\* set_kv_cache writes the tokens one after the other: the last one stays.
SetKvCache ==
    [slot \in Slots |->
       LET writes == {t \in DOMAIN flat_tokens : slot_ids[t] = slot}
       IN IF writes = {} THEN kv[slot] ELSE Entry(Max(writes))]

\* get_kv_cache: the first context_len slots of a block table.
GetKvCache(cache, table, context_len) ==
    [k \in 1..context_len |->
       cache[table[((k - 1) \div BlockSize) + 1] * BlockSize + ((k - 1) % BlockSize)]]

\* varlen_masked_self_attention: token t sees the tokens of its range of
\* cu_seq_lens up to itself.
PrefillAttention(t) ==
    LET q == CHOOSE q \in 1..Len(cu_seq_lens) - 1 : cu_seq_lens[q] < t /\ t <= cu_seq_lens[q + 1]
        start == cu_seq_lens[q]
    IN [k \in 1..t - start |-> Entry(start + k)]

\* single_query_masked_self_attention
DecodeAttention(cache, t) ==
    LET row == t - num_prompt_tokens IN
    GetKvCache(cache, block_tables[row], context_lens[row])

Attention(cache, t) ==
    IF t <= num_prompt_tokens THEN PrefillAttention(t) ELSE DecodeAttention(cache, t)

\* The parameters and the token ids of row r, as the processors see them
Params == [r \in DOMAIN sampling_params |-> batch[sampling_params[r]].params]
IdOf(token) == IF token = Pad THEN PadId ELSE batch[token[1]].ids[token[2]]
Ids(r) == [k \in DOMAIN token_ids[r] |-> IdOf(token_ids[r][k])]

\* The logits the model has for what the last token saw; a slot nothing was
\* written to stands for no sequence.
LogitsFor(context) ==
    LET token == Last(context).token IN
    IF token = Pad THEN [t \in Vocab |-> 0] ELSE batch[token[1]].logits

\* Worker::execute_model: the cache is written before attention reads it, the
\* last tokens are selected, and row r has the logits of what they saw.
ExecuteModel ==
    /\ pc = "forward"
    /\ kv' = SetKvCache
    /\ next_tokens' = [r \in DOMAIN sample_idx |->
         [context |-> Attention(kv', sample_idx[r] + 1),
          history |-> token_ids[r], param |-> sampling_params[r], choices |-> {}]]
    /\ logits' = [r \in DOMAIN sample_idx |-> LogitsFor(next_tokens'[r].context)]
    /\ processors' = Processors(Params)
    /\ pc' = "process"
    /\ UNCHANGED <<batch, i, inputs>>

\* LogitsProcessorList::forward: one processor after the other, in place
ProcessLogits ==
    /\ pc = "process" /\ processors # <<>>
    /\ \E orders \in {os \in [DOMAIN logits -> SetToSeqs(Vocab)] :
                         \A r \in DOMAIN os : os[r] \in Orders(logits[r])} :
         logits' = [r \in DOMAIN logits |->
             Processed(Head(processors), logits[r], Ids(r), Params[r], Params, orders[r])]
    /\ processors' = Tail(processors)
    /\ UNCHANGED <<batch, kv, pc, i, inputs, next_tokens>>

Sample ==
    /\ pc = "process" /\ processors = <<>>
    /\ next_tokens' = [r \in DOMAIN logits |->
         [next_tokens[r] EXCEPT !.choices = SamplerChoices(logits[r], Params[r])]]
    /\ pc' = "select"
    /\ UNCHANGED <<batch, kv, i, inputs, processors, logits>>

\* Faulty variant: the inverse mapping.
SelectInverse ==
    /\ pc = "select"
    /\ next_tokens' = [j \in DOMAIN batch |->
         LET r == CHOOSE r \in DOMAIN batch : seq_indices[r] + 1 = j IN next_tokens[r]]
    /\ pc' = "done"
    /\ UNCHANGED <<batch, kv, i, inputs, processors, logits>>

\* index_select(seq_indices)
IndexSelect ==
    /\ pc = "select"
    /\ next_tokens' = [j \in DOMAIN batch |-> next_tokens[seq_indices[j] + 1]]
    /\ pc' = "done"
    /\ UNCHANGED <<batch, kv, i, inputs, processors, logits>>

Next == PrefillStep \/ DecodeStep \/ PadRows \/ ExecuteModel \/ ProcessLogits
        \/ Sample \/ IndexSelect

Spec == Init /\ [][Next]_vars

-----------------------------------------------------------------------------
(* Properties *)

\* The new token of a sequence is computed from exactly its own tokens, in order
\* and at their positions, wherever the sequence stands in the batch and whether
\* they come from the flat arrays or from the cache.
OwnContext ==
    pc = "done" => \A j \in DOMAIN batch :
        next_tokens[j].context =
            [p \in 1..batch[j].n |-> [token |-> <<j, p>>, pos |-> p - 1]]

\* It is sampled with the parameters of its own sequence and against its own
\* tokens, followed by padding only.
OwnSampling ==
    pc = "done" => \A j \in DOMAIN batch :
        /\ next_tokens[j].param = j
        /\ \A k \in DOMAIN next_tokens[j].history :
             next_tokens[j].history[k] = IF k <= batch[j].n THEN <<j, k>> ELSE Pad
        /\ Len(next_tokens[j].history) >= batch[j].n

\* After the execution each token of the batch is cached in its slot, as
\* cache_pos_ will say (append_new_token_id), and no other slot has changed.
CacheExtended ==
    pc = "done" =>
        /\ \A j \in DOMAIN batch : \A p \in 1..batch[j].n :
             kv[SlotAt(batch[j], p - 1)] = [token |-> <<j, p>>, pos |-> p - 1]
        /\ \A slot \in Slots :
             \/ \E j \in DOMAIN batch : \E p \in 1..batch[j].n : slot = SlotAt(batch[j], p - 1)
             \/ kv[slot] = Cached(batch, slot)

\* The row was not padded, or has no penalty that would count the padding.
PaddingHarmless(j) ==
    \/ \A k \in DOMAIN batch : batch[k].n <= batch[j].n
    \/ LET p == batch[j].params IN
       p.frequency_penalty = 0 /\ p.presence_penalty = 0 /\ p.repetition_penalty = 1

\* Whatever its neighbours in the batch ask for, a sequence's next token is
\* drawn from the tokens its own parameters allow after its own tokens: which
\* processors run, max_top_k and the masks depend on the others, the outcome
\* does not (LogitsProcessor::create, TopKLogitsProcessor, TopPLogitsProcessor).
SampledAsAlone ==
    pc = "done" => \A j \in DOMAIN batch :
        PaddingHarmless(j) =>
            Legal(next_tokens[j].choices, batch[j].logits, batch[j].ids, batch[j].params)
=============================================================================
