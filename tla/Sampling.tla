------------------------------ MODULE Sampling ------------------------------
(***************************************************************************)
(* From logits to the next token (src/src/sampling and                     *)
(* request/sampling_parameter.h): the processors LogitsProcessor::create   *)
(* picks for a batch, what each does to a row, and the tokens the sampler  *)
(* may return.                                                             *)
(*                                                                         *)
(* A row of logits is a function from the vocabulary to integers.  The     *)
(* instances choose values every division is exact for, and softmax has    *)
(* base 2 instead of e.                                                    *)
(***************************************************************************)
EXTENDS Integers, Sequences, SequencesExt, FiniteSetsExt

CONSTANTS VocabSize,
          TopPUnit     \* top_p counts in units of 1 / TopPUnit

ASSUME SamplingAssumption == VocabSize \in Nat \ {0} /\ TopPUnit \in Nat \ {0}

Vocab == 0..VocabSize - 1
PadId == 0

\* filter_value: minus infinity, lower than any score an instance reaches
Filtered == -1000

SamplingParameter ==
    [frequency_penalty : Nat, presence_penalty : Int, repetition_penalty : Nat \ {0},
     temperature : Nat, top_p : 0..TopPUnit, top_k : Nat, do_sample : BOOLEAN]

\* SamplingParameters::add decides whether to sample.
DoSample(p) == \/ p.do_sample \/ p.temperature # 0
               \/ p.top_p # TopPUnit \/ p.top_k # 0

\* LogitsProcessor::create: a processor is skipped when every row of the batch
\* has the default.
Processors(params) ==
    LET rows == ToSet(params)
        If(cond, name) == IF cond THEN <<name>> ELSE <<>>
    IN If(\E p \in rows : p.frequency_penalty # 0 \/ p.presence_penalty # 0,
          "frequency_presence")
       \o If(\E p \in rows : p.repetition_penalty # 1, "repetition")
       \o If(\E p \in rows : p.temperature # 1, "temperature")
       \o If(\E p \in rows : p.top_k # 0, "top_k")
       \o If(\E p \in rows : p.top_p # TopPUnit, "top_p")

\* bincount of a row of token ids
Count(ids, t) == Cardinality({k \in DOMAIN ids : ids[k] = t})

FrequencyPresence(row, ids, p) ==
    [t \in Vocab |-> row[t] - Count(ids, t) * p.frequency_penalty
                            - (IF Count(ids, t) > 0 THEN p.presence_penalty ELSE 0)]

\* gather and scatter: every occurrence of a token writes the same score.
Repetition(row, ids, p) ==
    [t \in Vocab |->
        IF t \notin ToSet(ids) THEN row[t]
        ELSE IF row[t] < 0 THEN row[t] * p.repetition_penalty
        ELSE row[t] \div p.repetition_penalty]

\* 0 is replaced by 1.
Temperature(row, p) ==
    [t \in Vocab |-> row[t] \div (IF p.temperature = 0 THEN 1 ELSE p.temperature)]

\* Ascending orders of the tokens of a row: ties come in any order.
Orders(row) ==
    {o \in SetToSeqs(Vocab) : \A a, b \in 1..VocabSize : a < b => row[o[a]] <= row[o[b]]}

\* Faulty variant: a row without top-k is not exempted.
KthScoreUnmasked(row, p, params) ==
    LET max_top_k == Min({VocabSize, Max({q.top_k : q \in ToSet(params)})})
        k == Min({Max({p.top_k, 1}) - 1, VocabSize - 1})
        topk == SubSeq(Reverse(CHOOSE o \in Orders(row) : TRUE), 1, max_top_k)
    IN row[topk[k + 1]]

\* The score a token of the row must reach, from the max_top_k best.  top_k is
\* made 0-based and clamped to the vocabulary; a row with top_k 0 keeps all.
KthScore(row, p, params) ==
    LET max_top_k == Min({VocabSize, Max({q.top_k : q \in ToSet(params)})})
        k == Min({Max({p.top_k, 1}) - 1, VocabSize - 1})
        topk == SubSeq(Reverse(CHOOSE o \in Orders(row) : TRUE), 1, max_top_k)
    IN IF p.top_k = 0 THEN Filtered ELSE row[topk[k + 1]]

TopK(row, p, params) ==
    [t \in Vocab |-> IF row[t] < KthScore(row, p, params) THEN Filtered ELSE row[t]]

\* softmax, up to the common denominator
Weight(row, t) ==
    LET lowest == Min({row[u] : u \in {v \in Vocab : row[v] # Filtered}})
    IN IF row[t] = Filtered THEN 0 ELSE 2 ^ (row[t] - lowest)

Mass(row, tokens) == MapThenSumSet(LAMBDA t : Weight(row, t), tokens)

\* Tokens are removed from the bottom while the mass up to them is at most
\* 1 - top_p; the best one always stays.
TopP(row, p, order) ==
    LET Upto(a) == Mass(row, {order[b] : b \in 1..a})
        removed == {order[a] : a \in {b \in 1..VocabSize - 1 :
                       Upto(b) * TopPUnit <= (TopPUnit - p.top_p) * Mass(row, Vocab)}}
    IN [t \in Vocab |-> IF t \in removed THEN Filtered ELSE row[t]]

\* One processor on row r of the batch; order is how top-p's sort put it.
Processed(name, row, ids, p, params, order) ==
    CASE name = "frequency_presence" -> FrequencyPresence(row, ids, p)
      [] name = "repetition"         -> Repetition(row, ids, p)
      [] name = "temperature"        -> Temperature(row, p)
      [] name = "top_k"              -> TopK(row, p, params)
      [] name = "top_p"              -> TopP(row, p, order)

\* Sampler::sample: the tokens multinomial or argmax may return.
SamplerChoices(row, p) ==
    IF DoSample(p) THEN {t \in Vocab : Weight(row, t) > 0}
    ELSE {t \in Vocab : \A u \in Vocab : row[t] >= row[u]}

(***************************************************************************)
(* What a sequence sampled by itself should be drawn from, stated without  *)
(* sorting, masking or a batch.                                            *)
(***************************************************************************)
\* The score of token t after a sequence with these token ids
Score(logits, ids, p, t) ==
    LET c == Count(ids, t)
        penalised == logits[t] - c * p.frequency_penalty
                        - (IF c > 0 THEN p.presence_penalty ELSE 0)
        repeated == IF c = 0 THEN penalised
                    ELSE IF penalised < 0 THEN penalised * p.repetition_penalty
                    ELSE penalised \div p.repetition_penalty
    IN IF p.temperature = 0 THEN repeated ELSE repeated \div p.temperature

\* tokens is a nucleus of the candidates: nothing left out is better, it has
\* the mass top_p, and no longer without its worst token.
IsNucleus(row, tokens, candidates, top_p) ==
    LET Enough(ts) == Mass(row, ts) * TopPUnit >= top_p * Mass(row, candidates)
    IN /\ tokens # {} /\ tokens \subseteq candidates
       /\ \A t \in tokens, u \in candidates \ tokens : row[t] >= row[u]
       /\ Enough(tokens)
       /\ \/ Cardinality(tokens) = 1
          \/ \E t \in tokens : /\ \A u \in tokens : row[t] <= row[u]
                               /\ ~Enough(tokens \ {t})

Legal(choices, logits, ids, p) ==
    LET row == [t \in Vocab |-> Score(logits, ids, p, t)]
        Better(t) == {u \in Vocab : row[u] > row[t]}
        candidates == {t \in Vocab : p.top_k = 0 \/ Cardinality(Better(t)) < p.top_k}
    IN IF DoSample(p) THEN IsNucleus(row, choices, candidates, p.top_p)
       ELSE choices = {t \in Vocab : Better(t) = {}}
=============================================================================
