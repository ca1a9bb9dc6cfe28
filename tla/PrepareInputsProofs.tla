------------------------ MODULE PrepareInputsProofs ------------------------
(***************************************************************************)
(* Proofs about PrepareInputs, for every batch the scheduler may build, of *)
(* any number of sequences, tokens and blocks: a sequence's next token is  *)
(* computed from its own tokens, sampled with its own parameters, and the  *)
(* cache grows by its tokens only.                                         *)
(***************************************************************************)
EXTENDS PrepareInputs, WellFoundedInduction, TLAPS

-----------------------------------------------------------------------------
(* The inductive invariant *)

Preparing == pc \in {"prefill", "decode", "pad"}
Executed == pc \in {"process", "select", "done"}

\* The sequences that have got their row.
Placed(j) ==
    IF batch[j].prefill THEN pc = "prefill" => j < i
    ELSE pc # "prefill" /\ (pc = "decode" => j < i)

Rows == Len(sampling_params)
NumPrefill == Len(cu_seq_lens) - 1

Token == Nat \X Nat

ControlInv ==
    /\ batch \in Batches
    /\ pc \in {"prefill", "decode", "pad", "forward", "process", "select", "done"}
    /\ i \in DOMAIN batch

\* A row for every sequence that has one, in the order seq_indices says.
RowsInv ==
    /\ sampling_params \in Seq(DOMAIN batch)
    /\ seq_indices \in [DOMAIN batch -> Nat]
    /\ \A r \in 1..Rows : \A j \in DOMAIN batch :
         sampling_params[r] = j => Placed(j) /\ seq_indices[j] = r - 1
    /\ \A j \in DOMAIN batch : Placed(j) => \E r \in 1..Rows : sampling_params[r] = j

\* A row has the tokens of its sequence, followed by padding once it is padded.
HistoryOf(row, j) ==
    /\ row \in Seq(Token) /\ Len(row) >= batch[j].n
    /\ \A k \in 1..Len(row) : row[k] = IF k <= batch[j].n THEN <<j, k>> ELSE Pad

TokensInv ==
    /\ token_ids \in Seq(Seq(Token)) /\ Len(token_ids) = Rows
    /\ \A r \in 1..Rows : HistoryOf(token_ids[r], sampling_params[r])
    /\ Preparing => \A r \in 1..Rows : token_ids[r] = TokensOf(sampling_params[r])

\* cu_seq_lens grows, and the rows of prompts come first.
LengthsInv ==
    /\ cu_seq_lens \in Seq(Nat) /\ NumPrefill \in 0..Rows
    /\ cu_seq_lens[1] = 0 /\ num_prompt_tokens = cu_seq_lens[NumPrefill + 1]
    /\ \A q, r \in 1..NumPrefill + 1 : q < r => cu_seq_lens[q] < cu_seq_lens[r]
    /\ pc = "prefill" => Rows = NumPrefill

\* Flat token t is token p of sequence j, at its position and with its slot.
IsToken(t, j, p) ==
    /\ flat_tokens[t] = <<j, p>> /\ flat_positions[t] = p - 1
    /\ slot_ids[t] = SlotAt(batch[j], p - 1)

\* The flat arrays hold nothing else, and nothing twice.
FlatInv ==
    /\ flat_tokens \in Seq(Token) /\ flat_positions \in Seq(Int) /\ slot_ids \in Seq(Int)
    /\ Len(flat_tokens) = num_prompt_tokens + (Rows - NumPrefill)
    /\ Len(flat_positions) = Len(flat_tokens) /\ Len(slot_ids) = Len(flat_tokens)
    /\ \A t \in 1..Len(flat_tokens) :
         \E j \in DOMAIN batch : \E p \in 1..batch[j].n :
            Placed(j) /\ IsToken(t, j, p) /\ (~batch[j].prefill => p = batch[j].n)
    /\ \A t, u \in 1..Len(flat_tokens) : flat_tokens[t] = flat_tokens[u] => t = u

\* The row of a prompt: all its tokens, in its range of cu_seq_lens.
PromptRow(r) ==
    LET j == sampling_params[r] IN
    /\ batch[j].prefill
    /\ cu_seq_lens[r + 1] = cu_seq_lens[r] + batch[j].n
    /\ sample_idx[r] = cu_seq_lens[r + 1] - 1
    /\ \A p \in 1..batch[j].n : IsToken(cu_seq_lens[r] + p, j, p)

\* The row of a sequence that decodes: its newest token, its table and length.
DecodeRow(r) ==
    LET j == sampling_params[r]
        d == r - NumPrefill
        table == block_tables[d]
    IN /\ ~batch[j].prefill
       /\ IsToken(num_prompt_tokens + d, j, batch[j].n)
       /\ sample_idx[r] = num_prompt_tokens + d - 1
       /\ context_lens[d] = batch[j].n
       /\ Len(table) >= Len(batch[j].blocks)
       /\ \A k \in 1..Len(batch[j].blocks) : table[k] = batch[j].blocks[k]

SelectionInv ==
    /\ sample_idx \in Seq(Int) /\ Len(sample_idx) = Rows
    /\ context_lens \in Seq(Nat) /\ Len(context_lens) = Rows - NumPrefill
    /\ block_tables \in Seq(Seq(Nat)) /\ Len(block_tables) = Rows - NumPrefill
    /\ \A r \in 1..NumPrefill : PromptRow(r)
    /\ \A r \in NumPrefill + 1..Rows : DecodeRow(r)

InputsInv == RowsInv /\ TokensInv /\ LengthsInv /\ FlatInv /\ SelectionInv

ContextOf(j) == [p \in 1..batch[j].n |-> [token |-> <<j, p>>, pos |-> p - 1]]

\* After the execution the cache has the new tokens and nothing else has changed.
CacheInv ==
    /\ ~Executed => kv = [slot \in Slots |-> Cached(batch, slot)]
    /\ Executed =>
         /\ \A j \in DOMAIN batch : \A p \in 1..batch[j].n :
              kv[SlotAt(batch[j], p - 1)] = [token |-> <<j, p>>, pos |-> p - 1]
         /\ \A slot \in Slots :
              \/ \E j \in DOMAIN batch : \E p \in 1..batch[j].n :
                    slot = SlotAt(batch[j], p - 1)
              \/ kv[slot] = Cached(batch, slot)

\* What a row's token is computed from belongs to its sequence, before and after
\* the rows are brought back into the order of the batch.
OwnRow(e, j) ==
    /\ DOMAIN e = {"context", "history", "param", "choices"}
    /\ e.context = ContextOf(j) /\ HistoryOf(e.history, j) /\ e.param = j

OutputsInv ==
    /\ pc \in {"process", "select"} =>
         /\ DOMAIN logits = 1..Rows
         /\ \A r \in 1..Rows : OwnRow(next_tokens[r], sampling_params[r])
    /\ pc = "done" => \A j \in DOMAIN batch : OwnRow(next_tokens[j], j)

ExecutionInv == ControlInv /\ InputsInv /\ CacheInv /\ OutputsInv

-----------------------------------------------------------------------------
(* Facts the proofs share *)

\* The sequences of a batch.
LEMMA BatchFacts ==
  ASSUME NEW b \in Batches
  PROVE  /\ Len(b) \in Nat \ {0} /\ DOMAIN b = 1..Len(b)
         /\ \A j \in 1..Len(b) :
              /\ b[j].n \in Nat \ {0} /\ b[j].prefill \in BOOLEAN
              /\ b[j].blocks \in Seq(0..NumBlocks - 1)
              /\ Len(b[j].blocks) = BlocksNeeded(b[j].n)
              /\ ~b[j].prefill => b[j].n > 1
              /\ b[j].logits \in [Vocab -> Int]
<1>1. b # <<>> /\ b \in Seq(Sequence)
  BY BatchesAssumption
<1>2. Len(b) \in Nat \ {0} /\ DOMAIN b = 1..Len(b) /\ \A j \in 1..Len(b) : b[j] \in Sequence
  BY <1>1
<1>3. \A j \in DOMAIN b : Len(b[j].blocks) = BlocksNeeded(b[j].n) /\ (b[j].prefill \/ b[j].n > 1)
  BY BatchesAssumption
<1> QED
  BY <1>2, <1>3 DEF Sequence

\* A longer sequence: the old one, then more.
Grows(new, old, more) ==
    /\ Len(new) = Len(old) + Len(more)
    /\ \A k \in 1..Len(old) : new[k] = old[k]
    /\ \A k \in 1..Len(more) : new[Len(old) + k] = more[k]

LEMMA AppendGrows ==
  ASSUME NEW S, NEW s \in Seq(S), NEW e \in S
  PROVE  /\ Append(s, e) \in Seq(S) /\ Grows(Append(s, e), s, <<e>>)
         /\ Len(Append(s, e)) = Len(s) + 1
         /\ \A k \in 1..Len(s) : Append(s, e)[k] = s[k]
         /\ Append(s, e)[Len(s) + 1] = e
  BY DEF Grows

LEMMA ConcatGrows ==
  ASSUME NEW S, NEW s \in Seq(S), NEW t \in Seq(S)
  PROVE  s \o t \in Seq(S) /\ Grows(s \o t, s, t)
  BY DEF Grows

\* Multiples of a positive number are at least that far apart.
LEMMA ProductGap ==
  ASSUME NEW y \in Nat, NEW a \in Int, NEW b \in Int, a < b
  PROVE  y * a + y <= y * b /\ y * a \in Int /\ y * b \in Int
<1>1. b = a + 1 + (b - a - 1) /\ b - a - 1 \in Nat
  OBVIOUS
<1>2. y * b = y * a + y + y * (b - a - 1) /\ y * (b - a - 1) \in Nat
  BY <1>1
<1> QED
  BY <1>2

LEMMA DivFacts ==
  ASSUME NEW y \in Nat, y > 0, NEW x \in Nat
  PROVE  /\ x \div y \in Nat /\ x % y \in 0..y - 1
         /\ x = y * (x \div y) + (x % y)
<1>1. x \div y \in Int /\ x % y \in 0..y - 1 /\ x = y * (x \div y) + (x % y)
  OBVIOUS
<1>2. ASSUME x \div y < 0 PROVE FALSE
  <2>1. y * (x \div y) + y <= y * 0 /\ y * (x \div y) \in Int /\ y * 0 = 0
    BY <1>1, <1>2, ProductGap
  <2> QED
    BY <1>1, <2>1
<1> QED
  BY <1>1, <1>2

\* Quotient and remainder are unique.
LEMMA DivUnique ==
  ASSUME NEW y \in Nat, y > 0, NEW a \in Int, NEW b \in Int, NEW u \in 0..y - 1, NEW v \in 0..y - 1,
         a * y + u = b * y + v
  PROVE  a = b /\ u = v
<1>1. a * y = y * a /\ b * y = y * b
  OBVIOUS
<1>2. ASSUME a < b PROVE FALSE
  <2>1. y * a + y <= y * b /\ y * a \in Int /\ y * b \in Int
    BY <1>2, ProductGap
  <2> QED
    BY <1>1, <2>1
<1>3. ASSUME b < a PROVE FALSE
  <2>1. y * b + y <= y * a /\ y * a \in Int /\ y * b \in Int
    BY <1>3, ProductGap
  <2> QED
    BY <1>1, <2>1
<1>4. a = b
  BY <1>2, <1>3
<1> QED
  BY <1>4

\* The block of a token is in the table; that of the last token is its last entry.
LEMMA BlockOfToken ==
  ASSUME NEW n \in Nat \ {0}, NEW p \in 0..n - 1
  PROVE  /\ BlocksNeeded(n) \in Nat \ {0}
         /\ (p \div BlockSize) + 1 \in 1..BlocksNeeded(n)
         /\ ((n - 1) \div BlockSize) + 1 = BlocksNeeded(n)
<1> DEFINE B == BlockSize
           a == (n - 1) \div B
           c == p \div B
           q == (n + B - 1) \div B
<1>1. B \in Nat /\ B > 0 /\ n - 1 \in Nat /\ n + B - 1 \in Nat /\ p \in Nat
  BY BatchesAssumption
<1>2. /\ a \in Nat /\ (n - 1) % B \in 0..B - 1 /\ n - 1 = B * a + ((n - 1) % B)
      /\ c \in Nat /\ p % B \in 0..B - 1 /\ p = B * c + (p % B)
      /\ q \in Nat /\ (n + B - 1) % B \in 0..B - 1 /\ n + B - 1 = B * q + ((n + B - 1) % B)
  BY <1>1, DivFacts
<1> HIDE DEF a, c, q
<1>3. q = a + 1
  <2>1. B * (a + 1) = B * a + B /\ B * a \in Int /\ B * q \in Int
    BY <1>1, <1>2
  <2>2. B * (a + 1) + ((n - 1) % B) = B * q + ((n + B - 1) % B)
    BY <1>1, <1>2, <2>1
  <2>3. (a + 1) * B = B * (a + 1) /\ q * B = B * q /\ a + 1 \in Int /\ q \in Int
    BY <1>1, <1>2
  <2> QED
    BY <1>1, <1>2, <2>2, <2>3, DivUnique
<1>4. c <= a
  <2>1. ASSUME a < c PROVE FALSE
    <3>1. B * a + B <= B * c /\ B * a \in Int /\ B * c \in Int
      BY <1>1, <1>2, <2>1, ProductGap
    <3> QED
      BY <1>1, <1>2, <3>1
  <2> QED
    BY <1>2, <2>1
<1> QED
  BY <1>2, <1>3, <1>4 DEF a, c, q, BlocksNeeded

\* Different tokens have different slots, all of them in the cache.
LEMMA SlotFacts ==
  ASSUME NEW b \in Batches, NEW j \in DOMAIN b, NEW p \in 0..b[j].n - 1
  PROVE  /\ SlotAt(b[j], p) \in Slots
         /\ \A k \in DOMAIN b : \A q \in 0..b[k].n - 1 :
              SlotAt(b[j], p) = SlotAt(b[k], q) => j = k /\ p = q
<1> DEFINE B == BlockSize
           at(k, q) == (q \div B) + 1
<1>1. B \in Nat /\ B > 0 /\ NumBlocks \in Nat
  BY BatchesAssumption
<1>2. ASSUME NEW k \in DOMAIN b, NEW q \in 0..b[k].n - 1
      PROVE  /\ q \div B \in Nat /\ q % B \in 0..B - 1 /\ q = B * (q \div B) + (q % B)
             /\ at(k, q) \in DOMAIN b[k].blocks
             /\ b[k].blocks[at(k, q)] \in 0..NumBlocks - 1
             /\ SlotAt(b[k], q) = b[k].blocks[at(k, q)] * B + (q % B)
  <2>1. /\ b[k].n \in Nat \ {0} /\ b[k].blocks \in Seq(0..NumBlocks - 1)
        /\ Len(b[k].blocks) = BlocksNeeded(b[k].n)
    BY BatchFacts
  <2>2. at(k, q) \in 1..Len(b[k].blocks)
    BY <2>1, BlockOfToken
  <2>3. q \in Nat
    BY <2>1
  <2> QED
    BY <1>1, <2>1, <2>2, <2>3, DivFacts DEF SlotAt
<1>3. SlotAt(b[j], p) \in Slots
  <2> DEFINE x == b[j].blocks[at(j, p)]
  <2>1. x \in 0..NumBlocks - 1 /\ p % B \in 0..B - 1 /\ SlotAt(b[j], p) = x * B + (p % B)
    BY <1>2
  <2> HIDE DEF x
  <2>2. B * x + B <= B * NumBlocks /\ B * x \in Int /\ B * NumBlocks \in Int
    BY <1>1, <2>1, ProductGap
  <2>3. x * B = B * x /\ NumBlocks * B = B * NumBlocks /\ B * x >= 0
    BY <1>1, <2>1
  <2> QED
    BY <1>1, <2>1, <2>2, <2>3 DEF Slots
<1>4. ASSUME NEW k \in DOMAIN b, NEW q \in 0..b[k].n - 1, SlotAt(b[j], p) = SlotAt(b[k], q)
      PROVE  j = k /\ p = q
  <2> DEFINE x == b[j].blocks[at(j, p)]
             y == b[k].blocks[at(k, q)]
  <2>1. /\ x \in 0..NumBlocks - 1 /\ y \in 0..NumBlocks - 1
        /\ p % B \in 0..B - 1 /\ q % B \in 0..B - 1
        /\ x * B + (p % B) = y * B + (q % B)
    BY <1>2, <1>4
  <2>2. x = y /\ p % B = q % B
    <3> HIDE DEF x, y
    <3> QED
      BY <1>1, <2>1, DivUnique
  <2>3. at(j, p) \in DOMAIN b[j].blocks /\ at(k, q) \in DOMAIN b[k].blocks
    BY <1>2
  <2>4. j = k
    <3>1. x \in ToSet(b[j].blocks) /\ y \in ToSet(b[k].blocks)
      BY <2>3 DEF ToSet
    <3>2. j # k => ToSet(b[j].blocks) \cap ToSet(b[k].blocks) = {}
      BY BatchesAssumption
    <3> QED
      BY <2>2, <3>1, <3>2
  <2>5. at(j, p) = at(k, q)
    <3>1. IsInjective(b[j].blocks)
      BY BatchesAssumption
    <3> QED
      BY <2>2, <2>3, <2>4, <3>1 DEF IsInjective
  <2>6. p \div B = q \div B
    BY <1>2, <2>5
  <2>7. p = B * (p \div B) + (p % B) /\ q = B * (q \div B) + (q % B)
    BY <1>2
  <2> QED
    BY <2>2, <2>4, <2>6, <2>7
<1> QED
  BY <1>3, <1>4

\* The table of a sequence has no surplus blocks: cache_slots returns the slots
\* of its tokens; the slot last_slot_id returns is that of its newest token.
LEMMA SlotsOfTokens ==
  ASSUME NEW b \in Batches, NEW j \in DOMAIN b
  PROVE  /\ CacheSlots(b[j]) \in Seq(Int) /\ Len(CacheSlots(b[j])) = b[j].n
         /\ \A p \in 1..b[j].n : CacheSlots(b[j])[p] = SlotAt(b[j], p - 1)
         /\ LastSlotId(b[j]) = SlotAt(b[j], b[j].n - 1) /\ LastSlotId(b[j]) \in Int
<1> DEFINE s == b[j]
<1>1. /\ s.n \in Nat \ {0} /\ s.blocks \in Seq(0..NumBlocks - 1)
      /\ Len(s.blocks) = BlocksNeeded(s.n) /\ BlockSize \in Nat \ {0}
  BY BatchFacts, BatchesAssumption
<1>2. BlocksNeeded(s.n) \in Nat \ {0} /\ ((s.n - 1) \div BlockSize) + 1 = BlocksNeeded(s.n)
  <2>1. s.n - 1 \in 0..s.n - 1
    BY <1>1
  <2> QED
    BY <1>1, <2>1, BlockOfToken
<1>3. \A p \in 1..s.n : SlotAt(s, p - 1) \in Slots
  <2> TAKE p \in 1..s.n
  <2>1. p - 1 \in 0..s.n - 1
    BY <1>1
  <2> QED
    BY <2>1, SlotFacts
<1>4. Slots \subseteq Int
  BY BatchesAssumption DEF Slots
<1>5. CacheSlots(s) = [k \in 1..s.n |-> SlotAt(s, k - 1)]
  <2>1. s.n + (Len(s.blocks) - BlocksNeeded(s.n)) * BlockSize = s.n
    BY <1>1, <1>2
  <2>2. \A k \in 1..s.n : k <= s.n
    OBVIOUS
  <2> HIDE DEF s
  <2> QED
    BY <2>1, <2>2 DEF CacheSlots
<1>6. CacheSlots(s) \in [1..s.n -> Int]
  BY <1>3, <1>4, <1>5
<1>7. LastSlotId(s) = SlotAt(s, s.n - 1)
  BY <1>1, <1>2 DEF LastSlotId, SlotAt, Last
<1>8. LastSlotId(s) \in Int
  <2>1. s.n \in 1..s.n
    BY <1>1
  <2> QED
    BY <1>3, <1>4, <1>7, <2>1
<1>9. CacheSlots(s) \in Seq(Int) /\ Len(CacheSlots(s)) = s.n
  BY <1>1, <1>6
<1> QED
  BY <1>5, <1>7, <1>8, <1>9

\* The loop goes on: the sequence it was at has been placed, if it is of the kind
\* the loop is for, and no other.
LEMMA AdvanceFacts ==
  ASSUME ControlInv, batch' = batch,
         \/ pc = "prefill" /\ Advance("decode")
         \/ pc = "decode" /\ Advance("pad")
  PROVE  /\ ControlInv' /\ Preparing' /\ ~Executed'
         /\ pc' = "prefill" => pc = "prefill"
         /\ \A k \in DOMAIN batch : Placed(k)' <=>
              \/ Placed(k)
              \/ k = i /\ batch[k].prefill = (pc = "prefill")
         /\ batch[i].prefill = (pc = "prefill") => ~Placed(i)
<1> DEFINE n == Len(batch)
<1>1. /\ n \in Nat \ {0} /\ DOMAIN batch = 1..n /\ i \in 1..n
      /\ \A k \in 1..n : batch[k].prefill \in BOOLEAN
  BY BatchFacts DEF ControlInv
<1>2. CASE i = n /\ pc = "prefill"
  <2>1. pc' = "decode" /\ i' = 1
    BY <1>2 DEF Advance
  <2> QED
    BY <1>1, <1>2, <2>1 DEF ControlInv, Preparing, Executed, Placed
<1>3. CASE i = n /\ pc = "decode"
  <2>1. pc' = "pad" /\ i' = 1
    BY <1>3 DEF Advance
  <2> QED
    BY <1>1, <1>3, <2>1 DEF ControlInv, Preparing, Executed, Placed
<1>4. CASE i # n /\ pc = "prefill"
  <2>1. pc' = pc /\ i' = i + 1
    BY <1>4 DEF Advance
  <2> QED
    BY <1>1, <1>4, <2>1 DEF ControlInv, Preparing, Executed, Placed
<1>5. CASE i # n /\ pc = "decode"
  <2>1. pc' = pc /\ i' = i + 1
    BY <1>5 DEF Advance
  <2> QED
    BY <1>1, <1>5, <2>1 DEF ControlInv, Preparing, Executed, Placed
<1> QED
  BY <1>2, <1>3, <1>4, <1>5

\* Which sequences are placed is all the inputs say about the loops.
LEMMA InputsStay ==
  ASSUME ControlInv, InputsInv, batch' = batch, UNCHANGED inputs,
         \A k \in DOMAIN batch : Placed(k)' <=> Placed(k),
         Preparing' => Preparing, pc' = "prefill" => pc = "prefill"
  PROVE  InputsInv'
<1>1. /\ seq_indices' = seq_indices /\ token_ids' = token_ids /\ flat_tokens' = flat_tokens
      /\ flat_positions' = flat_positions /\ num_prompt_tokens' = num_prompt_tokens
      /\ cu_seq_lens' = cu_seq_lens /\ slot_ids' = slot_ids /\ sample_idx' = sample_idx
      /\ sampling_params' = sampling_params /\ context_lens' = context_lens
      /\ block_tables' = block_tables
  BY DEF inputs, decodeVars
<1>2. RowsInv'
  <2>1. \A r \in 1..Rows : sampling_params[r] \in DOMAIN batch
    BY DEF InputsInv, RowsInv, Rows
  <2> QED
    BY <1>1, <2>1 DEF InputsInv, RowsInv, Rows
<1>3. TokensInv'
  BY <1>1 DEF InputsInv, TokensInv, HistoryOf, TokensOf, Rows
<1>4. LengthsInv'
  BY <1>1 DEF InputsInv, LengthsInv, Rows, NumPrefill
<1>5. FlatInv'
  <2>1. \A t, j, p : IsToken(t, j, p)' <=> IsToken(t, j, p)
    BY <1>1 DEF IsToken
  <2> QED
    BY <1>1, <2>1 DEF InputsInv, FlatInv, Rows, NumPrefill
<1>6. SelectionInv'
  <2>1. Rows' = Rows /\ NumPrefill' = NumPrefill
    BY <1>1 DEF Rows, NumPrefill
  <2>2. \A t, j, p : IsToken(t, j, p)' <=> IsToken(t, j, p)
    BY <1>1 DEF IsToken
  <2>3. \A r : PromptRow(r)' <=> PromptRow(r)
    BY <1>1, <2>2 DEF PromptRow
  <2>4. \A r : DecodeRow(r)' <=> DecodeRow(r)
    BY <1>1, <2>1, <2>2 DEF DecodeRow
  <2> QED
    BY <1>1, <2>1, <2>3, <2>4 DEF InputsInv, SelectionInv
<1> QED
  BY <1>2, <1>3, <1>4, <1>5, <1>6 DEF InputsInv

\* A sequence gets its row.
LEMMA RowAdded ==
  ASSUME ControlInv, InputsInv, NEW j \in DOMAIN batch, ~Placed(j), batch' = batch,
         \A k \in DOMAIN batch : Placed(k)' <=> Placed(k) \/ k = j,
         Preparing,
         seq_indices' = [seq_indices EXCEPT ![j] = Len(token_ids)],
         token_ids' = Append(token_ids, TokensOf(j)),
         sampling_params' = Append(sampling_params, j)
  PROVE  /\ RowsInv' /\ TokensInv' /\ Rows' = Rows + 1
         /\ \A r \in 1..Rows : sampling_params'[r] = sampling_params[r]
         /\ sampling_params'[Rows + 1] = j
<1> DEFINE n == Rows
<1>1. /\ sampling_params \in Seq(DOMAIN batch) /\ n \in Nat /\ n = Len(sampling_params)
      /\ seq_indices \in [DOMAIN batch -> Nat]
      /\ token_ids \in Seq(Seq(Token)) /\ Len(token_ids) = n
  BY DEF InputsInv, RowsInv, TokensInv, Rows
<1>2. /\ sampling_params' \in Seq(DOMAIN batch) /\ Len(sampling_params') = n + 1
      /\ \A r \in 1..n : sampling_params'[r] = sampling_params[r]
      /\ sampling_params'[n + 1] = j
  BY <1>1, AppendGrows
<1>3. TokensOf(j) \in Seq(Token) /\ Len(TokensOf(j)) = batch[j].n
      /\ \A k \in 1..batch[j].n : TokensOf(j)[k] = <<j, k>>
  <2>1. j \in Nat /\ batch[j].n \in Nat
    BY BatchFacts DEF ControlInv
  <2>2. TokensOf(j) \in [1..batch[j].n -> Token]
    BY <2>1 DEF TokensOf, Token
  <2>3. \A m \in Nat : \A f \in [1..m -> Token] : f \in Seq(Token) /\ Len(f) = m
    OBVIOUS
  <2>4. TokensOf(j) \in Seq(Token) /\ Len(TokensOf(j)) = batch[j].n
    BY <2>1, <2>2, <2>3
  <2>5. \A k \in 1..batch[j].n : TokensOf(j)[k] = <<j, k>>
    BY DEF TokensOf
  <2> QED
    BY <2>4, <2>5
<1>4. /\ token_ids' \in Seq(Seq(Token)) /\ Len(token_ids') = n + 1
      /\ \A r \in 1..n : token_ids'[r] = token_ids[r]
      /\ token_ids'[n + 1] = TokensOf(j)
  BY <1>1, <1>3, AppendGrows
<1>5. \A r \in 1..n : sampling_params[r] \in DOMAIN batch /\ Placed(sampling_params[r])
                       /\ sampling_params[r] # j /\ seq_indices[sampling_params[r]] = r - 1
  BY <1>1 DEF InputsInv, RowsInv
<1>6. RowsInv'
  <2>1. seq_indices' \in [DOMAIN batch -> Nat]
    BY <1>1
  <2>2. ASSUME NEW r \in 1..n + 1, NEW k \in DOMAIN batch, sampling_params'[r] = k
        PROVE  Placed(k)' /\ seq_indices'[k] = r - 1
    <3>1. CASE r \in 1..n
      BY <1>1, <1>2, <1>5, <2>2, <3>1
    <3>2. CASE r = n + 1
      BY <1>1, <1>2, <2>2, <3>2
    <3> QED
      BY <1>1, <3>1, <3>2
  <2>3. ASSUME NEW k \in DOMAIN batch, Placed(k)'
        PROVE  \E r \in 1..n + 1 : sampling_params'[r] = k
    <3>1. CASE k = j
      BY <1>1, <1>2, <3>1
    <3>2. CASE Placed(k)
      <4>1. PICK r \in 1..n : sampling_params[r] = k
        BY <3>2 DEF InputsInv, RowsInv
      <4> QED
        BY <1>1, <1>2, <4>1
    <3> QED
      BY <2>3, <3>1, <3>2
  <2> QED
    BY <1>2, <2>1, <2>2, <2>3 DEF RowsInv, Rows
<1>7. TokensInv'
  <2>1. HistoryOf(TokensOf(j), j)
    <3>1. batch[j].n \in Nat
      BY BatchFacts DEF ControlInv
    <3>2. ASSUME NEW row \in Seq(Token), Len(row) = batch[j].n,
                 \A k \in 1..batch[j].n : row[k] = <<j, k>>
          PROVE  HistoryOf(row, j)
      <4> DEFINE m == batch[j].n
      <4>1. Len(row) >= m
        BY <3>1, <3>2
      <4>2. \A k \in 1..Len(row) : k \in 1..m /\ k <= m
        BY <3>1, <3>2
      <4> HIDE DEF m
      <4>3. \A k \in 1..Len(row) : row[k] = IF k <= m THEN <<j, k>> ELSE Pad
        BY <3>2, <4>2 DEF m
      <4> QED
        BY <3>2, <4>1, <4>3 DEF HistoryOf, m
    <3> QED
      BY <1>3, <3>2
  <2>2. \A r \in 1..n + 1 : /\ token_ids'[r] = TokensOf(sampling_params'[r])
                             /\ HistoryOf(token_ids'[r], sampling_params'[r])
    <3> TAKE r \in 1..n + 1
    <3>1. CASE r \in 1..n
      BY <1>2, <1>4, <3>1 DEF InputsInv, TokensInv
    <3>2. CASE r = n + 1
      BY <1>2, <1>4, <2>1, <3>2
    <3> QED
      BY <1>1, <3>1, <3>2
  <2>3. \A row, k : HistoryOf(row, k)' <=> HistoryOf(row, k)
    BY DEF HistoryOf
  <2>4. \A k : TokensOf(k)' = TokensOf(k)
    BY DEF TokensOf
  <2>5. Rows' = n + 1
    BY <1>2 DEF Rows
  <2> HIDE DEF n
  <2> QED
    BY <1>2, <1>4, <2>2, <2>3, <2>4, <2>5 DEF TokensInv
<1> QED
  BY <1>2, <1>6, <1>7 DEF Rows

\* What the flat arrays hold, without how long they are.
FlatTokens ==
    /\ flat_tokens \in Seq(Token) /\ flat_positions \in Seq(Int) /\ slot_ids \in Seq(Int)
    /\ Len(flat_positions) = Len(flat_tokens) /\ Len(slot_ids) = Len(flat_tokens)
    /\ \A t \in 1..Len(flat_tokens) :
         \E j \in DOMAIN batch : \E p \in 1..batch[j].n :
            Placed(j) /\ IsToken(t, j, p) /\ (~batch[j].prefill => p = batch[j].n)
    /\ \A t, u \in 1..Len(flat_tokens) : flat_tokens[t] = flat_tokens[u] => t = u

\* Tokens of sequence j with their positions and slots: token place[k] is k-th.
TokensAt(tokens, positions, slots, place, j) ==
    /\ Len(positions) = Len(tokens) /\ Len(slots) = Len(tokens)
    /\ place \in [1..Len(tokens) -> 1..batch[j].n]
    /\ \A k \in 1..Len(tokens) :
         /\ tokens[k] = <<j, place[k]>> /\ positions[k] = place[k] - 1
         /\ slots[k] = SlotAt(batch[j], place[k] - 1)
         /\ ~batch[j].prefill => place[k] = batch[j].n
    /\ \A k, l \in 1..Len(tokens) : place[k] = place[l] => k = l

\* The tokens of one more sequence follow.
LEMMA FlatGrows ==
  ASSUME FlatTokens, NEW n \in Nat, n = Len(flat_tokens),
         NEW j \in DOMAIN batch, ~Placed(j), batch' = batch,
         \A k \in DOMAIN batch : Placed(k)' <=> Placed(k) \/ k = j,
         flat_tokens' \in Seq(Token), flat_positions' \in Seq(Int), slot_ids' \in Seq(Int),
         NEW tokens \in Seq(Token), NEW positions, NEW slots, NEW place,
         Grows(flat_tokens', flat_tokens, tokens),
         Grows(flat_positions', flat_positions, positions),
         Grows(slot_ids', slot_ids, slots),
         TokensAt(tokens, positions, slots, place, j)
  PROVE  /\ FlatTokens'
         /\ \A t \in 1..n : \A k, p : IsToken(t, k, p) => IsToken(t, k, p)'
         /\ \A k \in 1..Len(tokens) : IsToken(n + k, j, place[k])'
<1> DEFINE m == Len(tokens)
<1>0. /\ Len(positions) = m /\ Len(slots) = m /\ place \in [1..m -> 1..batch[j].n]
      /\ \A k \in 1..m :
           /\ tokens[k] = <<j, place[k]>> /\ positions[k] = place[k] - 1
           /\ slots[k] = SlotAt(batch[j], place[k] - 1)
           /\ ~batch[j].prefill => place[k] = batch[j].n
      /\ \A k, l \in 1..m : place[k] = place[l] => k = l
  BY DEF TokensAt
<1>1. /\ n \in Nat /\ m \in Nat
      /\ Len(flat_positions) = n /\ Len(slot_ids) = n
      /\ Len(flat_tokens') = n + m /\ Len(flat_positions') = n + m /\ Len(slot_ids') = n + m
  BY <1>0 DEF FlatTokens, Grows
<1>2. \A t \in 1..n : /\ flat_tokens'[t] = flat_tokens[t]
                      /\ flat_positions'[t] = flat_positions[t] /\ slot_ids'[t] = slot_ids[t]
  BY <1>0, <1>1 DEF Grows
<1>3. \A k \in 1..m : /\ flat_tokens'[n + k] = tokens[k]
                      /\ flat_positions'[n + k] = positions[k] /\ slot_ids'[n + k] = slots[k]
  BY <1>0, <1>1 DEF Grows
<1>4. ASSUME NEW t \in 1..n + m PROVE t \in 1..n \/ \E k \in 1..m : t = n + k
  <2>1. CASE t > n
    <3>1. t - n \in 1..m /\ t = n + (t - n)
      BY <1>1, <2>1
    <3> QED
      BY <3>1
  <2> QED
    BY <1>1, <2>1
<1> HIDE DEF m
<1>5. ASSUME NEW t \in 1..n, NEW k, NEW p, IsToken(t, k, p) PROVE IsToken(t, k, p)'
  BY <1>2, <1>5 DEF IsToken
<1>6. ASSUME NEW k \in 1..m PROVE IsToken(n + k, j, place[k])'
  BY <1>0, <1>3 DEF IsToken
<1>7. ASSUME NEW t \in 1..n
      PROVE  \E k \in DOMAIN batch : \E p \in 1..batch[k].n :
                Placed(k) /\ IsToken(t, k, p) /\ (~batch[k].prefill => p = batch[k].n)
  BY DEF FlatTokens
<1>8. ASSUME NEW t \in 1..n + m
      PROVE  \E k \in DOMAIN batch : \E p \in 1..batch[k].n :
                Placed(k)' /\ IsToken(t, k, p)' /\ (~batch[k].prefill => p = batch[k].n)
  <2>1. CASE t \in 1..n
    <3>1. PICK k \in DOMAIN batch : \E p \in 1..batch[k].n :
                 Placed(k) /\ IsToken(t, k, p) /\ (~batch[k].prefill => p = batch[k].n)
      BY <1>7, <2>1
    <3>2. PICK p \in 1..batch[k].n :
                 Placed(k) /\ IsToken(t, k, p) /\ (~batch[k].prefill => p = batch[k].n)
      BY <3>1
    <3> QED
      BY <1>5, <2>1, <3>2
  <2>2. ASSUME NEW k \in 1..m, t = n + k
        PROVE  \E p \in 1..batch[j].n :
                 Placed(j)' /\ IsToken(t, j, p)' /\ (~batch[j].prefill => p = batch[j].n)
    <3>1. place[k] \in 1..batch[j].n /\ (~batch[j].prefill => place[k] = batch[j].n)
      BY <1>0
    <3>2. IsToken(n + k, j, place[k])' /\ Placed(j)'
      BY <1>6
    <3> QED
      BY <2>2, <3>1, <3>2
  <2> QED
    BY <1>4, <2>1, <2>2
<1>9. ASSUME NEW t \in 1..n, NEW k \in 1..m PROVE flat_tokens[t] # tokens[k]
  <2>0. PICK h \in DOMAIN batch : \E p \in 1..batch[h].n : Placed(h) /\ IsToken(t, h, p)
    BY <1>7
  <2>1. PICK p \in 1..batch[h].n : Placed(h) /\ IsToken(t, h, p)
    BY <2>0
  <2>2. flat_tokens[t] = <<h, p>> /\ h # j /\ tokens[k] = <<j, place[k]>>
    BY <1>0, <2>1 DEF IsToken
  <2> QED
    BY <2>2
<1>10. ASSUME NEW k \in 1..m, NEW l \in 1..m, tokens[k] = tokens[l] PROVE k = l
  <2>1. tokens[k] = <<j, place[k]>> /\ tokens[l] = <<j, place[l]>>
    BY <1>0
  <2>2. <<j, place[k]>>[2] = <<j, place[l]>>[2]
    BY <1>10, <2>1, Zenon
  <2>3. place[k] = place[l]
    BY <2>2
  <2> QED
    BY <1>0, <2>3
<1>11. ASSUME NEW t \in 1..n + m, NEW u \in 1..n + m, flat_tokens'[t] = flat_tokens'[u]
       PROVE  t = u
  <2>1. CASE t \in 1..n /\ u \in 1..n
    BY <1>2, <1>11, <2>1 DEF FlatTokens
  <2>2. ASSUME t \in 1..n, NEW k \in 1..m, u = n + k PROVE FALSE
    <3>1. flat_tokens'[t] = flat_tokens[t] /\ flat_tokens'[u] = tokens[k]
      BY <1>2, <1>3, <2>2
    <3> QED
      BY <1>9, <1>11, <2>2, <3>1
  <2>3. ASSUME u \in 1..n, NEW k \in 1..m, t = n + k PROVE FALSE
    <3>1. flat_tokens'[u] = flat_tokens[u] /\ flat_tokens'[t] = tokens[k]
      BY <1>2, <1>3, <2>3
    <3> QED
      BY <1>9, <1>11, <2>3, <3>1
  <2>4. ASSUME NEW k \in 1..m, t = n + k, NEW l \in 1..m, u = n + l PROVE t = u
    BY <1>3, <1>10, <1>11, <2>4
  <2> QED
    BY <1>4, <2>1, <2>2, <2>3, <2>4
<1>12. FlatTokens'
  <2>1. Len(flat_tokens)' = n + m
    BY <1>1 DEF m
  <2> QED
    BY <1>1, <1>8, <1>11, <2>1 DEF FlatTokens, m
<1> QED
  BY <1>5, <1>6, <1>12 DEF m

\* The types of the inputs, as the steps of both loops use them.
LEMMA InputTypes ==
  ASSUME ControlInv, InputsInv
  PROVE  /\ Rows \in Nat /\ NumPrefill \in Nat /\ NumPrefill <= Rows
         /\ cu_seq_lens \in Seq(Nat) /\ Len(cu_seq_lens) = NumPrefill + 1
         /\ num_prompt_tokens \in Nat
         /\ \A r \in 1..NumPrefill + 1 : cu_seq_lens[r] \in 0..num_prompt_tokens
         /\ Len(flat_tokens) = num_prompt_tokens + (Rows - NumPrefill)
         /\ Len(flat_tokens) \in Nat /\ FlatTokens
         /\ \A r \in 1..Rows : sampling_params[r] \in DOMAIN batch
         /\ \A j \in DOMAIN batch : j \in Nat \ {0} /\ batch[j].n \in Nat \ {0}
<1>1. sampling_params \in Seq(DOMAIN batch) /\ Rows \in Nat /\ Rows = Len(sampling_params)
  BY DEF InputsInv, RowsInv, Rows
<1>2. cu_seq_lens \in Seq(Nat) /\ NumPrefill \in 0..Rows /\ Len(cu_seq_lens) = NumPrefill + 1
  <2>1. cu_seq_lens \in Seq(Nat) /\ NumPrefill \in 0..Rows
    BY DEF InputsInv, LengthsInv
  <2> QED
    BY <1>1, <2>1 DEF NumPrefill
<1>3. \A r \in 1..NumPrefill + 1 : cu_seq_lens[r] \in Nat
  BY <1>1, <1>2
<1>4. num_prompt_tokens \in Nat /\ num_prompt_tokens = cu_seq_lens[NumPrefill + 1]
  BY <1>1, <1>2, <1>3 DEF InputsInv, LengthsInv
<1>5. ASSUME NEW r \in 1..NumPrefill + 1 PROVE cu_seq_lens[r] <= num_prompt_tokens
  <2>1. CASE r = NumPrefill + 1
    BY <1>4, <2>1
  <2>2. CASE r < NumPrefill + 1
    <3>1. cu_seq_lens[r] < cu_seq_lens[NumPrefill + 1]
      BY <1>1, <1>2, <2>2 DEF InputsInv, LengthsInv
    <3> QED
      BY <1>3, <1>4, <3>1
  <2> QED
    BY <1>1, <1>2, <2>1, <2>2
<1>6. FlatTokens /\ Len(flat_tokens) = num_prompt_tokens + (Rows - NumPrefill)
  BY DEF InputsInv, FlatInv, FlatTokens
<1>7. Len(flat_tokens) \in Nat
  BY <1>1, <1>2, <1>4, <1>6
<1>8. \A j \in DOMAIN batch : j \in Nat \ {0} /\ batch[j].n \in Nat \ {0}
  BY BatchFacts DEF ControlInv
<1>9. \A r \in 1..NumPrefill + 1 : cu_seq_lens[r] \in 0..num_prompt_tokens
  BY <1>3, <1>4, <1>5
<1> QED
  BY <1>1, <1>2, <1>4, <1>6, <1>7, <1>8, <1>9

\* A prompt is added: its tokens, their positions and slots follow those of the
\* prompts before it.
LEMMA PromptAdded ==
  ASSUME ControlInv, InputsInv, PrefillStep, batch[i].prefill
  PROVE  InputsInv'
<1> DEFINE s == batch[i]
<1>0. PICK P, total \in Nat : P = NumPrefill /\ total = num_prompt_tokens
  BY InputTypes
<1>1. /\ pc = "prefill" /\ Advance("decode") /\ batch' = batch
      /\ AddRow(i, TokensOf(i), [p \in 1..s.n |-> p - 1])
      /\ num_prompt_tokens' = total + s.n
      /\ cu_seq_lens' = Append(cu_seq_lens, total + s.n)
      /\ slot_ids' = slot_ids \o CacheSlots(s)
      /\ context_lens' = context_lens /\ block_tables' = block_tables
  BY <1>0 DEF PrefillStep, decodeVars
<1>2. PICK j \in DOMAIN batch : j = i
  BY DEF ControlInv
<1>3. /\ ~Placed(j) /\ Preparing /\ Preparing' /\ s.n \in Nat \ {0}
      /\ \A k \in DOMAIN batch : Placed(k)' <=> Placed(k) \/ k = j
  <2>1. s.prefill = (pc = "prefill")
    BY <1>1, <1>2, BatchFacts DEF ControlInv
  <2>2. \A k \in DOMAIN batch : k = i => batch[k].prefill = (pc = "prefill")
    BY <2>1
  <2> QED
    BY <1>1, <1>2, <2>1, <2>2, AdvanceFacts, InputTypes DEF Preparing
<1>4. /\ P \in Nat /\ Rows = P /\ total \in Nat
      /\ cu_seq_lens \in Seq(Nat) /\ Len(cu_seq_lens) = P + 1
      /\ cu_seq_lens[P + 1] = total /\ Len(flat_tokens) = total
      /\ \A r \in 1..P + 1 : cu_seq_lens[r] \in 0..total
  <2>1. Rows = P /\ cu_seq_lens[P + 1] = total
    BY <1>0, <1>1 DEF InputsInv, LengthsInv
  <2> QED
    BY <1>0, <2>1, InputTypes
<1>5. /\ RowsInv' /\ TokensInv' /\ Rows' = P + 1
      /\ \A r \in 1..P : sampling_params'[r] = sampling_params[r]
      /\ sampling_params'[P + 1] = j
  BY <1>1, <1>2, <1>3, <1>4, RowAdded DEF AddRow
<1>6. /\ cu_seq_lens' \in Seq(Nat) /\ Len(cu_seq_lens') = P + 2
      /\ \A r \in 1..P + 1 : cu_seq_lens'[r] = cu_seq_lens[r]
      /\ cu_seq_lens'[P + 2] = total + s.n /\ NumPrefill' = P + 1
  <2>1. total + s.n \in Nat
    BY <1>3, <1>4
  <2>2. /\ cu_seq_lens' \in Seq(Nat) /\ Len(cu_seq_lens') = (P + 1) + 1
        /\ \A r \in 1..P + 1 : cu_seq_lens'[r] = cu_seq_lens[r]
        /\ cu_seq_lens'[(P + 1) + 1] = total + s.n
    BY <1>1, <1>4, <2>1, AppendGrows
  <2>3. (P + 1) + 1 = P + 2 /\ NumPrefill' = Len(cu_seq_lens') - 1
    BY <1>4 DEF NumPrefill
  <2> QED
    BY <1>4, <2>2, <2>3
<1>7. LengthsInv'
  <2>1. ASSUME NEW q \in 1..P + 2, NEW r \in 1..P + 2, q < r
        PROVE  cu_seq_lens'[q] < cu_seq_lens'[r]
    <3>1. CASE r \in 1..P + 1
      <4>1. q \in 1..P + 1
        BY <1>4, <2>1, <3>1
      <4> QED
        BY <1>0, <1>6, <2>1, <3>1, <4>1 DEF InputsInv, LengthsInv
    <3>2. CASE r = P + 2
      <4>1. q \in 1..P + 1
        BY <1>4, <2>1, <3>2
      <4>2. cu_seq_lens[q] \in 0..total
        BY <1>4, <4>1
      <4> QED
        BY <1>3, <1>4, <1>6, <3>2, <4>1, <4>2
    <3> QED
      BY <1>4, <3>1, <3>2
  <2>2. cu_seq_lens'[1] = 0
    BY <1>4, <1>6 DEF InputsInv, LengthsInv
  <2>3. (P + 1) + 1 = P + 2 /\ P + 1 \in 0..P + 1
    BY <1>4
  <2> QED
    BY <1>1, <1>5, <1>6, <2>1, <2>2, <2>3 DEF LengthsInv
<1>8. PICK n \in Nat : n = Len(flat_tokens)
  BY InputTypes
<1> DEFINE positions == [p \in 1..s.n |-> p - 1]
<1>9. /\ TokensOf(i) \in Seq(Token) /\ Len(TokensOf(i)) = s.n
      /\ positions \in Seq(Int) /\ Len(positions) = s.n
      /\ CacheSlots(s) \in Seq(Int) /\ Len(CacheSlots(s)) = s.n
      /\ \A p \in 1..s.n : /\ TokensOf(i)[p] = <<j, p>> /\ positions[p] = p - 1
                           /\ CacheSlots(s)[p] = SlotAt(s, p - 1)
  <2>1. \A S : \A m \in Nat : \A f \in [1..m -> S] : f \in Seq(S) /\ Len(f) = m
    OBVIOUS
  <2>2. TokensOf(i) \in [1..s.n -> Token] /\ \A p \in 1..s.n : TokensOf(i)[p] = <<j, p>>
    <3>1. j \in Nat /\ \A p \in 1..s.n : p \in Nat
      BY <1>3, InputTypes
    <3> QED
      BY <1>2, <3>1 DEF TokensOf, Token
  <2>3. positions \in [1..s.n -> Int] /\ \A p \in 1..s.n : positions[p] = p - 1
    BY <1>3
  <2>4. /\ CacheSlots(s) \in Seq(Int) /\ Len(CacheSlots(s)) = s.n
        /\ \A p \in 1..s.n : CacheSlots(s)[p] = SlotAt(s, p - 1)
    BY <1>2, SlotsOfTokens DEF ControlInv
  <2> HIDE DEF s, positions
  <2> QED
    BY <1>3, <2>1, <2>2, <2>3, <2>4
<1>10. PICK toks, posn, slts, place :
         /\ toks = TokensOf(i) /\ posn = positions /\ slts = CacheSlots(s)
         /\ place = [k \in 1..s.n |-> k]
  OBVIOUS
<1>11. PICK N \in Nat \ {0} : N = s.n
  BY <1>3
<1> HIDE DEF positions
<1>12. /\ toks \in Seq(Token) /\ Len(toks) = N /\ Len(posn) = N /\ Len(slts) = N
       /\ place \in [1..N -> 1..batch[j].n] /\ \A k \in 1..N : place[k] = k
       /\ \A k \in 1..N : /\ toks[k] = <<j, k>> /\ posn[k] = k - 1
                          /\ slts[k] = SlotAt(batch[j], k - 1)
  BY <1>2, <1>9, <1>10, <1>11
<1>13. /\ flat_tokens' \in Seq(Token) /\ Grows(flat_tokens', flat_tokens, toks)
       /\ flat_positions' \in Seq(Int) /\ Grows(flat_positions', flat_positions, posn)
       /\ slot_ids' \in Seq(Int) /\ Grows(slot_ids', slot_ids, slts)
       /\ sample_idx' = Append(sample_idx, Len(flat_tokens') - 1)
  <2>1. /\ flat_tokens \in Seq(Token) /\ flat_positions \in Seq(Int) /\ slot_ids \in Seq(Int)
    BY DEF InputsInv, FlatInv
  <2>2. posn \in Seq(Int) /\ slts \in Seq(Int)
    BY <1>9, <1>10
  <2>3. /\ flat_tokens' = flat_tokens \o toks /\ flat_positions' = flat_positions \o posn
        /\ slot_ids' = slot_ids \o slts
        /\ sample_idx' = Append(sample_idx, Len(flat_tokens') - 1)
    BY <1>1, <1>10 DEF AddRow, positions
  <2> QED
    BY <1>12, <2>1, <2>2, <2>3, ConcatGrows
<1>14. /\ FlatTokens'
       /\ \A t \in 1..n : \A k, p : IsToken(t, k, p) => IsToken(t, k, p)'
       /\ \A k \in 1..N : IsToken(n + k, j, k)'
  <2>1. FlatTokens /\ batch' = batch /\ batch[j].prefill
    BY <1>1, <1>2, InputTypes
  <2>2. TokensAt(toks, posn, slts, place, j)
    BY <1>12, <2>1 DEF TokensAt
  <2>5. /\ FlatTokens'
        /\ \A t \in 1..n : \A k, p : IsToken(t, k, p) => IsToken(t, k, p)'
        /\ \A k \in 1..Len(toks) : IsToken(n + k, j, place[k])'
    BY <1>3, <1>8, <1>12, <1>13, <2>1, <2>2, FlatGrows
  <2>6. \A k \in 1..N : place[k] = k
    BY <1>12
  <2> QED
    BY <1>12, <2>5, <2>6
<1>15. n = total /\ Len(flat_tokens') = total + N /\ num_prompt_tokens' = total + N
  BY <1>1, <1>4, <1>8, <1>11, <1>12, <1>13 DEF Grows
<1>16. FlatInv'
  <2>1. Len(flat_tokens') = num_prompt_tokens' + (Rows' - NumPrefill')
    BY <1>4, <1>5, <1>6, <1>15
  <2> QED
    BY <1>14, <2>1 DEF FlatInv, FlatTokens
<1>17. /\ sample_idx' \in Seq(Int) /\ Len(sample_idx') = P + 1
       /\ \A r \in 1..P : sample_idx'[r] = sample_idx[r]
       /\ sample_idx'[P + 1] = total + N - 1
  <2>1. sample_idx \in Seq(Int) /\ Len(sample_idx) = P
    BY <1>4 DEF InputsInv, SelectionInv
  <2>2. Len(flat_tokens') - 1 = total + N - 1 /\ total + N - 1 \in Int
    BY <1>4, <1>15
  <2> QED
    BY <1>13, <2>1, <2>2, AppendGrows
<1>18. ASSUME NEW r \in 1..P PROVE PromptRow(r)'
  <2>1. PICK k \in DOMAIN batch : k = sampling_params[r]
    BY <1>4, InputTypes
  <2>2. /\ batch[k].prefill /\ cu_seq_lens[r + 1] = cu_seq_lens[r] + batch[k].n
        /\ sample_idx[r] = cu_seq_lens[r + 1] - 1
        /\ \A p \in 1..batch[k].n : IsToken(cu_seq_lens[r] + p, k, p)
    BY <1>0, <2>1 DEF InputsInv, SelectionInv, PromptRow
  <2>3. r \in 1..P + 1 /\ r + 1 \in 1..P + 1
    BY <1>4
  <2>4. PICK c \in Nat : c = cu_seq_lens[r]
    BY <1>4, <2>3
  <2>5. batch[k].n \in Nat
    BY InputTypes
  <2>6. c + batch[k].n \in 0..n
    BY <1>4, <1>15, <2>2, <2>3, <2>4
  <2>7. ASSUME NEW p \in 1..batch[k].n PROVE IsToken(c + p, k, p)'
    <3>1. c + p \in 1..n
      BY <2>4, <2>5, <2>6, <1>8
    <3> QED
      BY <1>14, <2>2, <2>4, <3>1
  <2>8. /\ cu_seq_lens'[r] = c /\ cu_seq_lens'[r + 1] = cu_seq_lens[r + 1]
        /\ sampling_params'[r] = k /\ sample_idx'[r] = sample_idx[r]
    BY <1>5, <1>6, <1>17, <2>1, <2>3, <2>4
  <2> QED
    BY <1>1, <2>2, <2>4, <2>7, <2>8 DEF PromptRow
<1>19. ASSUME NEW r, r = P + 1 PROVE PromptRow(r)'
  <2>1. P + 1 \in 1..P + 1 /\ (P + 1) + 1 = P + 2
    BY <1>4
  <2>2. cu_seq_lens'[P + 1] = n /\ cu_seq_lens'[P + 2] = n + N
    BY <1>4, <1>6, <1>11, <1>15, <2>1
  <2>3. /\ sampling_params'[P + 1] = j /\ sample_idx'[P + 1] = (n + N) - 1
        /\ batch[j].prefill /\ batch[j].n = N
    BY <1>2, <1>5, <1>11, <1>15, <1>17
  <2>4. /\ cu_seq_lens'[r] = n /\ cu_seq_lens'[r + 1] = n + N
        /\ sampling_params'[r] = j /\ sample_idx'[r] = (n + N) - 1
    BY <1>19, <2>1, <2>2, <2>3
  <2>5. \A p \in 1..batch[j].n : IsToken(n + p, j, p)'
    BY <1>14, <2>3
  <2> QED
    BY <1>1, <2>3, <2>4, <2>5 DEF PromptRow
<1>20. SelectionInv'
  <2>1. /\ context_lens \in Seq(Nat) /\ Len(context_lens) = 0
        /\ block_tables \in Seq(Seq(Nat)) /\ Len(block_tables) = 0
    BY <1>0, <1>4 DEF InputsInv, SelectionInv
  <2>2. \A r \in 1..P + 1 : PromptRow(r)'
    <3> TAKE r \in 1..P + 1
    <3>1. CASE r = P + 1
      BY <1>19, <3>1
    <3> QED
      BY <1>4, <1>18, <3>1
  <2>3. NumPrefill' + 1..Rows' = {} /\ Rows' - NumPrefill' = 0
    BY <1>4, <1>5, <1>6
  <2> QED
    BY <1>1, <1>5, <1>6, <1>17, <2>1, <2>2, <2>3 DEF SelectionInv
<1> QED
  BY <1>5, <1>7, <1>16, <1>20 DEF InputsInv
\* A sequence that decodes is added: its newest token with its position and slot,
\* its length and its block table.
LEMMA DecodeAdded ==
  ASSUME ControlInv, InputsInv, DecodeStep, ~batch[i].prefill
  PROVE  InputsInv'
<1>0. PICK P, R, total \in Nat : P = NumPrefill /\ total = num_prompt_tokens /\ R = Rows
  BY InputTypes
<1>1. PICK j \in DOMAIN batch : j = i
  BY DEF ControlInv
<1> DEFINE s == batch[j]
<1>2. /\ pc = "decode" /\ Advance("pad") /\ batch' = batch /\ ~s.prefill
      /\ AddRow(j, <<Last(TokensOf(j))>>, <<s.n - 1>>)
      /\ num_prompt_tokens' = total /\ cu_seq_lens' = cu_seq_lens
      /\ context_lens' = Append(context_lens, s.n)
      /\ block_tables' = Append(block_tables, s.blocks)
      /\ slot_ids' = Append(slot_ids, LastSlotId(s))
  BY <1>0, <1>1 DEF DecodeStep
<1>3. /\ ~Placed(j) /\ Preparing /\ Preparing' /\ pc' # "prefill"
      /\ \A k \in DOMAIN batch : Placed(k)' <=> Placed(k) \/ k = j
  <2>1. batch[i].prefill = (pc = "prefill")
    BY <1>2, <1>1, BatchFacts DEF ControlInv
  <2>2. \A k \in DOMAIN batch : k = i => batch[k].prefill = (pc = "prefill")
    BY <2>1
  <2> QED
    BY <1>1, <1>2, <2>1, <2>2, AdvanceFacts DEF Preparing
<1>4. PICK N \in Nat \ {0}, n \in Nat : N = s.n /\ n = Len(flat_tokens)
  BY InputTypes
<1>5. /\ P <= R /\ n = total + (R - P) /\ Len(cu_seq_lens) = P + 1
      /\ \A r \in 1..P + 1 : cu_seq_lens[r] \in 0..total
      /\ \A r \in 1..R : sampling_params[r] \in DOMAIN batch
  BY <1>0, <1>4, InputTypes
<1>6. /\ RowsInv' /\ TokensInv' /\ Rows' = R + 1 /\ NumPrefill' = P
      /\ \A r \in 1..R : sampling_params'[r] = sampling_params[r]
      /\ sampling_params'[R + 1] = j
  <2>1. NumPrefill' = P
    BY <1>0, <1>2 DEF NumPrefill
  <2> QED
    BY <1>0, <1>2, <1>3, <2>1, RowAdded DEF AddRow
<1>7. LengthsInv'
  <2>1. P \in 0..R + 1
    BY <1>5
  <2> QED
    BY <1>0, <1>2, <1>3, <1>6, <2>1 DEF InputsInv, LengthsInv
<1>8. PICK slot \in Int : slot = LastSlotId(s) /\ slot = SlotAt(batch[j], N - 1)
  BY <1>4, SlotsOfTokens DEF ControlInv
<1>9. PICK toks, posn, slts, place :
        toks = <<<<j, N>>>> /\ posn = <<N - 1>> /\ slts = <<slot>> /\ place = <<N>>
  OBVIOUS
<1>10. /\ toks \in Seq(Token) /\ posn \in Seq(Int) /\ slts \in Seq(Int)
       /\ Len(toks) = 1 /\ 1..Len(toks) = {1} /\ Len(posn) = 1 /\ Len(slts) = 1
       /\ toks[1] = <<j, N>> /\ posn[1] = N - 1 /\ slts[1] = slot
       /\ place \in [1..1 -> 1..N] /\ place[1] = N
  <2>1. <<j, N>> \in Token
    BY InputTypes DEF Token
  <2> QED
    BY <1>9, <2>1
<1>11. /\ flat_tokens' \in Seq(Token) /\ Grows(flat_tokens', flat_tokens, toks)
       /\ flat_positions' \in Seq(Int) /\ Grows(flat_positions', flat_positions, posn)
       /\ slot_ids' \in Seq(Int) /\ Grows(slot_ids', slot_ids, slts)
       /\ sample_idx' = Append(sample_idx, Len(flat_tokens') - 1)
  <2>1. /\ flat_tokens \in Seq(Token) /\ flat_positions \in Seq(Int) /\ slot_ids \in Seq(Int)
    BY DEF InputsInv, FlatInv
  <2>2. Last(TokensOf(j)) = <<j, N>>
    <3>1. TokensOf(j) = [p \in 1..N |-> <<j, p>>]
      BY <1>4 DEF TokensOf
    <3>2. N \in 1..N /\ Len([p \in 1..N |-> <<j, p>>]) = N
      OBVIOUS
    <3> QED
      BY <3>1, <3>2 DEF Last
  <2>3. /\ flat_tokens' = flat_tokens \o toks /\ flat_positions' = flat_positions \o posn
        /\ slot_ids' = Append(slot_ids, slot)
        /\ sample_idx' = Append(sample_idx, Len(flat_tokens') - 1)
    BY <1>2, <1>4, <1>8, <1>9, <2>2 DEF AddRow
  <2> QED
    BY <1>9, <1>10, <2>1, <2>3, ConcatGrows, AppendGrows
<1>12. /\ FlatTokens'
       /\ \A t \in 1..n : \A k, p : IsToken(t, k, p) => IsToken(t, k, p)'
       /\ IsToken(n + 1, j, N)'
  <2>1. FlatTokens
    BY InputTypes
  <2>2. TokensAt(toks, posn, slts, place, j)
    BY <1>2, <1>4, <1>8, <1>10 DEF TokensAt
  <2>3. /\ FlatTokens'
        /\ \A t \in 1..n : \A k, p : IsToken(t, k, p) => IsToken(t, k, p)'
        /\ \A k \in 1..Len(toks) : IsToken(n + k, j, place[k])'
    BY <1>2, <1>3, <1>4, <1>10, <1>11, <2>1, <2>2, FlatGrows
  <2> QED
    BY <1>10, <2>3
<1>13. Len(flat_tokens') = n + 1
  BY <1>4, <1>10, <1>11 DEF Grows
<1>14. FlatInv'
  <2>1. Len(flat_tokens') = num_prompt_tokens' + (Rows' - NumPrefill')
    BY <1>2, <1>5, <1>6, <1>13
  <2> QED
    BY <1>12, <2>1 DEF FlatInv, FlatTokens
<1>15. /\ sample_idx' \in Seq(Int) /\ Len(sample_idx') = R + 1
       /\ \A r \in 1..R : sample_idx'[r] = sample_idx[r]
       /\ sample_idx'[R + 1] = n
  <2>1. sample_idx \in Seq(Int) /\ Len(sample_idx) = R
    BY <1>0 DEF InputsInv, SelectionInv
  <2>2. Len(flat_tokens') - 1 = n
    BY <1>13
  <2> QED
    BY <1>11, <2>1, <2>2, AppendGrows
<1>16. /\ context_lens' \in Seq(Nat) /\ Len(context_lens') = (R - P) + 1
       /\ \A d \in 1..R - P : context_lens'[d] = context_lens[d]
       /\ context_lens'[(R - P) + 1] = N
  <2>1. context_lens \in Seq(Nat) /\ Len(context_lens) = R - P
    BY <1>0 DEF InputsInv, SelectionInv
  <2>2. context_lens' = Append(context_lens, N)
    BY <1>2, <1>4
  <2> QED
    BY <2>1, <2>2, AppendGrows
<1>17. /\ block_tables' \in Seq(Seq(Nat)) /\ Len(block_tables') = (R - P) + 1
       /\ \A d \in 1..R - P : block_tables'[d] = block_tables[d]
       /\ block_tables'[(R - P) + 1] = s.blocks
  <2>1. block_tables \in Seq(Seq(Nat)) /\ Len(block_tables) = R - P
    BY <1>0 DEF InputsInv, SelectionInv
  <2>2. s.blocks \in Seq(Nat)
    <3>1. s.blocks \in Seq(0..NumBlocks - 1) /\ 0..NumBlocks - 1 \subseteq Nat
      BY BatchFacts, BatchesAssumption DEF ControlInv
    <3>2. ASSUME NEW S, NEW T, S \subseteq T, NEW q \in Seq(S) PROVE q \in Seq(T)
      <4>1. q \in [1..Len(q) -> T] /\ Len(q) \in Nat
        BY <3>2
      <4>2. \A m \in Nat : \A f \in [1..m -> T] : f \in Seq(T)
        OBVIOUS
      <4> QED
        BY <4>1, <4>2
    <3> HIDE DEF s
    <3> QED
      BY <3>1, <3>2
  <2>3. block_tables' = Append(block_tables, s.blocks)
    BY <1>2
  <2> HIDE DEF s
  <2> QED
    BY <2>1, <2>2, <2>3, AppendGrows
<1>18. ASSUME NEW r \in 1..P PROVE PromptRow(r)'
  <2>0. r \in 1..R
    BY <1>5
  <2>1. PICK k \in DOMAIN batch : k = sampling_params[r]
    BY <1>5, <2>0
  <2>2. /\ batch[k].prefill /\ cu_seq_lens[r + 1] = cu_seq_lens[r] + batch[k].n
        /\ sample_idx[r] = cu_seq_lens[r + 1] - 1
        /\ \A p \in 1..batch[k].n : IsToken(cu_seq_lens[r] + p, k, p)
    BY <1>0, <2>1 DEF InputsInv, SelectionInv, PromptRow
  <2>3. r \in 1..P + 1 /\ r + 1 \in 1..P + 1
    OBVIOUS
  <2>4. PICK c \in Nat : c = cu_seq_lens[r]
    BY <1>5, <2>3
  <2>5. batch[k].n \in Nat
    BY InputTypes
  <2>6. c + batch[k].n \in 0..n
    BY <1>5, <2>2, <2>3, <2>4
  <2>7. ASSUME NEW p \in 1..batch[k].n PROVE IsToken(c + p, k, p)'
    <3>1. c + p \in 1..n
      BY <2>4, <2>5, <2>6, <1>4
    <3> QED
      BY <1>12, <2>2, <2>4, <3>1
  <2>8. /\ cu_seq_lens'[r] = c /\ cu_seq_lens'[r + 1] = cu_seq_lens[r + 1]
        /\ sampling_params'[r] = k /\ sample_idx'[r] = sample_idx[r]
    BY <1>2, <1>6, <1>15, <2>0, <2>1, <2>3, <2>4
  <2> QED
    BY <1>2, <2>2, <2>4, <2>7, <2>8 DEF PromptRow
<1>19. ASSUME NEW r \in P + 1..R PROVE DecodeRow(r)'
  <2>0. r \in 1..R
    BY <1>5
  <2>1. PICK k \in DOMAIN batch : k = sampling_params[r]
    BY <1>5, <2>0
  <2>2. PICK d \in 1..R - P : d = r - P
    BY <1>5
  <2>3. /\ ~batch[k].prefill /\ IsToken(total + d, k, batch[k].n)
        /\ sample_idx[r] = total + d - 1 /\ context_lens[d] = batch[k].n
        /\ Len(block_tables[d]) >= Len(batch[k].blocks)
        /\ \A x \in 1..Len(batch[k].blocks) : block_tables[d][x] = batch[k].blocks[x]
    BY <1>0, <2>1, <2>2 DEF InputsInv, SelectionInv, DecodeRow
  <2>4. total + d \in 1..n
    BY <1>5
  <2>5. PICK x : x = batch[k].n
    OBVIOUS
  <2>6. IsToken(total + d, k, x)'
    BY <1>12, <2>3, <2>4, <2>5
  <2>7. /\ sampling_params'[r] = k /\ sample_idx'[r] = sample_idx[r]
        /\ context_lens'[d] = context_lens[d] /\ block_tables'[d] = block_tables[d]
        /\ r - NumPrefill' = d /\ num_prompt_tokens' = total
    BY <1>2, <1>6, <1>15, <1>16, <1>17, <2>0, <2>1, <2>2
  <2> QED
    BY <1>2, <2>3, <2>5, <2>6, <2>7 DEF DecodeRow
<1>20. ASSUME NEW r, r = R + 1 PROVE DecodeRow(r)'
  <2>1. PICK d \in Nat : d = (R - P) + 1
    BY <1>5
  <2>2. /\ sampling_params'[r] = j /\ sample_idx'[r] = n
        /\ context_lens'[d] = N /\ block_tables'[d] = s.blocks
        /\ r - NumPrefill' = d /\ num_prompt_tokens' = total /\ n + 1 = total + d
    <3>1. sampling_params'[r] = j /\ sample_idx'[r] = n
      BY <1>6, <1>15, <1>20
    <3>2. context_lens'[d] = N /\ block_tables'[d] = s.blocks
      BY <1>16, <1>17, <2>1
    <3>3. NumPrefill' = P /\ num_prompt_tokens' = total
      BY <1>2, <1>6
    <3>4. r - P = d
      BY <1>20, <2>1
    <3>5. n + 1 = total + d
      BY <1>5, <2>1
    <3> QED
      BY <3>1, <3>2, <3>3, <3>4, <3>5
  <2>3. IsToken(total + d, j, N)'
    BY <1>12, <2>2
  <2>4. n = total + d - 1
    BY <2>1, <2>2
  <2>5. Len(s.blocks) >= Len(s.blocks)
    <3>1. Len(s.blocks) \in Nat
      BY BatchFacts DEF ControlInv
    <3> QED
      BY <3>1
  <2> QED
    BY <1>2, <1>4, <2>2, <2>3, <2>4, <2>5 DEF DecodeRow
<1>21. SelectionInv'
  <2>1. ASSUME NEW r \in P + 1..R + 1 PROVE DecodeRow(r)'
    <3>1. CASE r = R + 1
      BY <1>20, <3>1
    <3> QED
      BY <1>5, <1>19, <3>1
  <2>2. (R - P) + 1 = (R + 1) - P
    OBVIOUS
  <2> QED
    BY <1>6, <1>15, <1>16, <1>17, <1>18, <2>1, <2>2 DEF SelectionInv
<1> QED
  BY <1>6, <1>7, <1>14, <1>21 DEF InputsInv

\* Both loops keep the inputs right; they touch neither the cache nor the outputs.
LEMMA LoopsKeepInputs ==
  ASSUME ControlInv, InputsInv, PrefillStep \/ DecodeStep
  PROVE  ControlInv' /\ InputsInv' /\ ~Executed /\ ~Executed' /\ UNCHANGED <<batch, kv>>
<1>1. \/ pc = "prefill" /\ Advance("decode")
      \/ pc = "decode" /\ Advance("pad")
  BY DEF PrefillStep, DecodeStep
<1>2. UNCHANGED <<batch, kv>> /\ ~Executed /\ Preparing
  BY DEF PrefillStep, DecodeStep, Executed, Preparing
<1>3. /\ ControlInv' /\ ~Executed' /\ (pc' = "prefill" => pc = "prefill")
      /\ \A k \in DOMAIN batch : Placed(k)' <=>
           Placed(k) \/ (k = i /\ batch[k].prefill = (pc = "prefill"))
  BY <1>1, <1>2, AdvanceFacts
<1>4. InputsInv'
  <2>1. CASE PrefillStep /\ batch[i].prefill
    BY <2>1, PromptAdded
  <2>2. CASE DecodeStep /\ ~batch[i].prefill
    BY <2>2, DecodeAdded
  <2>3. CASE PrefillStep /\ ~batch[i].prefill
    <3>1. pc = "prefill" /\ UNCHANGED inputs
      BY <2>3 DEF PrefillStep, Skip
    <3>2. \A k \in DOMAIN batch : Placed(k)' <=> Placed(k)
      BY <1>3, <2>3, <3>1
    <3> QED
      BY <1>2, <1>3, <3>1, <3>2, InputsStay
  <2>4. CASE DecodeStep /\ batch[i].prefill
    <3>1. pc = "decode" /\ UNCHANGED inputs
      BY <2>4 DEF DecodeStep, Skip
    <3>2. \A k \in DOMAIN batch : Placed(k)' <=> Placed(k)
      BY <1>3, <2>4, <3>1
    <3> QED
      BY <1>2, <1>3, <3>1, <3>2, InputsStay
  <2> QED
    BY <2>1, <2>2, <2>3, <2>4
<1> QED
  BY <1>2, <1>3, <1>4
LEMMA LeastNatural ==
  ASSUME NEW T \in SUBSET Nat, T # {}
  PROVE  \E x \in T : \A y \in T : x <= y
<1> DEFINE less == OpToRel(<, Nat)
<1>1. IsWellFoundedOn(less, Nat)
  BY NatLessThanWellFounded
<1>2. \A x, y \in Nat : <<y, x>> \in less <=> y < x
  BY DEF OpToRel
<1> HIDE DEF less
<1>3. PICK x \in T : \A y \in T : ~(<<y, x>> \in less)
  BY <1>1, WFMin
<1>4. \A y \in T : x <= y
  <2> TAKE y \in T
  <2>1. x \in Nat /\ y \in Nat /\ ~(y < x)
    BY <1>2, <1>3
  <2> QED
    BY <2>1
<1> QED
  BY <1>4

\* Finitely many lengths have a longest one.
LEMMA LongestExists ==
  ASSUME NEW m \in Nat, NEW len \in [1..m -> Nat]
  PROVE  Max({0} \cup {len[r] : r \in 1..m}) \in Nat
<1> DEFINE lens == {0} \cup {len[r] : r \in 1..m}
           Bounded(k) == \E b \in Nat : \A r \in 1..k : len[r] <= b
           T == {k \in 0..m : ~Bounded(k)}
<1>1. T = {}
  <2> SUFFICES ASSUME T # {} PROVE FALSE
    OBVIOUS
  <2>1. T \in SUBSET Nat
    OBVIOUS
  <2>2. PICK x \in T : \A y \in T : x <= y
    BY <2>1, LeastNatural
  <2>3. x \in 0..m /\ ~Bounded(x)
    OBVIOUS
  <2>4. x # 0
    BY <2>3
  <2>5. x - 1 \in 0..m /\ x \in 1..m
    BY <2>3, <2>4
  <2>6. Bounded(x - 1)
    <3> HIDE DEF Bounded
    <3>1. CASE ~Bounded(x - 1)
      <4>1. x - 1 \in T
        BY <2>5, <3>1
      <4>2. x <= x - 1
        BY <2>2, <4>1
      <4> QED
        BY <2>5, <4>2
    <3> QED
      BY <3>1
  <2>7. PICK b \in Nat : \A r \in 1..x - 1 : len[r] <= b
    BY <2>6
  <2>8. PICK c \in Nat : b <= c /\ len[x] <= c
    <3>1. len[x] \in Nat
      BY <2>5
    <3>2. \A u, v \in Nat : \E w \in Nat : u <= w /\ v <= w
      <4> TAKE u, v \in Nat
      <4> QED
        BY u + v \in Nat, u <= u + v, v <= u + v
    <3> QED
      BY <3>1, <3>2
  <2>9. \A r \in 1..x : len[r] <= c
    <3> TAKE r \in 1..x
    <3>1. len[r] \in Nat
      <4>1. r \in 1..m
        BY <2>5
      <4> QED
        BY <4>1
    <3>2. CASE r = x
      BY <2>8, <3>2
    <3>3. CASE r # x
      <4>1. r \in 1..x - 1
        BY <2>5, <3>3
      <4>2. len[r] <= b
        BY <2>7, <4>1
      <4>3. \A u, v, w \in Nat : u <= v /\ v <= w => u <= w
        OBVIOUS
      <4> QED
        BY <2>8, <3>1, <4>2, <4>3, Zenon
    <3> QED
      BY <3>2, <3>3
  <2> QED
    BY <2>3, <2>9
<1>2. PICK b \in Nat : \A r \in 1..m : len[r] <= b
  <2>1. m \in 0..m
    OBVIOUS
  <2> QED
    BY <1>1, <2>1
<1>3. \A v \in lens : v \in Nat /\ v <= b
  BY <1>2
<1> DEFINE U == {b - v : v \in lens}
<1> HIDE DEF T, lens
<1>4. U \in SUBSET Nat /\ U # {}
  <2>1. 0 \in lens
    BY DEF lens
  <2> QED
    BY <1>3, <2>1
<1>5. PICK u \in U : \A w \in U : u <= w
  BY <1>4, LeastNatural
<1>6. PICK v \in lens : u = b - v
  OBVIOUS
<1>7. \A w \in lens : v >= w
  <2> TAKE w \in lens
  <2>1. b - w \in U /\ b - v <= b - w
    BY <1>5, <1>6
  <2> QED
    BY <1>3, <1>6, <2>1
<1>8. Max(lens) \in lens
  BY <1>7 DEF Max
<1> QED
  BY <1>3, <1>8 DEF lens
Padded(new, rows, pad) ==
    \A r \in 1..Len(rows) :
        /\ Len(new[r]) >= Len(rows[r])
        /\ \A k \in 1..Len(new[r]) :
             new[r][k] = IF k <= Len(rows[r]) THEN rows[r][k] ELSE pad

\* resize() only adds padding behind the rows.
LEMMA ResizeFacts ==
  ASSUME NEW S, NEW rows \in Seq(Seq(S)), NEW pad \in S
  PROVE  /\ Resize(rows, pad) \in Seq(Seq(S)) /\ Len(Resize(rows, pad)) = Len(rows)
         /\ Padded(Resize(rows, pad), rows, pad)
<1> DEFINE m == Len(rows)
           len == [r \in 1..m |-> Len(rows[r])]
           longest == Max({0} \cup {len[r] : r \in 1..m})
           padding(r) == [k \in 1..longest - Len(rows[r]) |-> pad]
<1>1. m \in Nat /\ DOMAIN rows = 1..m /\ \A r \in 1..m : rows[r] \in Seq(S) /\ Len(rows[r]) \in Nat
  OBVIOUS
<1>2. longest \in Nat
  <2>1. len \in [1..m -> Nat]
    BY <1>1
  <2> HIDE DEF len, m
  <2> QED
    BY <1>1, <2>1, LongestExists
<1>3. Max({0} \cup {Len(rows[r]) : r \in DOMAIN rows}) = longest
  <2>1. {Len(rows[r]) : r \in DOMAIN rows} = {len[r] : r \in 1..m}
    BY <1>1
  <2> QED
    BY <2>1
<1> HIDE DEF longest, len
<1>4. Resize(rows, pad) = [r \in 1..m |-> rows[r] \o padding(r)]
  BY <1>1, <1>3 DEF Resize
<1>5. ASSUME NEW r \in 1..m
      PROVE  /\ rows[r] \o padding(r) \in Seq(S)
             /\ Len(rows[r] \o padding(r)) >= Len(rows[r])
             /\ \A k \in 1..Len(rows[r] \o padding(r)) :
                  (rows[r] \o padding(r))[k] = IF k <= Len(rows[r]) THEN rows[r][k] ELSE pad
  <2>0. rows[r] \in Seq(S) /\ longest - Len(rows[r]) \in Int
    BY <1>1, <1>2
  <2>1. PICK row \in Seq(S), z \in Int : row = rows[r] /\ z = longest - Len(rows[r])
    BY <2>0
  <2>2. PICK more : more = [k \in 1..z |-> pad]
    OBVIOUS
  <2>3. more \in Seq(S) /\ \A k \in 1..Len(more) : more[k] = pad
    <3>1. CASE z >= 0
      <4>1. more \in [1..z -> S] /\ z \in Nat
        BY <2>2, <3>1
      <4>2. \A y \in Nat : \A f \in [1..y -> S] : f \in Seq(S) /\ Len(f) = y
        OBVIOUS
      <4>3. Len(more) = z /\ more \in Seq(S)
        BY <4>1, <4>2
      <4> QED
        BY <2>2, <4>3
    <3>2. CASE z < 0
      <4>1. 1..z = {} /\ 1..0 = {}
        BY <3>2
      <4>2. more \in [1..0 -> S]
        BY <2>2, <4>1
      <4>3. \A y \in Nat : \A f \in [1..y -> S] : f \in Seq(S) /\ Len(f) = y
        OBVIOUS
      <4>4. more \in Seq(S) /\ Len(more) = 0
        BY <4>2, <4>3
      <4> QED
        BY <4>1, <4>4
    <3> QED
      BY <3>1, <3>2
  <2>4. row \o more \in Seq(S) /\ Grows(row \o more, row, more)
    BY <2>3, ConcatGrows
  <2>5. /\ row \o more \in Seq(S) /\ Len(row \o more) >= Len(row)
        /\ \A k \in 1..Len(row \o more) :
             (row \o more)[k] = IF k <= Len(row) THEN row[k] ELSE pad
    <3>1. PICK new : new = row \o more
      OBVIOUS
    <3>2. new \in Seq(S) /\ Grows(new, row, more)
      BY <2>4, <3>1
    <3>3. Len(row) \in Nat /\ Len(more) \in Nat /\ Len(new) = Len(row) + Len(more)
      BY <2>3, <3>2 DEF Grows
    <3>4. ASSUME NEW k \in 1..Len(new)
          PROVE  new[k] = IF k <= Len(row) THEN row[k] ELSE pad
      <4>1. CASE k <= Len(row)
        <5>1. k \in 1..Len(row)
          BY <3>3, <4>1
        <5> QED
          BY <3>2, <4>1, <5>1 DEF Grows
      <4>2. CASE ~(k <= Len(row))
        <5>1. k - Len(row) \in 1..Len(more) /\ k = Len(row) + (k - Len(row))
          BY <3>3, <4>2
        <5>2. new[k] = more[k - Len(row)]
          BY <3>2, <5>1 DEF Grows
        <5> QED
          BY <2>3, <4>2, <5>1, <5>2
      <4> QED
        BY <4>1, <4>2
    <3>5. Len(new) >= Len(row)
      BY <3>3
    <3> QED
      BY <3>1, <3>2, <3>4, <3>5
  <2>6. padding(r) = more
    BY <2>1, <2>2
  <2> QED
    BY <2>1, <2>5, <2>6
<1> HIDE DEF padding
<1>6. PICK new : new = [r \in 1..m |-> rows[r] \o padding(r)]
  OBVIOUS
<1>7. new \in [1..m -> Seq(S)] /\ \A r \in 1..m : new[r] = rows[r] \o padding(r)
  BY <1>5, <1>6
<1>8. new \in Seq(Seq(S)) /\ Len(new) = m
  <2>1. \A y \in Nat : \A f \in [1..y -> Seq(S)] : f \in Seq(Seq(S)) /\ Len(f) = y
    OBVIOUS
  <2> QED
    BY <1>1, <1>7, <2>1
<1>9. Padded(new, rows, pad)
  BY <1>5, <1>7 DEF Padded
<1> QED
  BY <1>4, <1>6, <1>8, <1>9

\* Padding leaves the inputs right.
LEMMA PaddingKeepsInputs ==
  ASSUME ControlInv, InputsInv, PadRows
  PROVE  ControlInv' /\ InputsInv' /\ ~Executed /\ ~Executed' /\ UNCHANGED <<batch, kv>>
<1>1. /\ pc = "pad" /\ pc' = "forward" /\ i' = i /\ batch' = batch /\ kv' = kv
      /\ token_ids' = Resize(token_ids, Pad) /\ block_tables' = Resize(block_tables, 0)
      /\ seq_indices' = seq_indices /\ flat_tokens' = flat_tokens
      /\ flat_positions' = flat_positions /\ num_prompt_tokens' = num_prompt_tokens
      /\ cu_seq_lens' = cu_seq_lens /\ slot_ids' = slot_ids /\ context_lens' = context_lens
      /\ sample_idx' = sample_idx /\ sampling_params' = sampling_params
  BY DEF PadRows
<1>2. ControlInv' /\ ~Executed /\ ~Executed' /\ ~Preparing'
  BY <1>1 DEF ControlInv, Executed, Preparing
<1>3. \A k \in DOMAIN batch : Placed(k) /\ Placed(k)'
  BY <1>1 DEF Placed
<1>4. /\ Rows' = Rows /\ NumPrefill' = NumPrefill /\ Rows \in Nat
      /\ \A r \in 1..Rows : sampling_params[r] \in DOMAIN batch
      /\ NumPrefill \in Nat /\ NumPrefill <= Rows
  BY <1>1, InputTypes DEF Rows, NumPrefill
<1>5. RowsInv'
  BY <1>1, <1>3, <1>4 DEF InputsInv, RowsInv
<1>6. TokensInv'
  <2>1. token_ids \in Seq(Seq(Token)) /\ Len(token_ids) = Rows /\ Pad \in Token
    BY DEF InputsInv, TokensInv, Pad, Token
  <2>2. /\ token_ids' \in Seq(Seq(Token)) /\ Len(token_ids') = Rows
        /\ Padded(token_ids', token_ids, Pad)
    BY <1>1, <2>1, ResizeFacts
  <2>3. ASSUME NEW r \in 1..Rows PROVE HistoryOf(token_ids[r], sampling_params[r])'
    <3>1. PICK j \in DOMAIN batch : j = sampling_params[r]
      BY <1>4
    <3>2. PICK row, new \in Seq(Token) : row = token_ids[r] /\ new = token_ids'[r]
      BY <1>4, <2>1, <2>2
    <3>3. HistoryOf(row, j)
      BY <3>1, <3>2 DEF InputsInv, TokensInv
    <3>4. PICK N \in Nat : N = batch[j].n
      BY InputTypes
    <3>5. /\ row = TokensOf(j) /\ Len(row) = N
      <4>1. row = TokensOf(j)
        BY <1>1, <3>1, <3>2 DEF InputsInv, TokensInv, Preparing
      <4>2. Len([p \in 1..N |-> <<j, p>>]) = N
        OBVIOUS
      <4> QED
        BY <3>4, <4>1, <4>2 DEF TokensOf
    <3>6. /\ Len(new) >= N
          /\ \A k \in 1..Len(new) : new[k] = IF k <= N THEN <<j, k>> ELSE Pad
      <4>1. Len(new) \in Nat /\ Len(new) >= N
        <5>1. Len(new) \in Nat /\ r \in 1..Len(token_ids)
          BY <2>1
        <5>2. Len(token_ids'[r]) >= Len(token_ids[r])
          BY <2>2, <5>1 DEF Padded
        <5> QED
          BY <3>2, <3>5, <5>1, <5>2
      <4>2. ASSUME NEW k \in 1..Len(new) PROVE new[k] = IF k <= N THEN <<j, k>> ELSE Pad
        <5>1. new[k] = IF k <= N THEN row[k] ELSE Pad
          BY <2>1, <2>2, <3>2, <3>5 DEF Padded
        <5>2. k <= N => row[k] = <<j, k>>
          <6>1. k <= N => k \in 1..N
            BY <4>1
          <6> QED
            BY <3>4, <3>5, <6>1 DEF TokensOf
        <5> QED
          BY <5>1, <5>2
      <4> QED
        BY <4>1, <4>2
    <3> QED
      BY <1>1, <3>1, <3>2, <3>4, <3>6 DEF HistoryOf
  <2> QED
    BY <1>2, <1>4, <2>2, <2>3 DEF TokensInv
<1>7. LengthsInv'
  BY <1>1, <1>4 DEF InputsInv, LengthsInv
<1>8. FlatInv'
  <2>1. \A t, j, p : IsToken(t, j, p)' <=> IsToken(t, j, p)
    BY <1>1 DEF IsToken
  <2> QED
    BY <1>1, <1>3, <1>4, <2>1 DEF InputsInv, FlatInv
<1>9. SelectionInv'
  <2>1. block_tables \in Seq(Seq(Nat)) /\ Len(block_tables) = Rows - NumPrefill
    BY DEF InputsInv, SelectionInv
  <2>2. /\ block_tables' \in Seq(Seq(Nat)) /\ Len(block_tables') = Rows - NumPrefill
        /\ Padded(block_tables', block_tables, 0)
    BY <1>1, <2>1, ResizeFacts
  <2>3. ASSUME NEW r \in 1..NumPrefill PROVE PromptRow(r)'
    BY <1>1 DEF InputsInv, SelectionInv, PromptRow, IsToken
  <2>4. ASSUME NEW r \in NumPrefill + 1..Rows PROVE DecodeRow(r)'
    <3>1. DecodeRow(r)
      BY DEF InputsInv, SelectionInv
    <3>2. PICK d \in 1..Rows - NumPrefill : d = r - NumPrefill
      BY <1>4
    <3>3. PICK j \in DOMAIN batch : j = sampling_params[r]
      BY <1>4
    <3>4. /\ Len(block_tables'[d]) >= Len(batch[j].blocks)
          /\ \A k \in 1..Len(batch[j].blocks) : block_tables'[d][k] = batch[j].blocks[k]
      <4>1. Len(batch[j].blocks) \in Nat
        BY BatchFacts DEF ControlInv
      <4>2. PICK old, new \in Seq(Nat) : old = block_tables[d] /\ new = block_tables'[d]
        BY <2>1, <2>2
      <4>3. /\ Len(old) >= Len(batch[j].blocks)
            /\ \A k \in 1..Len(batch[j].blocks) : old[k] = batch[j].blocks[k]
        BY <3>1, <3>2, <3>3, <4>2 DEF DecodeRow
      <4>4. /\ Len(new) >= Len(old) /\ Len(old) \in Nat /\ Len(new) \in Nat
            /\ \A k \in 1..Len(new) : new[k] = IF k <= Len(old) THEN old[k] ELSE 0
        <5>1. d \in 1..Len(block_tables)
          BY <2>1
        <5>2. /\ Len(new) >= Len(old)
              /\ \A k \in 1..Len(new) : new[k] = IF k <= Len(old) THEN old[k] ELSE 0
          BY <2>2, <4>2, <5>1 DEF Padded
        <5>3. Len(old) \in Nat /\ Len(new) \in Nat
          OBVIOUS
        <5> QED
          BY <5>2, <5>3
      <4>5. PICK m \in Nat : m = Len(batch[j].blocks)
        BY <4>1
      <4>6. PICK x, y \in Nat : x = Len(old) /\ y = Len(new)
        BY <4>4
      <4>7. m <= x /\ x <= y
        BY <4>3, <4>4, <4>5, <4>6
      <4>8. \A k \in 1..m : k \in 1..y /\ k <= x
        BY <4>7
      <4>9. y >= m
        BY <4>7
      <4>10. ASSUME NEW k \in 1..m PROVE new[k] = batch[j].blocks[k]
        <5>1. new[k] = old[k]
          BY <4>4, <4>6, <4>8
        <5> QED
          BY <4>3, <4>5, <5>1
      <4> QED
        BY <4>2, <4>5, <4>6, <4>9, <4>10
    <3> QED
      BY <1>1, <1>4, <3>1, <3>2, <3>3, <3>4 DEF DecodeRow, IsToken
  <2> QED
    BY <1>1, <1>4, <2>2, <2>3, <2>4 DEF InputsInv, SelectionInv
<1> QED
  BY <1>1, <1>2, <1>5, <1>6, <1>7, <1>8, <1>9 DEF InputsInv
-----------------------------------------------------------------------------
(* What the model reads and writes *)

\* The entry of a token in the cache.
EntryOf(j, p) == [token |-> <<j, p>>, pos |-> p - 1]

\* Every token of the batch is cached in its slot.
Holds(cache) ==
    \A j \in DOMAIN batch : \A p \in 1..batch[j].n : cache[SlotAt(batch[j], p - 1)] = EntryOf(j, p)

\* Before the execution a cached token's slot holds that token only.
LEMMA CachedFacts ==
  ASSUME NEW b \in Batches, NEW j \in DOMAIN b, ~b[j].prefill, NEW p \in 1..b[j].n - 1
  PROVE  Cached(b, SlotAt(b[j], p - 1)) = EntryOf(j, p)
<1> DEFINE slot == SlotAt(b[j], p - 1)
           of(k) == {EntryOf(k, q) : q \in {x \in 1..b[k].n - 1 : SlotAt(b[k], x - 1) = slot}}
           held == UNION {of(k) : k \in {x \in DOMAIN b : ~b[x].prefill}}
<1>1. \A k \in DOMAIN b : b[k].n \in Nat \ {0}
  BY BatchFacts
<1>2. ASSUME NEW e \in held PROVE e = EntryOf(j, p)
  <2>1. PICK k \in DOMAIN b : ~b[k].prefill /\ e \in of(k)
    BY <1>2
  <2>2. PICK q \in 1..b[k].n - 1 : e = EntryOf(k, q) /\ SlotAt(b[k], q - 1) = slot
    BY <2>1
  <2>3. q - 1 \in 0..b[k].n - 1 /\ p - 1 \in 0..b[j].n - 1
    BY <1>1
  <2>4. k = j /\ q - 1 = p - 1
    BY <2>2, <2>3, SlotFacts
  <2>5. q = p
    BY <1>1, <2>4
  <2> QED
    BY <2>2, <2>4, <2>5
<1>3. EntryOf(j, p) \in held
  OBVIOUS
<1>4. Cached(b, slot) = IF held = {} THEN Empty ELSE CHOOSE e \in held : TRUE
  BY DEF Cached, EntryOf
<1> HIDE DEF held
<1> QED
  BY <1>2, <1>3, <1>4

\* The row of a sequence, once all sequences have theirs.
LEMMA RowOf ==
  ASSUME ControlInv, InputsInv, pc = "forward", NEW j \in DOMAIN batch
  PROVE  \E r \in 1..Rows :
           /\ sampling_params[r] = j
           /\ batch[j].prefill => r \in 1..NumPrefill /\ PromptRow(r)
           /\ ~batch[j].prefill => r \in NumPrefill + 1..Rows /\ DecodeRow(r)
<1>1. Placed(j)
  BY DEF Placed
<1>2. PICK r \in 1..Rows : sampling_params[r] = j
  BY <1>1 DEF InputsInv, RowsInv
<1>3. NumPrefill \in Nat /\ Rows \in Nat /\ NumPrefill <= Rows
  BY InputTypes
<1>4. CASE r \in 1..NumPrefill
  <2>1. PromptRow(r) /\ batch[j].prefill
    BY <1>2, <1>4 DEF InputsInv, SelectionInv, PromptRow
  <2> QED
    BY <1>2, <1>4, <2>1
<1>5. CASE r \in NumPrefill + 1..Rows
  <2>1. DecodeRow(r) /\ ~batch[j].prefill
    BY <1>2, <1>5 DEF InputsInv, SelectionInv, DecodeRow
  <2> QED
    BY <1>2, <1>5, <2>1
<1> QED
  BY <1>3, <1>4, <1>5

\* The tokens the execution computes: those of the prompts, and the newest one of
\* every other sequence.
LEMMA ComputedTokens ==
  ASSUME ControlInv, InputsInv, pc = "forward",
         NEW j \in DOMAIN batch, NEW p \in 1..batch[j].n, batch[j].prefill \/ p = batch[j].n
  PROVE  \E t \in 1..Len(flat_tokens) : IsToken(t, j, p)
<1>1. PICK r \in 1..Rows :
        /\ sampling_params[r] = j
        /\ batch[j].prefill => r \in 1..NumPrefill /\ PromptRow(r)
        /\ ~batch[j].prefill => r \in NumPrefill + 1..Rows /\ DecodeRow(r)
  BY RowOf
<1>2. /\ NumPrefill \in Nat /\ Rows \in Nat /\ NumPrefill <= Rows /\ num_prompt_tokens \in Nat
      /\ Len(flat_tokens) = num_prompt_tokens + (Rows - NumPrefill)
      /\ \A q \in 1..NumPrefill + 1 : cu_seq_lens[q] \in 0..num_prompt_tokens
      /\ batch[j].n \in Nat
  BY InputTypes
<1>3. CASE batch[j].prefill
  <2>1. /\ IsToken(cu_seq_lens[r] + p, j, p)
        /\ cu_seq_lens[r + 1] = cu_seq_lens[r] + batch[j].n
    BY <1>1, <1>3 DEF PromptRow
  <2>2. r \in 1..NumPrefill + 1 /\ r + 1 \in 1..NumPrefill + 1
    BY <1>1, <1>2, <1>3
  <2>3. cu_seq_lens[r] + p \in 1..Len(flat_tokens)
    <3>1. PICK c, u \in 0..num_prompt_tokens : c = cu_seq_lens[r] /\ u = cu_seq_lens[r + 1]
      BY <1>2, <2>2
    <3>2. PICK N \in Nat : N = batch[j].n /\ u = c + N
      BY <1>2, <2>1, <3>1
    <3>3. p \in 1..N
      BY <3>2
    <3>4. c + p \in 1..num_prompt_tokens
      BY <1>2, <3>2, <3>3
    <3> QED
      BY <1>2, <3>1, <3>4
  <2> QED
    BY <2>1, <2>3
<1>4. CASE ~batch[j].prefill
  <2>1. IsToken(num_prompt_tokens + (r - NumPrefill), j, p)
    BY <1>1, <1>4 DEF DecodeRow
  <2>2. num_prompt_tokens + (r - NumPrefill) \in 1..Len(flat_tokens)
    BY <1>1, <1>2, <1>4
  <2> QED
    BY <2>1, <2>2
<1> QED
  BY <1>3, <1>4

\* set_kv_cache writes every token that is computed to its own slot and to no
\* other: with those cached before, the cache holds all tokens of the batch.
LEMMA CacheWritten ==
  ASSUME ControlInv, InputsInv, CacheInv, pc = "forward"
  PROVE  /\ Holds(SetKvCache)
         /\ \A slot \in Slots :
              \/ \E j \in DOMAIN batch : \E p \in 1..batch[j].n : slot = SlotAt(batch[j], p - 1)
              \/ SetKvCache[slot] = Cached(batch, slot)
<1> DEFINE writes(slot) == {t \in DOMAIN flat_tokens : slot_ids[t] = slot}
<1>0. /\ kv = [slot \in Slots |-> Cached(batch, slot)]
      /\ batch \in Batches /\ FlatTokens /\ DOMAIN flat_tokens = 1..Len(flat_tokens)
      /\ \A j \in DOMAIN batch : batch[j].n \in Nat \ {0} /\ batch[j].prefill \in BOOLEAN
  <2>1. FlatTokens /\ DOMAIN flat_tokens = 1..Len(flat_tokens)
    BY InputTypes DEF FlatTokens
  <2> QED
    BY <2>1, BatchFacts DEF ControlInv, CacheInv, Executed
<1>1. \A slot \in Slots : SetKvCache[slot] =
        IF writes(slot) = {} THEN kv[slot] ELSE Entry(Max(writes(slot)))
  BY DEF SetKvCache
<1>2. ASSUME NEW t \in 1..Len(flat_tokens)
      PROVE  \E j \in DOMAIN batch : \E p \in 1..batch[j].n :
               IsToken(t, j, p) /\ (~batch[j].prefill => p = batch[j].n)
  BY <1>0 DEF FlatTokens
<1>3. ASSUME NEW j \in DOMAIN batch, NEW p \in 1..batch[j].n, NEW t \in 1..Len(flat_tokens),
             slot_ids[t] = SlotAt(batch[j], p - 1)
      PROVE  IsToken(t, j, p) /\ (~batch[j].prefill => p = batch[j].n)
  <2>1. PICK k \in DOMAIN batch : \E q \in 1..batch[k].n :
               IsToken(t, k, q) /\ (~batch[k].prefill => q = batch[k].n)
    BY <1>2
  <2>2. PICK q \in 1..batch[k].n : IsToken(t, k, q) /\ (~batch[k].prefill => q = batch[k].n)
    BY <2>1
  <2>3. SlotAt(batch[j], p - 1) = SlotAt(batch[k], q - 1)
    BY <1>3, <2>2 DEF IsToken
  <2>4. p - 1 \in 0..batch[j].n - 1 /\ q - 1 \in 0..batch[k].n - 1
    BY <1>0
  <2>5. j = k /\ p - 1 = q - 1
    BY <1>0, <2>3, <2>4, SlotFacts
  <2>6. p = q
    BY <1>0, <2>5
  <2> QED
    BY <2>2, <2>5, <2>6
<1>4. ASSUME NEW j \in DOMAIN batch, NEW p \in 1..batch[j].n
      PROVE  SetKvCache[SlotAt(batch[j], p - 1)] = EntryOf(j, p)
  <2> DEFINE slot == SlotAt(batch[j], p - 1)
  <2>1. slot \in Slots
    <3>1. p - 1 \in 0..batch[j].n - 1
      BY <1>0
    <3> QED
      BY <1>0, <3>1, SlotFacts
  <2>2. CASE batch[j].prefill \/ p = batch[j].n
    <3>1. PICK t \in 1..Len(flat_tokens) : IsToken(t, j, p)
      BY <2>2, ComputedTokens
    <3>2. ASSUME NEW u \in 1..Len(flat_tokens), slot_ids[u] = slot PROVE u = t
      <4>1. IsToken(u, j, p)
        BY <1>3, <3>2
      <4> QED
        BY <1>0, <3>1, <4>1 DEF IsToken, FlatTokens
    <3>3. writes(slot) = {t}
      BY <1>0, <3>1, <3>2 DEF IsToken
    <3>4. Max({t}) = t
      <4>1. t >= t
        BY <1>0 DEF FlatTokens
      <4> QED
        BY <4>1 DEF Max
    <3>5. SetKvCache[slot] = Entry(t)
      BY <1>1, <2>1, <3>3, <3>4
    <3> QED
      BY <3>1, <3>5 DEF IsToken, Entry, EntryOf
  <2>3. CASE ~batch[j].prefill /\ p # batch[j].n
    <3>1. writes(slot) = {}
      BY <1>0, <1>3, <2>3
    <3>2. SetKvCache[slot] = Cached(batch, slot)
      BY <1>0, <1>1, <2>1, <3>1
    <3>3. p \in 1..batch[j].n - 1
      BY <1>0, <2>3
    <3> QED
      BY <1>0, <2>3, <3>2, <3>3, CachedFacts
  <2> QED
    BY <1>0, <2>2, <2>3
<1>5. ASSUME NEW slot \in Slots
      PROVE  \/ \E j \in DOMAIN batch : \E p \in 1..batch[j].n : slot = SlotAt(batch[j], p - 1)
             \/ SetKvCache[slot] = Cached(batch, slot)
  <2>1. CASE writes(slot) = {}
    BY <1>0, <1>1, <2>1
  <2>2. CASE writes(slot) # {}
    <3>1. PICK t \in 1..Len(flat_tokens) : slot_ids[t] = slot
      BY <1>0, <2>2
    <3> QED
      BY <1>2, <3>1 DEF IsToken
  <2> QED
    BY <2>1, <2>2
<1> QED
  BY <1>4, <1>5 DEF Holds
\* A token of a prompt sees its own prompt up to itself; a token that is decoded
\* sees, through its block table, all tokens of its sequence.
LEMMA AttentionIsOwn ==
  ASSUME ControlInv, InputsInv, NEW cache, Holds(cache), NEW r \in 1..Rows
  PROVE  Attention(cache, sample_idx[r] + 1) = ContextOf(sampling_params[r])
<1>1. /\ NumPrefill \in Nat /\ Rows \in Nat /\ NumPrefill <= Rows /\ num_prompt_tokens \in Nat
      /\ Len(cu_seq_lens) = NumPrefill + 1
      /\ \A q \in 1..NumPrefill + 1 : cu_seq_lens[q] \in 0..num_prompt_tokens
  BY InputTypes
<1>2. PICK j \in DOMAIN batch : j = sampling_params[r]
  BY InputTypes
<1>3. PICK N \in Nat \ {0} : N = batch[j].n
  BY InputTypes
<1>4. ContextOf(j) = [p \in 1..N |-> EntryOf(j, p)]
  BY <1>3 DEF ContextOf, EntryOf
<1>5. CASE r \in 1..NumPrefill
  <2>1. /\ cu_seq_lens[r + 1] = cu_seq_lens[r] + N /\ sample_idx[r] = cu_seq_lens[r + 1] - 1
        /\ \A p \in 1..N : IsToken(cu_seq_lens[r] + p, j, p)
    BY <1>2, <1>3, <1>5 DEF InputsInv, SelectionInv, PromptRow
  <2>2. r \in 1..NumPrefill + 1 /\ r + 1 \in 1..NumPrefill + 1
    BY <1>1, <1>5
  <2>3. PICK c \in Nat, t \in Nat : c = cu_seq_lens[r] /\ t = cu_seq_lens[r + 1]
    BY <1>1, <2>2
  <2>4. /\ sample_idx[r] + 1 = t /\ t = c + N /\ t <= num_prompt_tokens /\ t - c = N
        /\ c < t /\ ~(t <= c)
    <3>1. t = c + N /\ sample_idx[r] = t - 1 /\ t \in 0..num_prompt_tokens
      BY <1>1, <2>1, <2>2, <2>3
    <3>2. t <= num_prompt_tokens
      BY <1>1, <3>1
    <3>3. t - c = N /\ c < t /\ ~(t <= c) /\ (t - 1) + 1 = t
      BY <3>1
    <3> QED
      BY <3>1, <3>2, <3>3
  <2> DEFINE isRow(q) == cu_seq_lens[q] < t /\ t <= cu_seq_lens[q + 1]
           chosen == CHOOSE q \in 1..Len(cu_seq_lens) - 1 : isRow(q)
  <2>5. r \in 1..Len(cu_seq_lens) - 1 /\ isRow(r)
    <3>1. r \in 1..Len(cu_seq_lens) - 1
      BY <1>1, <1>5
    <3>2. t <= t
      OBVIOUS
    <3> QED
      BY <2>3, <2>4, <3>1, <3>2
  <2>6. ASSUME NEW q \in 1..Len(cu_seq_lens) - 1, isRow(q) PROVE q = r
    <3>1. q \in 1..NumPrefill + 1 /\ q + 1 \in 1..NumPrefill + 1
      BY <1>1
    <3>2. cu_seq_lens[q] \in Nat /\ cu_seq_lens[q + 1] \in Nat
      BY <1>1, <3>1
    <3>3. \A x, y \in 1..NumPrefill + 1 : x < y => cu_seq_lens[x] < cu_seq_lens[y]
      BY DEF InputsInv, LengthsInv
    <3>4. CASE q < r
      <4>1. q + 1 = r \/ q + 1 < r
        BY <1>1, <3>4
      <4>2. cu_seq_lens[q + 1] <= cu_seq_lens[r]
        BY <2>2, <2>3, <3>1, <3>2, <3>3, <4>1
      <4>3. t <= cu_seq_lens[q + 1]
        BY <2>6
      <4>4. t <= c
        <5>1. PICK y \in Nat : y = cu_seq_lens[q + 1]
          BY <3>2
        <5>2. t <= y /\ y <= c
          BY <2>3, <4>2, <4>3, <5>1
        <5> QED
          BY <5>2
      <4> QED
        BY <2>4, <4>4
    <3>5. CASE r < q
      <4>1. r + 1 = q \/ r + 1 < q
        BY <1>1, <3>5
      <4>2. cu_seq_lens[r + 1] <= cu_seq_lens[q]
        BY <2>2, <2>3, <3>1, <3>2, <3>3, <4>1
      <4> QED
        BY <2>3, <2>6, <3>2, <4>2
    <3> QED
      BY <1>1, <3>4, <3>5
  <2>7. chosen = r
    <3> HIDE DEF isRow
    <3> QED
      BY <2>5, <2>6
  <2>8. PrefillAttention(t) = [k \in 1..t - c |-> Entry(c + k)]
    <3>1. PrefillAttention(t) =
            [k \in 1..t - cu_seq_lens[chosen] |-> Entry(cu_seq_lens[chosen] + k)]
      BY DEF PrefillAttention
    <3> HIDE DEF chosen
    <3> QED
      BY <2>3, <2>7, <3>1
  <2>9. \A k \in 1..N : Entry(c + k) = EntryOf(j, k)
    BY <2>1, <2>3 DEF Entry, EntryOf, IsToken
  <2>10. PrefillAttention(t) = [k \in 1..N |-> EntryOf(j, k)]
    BY <2>4, <2>8, <2>9
  <2>11. Attention(cache, t) = PrefillAttention(t)
    BY <2>4 DEF Attention
  <2> QED
    BY <1>2, <1>4, <2>4, <2>10, <2>11
<1>6. CASE r \in NumPrefill + 1..Rows
  <2>1. PICK d \in Nat \ {0} : d = r - NumPrefill
    BY <1>1, <1>6
  <2>2. /\ sample_idx[r] = num_prompt_tokens + d - 1 /\ context_lens[d] = N
        /\ \A x \in 1..Len(batch[j].blocks) : block_tables[d][x] = batch[j].blocks[x]
    BY <1>2, <1>3, <1>6, <2>1 DEF InputsInv, SelectionInv, DecodeRow
  <2>3. PICK t \in Nat : t = num_prompt_tokens + d
    BY <1>1
  <2>4. sample_idx[r] + 1 = t /\ ~(t <= num_prompt_tokens) /\ t - num_prompt_tokens = d
    BY <1>1, <2>2, <2>3
  <2>5. Attention(cache, t) = GetKvCache(cache, block_tables[d], N)
    BY <2>2, <2>4 DEF Attention, DecodeAttention
  <2>6. ASSUME NEW k \in 1..N
        PROVE  cache[block_tables[d][((k - 1) \div BlockSize) + 1] * BlockSize + ((k - 1) % BlockSize)]
                 = EntryOf(j, k)
    <3>1. ((k - 1) \div BlockSize) + 1 \in 1..Len(batch[j].blocks)
      <4>1. k - 1 \in 0..N - 1 /\ Len(batch[j].blocks) = BlocksNeeded(N)
        BY <1>3, BatchFacts DEF ControlInv
      <4> QED
        BY <4>1, BlockOfToken
    <3>2. block_tables[d][((k - 1) \div BlockSize) + 1] * BlockSize + ((k - 1) % BlockSize)
            = SlotAt(batch[j], k - 1)
      BY <2>2, <3>1 DEF SlotAt
    <3> QED
      BY <1>3, <3>2 DEF Holds
  <2>7. GetKvCache(cache, block_tables[d], N) = [k \in 1..N |-> EntryOf(j, k)]
    BY <2>6 DEF GetKvCache
  <2> QED
    BY <1>2, <1>4, <2>4, <2>5, <2>7
<1> QED
  BY <1>1, <1>5, <1>6

\* The execution gives every row the tokens, the parameters and the context of its
\* sequence.
LEMMA ExecutionKeeps ==
  ASSUME ExecutionInv, ExecuteModel
  PROVE  ExecutionInv'
<1>0. ControlInv /\ InputsInv /\ CacheInv
  BY DEF ExecutionInv
<1>1. /\ pc = "forward" /\ pc' = "process" /\ i' = i /\ batch' = batch /\ UNCHANGED inputs
      /\ kv' = SetKvCache
      /\ next_tokens' = [r \in DOMAIN sample_idx |->
           [context |-> Attention(kv', sample_idx[r] + 1),
            history |-> token_ids[r], param |-> sampling_params[r], choices |-> {}]]
      /\ DOMAIN logits' = DOMAIN sample_idx
  BY DEF ExecuteModel
<1>2. ControlInv' /\ ~Preparing' /\ Executed'
  BY <1>0, <1>1 DEF ControlInv, Preparing, Executed
<1>3. InputsInv'
  <2>1. \A k \in DOMAIN batch : Placed(k)' <=> Placed(k)
    BY <1>1 DEF Placed
  <2> QED
    BY <1>0, <1>1, <1>2, <2>1, InputsStay
<1>4. PICK cache : cache = SetKvCache
  OBVIOUS
<1>5. /\ Holds(cache)
      /\ \A slot \in Slots :
           \/ \E j \in DOMAIN batch : \E p \in 1..batch[j].n : slot = SlotAt(batch[j], p - 1)
           \/ cache[slot] = Cached(batch, slot)
  BY <1>0, <1>1, <1>4, CacheWritten
<1>6. CacheInv'
  BY <1>1, <1>2, <1>4, <1>5 DEF CacheInv, Holds, EntryOf
<1>7. Rows' = Rows /\ sampling_params' = sampling_params /\ DOMAIN sample_idx = 1..Rows
  BY <1>0, <1>1 DEF Rows, inputs, InputsInv, SelectionInv
<1>8. ASSUME NEW r \in 1..Rows
      PROVE  OwnRow(next_tokens[r], sampling_params[r])'
  <2>1. PICK e, j, h : e = next_tokens'[r] /\ j = sampling_params[r] /\ h = token_ids[r]
    OBVIOUS
  <2>2. /\ e.context = Attention(cache, sample_idx[r] + 1) /\ e.history = h /\ e.param = j
        /\ DOMAIN e = {"context", "history", "param", "choices"}
    BY <1>1, <1>4, <1>7, <2>1
  <2>3. e.context = ContextOf(j)
    BY <1>0, <1>5, <2>1, <2>2, AttentionIsOwn
  <2>4. HistoryOf(h, j)
    BY <1>0, <2>1 DEF InputsInv, TokensInv
  <2>5. OwnRow(e, j)
    BY <2>2, <2>3, <2>4 DEF OwnRow
  <2>6. OwnRow(e, j)'
    BY <1>1, <2>5 DEF OwnRow, HistoryOf, ContextOf
  <2> QED
    BY <1>7, <2>1, <2>6
<1>9. OutputsInv'
  BY <1>1, <1>7, <1>8 DEF OutputsInv
<1> QED
  BY <1>2, <1>3, <1>6, <1>9 DEF ExecutionInv
-----------------------------------------------------------------------------
(* The theorems *)

\* A step that only works on the outputs leaves the inputs and the cache right.
LEMMA OutputsApart ==
  ASSUME ExecutionInv, batch' = batch, kv' = kv, i' = i, UNCHANGED inputs,
         pc \in {"process", "select", "done"}, pc' \in {"process", "select", "done"}
  PROVE  ControlInv' /\ InputsInv' /\ CacheInv' /\ Rows' = Rows
         /\ sampling_params' = sampling_params
<1>1. \A k \in DOMAIN batch : Placed(k)' <=> Placed(k)
  BY DEF Placed
<1>2. ~Preparing' /\ Executed /\ Executed' /\ pc' # "prefill"
  BY DEF Preparing, Executed
<1>3. InputsInv'
  BY <1>1, <1>2, InputsStay DEF ExecutionInv
<1>4. ControlInv' /\ CacheInv'
  BY <1>2 DEF ExecutionInv, ControlInv, CacheInv
<1> QED
  BY <1>3, <1>4 DEF inputs, Rows

LEMMA ProcessingKeeps ==
  ASSUME ExecutionInv, ProcessLogits \/ Sample \/ IndexSelect
  PROVE  ExecutionInv'
<1>0. /\ batch' = batch /\ kv' = kv /\ i' = i /\ UNCHANGED inputs
      /\ pc \in {"process", "select", "done"} /\ pc' \in {"process", "select", "done"}
  BY DEF ProcessLogits, Sample, IndexSelect
<1>1. /\ ControlInv' /\ InputsInv' /\ CacheInv' /\ Rows' = Rows
      /\ sampling_params' = sampling_params
  BY <1>0, OutputsApart
<1>2. \A e, j : OwnRow(e, j) => OwnRow(e, j)'
  BY <1>0 DEF OwnRow, HistoryOf, ContextOf
<1>3. OutputsInv
  BY DEF ExecutionInv
<1>4. CASE ProcessLogits
  <2>1. /\ pc = "process" /\ pc' = "process" /\ next_tokens' = next_tokens
        /\ DOMAIN logits' = DOMAIN logits
    BY <1>4 DEF ProcessLogits
  <2>2. DOMAIN logits = 1..Rows /\ \A r \in 1..Rows : OwnRow(next_tokens[r], sampling_params[r])
    BY <1>3, <2>1 DEF OutputsInv
  <2>3. ASSUME NEW r \in 1..Rows PROVE OwnRow(next_tokens[r], sampling_params[r])'
    <3>1. PICK e, j : e = next_tokens[r] /\ j = sampling_params[r]
      OBVIOUS
    <3>2. OwnRow(e, j)'
      BY <1>2, <2>2, <3>1
    <3> QED
      BY <1>1, <2>1, <3>1, <3>2
  <2>4. OutputsInv'
    BY <1>1, <2>1, <2>2, <2>3 DEF OutputsInv
  <2> QED
    BY <1>1, <2>4 DEF ExecutionInv
<1>5. CASE Sample
  <2>1. /\ pc = "process" /\ pc' = "select" /\ logits' = logits
        /\ next_tokens' = [r \in DOMAIN logits |->
             [next_tokens[r] EXCEPT !.choices = SamplerChoices(logits[r], Params[r])]]
    BY <1>5 DEF Sample
  <2>2. DOMAIN logits = 1..Rows /\ \A r \in 1..Rows : OwnRow(next_tokens[r], sampling_params[r])
    BY <1>3, <2>1 DEF OutputsInv
  <2>3. ASSUME NEW r \in 1..Rows PROVE OwnRow(next_tokens[r], sampling_params[r])'
    <3>1. PICK e, j, c, new :
            /\ e = next_tokens[r] /\ j = sampling_params[r] /\ new = next_tokens'[r]
            /\ c = SamplerChoices(logits[r], Params[r])
      OBVIOUS
    <3>2. OwnRow(e, j) /\ new = [e EXCEPT !.choices = c]
      BY <2>1, <2>2, <3>1
    <3>3. OwnRow(new, j)
      BY <3>2 DEF OwnRow
    <3>4. OwnRow(new, j)'
      BY <1>2, <3>3
    <3> QED
      BY <1>1, <3>1, <3>4
  <2>4. OutputsInv'
    BY <1>1, <2>1, <2>2, <2>3 DEF OutputsInv
  <2> QED
    BY <1>1, <2>4 DEF ExecutionInv
<1>6. CASE IndexSelect
  <2>1. /\ pc = "select" /\ pc' = "done"
        /\ next_tokens' = [j \in DOMAIN batch |-> next_tokens[seq_indices[j] + 1]]
    BY <1>6 DEF IndexSelect
  <2>2. \A r \in 1..Rows : OwnRow(next_tokens[r], sampling_params[r])
    BY <1>3, <2>1 DEF OutputsInv
  <2>3. ASSUME NEW j \in DOMAIN batch PROVE OwnRow(next_tokens[j], j)'
    <3>1. Placed(j) /\ Rows \in Nat
      BY <2>1, InputTypes DEF Placed, ExecutionInv
    <3>2. PICK r \in 1..Rows : sampling_params[r] = j
      BY <3>1 DEF ExecutionInv, InputsInv, RowsInv
    <3>3. seq_indices[j] = r - 1
      BY <3>2 DEF ExecutionInv, InputsInv, RowsInv
    <3>4. seq_indices[j] + 1 = r
      BY <3>1, <3>3
    <3>5. PICK e : e = next_tokens[r] /\ e = next_tokens'[j]
      BY <2>1, <3>4
    <3>6. OwnRow(e, j)'
      BY <1>2, <2>2, <3>2, <3>5
    <3> QED
      BY <3>5, <3>6
  <2>4. OutputsInv'
    BY <1>0, <2>1, <2>3 DEF OutputsInv
  <2> QED
    BY <1>1, <2>4 DEF ExecutionInv
<1> QED
  BY <1>4, <1>5, <1>6

\* While the inputs are prepared there are no outputs yet.
LEMMA PreparationKeeps ==
  ASSUME ExecutionInv, PrefillStep \/ DecodeStep \/ PadRows
  PROVE  ExecutionInv'
<1>1. ControlInv' /\ InputsInv' /\ ~Executed /\ ~Executed' /\ batch' = batch /\ kv' = kv
  BY LoopsKeepInputs, PaddingKeepsInputs DEF ExecutionInv
<1>2. CacheInv'
  BY <1>1 DEF ExecutionInv, CacheInv
<1>3. OutputsInv'
  BY <1>1 DEF OutputsInv, Executed
<1> QED
  BY <1>1, <1>2, <1>3 DEF ExecutionInv

LEMMA ExecutionStarts == Init => ExecutionInv
<1> SUFFICES ASSUME Init PROVE ExecutionInv
  OBVIOUS
<1>1. /\ batch \in Batches /\ Len(batch) \in Nat \ {0} /\ DOMAIN batch = 1..Len(batch)
  BY BatchFacts DEF Init
<1>2. pc = "prefill" /\ i = 1 /\ i \in DOMAIN batch /\ ~Executed
  BY <1>1 DEF Init, Executed
<1>3. ControlInv
  BY <1>1, <1>2 DEF ControlInv
<1>4. \A j \in DOMAIN batch : ~Placed(j)
  BY <1>1, <1>2 DEF Placed
<1>5. Rows = 0 /\ NumPrefill = 0 /\ num_prompt_tokens = 0 /\ 1..0 = {} /\ 1..0 + 1 = {1}
  BY DEF Init, Rows, NumPrefill
<1>6. RowsInv
  BY <1>4, <1>5 DEF Init, RowsInv
<1>7. TokensInv
  BY <1>5 DEF Init, TokensInv
<1>8. LengthsInv
  BY <1>5 DEF Init, LengthsInv
<1>9. FlatInv
  BY <1>5 DEF Init, FlatInv
<1>10. SelectionInv
  <2>1. 0 + 1..0 = {} /\ 0 - 0 = 0
    OBVIOUS
  <2> QED
    BY <1>5, <2>1 DEF Init, SelectionInv
<1>11. CacheInv /\ OutputsInv
  BY <1>2 DEF Init, CacheInv, OutputsInv
<1> QED
  BY <1>3, <1>6, <1>7, <1>8, <1>9, <1>10, <1>11 DEF ExecutionInv, InputsInv

\* The flat inputs, the cache and the rows agree with the batch throughout an
\* execution, for every batch the scheduler may build: Engine::execute_model.
THEOREM ExecutionHolds == Spec => []ExecutionInv
<1>1. Init => ExecutionInv
  BY ExecutionStarts
<1>2. ExecutionInv /\ [Next]_vars => ExecutionInv'
  <2> SUFFICES ASSUME ExecutionInv, [Next]_vars PROVE ExecutionInv'
    OBVIOUS
  <2>1. CASE UNCHANGED vars
    <3>1. /\ batch' = batch /\ kv' = kv /\ pc' = pc /\ i' = i /\ UNCHANGED inputs
          /\ logits' = logits /\ next_tokens' = next_tokens
      BY <2>1 DEF vars, outputs
    <3>2. InputsInv' /\ sampling_params' = sampling_params
      <4>1. \A k \in DOMAIN batch : Placed(k)' <=> Placed(k)
        BY <3>1 DEF Placed
      <4>2. Preparing' => Preparing
        BY <3>1 DEF Preparing
      <4>3. InputsInv'
        BY <3>1, <4>1, <4>2, InputsStay DEF ExecutionInv
      <4> QED
        BY <3>1, <4>3 DEF inputs
    <3>3. ControlInv' /\ CacheInv'
      BY <3>1 DEF ExecutionInv, ControlInv, CacheInv, Executed
    <3>4. OutputsInv'
      BY <3>1, <3>2 DEF ExecutionInv, OutputsInv, OwnRow, HistoryOf, ContextOf, Rows
    <3> QED
      BY <3>2, <3>3, <3>4 DEF ExecutionInv
  <2>2. CASE PrefillStep \/ DecodeStep \/ PadRows
    BY <2>2, PreparationKeeps
  <2>3. CASE ExecuteModel
    BY <2>3, ExecutionKeeps
  <2>4. CASE ProcessLogits \/ Sample \/ IndexSelect
    BY <2>4, ProcessingKeeps
  <2> QED
    BY <2>1, <2>2, <2>3, <2>4 DEF Next
<1> QED
  BY <1>1, <1>2, PTL DEF Spec

\* Attention reads the sequence's own tokens, all of them and in order, whatever
\* the other sequences of the batch are.
THEOREM ContextIsOwn == Spec => []OwnContext
<1>1. ExecutionInv => OwnContext
  BY DEF ExecutionInv, OutputsInv, OwnRow, ContextOf, OwnContext
<1> QED
  BY <1>1, ExecutionHolds, PTL

\* The new token is sampled with the sequence's own parameters and tokens.
THEOREM SamplingIsOwn == Spec => []OwnSampling
<1>1. ExecutionInv => OwnSampling
  <2> SUFFICES ASSUME ExecutionInv, pc = "done", NEW j \in DOMAIN batch
               PROVE  /\ next_tokens[j].param = j
                      /\ \A k \in DOMAIN next_tokens[j].history :
                           next_tokens[j].history[k] = IF k <= batch[j].n THEN <<j, k>> ELSE Pad
                      /\ Len(next_tokens[j].history) >= batch[j].n
    BY DEF OwnSampling
  <2>1. HistoryOf(next_tokens[j].history, j) /\ next_tokens[j].param = j
    BY DEF ExecutionInv, OutputsInv, OwnRow
  <2>2. PICK row : row = next_tokens[j].history
    OBVIOUS
  <2>3. DOMAIN row = 1..Len(row) /\ HistoryOf(row, j)
    BY <2>1, <2>2 DEF HistoryOf
  <2> QED
    BY <2>1, <2>2, <2>3 DEF HistoryOf
<1> QED
  BY <1>1, ExecutionHolds, PTL

\* After the execution every token of the batch is in its slot of the cache, and
\* no slot of another request has changed.
THEOREM CacheIsExtended == Spec => []CacheExtended
<1>1. ExecutionInv => CacheExtended
  BY DEF ExecutionInv, CacheInv, Executed, CacheExtended
<1> QED
  BY <1>1, ExecutionHolds, PTL
=============================================================================
