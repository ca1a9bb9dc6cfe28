---------------------------- MODULE BlockManager ----------------------------
(***************************************************************************)
(* BlockManager and BlockAllocator (src/src/memory): a vector of block ids *)
(* of which the first free_block_count_ are free, and the operations that  *)
(* move ids between it and the block tables of sequences.  Only the main   *)
(* thread calls them, but is_finished() of a sequence may turn true at any *)
(* moment, because the response thread cancels it.  allocate_slots_for_    *)
(* request asks every sequence twice how many blocks it lacks, first to    *)
(* count, then to allocate; the model has a step for each question.        *)
(***************************************************************************)
EXTENDS Integers, Sequences, FiniteSets, Functions

CONSTANTS
    Requests,    \* the requests
    NumSeqs,     \* NumSeqs[r]: sequences of r
    NumBlocks,   \* blocks of the KV cache
    BlockSize,   \* slots per block
    MaxLen,      \* bound: tokens of a sequence
    NoRequest

ASSUME BlockManagerAssumption ==
    /\ NumSeqs \in [Requests -> Nat \ {0}]
    /\ NumBlocks \in Nat
    /\ BlockSize \in Nat \ {0}
    /\ MaxLen \in Nat \ {0}
    /\ NoRequest \notin Requests

BlockIds == 0..NumBlocks - 1
SequencesOf(r) == {<<r, i>> : i \in 1..NumSeqs[r]}
AllSequences == UNION {SequencesOf(r) : r \in Requests}

VARIABLES
    free_blocks,       \* free_blocks_; entry i is the code's entry i - 1
    free_block_count,  \* free_block_count_
    blocks,            \* blocks_ of each sequence
    num_tokens,        \* token_ids_.size() of each sequence
    finished,          \* is_finished() of each sequence
    pc,                \* where the caller is in an operation on a request
    request, idx,      \* the request and the sequence it is at
    num_additional_blocks  \* what it has counted

vars == <<free_blocks, free_block_count, blocks, num_tokens, finished, pc, request,
          idx, num_additional_blocks>>
allocator == <<free_blocks, free_block_count, blocks>>
locals == <<pc, request, idx, num_additional_blocks>>

FreeBlocks == {free_blocks[i] : i \in 1..free_block_count}

Pool == INSTANCE BlockPool WITH Owners <- AllSequences, free <- FreeBlocks

Init ==
    /\ free_blocks = [i \in 1..NumBlocks |-> NumBlocks - i]
    /\ free_block_count = NumBlocks
    /\ blocks = [s \in AllSequences |-> <<>>]
    /\ num_tokens = [s \in AllSequences |-> 1]
    /\ finished = [s \in AllSequences |-> FALSE]
    /\ pc = "idle" /\ request = NoRequest /\ idx = 0 /\ num_additional_blocks = 0

-----------------------------------------------------------------------------
(* BlockAllocator *)

\* Faulty variant: the count is decremented once for all of them.
TakeSame(n) == [i \in 1..n |-> free_blocks[free_block_count]]

\* The ids allocate(n) hands out, from the end of the free part.
Take(n) == [i \in 1..n |-> free_blocks[free_block_count - i + 1]]

\* allocate(n) and append_blocks; the GCHECK of allocate() aborts the process.
Allocate(s, n, next) ==
    IF n <= free_block_count
    THEN /\ blocks' = [blocks EXCEPT ![s] = @ \o Take(n)]
         /\ free_block_count' = free_block_count - n
         /\ pc' = next
         /\ UNCHANGED free_blocks
    ELSE pc' = "crashed" /\ UNCHANGED allocator

\* free_blocks_ after free(ids): the ids follow the free part, in their order.
PutBack(ids) ==
    [i \in 1..NumBlocks |->
       IF i > free_block_count /\ i <= free_block_count + Len(ids)
       THEN ids[i - free_block_count] ELSE free_blocks[i]]

\* Faulty variant: the first id is written over the last free one.
ReleaseOverwrites(s, next) ==
    /\ blocks' = [blocks EXCEPT ![s] = <<>>]
    /\ free_blocks' = [i \in 1..NumBlocks |->
         IF i >= free_block_count /\ i < free_block_count + Len(blocks[s])
         THEN blocks[s][i - free_block_count + 1] ELSE free_blocks[i]]
    /\ free_block_count' = free_block_count + Len(blocks[s])
    /\ pc' = next

\* release_blocks and free(ids); the GCHECK of free() aborts the process.
Release(s, next) ==
    IF free_block_count + Len(blocks[s]) <= NumBlocks
    THEN /\ blocks' = [blocks EXCEPT ![s] = <<>>]
         /\ free_blocks' = PutBack(blocks[s])
         /\ free_block_count' = free_block_count + Len(blocks[s])
         /\ pc' = next
    ELSE pc' = "crashed" /\ UNCHANGED allocator

-----------------------------------------------------------------------------
(* BlockManager *)

BlocksNeeded(n) == (n + BlockSize - 1) \div BlockSize

\* Faulty variant: one block too many at a block boundary.
NumBlocksRoundedUpTwice(s) ==
    IF finished[s] \/ (num_tokens[s] \div BlockSize) + 1 <= Len(blocks[s]) THEN 0
    ELSE (num_tokens[s] \div BlockSize) + 1 - Len(blocks[s])

NumBlocksToAllocate(s) ==
    IF finished[s] \/ BlocksNeeded(num_tokens[s]) <= Len(blocks[s]) THEN 0
    ELSE BlocksNeeded(num_tokens[s]) - Len(blocks[s])

\* allocate_slots_for_sequence: all the blocks the sequence lacks, or none.
AllocateSlotsForSequence(s) ==
    /\ pc = "idle"
    /\ LET n == NumBlocksToAllocate(s) IN
       \/ n > 0 /\ n <= free_block_count /\ Allocate(s, n, "idle")
       \/ (n = 0 \/ n > free_block_count) /\ UNCHANGED <<allocator, pc>>
    /\ UNCHANGED <<num_tokens, finished, request, idx, num_additional_blocks>>

ReleaseSlotsForSequence(s) ==
    /\ pc = "idle"
    /\ Release(s, "idle")
    /\ UNCHANGED <<num_tokens, finished, request, idx, num_additional_blocks>>

\* An operation on a request begins.
Call(r, operation) ==
    /\ pc = "idle"
    /\ pc' = operation /\ request' = r /\ idx' = 1 /\ num_additional_blocks' = 0
    /\ UNCHANGED <<allocator, num_tokens, finished>>

\* allocate_slots_for_request: the loop that counts.
CountBlocks ==
    /\ pc = "count" /\ idx <= NumSeqs[request]
    /\ num_additional_blocks' =
         num_additional_blocks + NumBlocksToAllocate(<<request, idx>>)
    /\ idx' = idx + 1
    /\ UNCHANGED <<allocator, num_tokens, finished, pc, request>>

\* Faulty variant: no check that the blocks suffice.
AllCountedUnchecked ==
    /\ pc = "count" /\ idx > NumSeqs[request]
    /\ IF num_additional_blocks = 0
       THEN pc' = "idle" /\ UNCHANGED idx
       ELSE pc' = "allocate" /\ idx' = 1
    /\ UNCHANGED <<allocator, num_tokens, finished, request, num_additional_blocks>>

\* It returns when nothing is needed or too few blocks are free.
AllCounted ==
    /\ pc = "count" /\ idx > NumSeqs[request]
    /\ IF num_additional_blocks = 0 \/ num_additional_blocks > free_block_count
       THEN pc' = "idle" /\ UNCHANGED idx
       ELSE pc' = "allocate" /\ idx' = 1
    /\ UNCHANGED <<allocator, num_tokens, finished, request, num_additional_blocks>>

\* Faulty variant: the loop ends with the first sequence.
AllocateOnlyFirst ==
    /\ pc = "allocate"
    /\ Allocate(<<request, idx>>, NumBlocksToAllocate(<<request, idx>>), "idle")
    /\ idx' = idx + 1
    /\ UNCHANGED <<num_tokens, finished, request, num_additional_blocks>>

\* The loop that allocates, and asks again.
AllocateNext ==
    /\ pc = "allocate"
    /\ Allocate(<<request, idx>>, NumBlocksToAllocate(<<request, idx>>),
                IF idx = NumSeqs[request] THEN "idle" ELSE "allocate")
    /\ idx' = idx + 1
    /\ UNCHANGED <<num_tokens, finished, request, num_additional_blocks>>

\* Faulty variant: the loop runs past the last sequence.
ReleasePastEnd ==
    /\ pc = "release"
    /\ Release(<<request, idx>>, IF idx > NumSeqs[request] THEN "idle" ELSE "release")
    /\ idx' = idx + 1
    /\ UNCHANGED <<num_tokens, finished, request, num_additional_blocks>>

\* The loop of release_slots_for_request.
ReleaseNext ==
    /\ pc = "release"
    /\ Release(<<request, idx>>, IF idx = NumSeqs[request] THEN "idle" ELSE "release")
    /\ idx' = idx + 1
    /\ UNCHANGED <<num_tokens, finished, request, num_additional_blocks>>

\* Between operations the caller appends a token to a sequence that has room.
AppendNewTokenId(s) ==
    /\ pc = "idle"
    /\ ~finished[s] /\ num_tokens[s] <= Len(blocks[s]) * BlockSize
    /\ num_tokens[s] < MaxLen
    /\ num_tokens' = [num_tokens EXCEPT ![s] = @ + 1]
    /\ UNCHANGED <<allocator, finished, locals>>

\* A sequence is cancelled by the response thread, at any moment.
SetCancelled(s) ==
    /\ pc # "crashed" /\ ~finished[s]
    /\ finished' = [finished EXCEPT ![s] = TRUE]
    /\ UNCHANGED <<allocator, num_tokens, locals>>

Next ==
    \/ \E s \in AllSequences :
         \/ AllocateSlotsForSequence(s) \/ ReleaseSlotsForSequence(s)
         \/ AppendNewTokenId(s) \/ SetCancelled(s)
    \/ \E r \in Requests : Call(r, "count") \/ Call(r, "release")
    \/ CountBlocks \/ AllCounted \/ AllocateNext \/ ReleaseNext

Spec == Init /\ [][Next]_vars

-----------------------------------------------------------------------------
(* Properties *)

VariableTypes ==
    /\ free_blocks \in [1..NumBlocks -> BlockIds]
    /\ free_block_count \in 0..NumBlocks
    /\ blocks \in [AllSequences -> Seq(BlockIds)]
    /\ num_tokens \in [AllSequences -> Nat]
    /\ finished \in [AllSequences -> BOOLEAN]
    /\ pc \in {"idle", "count", "allocate", "release", "crashed"}
    /\ request \in Requests \cup {NoRequest}
    /\ idx \in Nat /\ num_additional_blocks \in Nat

\* The types, and while a loop over the sequences of a request runs, it is at
\* one of them.
TypeOK ==
    /\ VariableTypes
    /\ pc \in {"count", "allocate", "release"} => request \in Requests /\ idx >= 1
    /\ pc \in {"allocate", "release"} => idx <= NumSeqs[request]

\* The free part of the vector lists no block twice: a repeated id would be
\* handed to two sequences (BlockAllocator::free, "caller should make sure the
\* block_id is valid").
FreeListDistinct ==
    \A i, j \in 1..free_block_count : free_blocks[i] = free_blocks[j] => i = j

\* Neither GCHECK of the allocator fails: there are blocks when allocate() is
\* called, although sequences are cancelled between counting and allocating, and
\* no more come back than went out.
AllocatorChecksHold == pc # "crashed"

\* No table is longer than the tokens need, also at a block boundary:
\* last_slot_id (src/src/engine/utils.cpp) takes the last block of the table.
NoSurplusBlocks ==
    \A s \in AllSequences : Len(blocks[s]) <= BlocksNeeded(num_tokens[s])

\* When allocate_slots_for_request has allocated, every sequence of the request
\* that is not finished has a slot for each of its tokens.
RequestFullyServed ==
    [][pc = "allocate" /\ pc' = "idle" =>
          \A s \in SequencesOf(request) :
             finished'[s] \/ num_tokens'[s] <= Len(blocks'[s]) * BlockSize]_vars

\* The vector and its count implement the abstract pool.
ImplementsPool == Pool!PoolSpec
=============================================================================
