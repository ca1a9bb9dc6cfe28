----------------------------- MODULE Scheduler -----------------------------
(***************************************************************************)
(* ContinuousBatchingScheduler (src/src/scheduler) with the sequences and  *)
(* requests it schedules (src/src/request), the check and the cache writes *)
(* of Utils::prepare_inputs (src/src/engine/utils.cpp), and the thread of  *)
(* response_executor_.  Three kinds of threads run concurrently:           *)
(*   - gRPC handler threads call schedule();                               *)
(*   - the main thread calls step() in a loop: build_sequence_batch(), one *)
(*     execute_model(), then one new token per sequence of the batch;      *)
(*   - the single thread of response_executor_ runs the queued tasks in    *)
(*     order: it streams deltas, cancels a sequence whose client is gone,  *)
(*     calls on_finish and destroys finished requests.                     *)
(* A step of the model never spans a point where another thread may        *)
(* change what it has read: is_cancelled_ and output_offset_ are read or   *)
(* written once per action.                                                *)
(*                                                                         *)
(* Tokens and text are abstracted to their number; which token comes out   *)
(* of the model matters only as "end of sequence" or not, and what the     *)
(* tokenizer makes of it only as "text to send" or "nothing to send yet".  *)
(***************************************************************************)
EXTENDS Integers, Sequences, FiniteSets, Functions, SequencesExt

CONSTANTS
    Requests,       \* the requests handlers will submit
    NumSeqs,        \* NumSeqs[r]: how often add_sequence was called on r
    PromptLen,      \* PromptLen[r]: tokens of r's prompt
    MaxTokens,      \* MaxTokens[r]: stopping_criteria.max_tokens, 0 = no limit
    Streaming,      \* Streaming[r]: request->stream (and on_stream_ is set)
    Echo,           \* Echo[r]: request->echo, the prompt is part of the output
    Priority,       \* Priority[r]: 0 = HIGH, 1 = MEDIUM, 2 = LOW
    CreatedTime,    \* CreatedTime[r]: request->created_time, in seconds
    BlockIds,       \* the KV-cache blocks
    BlockSize,      \* slots per block
    QueueSize,      \* kRequestQueueSize
    StreamBuffer,   \* FLAGS_streaming_token_buffer_size
    ClientsMayFail, \* whether an RPC may break
    NoRequest       \* "no candidate"

ASSUME SchedulerAssumption ==
    /\ NumSeqs \in [Requests -> Nat \ {0}]
    /\ PromptLen \in [Requests -> Nat \ {0}]
    /\ MaxTokens \in [Requests -> Nat]
    /\ Streaming \in [Requests -> BOOLEAN]
    /\ \A r \in Requests : ~Streaming[r] => NumSeqs[r] = 1
    /\ Echo \in [Requests -> BOOLEAN]
    /\ Priority \in [Requests -> 0..2]
    /\ CreatedTime \in [Requests -> Nat]
    /\ IsFiniteSet(BlockIds)
    /\ BlockSize \in Nat \ {0}
    /\ QueueSize \in Nat
    /\ StreamBuffer \in Nat \ {0}
    /\ ClientsMayFail \in BOOLEAN
    /\ NoRequest \notin Requests

\* Sequence i of request r; on_request_finish requires one sequence of a
\* request that does not stream.
SequencesOf(r) == {<<r, i>> : i \in 1..NumSeqs[r]}
AllSequences == UNION {SequencesOf(r) : r \in Requests}

\* The slots of the key and value cache, and what one may hold.
Slots == BlockIds \X (0..BlockSize - 1)
NoContent == <<>>

VARIABLES
    owner,            \* who owns r: handler, scheduler, response task, nobody
    request_queue,    \* request_queue_, a bounded FIFO queue
    priority_queue,   \* priority_queue_, as a set
    request_batch,    \* request_batch_
    sequences_batch,  \* sequences_batch_
    preemptable_candidates,
    pc,               \* where the main thread is in step()
    idx,              \* its loop counter
    candidate, has_enough_slots, sequence_candidates,  \* its local variables
    free, blocks,     \* the block manager, see BlockPool
    num_tokens,       \* token_ids_.size() of each sequence
    cache_pos,        \* cache_pos_
    finish_reason,    \* finish_reason_; is_finished_ is finish_reason # "NONE"
    is_cancelled,     \* is_cancelled_
    output_offset,    \* output_offset_
    tasks,            \* the queue of response_executor_
    rpc_ok,           \* whether r's client can still be written to
    told,             \* history: the finish reason s's client was sent, or "NONE"
    kv,               \* kv[slot] = <<s, p>>: keys and values of token p of s
    overtaken         \* history: see Overtakes

memVars == <<free, blocks, cache_pos>>
localVars == <<candidate, has_enough_slots, sequence_candidates>>
seqVars == <<num_tokens, finish_reason>>
respVars == <<is_cancelled, output_offset, rpc_ok, told>>
vars == <<owner, request_queue, priority_queue, request_batch, sequences_batch,
          preemptable_candidates, pc, idx, localVars, memVars, seqVars, respVars,
          tasks, kv, overtaken>>

Pool == INSTANCE BlockPool WITH Owners <- AllSequences

Init ==
    /\ owner = [r \in Requests |-> "handler"]
    /\ request_queue = <<>>
    /\ priority_queue = {}
    /\ request_batch = <<>>
    /\ sequences_batch = <<>>
    /\ preemptable_candidates = <<>>
    /\ pc = "idle" /\ idx = 0
    /\ candidate = NoRequest /\ has_enough_slots = TRUE /\ sequence_candidates = <<>>
    /\ Pool!PoolInit
    /\ num_tokens = [s \in AllSequences |-> PromptLen[s[1]]]
    /\ cache_pos = [s \in AllSequences |-> 0]
    /\ finish_reason = [s \in AllSequences |-> "NONE"]
    /\ is_cancelled = [s \in AllSequences |-> FALSE]
    /\ output_offset = [s \in AllSequences |-> IF Echo[s[1]] THEN 0 ELSE PromptLen[s[1]]]
    /\ tasks = <<>>
    /\ rpc_ok = [r \in Requests |-> TRUE]
    /\ told = [s \in AllSequences |-> "NONE"]
    /\ kv = [slot \in Slots |-> NoContent]
    /\ overtaken = FALSE

-----------------------------------------------------------------------------
(* Sequence and Request *)

IsFinishedSeq(s) == is_cancelled[s] \/ finish_reason[s] # "NONE"

IsFinished(r) == \A s \in SequencesOf(r) : IsFinishedSeq(s)

\* Sequence::check_stopping_creteria, for a sequence that is not finished, n
\* tokens long, whose last token is the end-of-sequence token or not.
StoppingReason(s, n, eos) ==
    IF MaxTokens[s[1]] > 0 /\ n - PromptLen[s[1]] >= MaxTokens[s[1]] THEN "LENGTH"
    ELSE IF eos THEN "STOP" ELSE "NONE"

\* RequestPtrLess: a is to be processed before b.
ProcessedBefore(a, b) ==
    \/ Priority[a] < Priority[b]
    \/ Priority[a] = Priority[b] /\ CreatedTime[a] < CreatedTime[b]

\* Faulty variant: the heap is built with the opposite comparison.
TopsReversed ==
    {r \in priority_queue : \A q \in priority_queue : ~ProcessedBefore(r, q)}

\* What priority_queue_.top() may return: the heap leaves open which of the
\* requests that compare equal comes first.
Tops == {r \in priority_queue : \A q \in priority_queue : ~ProcessedBefore(q, r)}

-----------------------------------------------------------------------------
(* BlockManager, as the scheduler uses it *)

BlocksNeeded(n) == (n + BlockSize - 1) \div BlockSize

\* Faulty variant: the blocks the sequence already has are not deducted.
NumBlocksIgnoringHeld(s) == IF IsFinishedSeq(s) THEN 0 ELSE BlocksNeeded(num_tokens[s])

\* num_blocks_to_allocate: a sequence cancelled by now gets nothing.
NumBlocksToAllocate(s) ==
    IF IsFinishedSeq(s) \/ BlocksNeeded(num_tokens[s]) <= Len(blocks[s]) THEN 0
    ELSE BlocksNeeded(num_tokens[s]) - Len(blocks[s])

\* Faulty variant: release_blocks returns a copy of the table and keeps it.
ReleaseKeepsTable(r) ==
    /\ free' = free \cup UNION {Range(blocks[s]) : s \in SequencesOf(r)}
    /\ cache_pos' = [s \in AllSequences |-> IF s[1] = r THEN 0 ELSE cache_pos[s]]
    /\ UNCHANGED blocks

\* Faulty variant: release_blocks does not reset cache_pos_.
ReleaseKeepsCachePos(r) ==
    /\ Pool!Release(SequencesOf(r))
    /\ UNCHANGED cache_pos

\* release_slots_for_request, with Sequence::release_blocks for each sequence.
ReleaseSlotsForRequest(r) ==
    /\ Pool!Release(SequencesOf(r))
    /\ cache_pos' = [s \in AllSequences |-> IF s[1] = r THEN 0 ELSE cache_pos[s]]

\* Faulty variant: the blocks of a finished request are not released.
FinishWithoutRelease(r) ==
    /\ owner' = [owner EXCEPT ![r] = "response"]
    /\ tasks' = Append(tasks, [type |-> "finish", request |-> r])
    /\ UNCHANGED memVars

\* Faulty variant: the finish task overtakes the delta tasks in the queue.
FinishOvertakes(r) ==
    /\ ReleaseSlotsForRequest(r)
    /\ owner' = [owner EXCEPT ![r] = "response"]
    /\ tasks' = <<[type |-> "finish", request |-> r]>> \o tasks

\* on_request_finish: the task it schedules owns the request from now on.
OnRequestFinish(r) ==
    /\ ReleaseSlotsForRequest(r)
    /\ owner' = [owner EXCEPT ![r] = "response"]
    /\ tasks' = Append(tasks, [type |-> "finish", request |-> r])

-----------------------------------------------------------------------------
(* Handler threads *)

\* schedule(): takes the request over, or refuses it when the queue is full.
Schedule(r) ==
    /\ owner[r] = "handler"
    /\ IF Len(request_queue) < QueueSize
       THEN /\ request_queue' = Append(request_queue, r)
            /\ owner' = [owner EXCEPT ![r] = "scheduler"]
       ELSE /\ owner' = [owner EXCEPT ![r] = "refused"]
            /\ UNCHANGED request_queue
    /\ UNCHANGED <<priority_queue, request_batch, sequences_batch,
                   preemptable_candidates, pc, idx, localVars, memVars, seqVars,
                   respVars, tasks, kv, overtaken>>

\* The client of a streaming request goes away: the next write fails.
ClientFails(r) ==
    /\ ClientsMayFail /\ Streaming[r] /\ owner[r] \in {"scheduler", "response"}
    /\ rpc_ok[r]
    /\ rpc_ok' = [rpc_ok EXCEPT ![r] = FALSE]
    /\ UNCHANGED <<owner, request_queue, priority_queue, request_batch,
                   sequences_batch, preemptable_candidates, pc, idx, localVars,
                   memVars, seqVars, is_cancelled, output_offset, told, tasks, kv,
                   overtaken>>

-----------------------------------------------------------------------------
(* The main thread: build_sequence_batch *)

\* New requests move from request_queue_ to priority_queue_.
DrainRequestQueue ==
    /\ pc = "idle"
    /\ priority_queue' = priority_queue \cup ToSet(request_queue)
    /\ request_queue' = <<>>
    /\ pc' = "requeue" /\ idx' = Len(request_batch)
    /\ overtaken' = (overtaken /\ preemptable_candidates # <<>>)
    /\ UNCHANGED <<owner, request_batch, sequences_batch, preemptable_candidates,
                   localVars, memVars, seqVars, respVars, tasks, kv>>

\* Faulty variant: the list is filled from the back.
RequeueAtBack(r) ==
    /\ preemptable_candidates' = Append(preemptable_candidates, r)
    /\ priority_queue' = priority_queue \cup {r}

\* Faulty variant: the request is not pushed back to the heap.
RequeueForgets(r) ==
    /\ preemptable_candidates' = <<r>> \o preemptable_candidates
    /\ UNCHANGED priority_queue

\* The request is preemptable and competes again.
Requeue(r) ==
    /\ preemptable_candidates' = <<r>> \o preemptable_candidates
    /\ priority_queue' = priority_queue \cup {r}

\* The previous batch, last request first: a finished one is answered, any
\* other becomes preemptable and competes again.
RequeueRequest ==
    /\ pc = "requeue" /\ idx > 0
    /\ idx' = idx - 1
    /\ LET r == request_batch[idx] IN
       IF IsFinished(r)
       THEN /\ OnRequestFinish(r)
            /\ UNCHANGED <<preemptable_candidates, priority_queue>>
       ELSE Requeue(r) /\ UNCHANGED <<owner, tasks, memVars>>
    /\ UNCHANGED <<request_queue, request_batch, sequences_batch, pc, localVars,
                   seqVars, respVars, kv, overtaken>>

ClearBatch ==
    /\ pc = "requeue" /\ idx = 0
    /\ sequences_batch' = <<>>
    /\ request_batch' = <<>>
    /\ pc' = "top"
    /\ UNCHANGED <<owner, request_queue, priority_queue, preemptable_candidates,
                   idx, localVars, memVars, seqVars, respVars, tasks, kv, overtaken>>

\* The loop looks at the top of the heap, or ends when the heap is empty.
PickCandidate ==
    /\ pc = "top"
    /\ \/ \E r \in Tops :
            /\ candidate' = r /\ has_enough_slots' = TRUE
            /\ sequence_candidates' = <<>>
            /\ pc' = "allocate" /\ idx' = 1
       \/ /\ priority_queue = {}
          /\ pc' = IF sequences_batch = <<>> THEN "idle" ELSE "execute"
          /\ UNCHANGED <<localVars, idx>>
    /\ UNCHANGED <<owner, request_queue, priority_queue, request_batch,
                   sequences_batch, preemptable_candidates, memVars, seqVars,
                   respVars, tasks, kv, overtaken>>

\* The loop over the candidate's sequences: a finished one is skipped.
ConsiderSequence ==
    /\ pc = "allocate" /\ idx <= NumSeqs[candidate]
    /\ IF IsFinishedSeq(<<candidate, idx>>)
       THEN idx' = idx + 1 /\ UNCHANGED pc
       ELSE pc' = "slots" /\ UNCHANGED idx
    /\ UNCHANGED <<owner, request_queue, priority_queue, request_batch,
                   sequences_batch, preemptable_candidates, localVars, memVars,
                   seqVars, respVars, tasks, kv, overtaken>>

\* allocate_slots_for_sequence: the sequence gets the blocks it lacks when there
\* are enough of them.
AllocateSlotsForSequence ==
    /\ pc = "slots"
    /\ pc' = "allocate" /\ idx' = idx + 1
    /\ LET s == <<candidate, idx>>
           n == NumBlocksToAllocate(s) IN
       \/ /\ n <= Cardinality(free)
          /\ Pool!Allocate(s, n)
          /\ sequence_candidates' = Append(sequence_candidates, s)
          /\ UNCHANGED has_enough_slots
       \/ /\ n > Cardinality(free)
          /\ has_enough_slots' = FALSE
          /\ UNCHANGED <<sequence_candidates, free, blocks>>
    /\ UNCHANGED <<owner, request_queue, priority_queue, request_batch,
                   sequences_batch, preemptable_candidates, candidate, cache_pos,
                   seqVars, respVars, tasks, kv, overtaken>>

AllSequencesTried == pc = "allocate" /\ idx > NumSeqs[candidate]

\* Pop the candidate off the heap and add it to the new batch.
AddToBatch ==
    /\ priority_queue' = priority_queue \ {candidate}
    /\ request_batch' = Append(request_batch, candidate)
    /\ sequences_batch' = sequences_batch \o sequence_candidates

\* Faulty variant: a scheduled request stays preemptable.
StillPreemptable == preemptable_candidates

\* preemptable_candidates_ without the scheduled candidate.
NoLongerPreemptable ==
    IF preemptable_candidates # <<>> /\ candidate = Head(preemptable_candidates)
    THEN Tail(preemptable_candidates) ELSE preemptable_candidates

SameKey(a, b) == Priority[a] = Priority[b] /\ CreatedTime[a] = CreatedTime[b]

\* The heap has handed out the candidate before the first request of the list,
\* which has the same key: only the first one is compared with the candidate, so
\* that the candidate stays in the list.
Overtakes ==
    /\ candidate \in ToSet(preemptable_candidates)
    /\ candidate # Head(preemptable_candidates)
    /\ SameKey(candidate, Head(preemptable_candidates))

\* All its sequences have slots: the candidate is scheduled.
ScheduleCandidate ==
    /\ AllSequencesTried /\ has_enough_slots
    /\ AddToBatch
    /\ preemptable_candidates' = NoLongerPreemptable
    /\ overtaken' = (overtaken \/ Overtakes)
    /\ pc' = "top"
    /\ UNCHANGED <<owner, request_queue, idx, localVars, memVars, seqVars, respVars,
                   tasks, kv>>

\* It lacks slots: the last preemptable request gives its blocks back, unless
\* that is the candidate, and the same candidate is tried again.
PreemptLowest ==
    /\ AllSequencesTried /\ ~has_enough_slots /\ preemptable_candidates # <<>>
    /\ preemptable_candidates' = Front(preemptable_candidates)
    /\ IF Last(preemptable_candidates) # candidate
       THEN ReleaseSlotsForRequest(Last(preemptable_candidates))
       ELSE UNCHANGED memVars
    /\ has_enough_slots' = TRUE /\ sequence_candidates' = <<>> /\ idx' = 1
    /\ UNCHANGED <<owner, request_queue, priority_queue, request_batch,
                   sequences_batch, pc, candidate, seqVars, respVars, tasks, kv,
                   overtaken>>

\* The last of the list may have been destroyed since it was scheduled, see
\* NoDanglingPointer.  Its memory still holds an empty table (PreemptLowest), or
\* anything else.
PreemptDestroyed ==
    /\ AllSequencesTried /\ ~has_enough_slots /\ preemptable_candidates # <<>>
    /\ owner[Last(preemptable_candidates)] = "nobody"
    /\ pc' = "crashed"
    /\ UNCHANGED <<owner, request_queue, priority_queue, request_batch, sequences_batch,
                   preemptable_candidates, idx, localVars, memVars, seqVars, respVars,
                   tasks, kv, overtaken>>

\* It lacks slots and nobody is left to preempt: the sequences that have slots
\* are scheduled, and the loop ends.
PartiallySchedule ==
    /\ AllSequencesTried /\ ~has_enough_slots /\ preemptable_candidates = <<>>
    /\ sequence_candidates # <<>>
    /\ AddToBatch
    /\ pc' = "execute"
    /\ UNCHANGED <<owner, request_queue, preemptable_candidates, idx, localVars,
                   memVars, seqVars, respVars, tasks, kv, overtaken>>

\* No sequence of it has slots: the loop ends without it.  When the batch is
\* empty the request, still at the top of the heap, is answered as it is.
GiveUp ==
    /\ AllSequencesTried /\ ~has_enough_slots /\ preemptable_candidates = <<>>
    /\ sequence_candidates = <<>>
    /\ IF sequences_batch = <<>>
       THEN /\ priority_queue' = priority_queue \ {candidate}
            /\ OnRequestFinish(candidate)
            /\ pc' = "idle"
       ELSE /\ pc' = "execute"
            /\ UNCHANGED <<priority_queue, owner, tasks, memVars>>
    /\ UNCHANGED <<request_queue, request_batch, sequences_batch,
                   preemptable_candidates, idx, localVars, seqVars, respVars, kv,
                   overtaken>>

-----------------------------------------------------------------------------
(* The main thread: execute_model and the new tokens *)

HasEnoughCacheSlots(s) == num_tokens[s] <= Len(blocks[s]) * BlockSize

\* Where token p of s lives: cache_slots() and the block table the attention
\* kernel follows.
SlotOf(s, p) == <<blocks[s][(p \div BlockSize) + 1], p % BlockSize>>

LastSlot(s) == <<Last(blocks[s]), (num_tokens[s] - 1) % BlockSize>>

\* The slots an execution writes for s, with their new content: all tokens of
\* a prefill (is_prefill), the last token of a decode.
CacheWrites(s) ==
    IF cache_pos[s] = 0
    THEN {<<SlotOf(s, p), <<s, p>>>> : p \in 0..num_tokens[s] - 1}
    ELSE {<<LastSlot(s), <<s, num_tokens[s] - 1>>>>}

\* GCHECKs of prepare_inputs: a failed one aborts the process.
InputsAccepted ==
    \A s \in ToSet(sequences_batch) : ~IsFinishedSeq(s) /\ HasEnoughCacheSlots(s)

ExecuteModel ==
    /\ pc = "execute"
    /\ \/ /\ InputsAccepted
          /\ LET writes == UNION {CacheWrites(s) : s \in ToSet(sequences_batch)} IN
             kv' = [slot \in Slots |->
                      IF \E w \in writes : w[1] = slot
                      THEN (CHOOSE w \in writes : w[1] = slot)[2]
                      ELSE kv[slot]]
          /\ pc' = "process" /\ idx' = 1
       \/ /\ ~InputsAccepted
          /\ pc' = "crashed"
          /\ UNCHANGED <<kv, idx>>
    /\ UNCHANGED <<owner, request_queue, priority_queue, request_batch,
                   sequences_batch, preemptable_candidates, localVars, memVars,
                   seqVars, respVars, tasks, overtaken>>

\* Faulty variant: a finished sequence does not flush its buffered tokens.
StreamTaskNoFlush(s, n, reason) ==
    IF Streaming[s[1]] /\ n - output_offset[s] >= StreamBuffer
    THEN <<[type |-> "stream", seq |-> s, end |-> n, reason |-> reason]>>
    ELSE <<>>

\* on_sequence_stream, for s with n tokens: a task that sends the text of the
\* tokens up to n, when s is finished or enough tokens wait.
StreamTask(s, n, reason) ==
    IF /\ Streaming[s[1]]
       /\ \/ is_cancelled[s] \/ reason # "NONE"
          \/ n - output_offset[s] >= StreamBuffer
    THEN <<[type |-> "stream", seq |-> s, end |-> n, reason |-> reason]>>
    ELSE <<>>

\* Faulty variant: cache_pos_ also counts the new token, which is not cached yet.
CachePosWithNewToken(s) == num_tokens[s] + 1

\* append_new_token_id: all tokens before the new one are cached.
CachePosAfterAppend(s) == num_tokens[s]

\* One new token: append_new_token_id, check_stopping_creteria,
\* on_sequence_stream; step() returns after the last one.
ProcessToken ==
    /\ pc = "process"
    /\ LET s == sequences_batch[idx]
           n == num_tokens[s] + 1 IN
       /\ cache_pos' = [cache_pos EXCEPT ![s] = CachePosAfterAppend(s)]
       /\ num_tokens' = [num_tokens EXCEPT ![s] = n]
       /\ \E eos \in BOOLEAN :
            LET reason == IF finish_reason[s] # "NONE" THEN finish_reason[s]
                          ELSE StoppingReason(s, n, eos) IN
            /\ finish_reason' = [finish_reason EXCEPT ![s] = reason]
            /\ tasks' = tasks \o StreamTask(s, n, reason)
    /\ idx' = idx + 1
    /\ pc' = IF idx = Len(sequences_batch) THEN "idle" ELSE "process"
    /\ UNCHANGED <<owner, request_queue, priority_queue, request_batch,
                   sequences_batch, preemptable_candidates, localVars, free, blocks,
                   respVars, kv, overtaken>>

-----------------------------------------------------------------------------
(* The thread of response_executor_ *)

\* The text of a sequence up to t.end: decode_delta_text finds new text or not
\* (nothing new, or an unfinished UTF-8 character at its end).  The task, still
\* running, goes on to write when there is text or a finish reason to send.
DecodeDelta ==
    /\ tasks # <<>> /\ Head(tasks).type = "stream"
    /\ LET t == Head(tasks) IN
       \E delta \in {FALSE, t.end > output_offset[t.seq]} :
          /\ output_offset' = IF delta THEN [output_offset EXCEPT ![t.seq] = t.end]
                              ELSE output_offset
          /\ tasks' = IF delta \/ t.reason # "NONE"
                      THEN <<[t EXCEPT !.type = "write"]>> \o Tail(tasks)
                      ELSE Tail(tasks)
    /\ UNCHANGED <<owner, request_queue, priority_queue, request_batch,
                   sequences_batch, preemptable_candidates, pc, idx, localVars,
                   memVars, seqVars, is_cancelled, rpc_ok, told, kv, overtaken>>

\* stream_delta writes to the client and cancels the sequence when that fails.
StreamDelta ==
    /\ tasks # <<>> /\ Head(tasks).type = "write"
    /\ tasks' = Tail(tasks)
    /\ LET t == Head(tasks) IN
       IF rpc_ok[t.seq[1]]
       THEN told' = [told EXCEPT ![t.seq] = t.reason] /\ UNCHANGED is_cancelled
       ELSE is_cancelled' = [is_cancelled EXCEPT ![t.seq] = TRUE] /\ UNCHANGED told
    /\ UNCHANGED <<owner, request_queue, priority_queue, request_batch,
                   sequences_batch, preemptable_candidates, pc, idx, localVars,
                   memVars, seqVars, output_offset, rpc_ok, kv, overtaken>>

\* on_finish is called and the request, owned by the task, is destroyed.
RunFinishTask ==
    /\ tasks # <<>> /\ Head(tasks).type = "finish"
    /\ tasks' = Tail(tasks)
    /\ owner' = [owner EXCEPT ![Head(tasks).request] = "nobody"]
    /\ UNCHANGED <<request_queue, priority_queue, request_batch, sequences_batch,
                   preemptable_candidates, pc, idx, localVars, memVars, seqVars,
                   respVars, kv, overtaken>>

-----------------------------------------------------------------------------
BuildSequenceBatch ==
    \/ DrainRequestQueue \/ RequeueRequest \/ ClearBatch \/ PickCandidate
    \/ ConsiderSequence \/ AllocateSlotsForSequence \/ ScheduleCandidate
    \/ PreemptLowest \/ PreemptDestroyed \/ PartiallySchedule \/ GiveUp

MainThread == BuildSequenceBatch \/ ExecuteModel \/ ProcessToken

\* abort() ends every thread.
ResponseThread == pc # "crashed" /\ (DecodeDelta \/ StreamDelta \/ RunFinishTask)

Handlers ==
    pc # "crashed" /\ \E r \in Requests : Schedule(r) \/ ClientFails(r)

Stopped == pc = "crashed" /\ UNCHANGED vars

Next == Handlers \/ MainThread \/ ResponseThread \/ Stopped

Spec == Init /\ [][Next]_vars

\* main() calls step() in a loop and the executor's thread runs until it is
\* joined; clients are not obliged to send anything.
FairSpec == Spec /\ WF_vars(MainThread) /\ WF_vars(ResponseThread)

-----------------------------------------------------------------------------
(* Properties *)

Owner == {"handler", "refused", "scheduler", "response", "nobody"}
Reason == {"NONE", "LENGTH", "STOP"}
Task == [type : {"stream", "write"}, seq : AllSequences, end : Nat, reason : Reason]
          \cup [type : {"finish"}, request : Requests]
PC == {"idle", "requeue", "top", "allocate", "slots", "execute", "process",
       "crashed"}

QueueTypes ==
    /\ owner \in [Requests -> Owner]
    /\ request_queue \in Seq(Requests)
    /\ tasks \in Seq(Task)

BatchTypes ==
    /\ priority_queue \in SUBSET Requests
    /\ request_batch \in Seq(Requests)
    /\ sequences_batch \in Seq(AllSequences)
    /\ preemptable_candidates \in Seq(Requests)

ControlTypes ==
    /\ pc \in PC /\ idx \in Nat
    /\ candidate \in Requests \cup {NoRequest}
    /\ has_enough_slots \in BOOLEAN /\ overtaken \in BOOLEAN
    /\ sequence_candidates \in Seq(AllSequences)

PoolTypes ==
    /\ free \in SUBSET BlockIds
    /\ blocks \in [AllSequences -> Seq(BlockIds)]

\* The last token of a sequence is never cached.
SequenceTypes ==
    /\ num_tokens \in [AllSequences -> Nat]
    /\ cache_pos \in [AllSequences -> Nat]
    /\ \A s \in AllSequences : cache_pos[s] < num_tokens[s]
    /\ finish_reason \in [AllSequences -> Reason]

ResponseTypes ==
    /\ is_cancelled \in [AllSequences -> BOOLEAN]
    /\ output_offset \in [AllSequences -> Nat]
    /\ rpc_ok \in [Requests -> BOOLEAN]
    /\ told \in [AllSequences -> Reason]

CacheTypes == kv \in [Slots -> {NoContent} \cup (AllSequences \X Nat)]

\* The type of every variable, and cache_pos_ never counts the newest token of a
\* sequence (append_new_token_id).
TypeOK ==
    /\ QueueTypes /\ BatchTypes /\ ControlTypes /\ PoolTypes
    /\ SequenceTypes /\ ResponseTypes /\ CacheTypes

\* Where the main thread's loop counters are: they stay inside the containers
\* they index.
LoopBounds ==
    /\ pc = "requeue" => idx <= Len(request_batch)
    /\ pc \in {"allocate", "slots"} => candidate \in Requests /\ idx >= 1
    /\ pc = "slots" => idx <= NumSeqs[candidate]
    /\ pc = "execute" => sequences_batch # <<>>
    /\ pc = "process" => idx >= 1 /\ idx <= Len(sequences_batch)

\* Every block is free or at one place of one sequence's table, through every
\* interleaving of allocation, preemption and completion.
BlocksPartition == Pool!BlocksPartition

\* Blocks are held only by requests the scheduler still owns and will come
\* back to: no path (finish, cancel, preemption, out of memory) leaks blocks.
NoBlockLeak ==
    \A s \in AllSequences : blocks[s] # <<>> =>
        /\ owner[s[1]] = "scheduler"
        /\ s[1] \in priority_queue \cup ToSet(request_batch)

\* What Sequence::cache_pos_ claims ("all tokens before pos should be processed
\* and cached"): the slots of those tokens hold the sequence's own keys and
\* values, whoever used the blocks before and however often it was preempted.
CacheValid ==
    \A s \in AllSequences : \A p \in 0..cache_pos[s] - 1 :
        /\ p \div BlockSize < Len(blocks[s])
        /\ kv[SlotOf(s, p)] = <<s, p>>

\* When the batch is handed to the engine every sequence in it, unless cancelled
\* since it was picked, has exactly the blocks its tokens need (prepare_inputs
\* checks for fewer; with more, cache_slots() and last_slot_id() would give wrong
\* slots).
BatchHasSlots ==
    pc = "execute" => \A s \in ToSet(sequences_batch) :
        IsFinishedSeq(s) \/ Len(blocks[s]) = BlocksNeeded(num_tokens[s])

\* What execute_model relies on, in every batch and after every preemption,
\* cancellation and reuse of blocks: the cached prefix is the sequence's own, and
\* the rest of it has slots.  A request scheduled in this build may lack them only
\* if one was overtaken by another of its key (see NoCrash).
BatchReady == CacheValid /\ (overtaken \/ BatchHasSlots)

\* The requests the main thread may still read: while it requeues the previous
\* batch, the part it has not reached yet.
Reachable ==
    priority_queue \cup ToSet(request_queue)
      \cup ToSet(IF pc = "requeue" THEN SubSeq(request_batch, 1, idx)
                                   ELSE request_batch)

TaskRequest(t) == IF t.type = "finish" THEN t.request ELSE t.seq[1]

\* The scheduler's containers and the queued response tasks never point to a
\* destroyed request: the delta tasks of a sequence, which hold a bare pointer,
\* come before the one task that destroys its request.  preemptable_candidates_ may
\* only where a scheduled request has stayed in it, overtaking one of its key.
NoDanglingPointer ==
    /\ \A r \in Reachable : owner[r] = "scheduler"
    /\ overtaken \/ \A r \in ToSet(preemptable_candidates) : owner[r] = "scheduler"
    /\ \A i \in DOMAIN tasks :
         /\ owner[TaskRequest(tasks[i])] \in {"scheduler", "response"}
         /\ \A j \in 1..i - 1 :
              tasks[j].type = "finish" => TaskRequest(tasks[j]) # TaskRequest(tasks[i])

\* preemptable_candidates_ is what its comment says, "sorted by priority from
\* high to low": while requests are picked it lists, in order, requests that
\* still wait in the heap, and nothing survives in it to the next build.  The
\* one way to lose this is that a listed request overtakes one of its key.
PreemptableSound ==
    \/ overtaken
    \/ /\ \A i, j \in DOMAIN preemptable_candidates : i < j =>
            /\ preemptable_candidates[i] # preemptable_candidates[j]
            /\ ~ProcessedBefore(preemptable_candidates[j], preemptable_candidates[i])
       /\ pc \in {"requeue", "top", "allocate", "slots"} =>
            ToSet(preemptable_candidates) \subseteq priority_queue
       /\ pc \in {"idle", "execute", "process"} => preemptable_candidates = <<>>

\* The batch is in priority order, and no request left in the heap comes before
\* one that runs: "Requests with HIGH priority are processed first ... within
\* each priority level ... First-Come-First-Served".
BatchInPriorityOrder ==
    pc = "execute" =>
        /\ \A i, j \in DOMAIN request_batch : i < j =>
             ~ProcessedBefore(request_batch[j], request_batch[i])
        /\ \A r \in ToSet(request_batch), q \in priority_queue : ~ProcessedBefore(q, r)

HoldsBlocks(r) == \E s \in SequencesOf(r) : blocks[s] # <<>>

\* Only a request that the candidate need not let pass and that has not been
\* scheduled in this build ("the request has been scheduled and can't be
\* preempted") loses its blocks while the scheduler keeps it, unless a request was
\* overtaken by another of its key.
PreemptsOnlyLower ==
    [][\A r \in Requests : HoldsBlocks(r) /\ ~HoldsBlocks(r)' /\ owner'[r] = "scheduler" =>
          \/ overtaken
          \/ /\ r # candidate /\ ~ProcessedBefore(r, candidate)
             /\ r \notin ToSet(request_batch)]_vars

\* A streaming client that can be reached has been told the finish reason of
\* every sequence by the time its request is finished.
ToldBeforeFinish ==
    [][\A r \in Requests : Streaming[r] /\ rpc_ok[r] /\ owner[r] = "response"
                             /\ owner'[r] = "nobody" =>
          \A s \in SequencesOf(r) : told[s] = finish_reason[s]]_vars

\* The scheduler and its response thread show a client nothing but what
\* CompletionService allows: no delta after the finish reason or after on_finish,
\* on_finish at most once, and only for a request that was accepted.
Service == INSTANCE CompletionService WITH
    Streams <- AllSequences,
    sent <- output_offset,
    status <- [r \in Requests |->
                 CASE owner[r] = "handler" -> "new"
                   [] owner[r] = "refused" -> "refused"
                   [] owner[r] \in {"scheduler", "response"} -> "accepted"
                   [] owner[r] = "nobody" -> "finished"]
ImplementsService == Service!ServiceSpec

\* No GCHECK of prepare_inputs fails and no destroyed request is used.
NoCrash == pc # "crashed"

\* Every request that schedule() takes over is answered and destroyed, whatever
\* is preempted on the way (or the process aborts, see NoCrash).
EveryRequestAnswered ==
    \A r \in Requests :
        owner[r] = "scheduler" ~> owner[r] = "nobody" \/ pc = "crashed"
=============================================================================
