-------------------------- MODULE SchedulerProofs --------------------------
(***************************************************************************)
(* Proofs about Scheduler, for every set of requests, every priority and   *)
(* creation time (ties included), every number of blocks and every         *)
(* interleaving of the handlers, the main thread and the response thread.  *)
(***************************************************************************)
EXTENDS Scheduler, FiniteSetTheorems, SequenceTheorems, TLAPS

\* The groups of variables that have their types in common.
queueGroup == <<owner, request_queue, tasks>>
batchGroup == <<priority_queue, request_batch, sequences_batch, preemptable_candidates>>
controlGroup == <<pc, idx, localVars, overtaken>>
poolGroup == <<free, blocks>>
sequenceGroup == <<num_tokens, cache_pos, finish_reason>>

TypeInv == TypeOK /\ LoopBounds

\* The sequences of a request are among all sequences, and know their request.
LEMMA SequenceFacts ==
  /\ \A r \in Requests : \A i \in 1..NumSeqs[r] : <<r, i>> \in AllSequences
  /\ \A s \in AllSequences : s[1] \in Requests
  /\ \A r \in Requests : SequencesOf(r) \subseteq AllSequences
  BY DEF AllSequences, SequencesOf

\* A group of variables that does not change keeps its types.
LEMMA KeepsTypes ==
  ASSUME TypeInv
  PROVE  /\ UNCHANGED queueGroup => QueueTypes'
         /\ UNCHANGED batchGroup => BatchTypes'
         /\ UNCHANGED controlGroup => ControlTypes'
         /\ UNCHANGED poolGroup => PoolTypes'
         /\ UNCHANGED sequenceGroup => SequenceTypes'
         /\ UNCHANGED respVars => ResponseTypes'
         /\ UNCHANGED kv => CacheTypes'
         /\ UNCHANGED <<batchGroup, controlGroup>> => LoopBounds'
<1> USE DEF TypeInv, TypeOK, localVars
<1>1. UNCHANGED queueGroup => QueueTypes'
  BY DEF queueGroup, QueueTypes
<1>2. UNCHANGED batchGroup => BatchTypes'
  BY DEF batchGroup, BatchTypes
<1>3. UNCHANGED controlGroup => ControlTypes'
  BY DEF controlGroup, ControlTypes
<1>4. UNCHANGED poolGroup => PoolTypes'
  BY DEF poolGroup, PoolTypes
<1>5. UNCHANGED sequenceGroup => SequenceTypes'
  BY DEF sequenceGroup, SequenceTypes
<1>6. UNCHANGED respVars => ResponseTypes'
  BY DEF respVars, ResponseTypes
<1>7. UNCHANGED kv => CacheTypes'
  BY DEF CacheTypes
<1>8. UNCHANGED <<batchGroup, controlGroup>> => LoopBounds'
  BY DEF batchGroup, controlGroup, LoopBounds
<1> QED
  BY <1>1, <1>2, <1>3, <1>4, <1>5, <1>6, <1>7, <1>8

\* The constructors establish the types.
LEMMA InitType == Init => TypeInv
<1> SUFFICES ASSUME Init PROVE TypeInv
  OBVIOUS
<1> USE SchedulerAssumption, SequenceFacts DEF Init
<1>1. LoopBounds
  BY DEF LoopBounds
<1>2. QueueTypes
  BY DEF QueueTypes, Owner
<1>3. BatchTypes
  BY DEF BatchTypes
<1>4. ControlTypes
  <2>1. overtaken \in BOOLEAN /\ has_enough_slots \in BOOLEAN
    BY Zenon
  <2>2. pc \in PC /\ idx \in Nat /\ candidate \in Requests \cup {NoRequest}
        /\ sequence_candidates \in Seq(AllSequences)
    BY DEF PC
  <2> QED
    BY <2>1, <2>2 DEF ControlTypes
<1>5. PoolTypes
  BY DEF PoolTypes, Pool!PoolInit
<1>6. SequenceTypes
  BY DEF SequenceTypes, Reason
<1>7. ResponseTypes
  BY DEF ResponseTypes, Reason
<1>8. CacheTypes
  BY DEF CacheTypes
<1> QED
  BY <1>1, <1>2, <1>3, <1>4, <1>5, <1>6, <1>7, <1>8 DEF TypeInv, TypeOK

\* The handler threads, the clients and the response thread keep the types.
LEMMA OtherThreadsType ==
  ASSUME TypeInv, Handlers \/ ResponseThread PROVE TypeInv'
<1> USE SchedulerAssumption, SequenceFacts DEF TypeInv
<1>1. ASSUME NEW r \in Requests, Schedule(r) PROVE TypeInv'
  <2>1. UNCHANGED <<batchGroup, controlGroup, poolGroup, sequenceGroup, respVars, kv>>
    BY <1>1 DEF Schedule, memVars, seqVars, batchGroup, controlGroup, poolGroup, sequenceGroup, respVars
  <2>2. QueueTypes'
    <3>1. owner' \in [Requests -> Owner]
      <4>1. "scheduler" \in Owner /\ "refused" \in Owner
        BY DEF Owner
      <4>2. owner \in [Requests -> Owner]
        BY DEF TypeOK, QueueTypes
      <4>3. \/ owner' = [owner EXCEPT ![r] = "scheduler"]
            \/ owner' = [owner EXCEPT ![r] = "refused"]
        BY <1>1 DEF Schedule
      <4> QED
        BY <4>1, <4>2, <4>3
    <3>2. request_queue' \in Seq(Requests)
      <4>1. request_queue \in Seq(Requests)
        BY DEF TypeOK, QueueTypes
      <4>2. CASE request_queue' = Append(request_queue, r)
        BY <4>1, <4>2
      <4>3. CASE request_queue' = request_queue
        BY <4>1, <4>3
      <4> QED
        BY <1>1, <4>2, <4>3 DEF Schedule
    <3>3. tasks' = tasks
      BY <1>1 DEF Schedule
    <3> QED
      BY <3>1, <3>2, <3>3 DEF TypeOK, QueueTypes
  <2> QED
    BY <2>1, <2>2, KeepsTypes DEF TypeInv, TypeOK
<1>2. ASSUME NEW r \in Requests, ClientFails(r) PROVE TypeInv'
  <2>1. UNCHANGED <<queueGroup, batchGroup, controlGroup, poolGroup, sequenceGroup, kv>>
    BY <1>2 DEF ClientFails, memVars, seqVars, queueGroup, batchGroup, controlGroup, poolGroup, sequenceGroup
  <2>2. ResponseTypes'
    BY <1>2 DEF TypeOK, ResponseTypes, ClientFails
  <2> QED
    BY <2>1, <2>2, KeepsTypes DEF TypeInv, TypeOK
<1>3. CASE DecodeDelta
  <2>1. UNCHANGED <<batchGroup, controlGroup, poolGroup, sequenceGroup, kv>>
        /\ UNCHANGED <<owner, request_queue, is_cancelled, rpc_ok, told>>
    BY <1>3 DEF DecodeDelta, memVars, seqVars, batchGroup, controlGroup, poolGroup, sequenceGroup
  <2>2. PICK t \in Task : t = Head(tasks) /\ t.type = "stream"
    BY <1>3 DEF DecodeDelta, TypeOK, QueueTypes
  <2>3. t.seq \in AllSequences /\ t.end \in Nat /\ t.reason \in Reason
    BY <2>2 DEF Task
  <2>4. QueueTypes'
    <3>1. [t EXCEPT !.type = "write"] \in Task
      BY <2>2 DEF Task
    <3>2. Tail(tasks) \in Seq(Task)
      BY <1>3 DEF DecodeDelta, TypeOK, QueueTypes
    <3>3. <<[t EXCEPT !.type = "write"]>> \o Tail(tasks) \in Seq(Task)
      BY <3>1, <3>2
    <3>4. tasks' \in {Tail(tasks), <<[t EXCEPT !.type = "write"]>> \o Tail(tasks)}
      BY <1>3, <2>2 DEF DecodeDelta
    <3> QED
      BY <2>1, <3>2, <3>3, <3>4 DEF TypeOK, QueueTypes
  <2>5. ResponseTypes'
    <3>1. output_offset' \in {output_offset, [output_offset EXCEPT ![t.seq] = t.end]}
      BY <1>3, <2>2 DEF DecodeDelta
    <3>2. output_offset' \in [AllSequences -> Nat]
      BY <2>3, <3>1 DEF TypeOK, ResponseTypes
    <3> QED
      BY <2>1, <3>2 DEF TypeOK, ResponseTypes
  <2> QED
    BY <2>1, <2>4, <2>5, KeepsTypes DEF TypeInv, TypeOK
<1>5. CASE StreamDelta
  <2>1. UNCHANGED <<batchGroup, controlGroup, poolGroup, sequenceGroup, kv>>
        /\ UNCHANGED <<owner, request_queue, output_offset, rpc_ok>>
    BY <1>5 DEF StreamDelta, memVars, seqVars, batchGroup, controlGroup, poolGroup, sequenceGroup
  <2>2. PICK t \in Task : t = Head(tasks) /\ t.type = "write"
    BY <1>5 DEF StreamDelta, TypeOK, QueueTypes
  <2>3. t.seq \in AllSequences /\ t.reason \in Reason
    BY <2>2 DEF Task
  <2>4. QueueTypes'
    <3>1. tasks' \in Seq(Task)
      BY <1>5 DEF StreamDelta, TypeOK, QueueTypes
    <3> QED
      BY <2>1, <3>1 DEF TypeOK, QueueTypes
  <2>5. ResponseTypes'
    <3>1. \/ told' = [told EXCEPT ![t.seq] = t.reason] /\ is_cancelled' = is_cancelled
          \/ is_cancelled' = [is_cancelled EXCEPT ![t.seq] = TRUE] /\ told' = told
      BY <1>5, <2>2 DEF StreamDelta
    <3>2. told' \in [AllSequences -> Reason] /\ is_cancelled' \in [AllSequences -> BOOLEAN]
      BY <2>3, <3>1 DEF TypeOK, ResponseTypes
    <3> QED
      BY <2>1, <3>2 DEF TypeOK, ResponseTypes
  <2> QED
    BY <2>1, <2>4, <2>5, KeepsTypes DEF TypeInv, TypeOK
<1>4. CASE RunFinishTask
  <2>1. UNCHANGED <<batchGroup, controlGroup, poolGroup, sequenceGroup, respVars, kv>>
    BY <1>4 DEF RunFinishTask, memVars, seqVars, batchGroup, controlGroup, poolGroup, sequenceGroup, respVars
  <2>2. QueueTypes'
    <3>1. owner' \in [Requests -> Owner]
      <4>1. "nobody" \in Owner
        BY DEF Owner
      <4>2. owner \in [Requests -> Owner]
        BY DEF TypeOK, QueueTypes
      <4> QED
        BY <1>4, <4>1, <4>2 DEF RunFinishTask
    <3>2. tasks' \in Seq(Task)
      BY <1>4 DEF TypeOK, QueueTypes, RunFinishTask
    <3>3. request_queue' = request_queue
      BY <1>4 DEF RunFinishTask
    <3> QED
      BY <3>1, <3>2, <3>3 DEF TypeOK, QueueTypes
  <2> QED
    BY <2>1, <2>2, KeepsTypes DEF TypeInv, TypeOK
<1> QED
  BY <1>1, <1>2, <1>3, <1>4, <1>5 DEF Handlers, ResponseThread

\* The main thread, up to the choice of a candidate, and AddToBatch.
LEMMA BuildType ==
  ASSUME TypeInv,
         DrainRequestQueue \/ ClearBatch \/ PickCandidate \/ ConsiderSequence
           \/ ScheduleCandidate \/ PartiallySchedule
  PROVE  TypeInv'
<1> USE SchedulerAssumption, SequenceFacts DEF TypeInv
<1>1. CASE DrainRequestQueue
  <2>1. UNCHANGED <<poolGroup, sequenceGroup, respVars, kv>>
    BY <1>1 DEF DrainRequestQueue, memVars, seqVars, poolGroup, sequenceGroup, respVars
  <2>2. QueueTypes'
    BY <1>1 DEF TypeOK, QueueTypes, DrainRequestQueue
  <2>3. BatchTypes'
    BY <1>1 DEF TypeOK, BatchTypes, DrainRequestQueue, QueueTypes, ToSet
  <2>4. ControlTypes'
    BY <1>1 DEF TypeOK, ControlTypes, DrainRequestQueue, BatchTypes, PC, localVars
  <2>5. LoopBounds'
    BY <1>1 DEF TypeOK, LoopBounds, DrainRequestQueue
  <2> QED
    BY <2>1, <2>2, <2>3, <2>4, <2>5, KeepsTypes DEF TypeInv, TypeOK
<1>2. CASE ClearBatch
  <2>1. UNCHANGED <<queueGroup, poolGroup, sequenceGroup, respVars, kv>>
    BY <1>2 DEF ClearBatch, memVars, seqVars, queueGroup, poolGroup, sequenceGroup, respVars
  <2>2. BatchTypes'
    BY <1>2 DEF TypeOK, BatchTypes, ClearBatch
  <2>3. ControlTypes'
    BY <1>2 DEF TypeOK, ControlTypes, ClearBatch, PC, localVars
  <2>4. LoopBounds'
    BY <1>2 DEF TypeOK, LoopBounds, ClearBatch
  <2> QED
    BY <2>1, <2>2, <2>3, <2>4, KeepsTypes DEF TypeInv, TypeOK
<1>3. CASE PickCandidate
  <2>1. UNCHANGED <<queueGroup, batchGroup, poolGroup, sequenceGroup, respVars, kv>>
    BY <1>3 DEF PickCandidate, memVars, seqVars, queueGroup, batchGroup, poolGroup, sequenceGroup, respVars
  <2>2. ControlTypes'
    <3>1. CASE UNCHANGED <<localVars, idx>>
      BY <1>3, <3>1 DEF TypeOK, ControlTypes, PickCandidate, PC, localVars
    <3>2. ASSUME NEW r \in Tops, candidate' = r, has_enough_slots' = TRUE,
                 sequence_candidates' = <<>>, pc' = "allocate", idx' = 1, overtaken' = overtaken
          PROVE  ControlTypes'
      BY <3>2 DEF TypeOK, ControlTypes, BatchTypes, Tops, PC
    <3> QED
      BY <1>3, <3>1, <3>2 DEF PickCandidate
  <2>3. LoopBounds'
    BY <1>3 DEF TypeOK, LoopBounds, PickCandidate, BatchTypes, Tops, localVars
  <2> QED
    BY <2>1, <2>2, <2>3, KeepsTypes DEF TypeInv, TypeOK
<1>4. CASE ScheduleCandidate
  <2>1. UNCHANGED <<queueGroup, poolGroup, sequenceGroup, respVars, kv>>
    BY <1>4 DEF ScheduleCandidate, memVars, seqVars, queueGroup, poolGroup, sequenceGroup, respVars
  <2>2. BatchTypes'
    BY <1>4 DEF TypeOK, BatchTypes, ScheduleCandidate, AllSequencesTried, AddToBatch, NoLongerPreemptable, ControlTypes, LoopBounds
  <2>3. ControlTypes'
    BY <1>4 DEF TypeOK, ControlTypes, ScheduleCandidate, Overtakes, SameKey, PC, localVars
  <2>4. LoopBounds'
    BY <1>4 DEF TypeOK, LoopBounds, ScheduleCandidate
  <2> QED
    BY <2>1, <2>2, <2>3, <2>4, KeepsTypes DEF TypeInv, TypeOK
<1>5. CASE PartiallySchedule
  <2>1. UNCHANGED <<queueGroup, poolGroup, sequenceGroup, respVars, kv>>
    BY <1>5 DEF PartiallySchedule, memVars, seqVars, queueGroup, poolGroup, sequenceGroup, respVars
  <2>2. BatchTypes'
    BY <1>5 DEF TypeOK, BatchTypes, PartiallySchedule, AllSequencesTried, AddToBatch, ControlTypes, LoopBounds
  <2>3. ControlTypes'
    BY <1>5 DEF TypeOK, ControlTypes, PartiallySchedule, PC, localVars
  <2>4. LoopBounds'
    BY <1>5 DEF TypeOK, LoopBounds, PartiallySchedule, AddToBatch, BatchTypes, ControlTypes
  <2> QED
    BY <2>1, <2>2, <2>3, <2>4, KeepsTypes DEF TypeInv, TypeOK
<1>6. CASE ConsiderSequence
  <2>1. UNCHANGED <<queueGroup, batchGroup, poolGroup, sequenceGroup, respVars, kv, localVars, overtaken>>
    BY <1>6 DEF ConsiderSequence, memVars, seqVars, queueGroup, batchGroup, poolGroup, sequenceGroup
  <2>2. /\ pc = "allocate" /\ idx <= NumSeqs[candidate]
        /\ \/ idx' = idx + 1 /\ pc' = pc
           \/ idx' = idx /\ pc' = "slots"
    BY <1>6 DEF ConsiderSequence
  <2>3. candidate' = candidate /\ candidate \in Requests /\ idx \in Nat /\ idx >= 1
    BY <2>1, <2>2 DEF localVars, TypeOK, LoopBounds, ControlTypes
  <2>4. ControlTypes'
    BY <2>1, <2>2, <2>3 DEF TypeOK, ControlTypes, PC, localVars
  <2>5. LoopBounds'
    BY <2>2, <2>3 DEF LoopBounds
  <2> QED
    BY <2>1, <2>4, <2>5, KeepsTypes DEF TypeInv, TypeOK
<1> QED
  BY <1>1, <1>2, <1>3, <1>4, <1>5, <1>6

\* release_slots_for_request and on_request_finish.
LEMMA ReleaseType ==
  ASSUME TypeInv, NEW r \in Requests, ReleaseSlotsForRequest(r)
  PROVE  /\ PoolTypes'
         /\ UNCHANGED seqVars => SequenceTypes'
<1>1. PoolTypes'
  <2>1. \A s \in SequencesOf(r) : Range(blocks[s]) \subseteq BlockIds
    BY SequenceFacts DEF TypeInv, TypeOK, PoolTypes, Range
  <2>2. UNION {Range(blocks[s]) : s \in SequencesOf(r)} \subseteq BlockIds
    BY <2>1
  <2>3. free' \in SUBSET BlockIds
    <3>1. free' = free \cup UNION {Range(blocks[s]) : s \in SequencesOf(r)}
      BY DEF ReleaseSlotsForRequest, Pool!Release, Pool!Range, Range
    <3> QED
      BY <2>2, <3>1 DEF TypeInv, TypeOK, PoolTypes
  <2>4. blocks' \in [AllSequences -> Seq(BlockIds)]
    BY DEF TypeInv, TypeOK, PoolTypes, ReleaseSlotsForRequest, Pool!Release
  <2> QED
    BY <2>3, <2>4 DEF PoolTypes
<1>2. ASSUME UNCHANGED seqVars PROVE SequenceTypes'
  <2>1. cache_pos' \in [AllSequences -> Nat]
    BY DEF TypeInv, TypeOK, SequenceTypes, ReleaseSlotsForRequest
  <2>2. \A s \in AllSequences : cache_pos'[s] = IF s[1] = r THEN 0 ELSE cache_pos[s]
    BY DEF ReleaseSlotsForRequest
  <2>3. num_tokens' = num_tokens /\ finish_reason' = finish_reason
    BY <1>2 DEF seqVars
  <2>4. \A s \in AllSequences : cache_pos'[s] < num_tokens[s]
    BY <2>2 DEF TypeInv, TypeOK, SequenceTypes
  <2> QED
    BY <2>1, <2>3, <2>4 DEF TypeInv, TypeOK, SequenceTypes
<1> QED
  BY <1>1, <1>2

LEMMA FinishType ==
  ASSUME TypeInv, NEW r \in Requests, OnRequestFinish(r), UNCHANGED <<request_queue, seqVars>>
  PROVE  QueueTypes' /\ PoolTypes' /\ SequenceTypes'
<1>1. PoolTypes' /\ SequenceTypes'
  BY ReleaseType DEF OnRequestFinish
<1>2. owner' \in [Requests -> Owner]
  <2>1. "response" \in Owner
    BY DEF Owner
  <2>2. owner \in [Requests -> Owner] /\ owner' = [owner EXCEPT ![r] = "response"]
    BY DEF TypeInv, TypeOK, QueueTypes, OnRequestFinish
  <2> QED
    BY <2>1, <2>2
<1>3. tasks' \in Seq(Task)
  <2>1. [type |-> "finish", request |-> r] \in Task
    BY DEF Task
  <2>2. tasks \in Seq(Task)
    BY DEF TypeInv, TypeOK, QueueTypes
  <2>3. tasks' = Append(tasks, [type |-> "finish", request |-> r])
    BY DEF OnRequestFinish
  <2> QED
    BY <2>1, <2>2, <2>3
<1>4. request_queue' \in Seq(Requests)
  BY DEF TypeInv, TypeOK, QueueTypes
<1> QED
  BY <1>1, <1>2, <1>3, <1>4 DEF QueueTypes

\* The actions that give blocks back, or may.
LEMMA ReleasingType ==
  ASSUME TypeInv, RequeueRequest \/ PreemptLowest \/ PreemptDestroyed \/ GiveUp
  PROVE  TypeInv'
<1> USE DEF TypeInv
<1>1. CASE RequeueRequest
  <2>1. UNCHANGED <<request_queue, seqVars, respVars, kv>>
        /\ UNCHANGED <<request_batch, sequences_batch, pc, localVars, overtaken>>
    BY <1>1 DEF RequeueRequest
  <2>2. idx' = idx - 1 /\ idx \in 1..Len(request_batch) /\ pc = "requeue" /\ idx' \in Nat
    BY <1>1 DEF RequeueRequest, LoopBounds, TypeOK, ControlTypes
  <2>3. PICK r \in Requests : r = request_batch[idx]
    BY <2>2 DEF TypeOK, BatchTypes
  <2>4. ControlTypes'
    BY <2>1, <2>2 DEF TypeOK, ControlTypes, localVars
  <2>5. LoopBounds'
    <3>1. pc' = "requeue" /\ request_batch' = request_batch /\ idx' <= Len(request_batch)
      BY <2>1, <2>2 DEF TypeOK, BatchTypes
    <3> QED
      BY <3>1 DEF LoopBounds
  <2>6. ResponseTypes' /\ CacheTypes'
    BY <2>1, KeepsTypes
  <2>7. CASE IsFinished(r)
    <3>1. OnRequestFinish(r) /\ UNCHANGED <<preemptable_candidates, priority_queue>>
      BY <1>1, <2>3, <2>7 DEF RequeueRequest
    <3>2. QueueTypes' /\ PoolTypes' /\ SequenceTypes'
      BY <2>1, <3>1, FinishType
    <3>3. BatchTypes'
      BY <2>1, <3>1 DEF TypeOK, BatchTypes
    <3> QED
      BY <2>4, <2>5, <2>6, <3>2, <3>3 DEF TypeOK
  <2>8. CASE ~IsFinished(r)
    <3>1. Requeue(r) /\ UNCHANGED <<owner, tasks, memVars>>
      BY <1>1, <2>3, <2>8 DEF RequeueRequest
    <3>2. QueueTypes' /\ PoolTypes' /\ SequenceTypes'
      BY <2>1, <3>1, KeepsTypes DEF queueGroup, poolGroup, sequenceGroup, memVars, seqVars
    <3>3. BatchTypes'
      <4>1. preemptable_candidates' \in Seq(Requests)
        BY <3>1 DEF TypeOK, BatchTypes, Requeue
      <4>2. priority_queue' \in SUBSET Requests
        BY <3>1 DEF TypeOK, BatchTypes, Requeue
      <4> QED
        BY <2>1, <4>1, <4>2 DEF TypeOK, BatchTypes
    <3> QED
      BY <2>4, <2>5, <2>6, <3>2, <3>3 DEF TypeOK
  <2> QED
    BY <2>7, <2>8
<1>2. CASE PreemptLowest
  <2>1. UNCHANGED <<queueGroup, priority_queue, request_batch, sequences_batch,
                    pc, candidate, seqVars, respVars, kv, overtaken>>
    BY <1>2 DEF PreemptLowest, queueGroup
  <2>2. preemptable_candidates # <<>> /\ preemptable_candidates \in Seq(Requests)
    BY <1>2 DEF PreemptLowest, TypeOK, BatchTypes
  <2>3. Len(preemptable_candidates) \in 1..Len(preemptable_candidates)
    BY <2>2
  <2>4. PICK r \in Requests : r = Last(preemptable_candidates)
    BY <2>2, <2>3 DEF Last
  <2>5. BatchTypes'
    <3>1. Front(preemptable_candidates) \in Seq(Requests)
      BY <2>2, <2>3 DEF Front
    <3> QED
      BY <1>2, <2>1, <3>1 DEF PreemptLowest, TypeOK, BatchTypes
  <2>6. ControlTypes'
    BY <1>2, <2>1 DEF PreemptLowest, TypeOK, ControlTypes
  <2>7. LoopBounds'
    BY <1>2, <2>1 DEF PreemptLowest, AllSequencesTried, LoopBounds
  <2>8. PoolTypes' /\ SequenceTypes'
    <3>1. CASE ReleaseSlotsForRequest(r)
      BY <2>1, <3>1, ReleaseType
    <3>2. CASE UNCHANGED memVars
      BY <2>1, <3>2, KeepsTypes DEF poolGroup, sequenceGroup, memVars, seqVars
    <3> QED
      BY <1>2, <2>4, <3>1, <3>2 DEF PreemptLowest
  <2> QED
    BY <2>1, <2>5, <2>6, <2>7, <2>8, KeepsTypes DEF TypeOK
<1>3. CASE GiveUp
  <2>1. UNCHANGED <<request_queue, request_batch, sequences_batch, preemptable_candidates>>
        /\ UNCHANGED <<idx, localVars, seqVars, respVars, kv, overtaken>>
    BY <1>3 DEF GiveUp
  <2>2. candidate \in Requests
    BY <1>3 DEF GiveUp, AllSequencesTried, LoopBounds
  <2>3. pc' \in {"idle", "execute"} /\ (pc' = "execute" => sequences_batch # <<>>)
    BY <1>3 DEF GiveUp
  <2>4. ControlTypes'
    BY <2>1, <2>3 DEF TypeOK, ControlTypes, PC, localVars
  <2>5. LoopBounds'
    BY <2>1, <2>3 DEF LoopBounds
  <2>6. priority_queue' = priority_queue \/ priority_queue' = priority_queue \ {candidate}
    BY <1>3 DEF GiveUp
  <2>7. BatchTypes'
    BY <2>1, <2>6 DEF TypeOK, BatchTypes
  <2>8. QueueTypes' /\ PoolTypes' /\ SequenceTypes'
    <3>1. CASE OnRequestFinish(candidate)
      BY <2>1, <2>2, <3>1, FinishType
    <3>2. CASE UNCHANGED <<owner, tasks, memVars>>
      BY <2>1, <3>2, KeepsTypes DEF queueGroup, poolGroup, sequenceGroup, memVars, seqVars
    <3> QED
      BY <1>3, <3>1, <3>2 DEF GiveUp
  <2> QED
    BY <2>1, <2>4, <2>5, <2>7, <2>8, KeepsTypes DEF TypeOK
<1>4. CASE PreemptDestroyed
  <2>1. /\ UNCHANGED <<queueGroup, batchGroup, poolGroup, sequenceGroup, respVars, kv>>
        /\ UNCHANGED <<idx, localVars, overtaken>> /\ pc' = "crashed"
    BY <1>4 DEF PreemptDestroyed, memVars, seqVars, queueGroup, batchGroup, poolGroup, sequenceGroup
  <2>2. ControlTypes' /\ LoopBounds'
    BY <2>1 DEF TypeOK, ControlTypes, LoopBounds, PC, localVars
  <2> QED
    BY <2>1, <2>2, KeepsTypes DEF TypeOK
<1> QED
  BY <1>1, <1>2, <1>3, <1>4

\* The number of blocks a sequence lacks is a natural number.
LEMMA BlocksToAllocateType ==
  ASSUME TypeInv, NEW s \in AllSequences
  PROVE  NumBlocksToAllocate(s) \in Nat
<1>1. num_tokens[s] \in Nat /\ Len(blocks[s]) \in Nat
  BY DEF TypeInv, TypeOK, SequenceTypes, PoolTypes
<1>2. BlocksNeeded(num_tokens[s]) \in Nat
  <2>1. BlockSize \in Nat /\ BlockSize > 0
    BY SchedulerAssumption
  <2>2. num_tokens[s] + BlockSize - 1 \in Nat
    BY <1>1, <2>1
  <2>3. \A x, y \in Nat : y > 0 => x \div y \in Nat
    <3> TAKE x, y \in Nat
    <3> HAVE y > 0
    <3>1. x \div y \in Int /\ x % y \in 0..y - 1 /\ x = y * (x \div y) + (x % y)
      OBVIOUS
    <3>2. CASE x \div y < 0
      <4>1. y * (x \div y) <= -y
        BY <3>1, <3>2
      <4> QED
        BY <3>1, <4>1
    <3> QED
      BY <3>1, <3>2
  <2> QED
    BY <2>1, <2>2, <2>3 DEF BlocksNeeded
<1> QED
  BY <1>1, <1>2 DEF NumBlocksToAllocate

\* allocate_slots_for_sequence for one sequence of the candidate.
LEMMA AllocateType ==
  ASSUME TypeInv, AllocateSlotsForSequence
  PROVE  TypeInv'
<1> USE DEF TypeInv
<1> DEFINE s == <<candidate, idx>>
           n == NumBlocksToAllocate(s)
<1>1. UNCHANGED <<queueGroup, batchGroup, respVars, kv>>
      /\ UNCHANGED <<candidate, sequenceGroup, overtaken>> /\ pc' = "allocate"
  BY DEF AllocateSlotsForSequence, queueGroup, batchGroup, sequenceGroup, seqVars
<1>2. candidate \in Requests /\ idx \in 1..NumSeqs[candidate] /\ idx' = idx + 1
  <2>1. candidate \in Requests /\ idx \in Nat /\ idx >= 1 /\ idx <= NumSeqs[candidate]
        /\ idx' = idx + 1
    BY DEF AllocateSlotsForSequence, LoopBounds, TypeOK, ControlTypes
  <2>2. NumSeqs[candidate] \in Nat
    BY <2>1, SchedulerAssumption
  <2> QED
    BY <2>1, <2>2
<1>3. s \in AllSequences
  BY <1>2, SequenceFacts
<1>4. n \in Nat
  BY <1>3, BlocksToAllocateType
<1>5. /\ has_enough_slots' = has_enough_slots \/ has_enough_slots' = FALSE
      /\ \/ sequence_candidates' = sequence_candidates
         \/ sequence_candidates' = Append(sequence_candidates, s)
      /\ Pool!Allocate(s, n) \/ UNCHANGED <<free, blocks>>
  BY DEF AllocateSlotsForSequence
<1> HIDE DEF s, n
<1>6. LoopBounds'
  BY <1>1, <1>2 DEF LoopBounds, TypeOK, ControlTypes
<1>7. ControlTypes'
  <2>1. sequence_candidates' \in Seq(AllSequences)
    <3>1. sequence_candidates \in Seq(AllSequences)
      BY DEF TypeOK, ControlTypes
    <3>2. CASE sequence_candidates' = Append(sequence_candidates, s)
      BY <1>3, <3>1, <3>2
    <3> QED
      BY <1>5, <3>1, <3>2
  <2>2. has_enough_slots' \in BOOLEAN
    BY <1>5 DEF TypeOK, ControlTypes
  <2>3. idx' \in Nat
    BY <1>2 DEF TypeOK, ControlTypes
  <2> QED
    BY <1>1, <2>1, <2>2, <2>3 DEF TypeOK, ControlTypes, PC
<1>8. PoolTypes'
  <2>1. CASE Pool!Allocate(s, n)
    <3>1. PICK new \in Pool!Injection(1..n, free) :
            free' = free \ Pool!Range(new) /\ blocks' = [blocks EXCEPT ![s] = @ \o new]
      BY <2>1 DEF Pool!Allocate
    <3>2. new \in [1..n -> free]
      BY DEF Pool!Injection
    <3>3. free \in SUBSET BlockIds /\ blocks \in [AllSequences -> Seq(BlockIds)]
      BY DEF TypeOK, PoolTypes
    <3>4. new \in Seq(BlockIds)
      BY <1>4, <3>2, <3>3
    <3>5. blocks[s] \o new \in Seq(BlockIds)
      BY <1>3, <3>3, <3>4
    <3> QED
      BY <3>1, <3>3, <3>5 DEF PoolTypes
  <2>2. CASE UNCHANGED <<free, blocks>>
    BY <2>2 DEF TypeOK, PoolTypes
  <2> QED
    BY <1>5, <2>1, <2>2
<1> QED
  BY <1>1, <1>6, <1>7, <1>8, KeepsTypes DEF TypeOK

\* prepare_inputs and the forward pass: the cache gets the keys and values of
\* tokens of scheduled sequences.
LEMMA ExecuteType ==
  ASSUME TypeInv, ExecuteModel
  PROVE  TypeInv'
<1> USE DEF TypeInv
<1>1. UNCHANGED <<queueGroup, batchGroup, poolGroup, sequenceGroup, respVars>>
      /\ UNCHANGED <<localVars, overtaken>>
  BY DEF ExecuteModel, queueGroup, batchGroup, poolGroup, sequenceGroup, memVars, seqVars
<1>2. \/ pc' = "process" /\ idx' = 1
      \/ pc' = "crashed" /\ idx' = idx
  BY DEF ExecuteModel
<1>3. ControlTypes'
  BY <1>1, <1>2 DEF TypeOK, ControlTypes, PC, localVars
<1>4. LoopBounds'
  <2>1. sequences_batch # <<>> /\ sequences_batch \in Seq(AllSequences)
    BY DEF ExecuteModel, LoopBounds, TypeOK, BatchTypes
  <2>2. Len(sequences_batch) >= 1
    BY <2>1
  <2>3. sequences_batch' = sequences_batch
    BY <1>1 DEF batchGroup
  <2> QED
    BY <1>2, <2>2, <2>3 DEF LoopBounds
<1>5. CacheTypes'
  <2>1. CASE UNCHANGED kv
    BY <2>1, KeepsTypes
  <2> DEFINE writes == UNION {CacheWrites(s) : s \in ToSet(sequences_batch)}
             Content == {NoContent} \cup (AllSequences \X Nat)
  <2>2. CASE kv' = [slot \in Slots |->
                      IF \E w \in writes : w[1] = slot
                      THEN (CHOOSE w \in writes : w[1] = slot)[2] ELSE kv[slot]]
    <3>1. \A w \in writes : w[2] \in Content
      <4> SUFFICES ASSUME NEW s \in ToSet(sequences_batch), NEW w \in CacheWrites(s)
                   PROVE  w[2] \in Content
        OBVIOUS
      <4>1. s \in AllSequences
        BY DEF ToSet, TypeOK, BatchTypes
      <4>2. num_tokens[s] \in Nat /\ num_tokens[s] - 1 \in Nat
        BY <4>1 DEF TypeOK, SequenceTypes
      <4>3. \E p \in 0..num_tokens[s] - 1 : w[2] = <<s, p>>
        BY <4>2 DEF CacheWrites
      <4> QED
        BY <4>1, <4>2, <4>3
    <3>2. kv \in [Slots -> Content]
      BY DEF TypeOK, CacheTypes
    <3> HIDE DEF writes, Content
    <3>3. \A slot \in Slots : (\E w \in writes : w[1] = slot) =>
             (CHOOSE w \in writes : w[1] = slot) \in writes
      OBVIOUS
    <3>4. kv' \in [Slots -> Content]
      BY <2>2, <3>1, <3>2, <3>3
    <3> QED
      BY <3>4 DEF CacheTypes, Content
  <2> QED
    BY <2>1, <2>2 DEF ExecuteModel
<1> QED
  BY <1>1, <1>3, <1>4, <1>5, KeepsTypes DEF TypeOK

\* append_new_token_id, check_stopping_creteria and on_sequence_stream.
LEMMA ProcessType ==
  ASSUME TypeInv, ProcessToken
  PROVE  TypeInv'
<1> USE DEF TypeInv
<1>1. UNCHANGED <<batchGroup, poolGroup, respVars, kv>>
      /\ UNCHANGED <<owner, request_queue, localVars, overtaken>>
  BY DEF ProcessToken, batchGroup, poolGroup
<1>2. pc = "process" /\ idx \in 1..Len(sequences_batch) /\ idx' = idx + 1
      /\ pc' = IF idx = Len(sequences_batch) THEN "idle" ELSE "process"
  BY DEF ProcessToken, LoopBounds, TypeOK, ControlTypes
<1>3. PICK s \in AllSequences : s = sequences_batch[idx]
  BY <1>2 DEF TypeOK, BatchTypes
<1>4. num_tokens[s] \in Nat
  BY DEF TypeOK, SequenceTypes
<1>5. PICK reason :
        /\ reason \in {finish_reason[s], "LENGTH", "STOP", "NONE"}
        /\ finish_reason' = [finish_reason EXCEPT ![s] = reason]
        /\ tasks' = tasks \o StreamTask(s, num_tokens[s] + 1, reason)
  BY <1>3 DEF ProcessToken, StoppingReason
<1>6. reason \in Reason
  BY <1>5 DEF TypeOK, SequenceTypes, Reason
<1>7. ControlTypes'
  BY <1>1, <1>2 DEF TypeOK, ControlTypes, PC, localVars
<1>8. LoopBounds'
  <2>1. sequences_batch' = sequences_batch /\ sequences_batch \in Seq(AllSequences)
    BY <1>1 DEF batchGroup, TypeOK, BatchTypes
  <2>2. idx # Len(sequences_batch) => idx + 1 \in 1..Len(sequences_batch)
    BY <1>2, <2>1
  <2> QED
    BY <1>2, <2>1, <2>2 DEF LoopBounds
<1>9. QueueTypes'
  <2>1. StreamTask(s, num_tokens[s] + 1, reason) \in Seq(Task)
    <3>1. [type |-> "stream", seq |-> s, end |-> num_tokens[s] + 1, reason |-> reason] \in Task
      BY <1>4, <1>6 DEF Task
    <3> QED
      BY <3>1 DEF StreamTask
  <2>2. tasks' \in Seq(Task)
    BY <1>5, <2>1 DEF TypeOK, QueueTypes
  <2> QED
    BY <1>1, <2>2 DEF TypeOK, QueueTypes
<1>10. SequenceTypes'
  <2>1. /\ num_tokens' = [num_tokens EXCEPT ![s] = num_tokens[s] + 1]
        /\ cache_pos' = [cache_pos EXCEPT ![s] = num_tokens[s]]
    BY <1>3 DEF ProcessToken, CachePosAfterAppend
  <2>2. num_tokens' \in [AllSequences -> Nat] /\ cache_pos' \in [AllSequences -> Nat]
    BY <1>4, <2>1 DEF TypeOK, SequenceTypes
  <2>3. \A q \in AllSequences : cache_pos'[q] < num_tokens'[q]
    BY <1>4, <2>1 DEF TypeOK, SequenceTypes
  <2>4. finish_reason' \in [AllSequences -> Reason]
    BY <1>5, <1>6 DEF TypeOK, SequenceTypes
  <2> QED
    BY <2>2, <2>3, <2>4 DEF SequenceTypes
<1> QED
  BY <1>1, <1>7, <1>8, <1>9, <1>10, KeepsTypes DEF TypeOK

\* Every step keeps the types and the loop bounds.
LEMMA NextType == TypeInv /\ [Next]_vars => TypeInv'
<1> SUFFICES ASSUME TypeInv, [Next]_vars PROVE TypeInv'
  OBVIOUS
<1>1. CASE UNCHANGED vars
  BY <1>1, KeepsTypes DEF TypeInv, TypeOK, vars, queueGroup, batchGroup, controlGroup,
     poolGroup, sequenceGroup, memVars, seqVars
<1> QED
  BY <1>1, OtherThreadsType, BuildType, ReleasingType, AllocateType, ExecuteType,
     ProcessType DEF Next, Stopped, MainThread, BuildSequenceBatch

\* The types hold, cache_pos_ never counts a sequence's newest token, and the main
\* thread never indexes outside request_batch_, the candidate's sequences or
\* sequences_batch_, whatever the handlers and the response thread do meanwhile.
THEOREM TypeCorrect == Spec => [](TypeOK /\ LoopBounds)
<1> QED
  BY InitType, NextType, PTL DEF Spec, TypeInv

\* What a step does to the free list and the block tables is a step of BlockPool.
LEMMA PoolStep == TypeInv /\ [Next]_vars => [Pool!PoolNext]_(Pool!poolVars)
<1> SUFFICES ASSUME TypeInv, [Next]_vars PROVE [Pool!PoolNext]_(Pool!poolVars)
  OBVIOUS
<1>1. ASSUME UNCHANGED <<free, blocks>> PROVE [Pool!PoolNext]_(Pool!poolVars)
  BY <1>1 DEF Pool!poolVars
<1>2. ASSUME NEW r \in Requests, ReleaseSlotsForRequest(r) PROVE Pool!PoolNext
  BY <1>2, SequenceFacts DEF ReleaseSlotsForRequest, Pool!PoolNext
<1>3. CASE Handlers \/ ResponseThread
  <2>1. UNCHANGED <<free, blocks>>
    BY <1>3 DEF Handlers, ResponseThread, Schedule, ClientFails, DecodeDelta, StreamDelta, RunFinishTask, memVars
  <2> QED
    BY <2>1, <1>1
<1>4. CASE DrainRequestQueue \/ ClearBatch \/ PickCandidate \/ ConsiderSequence
             \/ ScheduleCandidate \/ PreemptDestroyed \/ PartiallySchedule
  <2>1. UNCHANGED <<free, blocks>>
    BY <1>4 DEF DrainRequestQueue, ClearBatch, PickCandidate, ConsiderSequence,
       ScheduleCandidate, PreemptDestroyed, PartiallySchedule, memVars
  <2> QED
    BY <2>1, <1>1
<1>5. CASE RequeueRequest
  <2>1. request_batch[idx] \in Requests
    BY <1>5 DEF RequeueRequest, TypeInv, TypeOK, LoopBounds, BatchTypes, ControlTypes
  <2>2. UNCHANGED <<free, blocks>> \/ ReleaseSlotsForRequest(request_batch[idx])
    BY <1>5 DEF RequeueRequest, OnRequestFinish, memVars
  <2> QED
    BY <1>1, <1>2, <2>1, <2>2
<1>6. CASE PreemptLowest
  <2>1. preemptable_candidates # <<>> /\ preemptable_candidates \in Seq(Requests)
    BY <1>6 DEF PreemptLowest, TypeInv, TypeOK, BatchTypes
  <2>2. Len(preemptable_candidates) \in 1..Len(preemptable_candidates)
    BY <2>1
  <2>3. Last(preemptable_candidates) \in Requests
    BY <2>1, <2>2 DEF Last
  <2>4. UNCHANGED <<free, blocks>> \/ ReleaseSlotsForRequest(Last(preemptable_candidates))
    BY <1>6 DEF PreemptLowest, memVars
  <2> QED
    BY <1>1, <1>2, <2>3, <2>4
<1>7. CASE GiveUp
  <2>1. candidate \in Requests
    BY <1>7 DEF GiveUp, AllSequencesTried, TypeInv, LoopBounds
  <2>2. UNCHANGED <<free, blocks>> \/ ReleaseSlotsForRequest(candidate)
    BY <1>7 DEF GiveUp, OnRequestFinish, memVars
  <2> QED
    BY <1>1, <1>2, <2>1, <2>2
<1>8. CASE ExecuteModel \/ ProcessToken
  <2>1. UNCHANGED <<free, blocks>>
    BY <1>8 DEF ExecuteModel, ProcessToken, memVars
  <2> QED
    BY <2>1, <1>1
<1>9. CASE AllocateSlotsForSequence
  <2> DEFINE s == <<candidate, idx>>
             n == NumBlocksToAllocate(s)
  <2>1. s \in AllSequences
    <3>1. candidate \in Requests /\ idx \in Nat /\ idx >= 1 /\ idx <= NumSeqs[candidate]
      BY <1>9 DEF AllocateSlotsForSequence, TypeInv, LoopBounds, TypeOK, ControlTypes
    <3>2. NumSeqs[candidate] \in Nat
      BY <3>1, SchedulerAssumption
    <3>3. idx \in 1..NumSeqs[candidate]
      BY <3>1, <3>2
    <3> QED
      BY <3>1, <3>3, SequenceFacts
  <2>2. n \in Nat
    BY <2>1, BlocksToAllocateType
  <2>3. UNCHANGED <<free, blocks>> \/ (Pool!Allocate(s, n) /\ n <= Cardinality(free))
    BY <1>9 DEF AllocateSlotsForSequence
  <2> HIDE DEF s, n
  <2>4. Cardinality(free) \in Nat
    BY SchedulerAssumption, FS_Subset, FS_CardinalityType DEF TypeInv, TypeOK, PoolTypes
  <2>5. CASE Pool!Allocate(s, n) /\ n <= Cardinality(free)
    <3>1. n \in 0..Cardinality(free)
      BY <2>2, <2>4, <2>5
    <3> QED
      BY <2>1, <2>5, <3>1 DEF Pool!PoolNext, Pool!Cardinality, Cardinality
  <2> QED
    BY <1>1, <2>3, <2>5
<1>10. CASE UNCHANGED vars
  <2>1. UNCHANGED <<free, blocks>>
    BY <1>10 DEF vars, memVars
  <2> QED
    BY <2>1, <1>1
<1> QED
  BY <1>3, <1>4, <1>5, <1>6, <1>7, <1>8, <1>9, <1>10 DEF Next, Stopped, MainThread, BuildSequenceBatch

\* The scheduler uses the block manager as BlockPool allows: blocks go to the end
\* of one table, from the free ones, and come back by whole tables.
THEOREM SchedulerUsesPool == Spec => Pool!PoolSpec
<1>1. Init => Pool!PoolInit
  BY DEF Init
<1> QED
  BY <1>1, InitType, NextType, PoolStep, PTL DEF Spec, Pool!PoolSpec

\* No block is lost or at two places through any sequence of allocations,
\* preemptions, completions and out-of-memory answers (Sequence::blocks_ and the
\* allocator's free list).
THEOREM BlocksArePartitioned == Spec => []BlocksPartition
<1>1. IsFiniteSet(BlockIds)
  BY SchedulerAssumption
<1>2. Pool!PoolSpec => []Pool!BlocksPartition
  BY <1>1, Pool!PoolPartition DEF Pool!IsFiniteSet, IsFiniteSet
<1> QED
  BY <1>2, SchedulerUsesPool, PTL DEF BlocksPartition

-----------------------------------------------------------------------------
(***************************************************************************)
(* Who owns a request, proved for every configuration of Scheduler, equal  *)
(* priorities and creation times included: a request is in at most one of  *)
(* request_queue_, priority_queue_ and request_batch_ and belongs to the   *)
(* scheduler while it is; it leaves them when on_request_finish hands it   *)
(* to the response thread, whose task is the last one that points to it.   *)
(* From that follow that no block leaks, that a client is told why a       *)
(* sequence ended before its request is finished, and that the scheduler   *)
(* implements CompletionService.                                           *)
(***************************************************************************)

\* How much of request_batch_ the main thread may still read.
BatchLimit == IF pc = "requeue" THEN idx ELSE Len(request_batch)

\* The requests in the containers are the scheduler's.
OwnedByScheduler ==
    /\ \A r \in priority_queue : owner[r] = "scheduler"
    /\ \A i \in DOMAIN request_queue : owner[request_queue[i]] = "scheduler"
    /\ \A k \in 1..BatchLimit : owner[request_batch[k]] = "scheduler"

\* The containers have no request in common, and the batch none twice.
InOneContainer ==
    /\ \A i \in DOMAIN request_queue : request_queue[i] \notin priority_queue
    /\ \A i \in DOMAIN request_queue : \A k \in 1..BatchLimit :
         request_queue[i] # request_batch[k]
    /\ \A k \in 1..BatchLimit : request_batch[k] \notin priority_queue
    /\ \A k, l \in 1..BatchLimit : k # l => request_batch[k] # request_batch[l]

Allocating == pc \in {"allocate", "slots"}

CandidateWaits == Allocating => candidate \in priority_queue

\* The sequences picked for execution are distinct sequences of the batch, those
\* of the candidate come from the part of its sequences already tried.
SequencesOfBatch ==
    /\ \A i \in DOMAIN sequences_batch : \E k \in DOMAIN request_batch :
         request_batch[k] = sequences_batch[i][1]
    /\ \A i, j \in DOMAIN sequences_batch : i # j => sequences_batch[i] # sequences_batch[j]

SequencesOfCandidate ==
    Allocating =>
      /\ \A i \in DOMAIN sequence_candidates :
           sequence_candidates[i][1] = candidate /\ sequence_candidates[i][2] < idx
      /\ \A i, j \in DOMAIN sequence_candidates :
           i # j => sequence_candidates[i] # sequence_candidates[j]

\* A sequence in the batch gets its finish reason in ProcessToken and not before.
NotYetFinished ==
    /\ pc \in {"top", "allocate", "slots", "execute"} =>
         \A i \in DOMAIN sequences_batch : finish_reason[sequences_batch[i]] = "NONE"
    /\ pc = "process" =>
         \A i \in idx..Len(sequences_batch) : finish_reason[sequences_batch[i]] = "NONE"
    /\ Allocating =>
         \A i \in DOMAIN sequence_candidates : finish_reason[sequence_candidates[i]] = "NONE"
    /\ pc = "slots" => finish_reason[<<candidate, idx>>] = "NONE"

\* Blocks are held by waiting requests and by requests of the batch.
BlocksHeld ==
    \A s \in AllSequences : blocks[s] # <<>> =>
        s[1] \in priority_queue \/ \E k \in 1..BatchLimit : request_batch[k] = s[1]

\* A queued task points to a live request, and nothing follows the task that
\* destroys it.
TasksOwned ==
    \A i \in DOMAIN tasks :
        /\ owner[TaskRequest(tasks[i])] \in {"scheduler", "response"}
        /\ tasks[i].type = "finish" => owner[TaskRequest(tasks[i])] = "response"
        /\ \A j \in 1..i - 1 :
             tasks[j].type = "finish" => TaskRequest(tasks[j]) # TaskRequest(tasks[i])

\* Task i sends something for s.
Sends(i, s) == tasks[i].type # "finish" /\ tasks[i].seq = s

\* The task with the finish reason of a sequence is its last, and until it has run
\* the client has been told nothing.
ReasonLast ==
    \A s \in AllSequences :
        /\ \A i \in DOMAIN tasks : Sends(i, s) =>
             /\ told[s] = "NONE"
             /\ tasks[i].reason \in {"NONE", finish_reason[s]}
             /\ \A j \in 1..i - 1 : Sends(j, s) => tasks[j].reason = "NONE"
        /\ told[s] \in {"NONE", finish_reason[s]}

\* The finish reason of a streaming sequence was sent or is on its way.
ReasonSent ==
    \A s \in AllSequences :
        Streaming[s[1]] /\ rpc_ok[s[1]] /\ finish_reason[s] # "NONE" =>
          \/ told[s] = finish_reason[s]
          \/ \E i \in DOMAIN tasks : Sends(i, s) /\ tasks[i].reason = finish_reason[s]

Ownership == OwnedByScheduler /\ InOneContainer
BatchInv == CandidateWaits /\ SequencesOfBatch /\ SequencesOfCandidate /\ NotYetFinished
ContainerInv == Ownership /\ BatchInv /\ BlocksHeld

-----------------------------------------------------------------------------
(* The containers *)

\* A part of the invariant whose variables do not change still holds.
LEMMA KeepsContainers ==
  ASSUME ContainerInv
  PROVE  /\ UNCHANGED <<owner, request_queue, priority_queue, request_batch, BatchLimit>>
              => Ownership'
         /\ UNCHANGED <<pc, candidate, priority_queue>> => CandidateWaits'
         /\ UNCHANGED <<request_batch, sequences_batch>> => SequencesOfBatch'
         /\ UNCHANGED <<pc, idx, candidate, sequence_candidates>> => SequencesOfCandidate'
         /\ UNCHANGED <<controlGroup, sequences_batch, finish_reason>> => NotYetFinished'
         /\ UNCHANGED <<blocks, priority_queue, request_batch, BatchLimit>> => BlocksHeld'
         /\ UNCHANGED <<pc, idx, request_batch>> => UNCHANGED BatchLimit
<1> USE DEF ContainerInv, BatchInv
<1>1. UNCHANGED <<owner, request_queue, priority_queue, request_batch, BatchLimit>> => Ownership'
  BY DEF Ownership, OwnedByScheduler, InOneContainer
<1>2. UNCHANGED <<pc, candidate, priority_queue>> => CandidateWaits'
  BY DEF CandidateWaits, Allocating
<1>3. UNCHANGED <<request_batch, sequences_batch>> => SequencesOfBatch'
  BY DEF SequencesOfBatch
<1>4. UNCHANGED <<pc, idx, candidate, sequence_candidates>> => SequencesOfCandidate'
  BY DEF SequencesOfCandidate, Allocating
<1>5. UNCHANGED <<controlGroup, sequences_batch, finish_reason>> => NotYetFinished'
  BY DEF NotYetFinished, Allocating, controlGroup, localVars
<1>6. UNCHANGED <<blocks, priority_queue, request_batch, BatchLimit>> => BlocksHeld'
  BY DEF BlocksHeld
<1>7. UNCHANGED <<pc, idx, request_batch>> => UNCHANGED BatchLimit
  BY DEF BatchLimit
<1> QED
  BY <1>1, <1>2, <1>3, <1>4, <1>5, <1>6, <1>7

\* The constructor's empty containers.
LEMMA InitContainers == Init => ContainerInv
  BY DEF Init, ContainerInv, Ownership, BatchInv, OwnedByScheduler, InOneContainer, CandidateWaits,
     SequencesOfBatch, SequencesOfCandidate, NotYetFinished, BlocksHeld, BatchLimit, Allocating,
     Pool!PoolInit

\* A request the scheduler does not own is in none of its containers.
LEMMA NotInContainers ==
  ASSUME Ownership, NEW r, owner[r] # "scheduler"
  PROVE  /\ r \notin priority_queue
         /\ \A i \in DOMAIN request_queue : request_queue[i] # r
         /\ \A k \in 1..BatchLimit : request_batch[k] # r
  BY DEF Ownership, OwnedByScheduler

\* The elements of the containers are requests.
LEMMA ContainerTypes ==
  ASSUME TypeInv
  PROVE  /\ priority_queue \subseteq Requests
         /\ \A i \in DOMAIN request_queue : request_queue[i] \in Requests
         /\ \A k \in 1..BatchLimit : k \in DOMAIN request_batch /\ request_batch[k] \in Requests
         /\ \A i \in DOMAIN tasks : TaskRequest(tasks[i]) \in Requests
<1>1. \A i \in DOMAIN tasks : tasks[i] \in Task
  BY DEF TypeInv, TypeOK, QueueTypes
<1>2. \A t \in Task : TaskRequest(t) \in Requests
  BY SequenceFacts DEF Task, TaskRequest
<1> QED
  BY <1>1, <1>2 DEF TypeInv, TypeOK, QueueTypes, BatchTypes, ControlTypes, LoopBounds, BatchLimit

\* schedule() and the response thread.
LEMMA OtherThreadsContainers ==
  ASSUME TypeInv, ContainerInv, TasksOwned, Handlers \/ ResponseThread
  PROVE  ContainerInv'
<1>1. UNCHANGED <<batchGroup, controlGroup, poolGroup, finish_reason>>
  BY DEF Handlers, ResponseThread, Schedule, ClientFails, DecodeDelta, StreamDelta, RunFinishTask,
     batchGroup, controlGroup, poolGroup, memVars, seqVars
<1>2. UNCHANGED BatchLimit
  BY <1>1, KeepsContainers DEF batchGroup, controlGroup
<1>3. BatchInv' /\ BlocksHeld'
  BY <1>1, <1>2, KeepsContainers DEF batchGroup, controlGroup, poolGroup, localVars, BatchInv
<1>4. CASE UNCHANGED <<owner, request_queue>>
  BY <1>1, <1>2, <1>3, <1>4, KeepsContainers DEF ContainerInv, batchGroup
<1>5. owner \in [Requests -> Owner] /\ request_queue \in Seq(Requests)
      /\ Ownership
  BY DEF TypeInv, TypeOK, QueueTypes, ContainerInv
<1>6. priority_queue' = priority_queue /\ request_batch' = request_batch /\ BatchLimit' = BatchLimit
  BY <1>1, <1>2 DEF batchGroup
<1>7. ASSUME NEW r \in Requests, owner[r] # "scheduler", NEW o,
             owner' = [owner EXCEPT ![r] = o], request_queue' = request_queue
      PROVE  Ownership'
  <2>1. /\ r \notin priority_queue
        /\ \A i \in DOMAIN request_queue : request_queue[i] # r
        /\ \A k \in 1..BatchLimit : request_batch[k] # r
    BY <1>5, <1>7, NotInContainers
  <2>2. \A q \in Requests : q # r => owner'[q] = owner[q]
    BY <1>5, <1>7
  <2>3. OwnedByScheduler'
    BY <1>5, <1>6, <1>7, <2>1, <2>2, ContainerTypes DEF Ownership, OwnedByScheduler
  <2>4. InOneContainer'
    BY <1>5, <1>6, <1>7 DEF Ownership, InOneContainer
  <2> QED
    BY <2>3, <2>4 DEF Ownership
<1>8. ASSUME NEW r \in Requests, owner[r] = "handler", owner' = [owner EXCEPT ![r] = "scheduler"],
             request_queue' = Append(request_queue, r)
      PROVE  Ownership'
  <2>1. /\ r \notin priority_queue
        /\ \A i \in DOMAIN request_queue : request_queue[i] # r
        /\ \A k \in 1..BatchLimit : request_batch[k] # r
    BY <1>5, <1>8, NotInContainers
  <2>2. \A i \in DOMAIN request_queue' :
           \/ i \in DOMAIN request_queue /\ request_queue'[i] = request_queue[i]
           \/ request_queue'[i] = r
    BY <1>5, <1>8
  <2>3. owner'[r] = "scheduler" /\ \A q \in Requests : owner[q] = "scheduler" => owner'[q] = "scheduler"
    BY <1>5, <1>8
  <2>4. OwnedByScheduler'
    BY <1>5, <1>6, <2>2, <2>3, ContainerTypes DEF Ownership, OwnedByScheduler
  <2>5. InOneContainer'
    BY <1>5, <1>6, <2>1, <2>2 DEF Ownership, InOneContainer
  <2> QED
    BY <2>4, <2>5 DEF Ownership
<1>9. ASSUME NEW r \in Requests, Schedule(r) PROVE Ownership'
  BY <1>7, <1>8, <1>9 DEF Schedule
<1>10. CASE RunFinishTask
  <2>1. 1 \in DOMAIN tasks /\ Head(tasks) = tasks[1] /\ tasks[1] \in Task
    BY <1>10 DEF RunFinishTask, TypeInv, TypeOK, QueueTypes
  <2>2. tasks[1].type = "finish" /\ tasks[1].request \in Requests
    BY <1>10, <2>1 DEF RunFinishTask, Task
  <2>3. owner[tasks[1].request] = "response"
    BY <2>1, <2>2 DEF TasksOwned, TaskRequest
  <2>4. Ownership'
    BY <1>7, <1>10, <2>1, <2>2, <2>3 DEF RunFinishTask
  <2> QED
    BY <1>3, <2>4 DEF ContainerInv
<1>11. \/ UNCHANGED <<owner, request_queue>> \/ RunFinishTask
       \/ \E r \in Requests : Schedule(r)
  BY DEF Handlers, ResponseThread, ClientFails, DecodeDelta, StreamDelta
<1> QED
  BY <1>3, <1>4, <1>9, <1>10, <1>11 DEF ContainerInv

\* Blocks only disappear from the tables of the request that releases them.
LEMMA ReleaseEmpties ==
  ASSUME TypeInv, NEW r \in Requests, ReleaseSlotsForRequest(r)
  PROVE  \A s \in AllSequences :
           blocks'[s] = IF s[1] = r THEN <<>> ELSE blocks[s]
<1>1. \A s \in AllSequences : s \in SequencesOf(r) <=> s[1] = r
  BY DEF AllSequences, SequencesOf
<1>2. blocks' = [s \in AllSequences |-> IF s \in SequencesOf(r) THEN <<>> ELSE blocks[s]]
  BY DEF ReleaseSlotsForRequest, Pool!Release
<1> QED
  BY <1>1, <1>2

\* on_request_finish of a request that leaves the containers: what stays in them
\* keeps its owner, and the blocks of the others their holders.
LEMMA FinishLeaves ==
  ASSUME TypeInv, ContainerInv, NEW r \in Requests, OnRequestFinish(r),
         UNCHANGED <<request_queue, request_batch>>,
         \A i \in DOMAIN request_queue : request_queue[i] # r,
         priority_queue' = priority_queue \ {r},
         BatchLimit' \in Nat, BatchLimit \in Nat, BatchLimit' <= BatchLimit,
         \A k \in 1..BatchLimit' : request_batch[k] # r,
         \A k \in 1..BatchLimit : k > BatchLimit' => request_batch[k] = r
  PROVE  Ownership' /\ BlocksHeld'
<1>1. owner' = [owner EXCEPT ![r] = "response"] /\ owner \in [Requests -> Owner]
      /\ ReleaseSlotsForRequest(r)
  BY DEF OnRequestFinish, TypeInv, TypeOK, QueueTypes
<1>2. \A q \in Requests : owner[q] = "scheduler" /\ q # r => owner'[q] = "scheduler"
  BY <1>1
<1>3. 1..BatchLimit' \subseteq 1..BatchLimit
  OBVIOUS
<1>4. OwnedByScheduler'
  BY <1>2, <1>3, ContainerTypes DEF ContainerInv, Ownership, OwnedByScheduler
<1>5. InOneContainer'
  BY <1>3 DEF ContainerInv, Ownership, InOneContainer
<1>6. BlocksHeld'
  <2> SUFFICES ASSUME NEW s \in AllSequences, blocks'[s] # <<>>
               PROVE  s[1] \in priority_queue' \/ \E k \in 1..BatchLimit' : request_batch'[k] = s[1]
    BY DEF BlocksHeld
  <2>1. s[1] # r /\ blocks[s] # <<>>
    BY <1>1, ReleaseEmpties
  <2>2. s[1] \in priority_queue \/ \E k \in 1..BatchLimit : request_batch[k] = s[1]
    BY <2>1 DEF ContainerInv, BlocksHeld
  <2>3. \A k \in 1..BatchLimit : request_batch[k] = s[1] => k \in 1..BatchLimit'
    BY <2>1
  <2> QED
    BY <2>1, <2>2, <2>3
<1> QED
  BY <1>4, <1>5, <1>6 DEF Ownership

\* The first loops of build_sequence_batch: the new requests and the last batch.
LEMMA RequeueContainers ==
  ASSUME TypeInv, ContainerInv, DrainRequestQueue \/ RequeueRequest \/ ClearBatch
  PROVE  ContainerInv'
<1> USE DEF ContainerInv
<1>0. /\ owner \in [Requests -> Owner] /\ request_queue \in Seq(Requests)
      /\ request_batch \in Seq(Requests) /\ idx \in Nat /\ Len(request_batch) \in Nat
  BY DEF TypeInv, TypeOK, QueueTypes, BatchTypes, ControlTypes
<1>1. CASE DrainRequestQueue
  <2>1. /\ UNCHANGED <<owner, request_batch, sequences_batch, blocks, finish_reason, localVars>>
        /\ pc = "idle" /\ pc' = "requeue" /\ idx' = Len(request_batch)
        /\ request_queue' = <<>> /\ priority_queue' = priority_queue \cup ToSet(request_queue)
    BY <1>1 DEF DrainRequestQueue, memVars, seqVars
  <2>2. BatchLimit' = BatchLimit /\ DOMAIN request_queue' = {}
    BY <2>1 DEF BatchLimit
  <2>3. \A r : r \in ToSet(request_queue) <=> \E i \in DOMAIN request_queue : request_queue[i] = r
    BY <1>0 DEF ToSet
  <2>4. OwnedByScheduler'
    BY <2>1, <2>2, <2>3 DEF Ownership, OwnedByScheduler
  <2>5. InOneContainer'
    BY <2>1, <2>2, <2>3 DEF Ownership, InOneContainer
  <2>6. BatchInv'
    BY <2>1, KeepsContainers DEF BatchInv, CandidateWaits, SequencesOfCandidate, NotYetFinished, Allocating
  <2>7. BlocksHeld'
    BY <2>1, <2>2 DEF BlocksHeld
  <2> QED
    BY <2>4, <2>5, <2>6, <2>7 DEF Ownership
<1>2. CASE RequeueRequest
  <2> DEFINE r == request_batch[idx]
  <2>1. /\ UNCHANGED <<request_queue, request_batch, sequences_batch, pc, finish_reason, localVars>>
        /\ pc = "requeue" /\ idx > 0 /\ idx' = idx - 1
    BY <1>2 DEF RequeueRequest, seqVars
  <2>2. idx \in 1..Len(request_batch) /\ r \in Requests
    BY <1>0, <2>1 DEF TypeInv, LoopBounds
  <2>3. BatchLimit = idx /\ BatchLimit' = idx - 1
    BY <2>1 DEF BatchLimit
  <2>4. BatchInv'
    BY <2>1, KeepsContainers DEF BatchInv, CandidateWaits, SequencesOfCandidate, NotYetFinished, Allocating
  <2>5. CASE OnRequestFinish(r) /\ UNCHANGED priority_queue
    <3>1. r \notin priority_queue /\ \A i \in DOMAIN request_queue : request_queue[i] # r
      BY <2>1, <2>2, <2>3 DEF Ownership, InOneContainer
    <3>2. \A k \in 1..BatchLimit' : request_batch[k] # r
      BY <1>0, <2>1, <2>2, <2>3 DEF Ownership, InOneContainer
    <3>3. priority_queue' = priority_queue \ {r}
      BY <2>5, <3>1
    <3>4. \A k \in 1..BatchLimit : k > BatchLimit' => request_batch[k] = r
      BY <1>0, <2>1, <2>3
    <3>5. BatchLimit' \in Nat /\ BatchLimit \in Nat /\ BatchLimit' <= BatchLimit
      BY <1>0, <2>1, <2>3
    <3> HIDE DEF r
    <3>6. Ownership' /\ BlocksHeld'
      BY <2>1, <2>2, <2>5, <3>1, <3>2, <3>3, <3>4, <3>5, FinishLeaves
    <3> QED
      BY <2>4, <3>6
  <2>6. CASE Requeue(r) /\ UNCHANGED <<owner, blocks>>
    <3>1. priority_queue' = priority_queue \cup {r}
      BY <2>6 DEF Requeue
    <3>2. owner[r] = "scheduler" /\ \A i \in DOMAIN request_queue : request_queue[i] # r
      BY <2>1, <2>2, <2>3 DEF Ownership, OwnedByScheduler, InOneContainer
    <3>3. 1..BatchLimit' \subseteq 1..BatchLimit
          /\ \A k \in 1..BatchLimit' : request_batch[k] # r
      BY <1>0, <2>1, <2>2, <2>3 DEF Ownership, InOneContainer
    <3>4. \A k \in 1..BatchLimit : k \in 1..BatchLimit' \/ request_batch[k] = r
      BY <1>0, <2>1, <2>3
    <3> HIDE DEF r
    <3>5. OwnedByScheduler'
      BY <2>1, <2>6, <3>1, <3>2, <3>3 DEF Ownership, OwnedByScheduler
    <3>6. InOneContainer'
      BY <2>1, <2>6, <3>1, <3>2, <3>3 DEF Ownership, InOneContainer
    <3>7. BlocksHeld'
      BY <2>1, <2>6, <3>1, <3>4 DEF BlocksHeld
    <3> QED
      BY <2>4, <3>5, <3>6, <3>7 DEF Ownership
  <2> QED
    BY <1>2, <2>5, <2>6 DEF RequeueRequest, memVars
<1>3. CASE ClearBatch
  <2>1. /\ UNCHANGED <<owner, request_queue, priority_queue, blocks, finish_reason, localVars>>
        /\ pc = "requeue" /\ idx = 0 /\ pc' = "top"
        /\ sequences_batch' = <<>> /\ request_batch' = <<>>
    BY <1>3 DEF ClearBatch, memVars, seqVars
  <2>2. BatchLimit = 0 /\ BatchLimit' = 0
    BY <2>1 DEF BatchLimit
  <2>3. BatchInv'
    BY <2>1, KeepsContainers DEF BatchInv, CandidateWaits, SequencesOfBatch, SequencesOfCandidate,
       NotYetFinished, Allocating
  <2>4. OwnedByScheduler' /\ InOneContainer'
    BY <2>1, <2>2 DEF Ownership, OwnedByScheduler, InOneContainer
  <2>5. BlocksHeld'
    BY <2>1, <2>2 DEF BlocksHeld
  <2> QED
    BY <2>3, <2>4, <2>5 DEF Ownership
<1> QED
  BY <1>1, <1>2, <1>3

\* Picking the candidate, trying its sequences and preempting for it.
LEMMA TryContainers ==
  ASSUME TypeInv, ContainerInv,
         PickCandidate \/ ConsiderSequence \/ AllocateSlotsForSequence \/ PreemptLowest \/ PreemptDestroyed
  PROVE  ContainerInv'
<1> USE DEF ContainerInv
<1>1. /\ UNCHANGED <<owner, request_queue, priority_queue, request_batch, sequences_batch, finish_reason>>
      /\ pc \in {"top", "allocate", "slots"} /\ pc' # "requeue"
  BY DEF PickCandidate, ConsiderSequence, AllocateSlotsForSequence, PreemptLowest,
     PreemptDestroyed, AllSequencesTried, seqVars
<1>2. BatchLimit' = BatchLimit
  BY <1>1 DEF BatchLimit
<1>3. Ownership' /\ SequencesOfBatch'
  BY <1>1, <1>2, KeepsContainers
<1>4. UNCHANGED blocks => BlocksHeld'
  BY <1>1, <1>2, KeepsContainers
<1>5. /\ sequence_candidates \in Seq(AllSequences) /\ idx \in Nat
      /\ pc \in {"allocate", "slots"} => candidate \in Requests /\ idx >= 1
      /\ pc = "slots" => idx <= NumSeqs[candidate]
  BY DEF TypeInv, TypeOK, ControlTypes, LoopBounds
<1>6. CASE PickCandidate
  <2>1. blocks' = blocks /\ pc = "top"
    BY <1>6 DEF PickCandidate, memVars
  <2>2. ASSUME NEW r \in Tops, candidate' = r, sequence_candidates' = <<>>, pc' = "allocate"
        PROVE  BatchInv'
    <3>1. CandidateWaits'
      BY <1>1, <2>2 DEF CandidateWaits, Tops
    <3>2. DOMAIN sequence_candidates' = {}
      BY <2>2
    <3>3. SequencesOfCandidate' /\ NotYetFinished'
      BY <1>1, <2>1, <2>2, <3>2 DEF BatchInv, SequencesOfCandidate, NotYetFinished
    <3> QED
      BY <1>3, <3>1, <3>3 DEF BatchInv
  <2>3. ASSUME pc' \in {"idle", "execute"} PROVE BatchInv'
    BY <1>1, <1>3, <2>1, <2>3 DEF BatchInv, CandidateWaits, SequencesOfCandidate, NotYetFinished, Allocating
  <2>4. BatchInv'
    BY <1>6, <2>2, <2>3 DEF PickCandidate
  <2> QED
    BY <1>3, <1>4, <2>1, <2>4
<1>7. CASE ConsiderSequence
  <2>1. /\ UNCHANGED <<blocks, candidate, sequence_candidates>> /\ pc = "allocate"
        /\ \/ idx' = idx + 1 /\ pc' = pc
           \/ idx' = idx /\ pc' = "slots" /\ ~IsFinishedSeq(<<candidate, idx>>)
    BY <1>7 DEF ConsiderSequence, memVars, localVars
  <2>2. CandidateWaits'
    BY <1>1, <2>1 DEF BatchInv, CandidateWaits, Allocating
  <2>3. SequencesOfCandidate'
    <3>1. \A i \in DOMAIN sequence_candidates :
             sequence_candidates[i][1] = candidate /\ sequence_candidates[i][2] < idx
             /\ sequence_candidates[i][2] \in Nat
      <4>1. \A i \in DOMAIN sequence_candidates : sequence_candidates[i] \in AllSequences
        BY <1>5
      <4>2. \A q \in AllSequences : q[2] \in Nat
        BY SchedulerAssumption DEF AllSequences, SequencesOf
      <4> QED
        BY <2>1, <4>1, <4>2 DEF BatchInv, SequencesOfCandidate, Allocating
    <3> QED
      BY <1>5, <2>1, <3>1 DEF BatchInv, SequencesOfCandidate, Allocating
  <2>4. NotYetFinished'
    <3>1. pc' = "slots" => finish_reason[<<candidate, idx>>] = "NONE" /\ idx' = idx
      BY <2>1 DEF IsFinishedSeq
    <3> QED
      BY <1>1, <2>1, <3>1 DEF BatchInv, NotYetFinished, Allocating
  <2> QED
    BY <1>3, <1>4, <2>1, <2>2, <2>3, <2>4 DEF BatchInv
<1>8. CASE AllocateSlotsForSequence
  <2> DEFINE s == <<candidate, idx>>
  <2>1. /\ UNCHANGED candidate /\ pc = "slots" /\ pc' = "allocate" /\ idx' = idx + 1
        /\ \/ sequence_candidates' = sequence_candidates
           \/ sequence_candidates' = Append(sequence_candidates, s)
        /\ blocks' = blocks \/ Pool!Allocate(s, NumBlocksToAllocate(s))
    BY <1>8 DEF AllocateSlotsForSequence
  <2>2. CandidateWaits'
    BY <1>1, <2>1 DEF BatchInv, CandidateWaits, Allocating
  <2>3. \A i \in DOMAIN sequence_candidates' :
           \/ /\ i \in DOMAIN sequence_candidates
              /\ sequence_candidates'[i] = sequence_candidates[i]
           \/ sequence_candidates'[i] = s /\ i = Len(sequence_candidates) + 1
    <3>1. CASE sequence_candidates' = sequence_candidates
      BY <3>1
    <3>2. CASE sequence_candidates' = Append(sequence_candidates, s)
      <4> HIDE DEF s
      <4> QED
        BY <1>5, <3>2
    <3> QED
      BY <2>1, <3>1, <3>2
  <2>4. \A i \in DOMAIN sequence_candidates :
           /\ sequence_candidates[i][1] = candidate /\ sequence_candidates[i][2] \in Nat
           /\ sequence_candidates[i][2] < idx
    <3>1. \A i \in DOMAIN sequence_candidates : sequence_candidates[i] \in AllSequences
      BY <1>5
    <3>2. \A q \in AllSequences : q[2] \in Nat
      BY SchedulerAssumption DEF AllSequences, SequencesOf
    <3> QED
      BY <2>1, <3>1, <3>2 DEF BatchInv, SequencesOfCandidate, Allocating
  <2>5. \A i \in DOMAIN sequence_candidates : sequence_candidates[i] # s
    BY <1>5, <2>4
  <2>6. SequencesOfCandidate'
    <3>1. \A i, j \in DOMAIN sequence_candidates :
             i # j => sequence_candidates[i] # sequence_candidates[j]
      BY <2>1 DEF BatchInv, SequencesOfCandidate, Allocating
    <3>2. \A i, j \in DOMAIN sequence_candidates' :
             i # j => sequence_candidates'[i] # sequence_candidates'[j]
      BY <2>3, <2>5, <3>1
    <3>3. \A i \in DOMAIN sequence_candidates' :
             sequence_candidates'[i][1] = candidate /\ sequence_candidates'[i][2] < idx + 1
      BY <1>5, <2>3, <2>4
    <3> QED
      BY <2>1, <3>2, <3>3 DEF SequencesOfCandidate
  <2>7. NotYetFinished'
    <3>1. \A i \in DOMAIN sequence_candidates' : finish_reason[sequence_candidates'[i]] = "NONE"
      BY <2>1, <2>3 DEF BatchInv, NotYetFinished, Allocating
    <3> QED
      BY <1>1, <2>1, <3>1 DEF BatchInv, NotYetFinished
  <2>8. BlocksHeld'
    <3>1. candidate \in priority_queue
      BY <2>1 DEF BatchInv, CandidateWaits, Allocating
    <3>2. \A q \in AllSequences : q # s => blocks'[q] = blocks[q]
      BY <2>1 DEF Pool!Allocate, TypeInv, TypeOK, PoolTypes
    <3> QED
      BY <1>1, <1>2, <3>1, <3>2 DEF BlocksHeld
  <2> QED
    BY <1>3, <2>2, <2>6, <2>7, <2>8 DEF BatchInv
<1>9. CASE PreemptLowest
  <2>1. /\ UNCHANGED <<pc, candidate>> /\ pc = "allocate" /\ idx' = 1 /\ sequence_candidates' = <<>>
        /\ preemptable_candidates # <<>>
        /\ blocks' = blocks \/ ReleaseSlotsForRequest(Last(preemptable_candidates))
    BY <1>9 DEF PreemptLowest, AllSequencesTried, memVars
  <2>2. CandidateWaits' /\ SequencesOfCandidate' /\ NotYetFinished'
    BY <1>1, <2>1 DEF BatchInv, CandidateWaits, SequencesOfCandidate, NotYetFinished, Allocating
  <2>3. Last(preemptable_candidates) \in Requests
    BY <2>1 DEF TypeInv, TypeOK, BatchTypes, Last
  <2>4. \A q \in AllSequences : blocks'[q] # <<>> => blocks[q] # <<>>
    BY <2>1, <2>3, ReleaseEmpties
  <2>5. BlocksHeld'
    BY <1>1, <1>2, <2>4 DEF BlocksHeld
  <2> QED
    BY <1>3, <2>2, <2>5 DEF BatchInv
<1>10. CASE PreemptDestroyed
  <2>1. UNCHANGED <<candidate, sequence_candidates, idx, blocks>> /\ pc' = "crashed"
    BY <1>10 DEF PreemptDestroyed, localVars, memVars
  <2>2. CandidateWaits' /\ SequencesOfCandidate' /\ NotYetFinished'
    BY <1>1, <2>1 DEF BatchInv, CandidateWaits, SequencesOfCandidate, NotYetFinished, Allocating
  <2> QED
    BY <1>3, <1>4, <2>1, <2>2 DEF BatchInv
<1> QED
  BY <1>6, <1>7, <1>8, <1>9, <1>10

\* The candidate moves from the heap to the new batch, with its sequences.
LEMMA AddToBatchContainers ==
  ASSUME TypeInv, ContainerInv, pc = "allocate", AddToBatch, pc' \in {"top", "execute"},
         UNCHANGED <<owner, request_queue, blocks, finish_reason>>
  PROVE  ContainerInv'
<1> USE DEF ContainerInv
<1>1. /\ priority_queue' = priority_queue \ {candidate}
      /\ request_batch' = Append(request_batch, candidate)
      /\ sequences_batch' = sequences_batch \o sequence_candidates
  BY DEF AddToBatch
<1>2. /\ candidate \in priority_queue /\ candidate \in Requests
      /\ request_batch \in Seq(Requests) /\ sequences_batch \in Seq(AllSequences)
      /\ sequence_candidates \in Seq(AllSequences)
      /\ Len(request_batch) \in Nat
  BY DEF BatchInv, CandidateWaits, Allocating, TypeInv, TypeOK, BatchTypes, ControlTypes, LoopBounds
<1>3. BatchLimit = Len(request_batch) /\ BatchLimit' = Len(request_batch) + 1
  BY <1>1, <1>2 DEF BatchLimit
<1>4. \A k \in 1..BatchLimit' :
         \/ k \in 1..BatchLimit /\ request_batch'[k] = request_batch[k]
         \/ k = BatchLimit' /\ request_batch'[k] = candidate
  BY <1>1, <1>2, <1>3
<1>5. OwnedByScheduler'
  BY <1>1, <1>2, <1>4 DEF Ownership, OwnedByScheduler
<1>6. /\ \A i \in DOMAIN request_queue : request_queue[i] # candidate
      /\ \A k \in 1..BatchLimit : request_batch[k] # candidate
  BY <1>2 DEF Ownership, InOneContainer
<1>7. InOneContainer'
  <2>1. \A k, l \in 1..BatchLimit' : k # l => request_batch'[k] # request_batch'[l]
    BY <1>4, <1>6 DEF Ownership, InOneContainer
  <2>2. \A i \in DOMAIN request_queue : \A k \in 1..BatchLimit' : request_queue[i] # request_batch'[k]
    BY <1>4, <1>6 DEF Ownership, InOneContainer
  <2>3. \A k \in 1..BatchLimit' : request_batch'[k] \notin priority_queue'
    BY <1>1, <1>4 DEF Ownership, InOneContainer
  <2> QED
    BY <1>1, <2>1, <2>2, <2>3 DEF Ownership, InOneContainer
<1>8. BlocksHeld'
  <2>1. BatchLimit' \in 1..BatchLimit' /\ request_batch'[BatchLimit'] = candidate
    BY <1>1, <1>2, <1>3
  <2>2. \A k \in 1..BatchLimit : k \in 1..BatchLimit' /\ request_batch'[k] = request_batch[k]
    BY <1>1, <1>2, <1>3
  <2> QED
    BY <1>1, <2>1, <2>2 DEF BlocksHeld
<1>9. \A i \in DOMAIN sequences_batch' :
         \/ i \in DOMAIN sequences_batch /\ sequences_batch'[i] = sequences_batch[i]
         \/ \E j \in DOMAIN sequence_candidates :
               i = Len(sequences_batch) + j /\ sequences_batch'[i] = sequence_candidates[j]
  <2>1. DOMAIN sequences_batch' = 1..(Len(sequences_batch) + Len(sequence_candidates))
    BY <1>1, <1>2
  <2>2. \A i \in 1..Len(sequences_batch) : sequences_batch'[i] = sequences_batch[i]
    BY <1>1, <1>2
  <2>3. \A i \in DOMAIN sequences_batch' : i > Len(sequences_batch) =>
           /\ i - Len(sequences_batch) \in DOMAIN sequence_candidates
           /\ sequences_batch'[i] = sequence_candidates[i - Len(sequences_batch)]
    BY <1>1, <1>2, <2>1
  <2> QED
    BY <1>2, <2>1, <2>2, <2>3
<1>10. SequencesOfBatch'
  <2>1. \A k \in DOMAIN request_batch : k \in DOMAIN request_batch' /\ request_batch'[k] = request_batch[k]
    BY <1>1, <1>2
  <2>2. Len(request_batch) + 1 \in DOMAIN request_batch'
        /\ request_batch'[Len(request_batch) + 1] = candidate
    BY <1>1, <1>2
  <2>3. /\ \A j \in DOMAIN sequence_candidates : sequence_candidates[j][1] = candidate
        /\ \A i, j \in DOMAIN sequence_candidates : i # j => sequence_candidates[i] # sequence_candidates[j]
    BY DEF BatchInv, SequencesOfCandidate, Allocating
  <2>4. \A i \in DOMAIN sequences_batch : sequences_batch[i][1] # candidate
    BY <1>2, <1>3, <1>6 DEF BatchInv, SequencesOfBatch
  <2>5. \A i \in DOMAIN sequences_batch' : \E k \in DOMAIN request_batch' :
           request_batch'[k] = sequences_batch'[i][1]
    BY <1>9, <2>1, <2>2, <2>3 DEF BatchInv, SequencesOfBatch
  <2>6. \A i, j \in DOMAIN sequences_batch' : i # j => sequences_batch'[i] # sequences_batch'[j]
    BY <1>9, <2>3, <2>4 DEF BatchInv, SequencesOfBatch
  <2> QED
    BY <2>5, <2>6 DEF SequencesOfBatch
<1>11. CandidateWaits' /\ SequencesOfCandidate'
  BY DEF CandidateWaits, SequencesOfCandidate, Allocating
<1>12. NotYetFinished'
  <2>1. \A i \in DOMAIN sequences_batch' : finish_reason[sequences_batch'[i]] = "NONE"
    BY <1>9 DEF BatchInv, NotYetFinished, Allocating
  <2> QED
    BY <2>1 DEF NotYetFinished, Allocating
<1> QED
  BY <1>5, <1>7, <1>8, <1>10, <1>11, <1>12 DEF Ownership, BatchInv

\* The end of build_sequence_batch and the rest of step().
LEMMA StepContainers ==
  ASSUME TypeInv, ContainerInv,
         ScheduleCandidate \/ PartiallySchedule \/ GiveUp \/ ExecuteModel \/ ProcessToken
  PROVE  ContainerInv'
<1> USE DEF ContainerInv
<1>1. CASE ScheduleCandidate \/ PartiallySchedule
  <2>1. /\ pc = "allocate" /\ AddToBatch /\ pc' \in {"top", "execute"}
        /\ UNCHANGED <<owner, request_queue, blocks, finish_reason>>
    BY <1>1 DEF ScheduleCandidate, PartiallySchedule, AllSequencesTried, memVars, seqVars
  <2> QED
    BY <2>1, AddToBatchContainers
<1>2. CASE GiveUp
  <2>1. /\ UNCHANGED <<request_queue, request_batch, sequences_batch, finish_reason>>
        /\ pc = "allocate" /\ pc' \in {"idle", "execute"}
    BY <1>2 DEF GiveUp, AllSequencesTried, seqVars
  <2>2. BatchLimit' = BatchLimit /\ BatchLimit \in Nat
    BY <2>1 DEF BatchLimit, TypeInv, TypeOK, BatchTypes
  <2>3. BatchInv'
    BY <2>1, KeepsContainers DEF BatchInv, CandidateWaits, SequencesOfCandidate, NotYetFinished, Allocating
  <2>4. CASE OnRequestFinish(candidate) /\ priority_queue' = priority_queue \ {candidate}
    <3>1. candidate \in priority_queue /\ candidate \in Requests
      BY <2>1 DEF BatchInv, CandidateWaits, Allocating, TypeInv, LoopBounds
    <3>2. /\ \A i \in DOMAIN request_queue : request_queue[i] # candidate
          /\ \A k \in 1..BatchLimit : request_batch[k] # candidate
      BY <3>1 DEF Ownership, InOneContainer
    <3>3. Ownership' /\ BlocksHeld'
      BY <2>1, <2>2, <2>4, <3>1, <3>2, FinishLeaves
    <3> QED
      BY <2>3, <3>3
  <2>5. CASE UNCHANGED <<priority_queue, owner, blocks>>
    BY <2>1, <2>2, <2>3, <2>5, KeepsContainers
  <2> QED
    BY <1>2, <2>4, <2>5 DEF GiveUp, memVars
<1>3. CASE ExecuteModel
  <2>1. /\ UNCHANGED <<owner, request_queue, priority_queue, request_batch, sequences_batch,
                       blocks, finish_reason>>
        /\ pc = "execute"
        /\ (pc' = "process" /\ idx' = 1) \/ pc' = "crashed"
    BY <1>3 DEF ExecuteModel, memVars, seqVars
  <2>2. BatchLimit' = BatchLimit
    BY <2>1 DEF BatchLimit
  <2>3. NotYetFinished'
    <3>1. DOMAIN sequences_batch = 1..Len(sequences_batch)
      BY DEF TypeInv, TypeOK, BatchTypes
    <3> QED
      BY <2>1, <3>1 DEF BatchInv, NotYetFinished, Allocating
  <2>4. CandidateWaits' /\ SequencesOfCandidate'
    BY <2>1 DEF CandidateWaits, SequencesOfCandidate, Allocating
  <2> QED
    BY <2>1, <2>2, <2>3, <2>4, KeepsContainers DEF BatchInv
<1>4. CASE ProcessToken
  <2>1. /\ UNCHANGED <<owner, request_queue, priority_queue, request_batch, sequences_batch, blocks>>
        /\ pc = "process" /\ idx' = idx + 1
        /\ pc' = "process" \/ pc' = "idle"
    BY <1>4 DEF ProcessToken
  <2>2. BatchLimit' = BatchLimit
    BY <2>1 DEF BatchLimit
  <2>3. PICK reason : finish_reason' = [finish_reason EXCEPT ![sequences_batch[idx]] = reason]
    BY <1>4 DEF ProcessToken
  <2>4. /\ idx \in 1..Len(sequences_batch) /\ Len(sequences_batch) \in Nat
        /\ DOMAIN sequences_batch = 1..Len(sequences_batch)
        /\ sequences_batch \in Seq(AllSequences) /\ finish_reason \in [AllSequences -> Reason]
    BY <2>1 DEF TypeInv, LoopBounds, TypeOK, ControlTypes, BatchTypes, SequenceTypes
  <2>5. \A i \in idx + 1..Len(sequences_batch) :
           /\ i \in DOMAIN sequences_batch /\ i # idx
           /\ finish_reason[sequences_batch[i]] = "NONE"
    BY <2>1, <2>4 DEF BatchInv, NotYetFinished
  <2>6. \A i \in idx + 1..Len(sequences_batch) : finish_reason'[sequences_batch[i]] = "NONE"
    <3> SUFFICES ASSUME NEW i \in idx + 1..Len(sequences_batch)
                 PROVE  finish_reason'[sequences_batch[i]] = "NONE"
      OBVIOUS
    <3>1. i \in DOMAIN sequences_batch /\ idx \in DOMAIN sequences_batch /\ i # idx
      BY <2>4, <2>5
    <3>2. sequences_batch[i] # sequences_batch[idx]
      BY <3>1 DEF BatchInv, SequencesOfBatch
    <3>3. sequences_batch[i] \in AllSequences
      BY <2>4, <3>1
    <3> QED
      BY <2>3, <2>4, <2>5, <3>2, <3>3
  <2>7. NotYetFinished'
    BY <2>1, <2>6 DEF NotYetFinished, Allocating
  <2>8. CandidateWaits' /\ SequencesOfCandidate'
    BY <2>1 DEF CandidateWaits, SequencesOfCandidate, Allocating
  <2> QED
    BY <2>1, <2>2, <2>7, <2>8, KeepsContainers DEF BatchInv
<1> QED
  BY <1>1, <1>2, <1>3, <1>4

-----------------------------------------------------------------------------
(* The tasks of response_executor_ *)

TaskInv == TasksOwned /\ ReasonLast /\ ReasonSent

\* The executor drops the task at the head of its queue, or goes on with it as
\* another one.
LEMMA TailFacts ==
  ASSUME NEW S, NEW q \in Seq(S), q # <<>>
  PROVE  /\ Head(q) = q[1] /\ 1 \in DOMAIN q /\ q[1] \in S
         /\ \A i \in DOMAIN Tail(q) : i + 1 \in DOMAIN q /\ i + 1 # 1 /\ Tail(q)[i] = q[i + 1]
         /\ \A i \in DOMAIN q : i # 1 => i - 1 \in DOMAIN Tail(q) /\ Tail(q)[i - 1] = q[i]
         /\ \A i \in DOMAIN Tail(q) : \A j \in 1..i - 1 : j + 1 \in 1..(i + 1) - 1 /\ j \in DOMAIN Tail(q)
         /\ \A i \in DOMAIN Tail(q) : 1 \in 1..(i + 1) - 1
  OBVIOUS

LEMMA HeadReplaced ==
  ASSUME NEW S, NEW q \in Seq(S), q # <<>>, NEW x \in S
  PROVE  /\ DOMAIN (<<x>> \o Tail(q)) = DOMAIN q
         /\ (<<x>> \o Tail(q))[1] = x
         /\ \A i \in DOMAIN q : i # 1 => (<<x>> \o Tail(q))[i] = q[i]
<1>1. Tail(q) \in Seq(S) /\ Len(Tail(q)) = Len(q) - 1 /\ Len(q) \in Nat /\ Len(q) >= 1
  OBVIOUS
<1>2. <<x>> \in Seq(S) /\ Len(<<x>>) = 1
  OBVIOUS
<1>3. <<x>> \o Tail(q) \in Seq(S) /\ Len(<<x>> \o Tail(q)) = Len(q)
  BY <1>1, <1>2
<1>4. \A i \in 2..Len(q) : (<<x>> \o Tail(q))[i] = Tail(q)[i - 1] /\ Tail(q)[i - 1] = q[i]
  BY <1>1, <1>2
<1>5. (<<x>> \o Tail(q))[1] = x
  BY <1>1, <1>2
<1> QED
  BY <1>1, <1>3, <1>4, <1>5

LEMMA AppendFacts ==
  ASSUME NEW S, NEW q \in Seq(S), NEW x \in S
  PROVE  /\ \A i \in DOMAIN q : i \in DOMAIN Append(q, x) /\ Append(q, x)[i] = q[i]
         /\ Len(q) + 1 \in DOMAIN Append(q, x) /\ Append(q, x)[Len(q) + 1] = x
         /\ \A i \in DOMAIN Append(q, x) : i \in DOMAIN q \/ i = Len(q) + 1
         /\ \A i \in DOMAIN Append(q, x) : \A j \in 1..i - 1 : j \in DOMAIN q
         /\ \A i \in DOMAIN q : \A j \in 1..i - 1 : j \in DOMAIN q
         /\ \A i \in DOMAIN q : i # Len(q) + 1
  OBVIOUS

\* What does not change keeps its part of the invariant.
LEMMA KeepsTasks ==
  ASSUME TypeInv, TaskInv
  PROVE  /\ UNCHANGED <<owner, tasks>> => TasksOwned'
         /\ UNCHANGED <<tasks, told, finish_reason>> => ReasonLast'
         /\ UNCHANGED <<tasks, told, finish_reason>> /\ (\A r \in Requests : rpc_ok'[r] => rpc_ok[r])
               => ReasonSent'
<1> USE DEF TaskInv
<1>1. UNCHANGED <<owner, tasks>> => TasksOwned'
  BY DEF TasksOwned, TaskRequest
<1>2. UNCHANGED <<tasks, told, finish_reason>> => ReasonLast'
  BY DEF ReasonLast, Sends
<1>3. UNCHANGED <<tasks, told, finish_reason>> /\ (\A r \in Requests : rpc_ok'[r] => rpc_ok[r])
         => ReasonSent'
  BY SequenceFacts DEF ReasonSent, Sends
<1> QED
  BY <1>1, <1>2, <1>3

LEMMA InitTasks == Init => TaskInv
  BY DEF Init, TaskInv, TasksOwned, ReasonLast, ReasonSent

\* on_request_finish: the request was the scheduler's, so no earlier task destroys it.
LEMMA FinishTasks ==
  ASSUME TypeInv, TaskInv, NEW r \in Requests, owner[r] = "scheduler", OnRequestFinish(r),
         UNCHANGED <<told, finish_reason, rpc_ok>>
  PROVE  TaskInv'
<1> DEFINE t == [type |-> "finish", request |-> r]
<1>1. /\ owner \in [Requests -> Owner] /\ tasks \in Seq(Task) /\ t \in Task
      /\ owner' = [owner EXCEPT ![r] = "response"] /\ tasks' = Append(tasks, t)
  BY DEF TypeInv, TypeOK, QueueTypes, OnRequestFinish, Task
<1>2. t.type = "finish" /\ TaskRequest(t) = r
  BY DEF TaskRequest
<1> HIDE DEF t
<1> DEFINE last == Len(tasks) + 1
<1>3. /\ \A i \in DOMAIN tasks : i \in DOMAIN tasks' /\ tasks'[i] = tasks[i] /\ i # last
      /\ last \in DOMAIN tasks' /\ tasks'[last] = t
      /\ \A i \in DOMAIN tasks' : i \in DOMAIN tasks \/ i = last
      /\ \A i \in DOMAIN tasks' : \A j \in 1..i - 1 : j \in DOMAIN tasks
  BY <1>1, AppendFacts
<1> HIDE DEF last
<1>4. \A i \in DOMAIN tasks : tasks[i].type = "finish" => TaskRequest(tasks[i]) # r
  BY DEF TaskInv, TasksOwned
<1>5. \A q \in Requests : owner[q] \in {"scheduler", "response"} => owner'[q] \in {"scheduler", "response"}
  BY <1>1
<1>6. \A q \in Requests : owner[q] = "response" => owner'[q] = "response"
  BY <1>1
<1>7. owner'[r] = "response"
  BY <1>1
<1>8. TasksOwned'
  <2> SUFFICES ASSUME NEW i \in DOMAIN tasks'
               PROVE  /\ owner'[TaskRequest(tasks'[i])] \in {"scheduler", "response"}
                      /\ tasks'[i].type = "finish" => owner'[TaskRequest(tasks'[i])] = "response"
                      /\ \A j \in 1..i - 1 : tasks'[j].type = "finish" =>
                            TaskRequest(tasks'[j]) # TaskRequest(tasks'[i])
    BY DEF TasksOwned, TaskRequest
  <2>1. CASE i = last
    BY <1>2, <1>3, <1>4, <1>7, <2>1
  <2>2. CASE i \in DOMAIN tasks
    BY <1>3, <1>5, <1>6, <2>2, ContainerTypes DEF TaskInv, TasksOwned
  <2> QED
    BY <1>3, <2>1, <2>2
<1>9. \A q \in AllSequences : \A i \in DOMAIN tasks' :
         Sends(i, q)' => i \in DOMAIN tasks /\ Sends(i, q) /\ tasks'[i] = tasks[i]
  BY <1>2, <1>3 DEF Sends
<1>10. \A q \in AllSequences : \A i \in DOMAIN tasks : Sends(i, q) => Sends(i, q)'
  BY <1>3 DEF Sends
<1>11. ReasonLast'
  <2>1. \A q \in AllSequences : \A i \in DOMAIN tasks' : Sends(i, q)' =>
           /\ told[q] = "NONE" /\ tasks'[i].reason \in {"NONE", finish_reason[q]}
           /\ \A j \in 1..i - 1 : Sends(j, q)' => tasks'[j].reason = "NONE"
    <3> SUFFICES ASSUME NEW q \in AllSequences, NEW i \in DOMAIN tasks', Sends(i, q)'
                 PROVE  /\ told[q] = "NONE" /\ tasks'[i].reason \in {"NONE", finish_reason[q]}
                        /\ \A j \in 1..i - 1 : Sends(j, q)' => tasks'[j].reason = "NONE"
      OBVIOUS
    <3>1. i \in DOMAIN tasks /\ Sends(i, q) /\ tasks'[i] = tasks[i]
      BY <1>9
    <3>2. \A j \in 1..i - 1 : Sends(j, q)' => Sends(j, q) /\ tasks'[j] = tasks[j]
      BY <1>3, <1>9
    <3> QED
      BY <3>1, <3>2 DEF TaskInv, ReasonLast
  <2> QED
    BY <2>1 DEF TaskInv, ReasonLast
<1>12. ReasonSent'
  BY <1>3, <1>10 DEF TaskInv, ReasonSent
<1> QED
  BY <1>8, <1>11, <1>12 DEF TaskInv

\* on_sequence_stream for a sequence that had no finish reason yet and whose
\* request is the scheduler's.
LEMMA StreamTasks ==
  ASSUME TypeInv, ContainerInv, TaskInv, ProcessToken
  PROVE  TaskInv'
<1> DEFINE s == sequences_batch[idx]
           n == num_tokens[s] + 1
<1>1. /\ idx \in DOMAIN sequences_batch /\ s \in AllSequences /\ s[1] \in Requests
      /\ idx \in idx..Len(sequences_batch) /\ num_tokens[s] \in Nat
      /\ owner \in [Requests -> Owner] /\ tasks \in Seq(Task)
      /\ finish_reason \in [AllSequences -> Reason]
  BY SequenceFacts DEF ProcessToken, TypeInv, LoopBounds, TypeOK, ControlTypes, BatchTypes, QueueTypes, SequenceTypes
<1>2. finish_reason[s] = "NONE"
  BY <1>1 DEF ProcessToken, ContainerInv, BatchInv, NotYetFinished
<1>3. owner[s[1]] = "scheduler"
  <2>1. BatchLimit = Len(request_batch) /\ DOMAIN request_batch = 1..Len(request_batch)
    BY DEF ProcessToken, BatchLimit, TypeInv, TypeOK, BatchTypes
  <2> QED
    BY <1>1, <2>1 DEF ContainerInv, BatchInv, SequencesOfBatch, Ownership, OwnedByScheduler
<1>4. PICK reason : /\ finish_reason' = [finish_reason EXCEPT ![s] = reason]
                    /\ tasks' = tasks \o StreamTask(s, n, reason)
                    /\ reason \in {"NONE", "LENGTH", "STOP"}
  BY <1>2 DEF ProcessToken, StoppingReason
<1> DEFINE t == [type |-> "stream", seq |-> s, end |-> n, reason |-> reason]
<1>5. /\ t \in Task /\ t.type # "finish" /\ t.seq = s /\ t.reason = reason /\ TaskRequest(t) = s[1]
  BY <1>1, <1>4 DEF Task, Reason, TaskRequest
<1>6. /\ tasks' = Append(tasks, t) \/ tasks' = tasks
      /\ Streaming[s[1]] /\ reason # "NONE" => tasks' = Append(tasks, t)
  <2> HIDE DEF t
  <2>1. tasks \o <<t>> = Append(tasks, t) /\ tasks \o <<>> = tasks
    BY <1>1, <1>5
  <2>2. tasks' = tasks \o <<t>> \/ tasks' = tasks \o <<>>
    BY <1>4 DEF StreamTask, t
  <2>3. Streaming[s[1]] /\ reason # "NONE" => tasks' = tasks \o <<t>>
    BY <1>4 DEF StreamTask, t
  <2> QED
    BY <2>1, <2>2, <2>3
<1>7. UNCHANGED <<owner, told, rpc_ok>>
  BY DEF ProcessToken, respVars
<1> HIDE DEF t, s, n
<1>0. PICK last \in Nat : last = Len(tasks) + 1
  BY <1>1
<1>8. /\ \A i \in DOMAIN tasks : i \in DOMAIN tasks' /\ tasks'[i] = tasks[i] /\ i # last
      /\ tasks' = Append(tasks, t) => last \in DOMAIN tasks' /\ tasks'[last] = t
      /\ \A i \in DOMAIN tasks' : i \in DOMAIN tasks \/ (i = last /\ tasks'[i] = t)
      /\ \A i \in DOMAIN tasks' : \A j \in 1..i - 1 : j \in DOMAIN tasks
  <2>1. CASE tasks' = Append(tasks, t)
    BY <1>0, <1>1, <1>5, <2>1, AppendFacts
  <2>2. CASE tasks' = tasks
    <3>1. /\ \A i \in DOMAIN tasks : i # last
          /\ \A i \in DOMAIN tasks : \A j \in 1..i - 1 : j \in DOMAIN tasks
      BY <1>0, <1>1
    <3>2. Append(tasks, t) # tasks
      BY <1>1, <1>5
    <3> QED
      BY <2>2, <3>1, <3>2
  <2> QED
    BY <1>6, <2>1, <2>2
<1>9. \A i \in DOMAIN tasks : tasks[i].type = "finish" => TaskRequest(tasks[i]) # s[1]
  BY <1>3 DEF TaskInv, TasksOwned
<1>10. TasksOwned'
  <2> SUFFICES ASSUME NEW i \in DOMAIN tasks'
               PROVE  /\ owner[TaskRequest(tasks'[i])] \in {"scheduler", "response"}
                      /\ tasks'[i].type = "finish" => owner[TaskRequest(tasks'[i])] = "response"
                      /\ \A j \in 1..i - 1 : tasks'[j].type = "finish" =>
                            TaskRequest(tasks'[j]) # TaskRequest(tasks'[i])
    BY <1>7 DEF TasksOwned, TaskRequest
  <2>1. CASE i \in DOMAIN tasks
    BY <1>8, <2>1 DEF TaskInv, TasksOwned
  <2>2. CASE tasks'[i] = t
    BY <1>3, <1>5, <1>8, <1>9, <2>2
  <2> QED
    BY <1>8, <2>1, <2>2
<1>11. told[s] = "NONE" /\ \A i \in DOMAIN tasks : Sends(i, s) => tasks[i].reason = "NONE"
  BY <1>1, <1>2 DEF TaskInv, ReasonLast
<1>12. finish_reason'[s] = reason /\ \A q \in AllSequences : q # s => finish_reason'[q] = finish_reason[q]
  BY <1>1, <1>4
<1>13. \A q \in AllSequences : \A i \in DOMAIN tasks : Sends(i, q)' <=> Sends(i, q)
  BY <1>8 DEF Sends
<1>14. ReasonLast'
  <2> SUFFICES ASSUME NEW q \in AllSequences
               PROVE  /\ \A i \in DOMAIN tasks' : Sends(i, q)' =>
                            /\ told[q] = "NONE" /\ tasks'[i].reason \in {"NONE", finish_reason'[q]}
                            /\ \A j \in 1..i - 1 : Sends(j, q)' => tasks'[j].reason = "NONE"
                      /\ told[q] \in {"NONE", finish_reason'[q]}
    BY <1>7 DEF ReasonLast
  <2>1. CASE q = s
    <3>1. \A i \in DOMAIN tasks' : tasks'[i].reason = "NONE" \/ ~Sends(i, q)' \/ tasks'[i] = t
      BY <1>8, <1>11, <1>13, <2>1
    <3>2. \A i \in DOMAIN tasks' : \A j \in 1..i - 1 : Sends(j, q)' => tasks'[j].reason = "NONE"
      BY <1>8, <1>11, <1>13, <2>1
    <3> QED
      BY <1>5, <1>11, <1>12, <2>1, <3>1, <3>2
  <2>2. CASE q # s
    <3>1. \A i \in DOMAIN tasks' : Sends(i, q)' => i \in DOMAIN tasks /\ Sends(i, q) /\ tasks'[i] = tasks[i]
      BY <1>5, <1>8, <2>2 DEF Sends
    <3>2. \A i \in DOMAIN tasks' : \A j \in 1..i - 1 : Sends(j, q)' => Sends(j, q) /\ tasks'[j] = tasks[j]
      BY <1>8, <1>13
    <3>3. told[q] \in {"NONE", finish_reason[q]}
      BY DEF TaskInv, ReasonLast
    <3>4. \A i \in DOMAIN tasks : Sends(i, q) =>
             /\ told[q] = "NONE" /\ tasks[i].reason \in {"NONE", finish_reason[q]}
             /\ \A j \in 1..i - 1 : Sends(j, q) => tasks[j].reason = "NONE"
      BY DEF TaskInv, ReasonLast
    <3> QED
      BY <1>12, <2>2, <3>1, <3>2, <3>3, <3>4
  <2> QED
    BY <2>1, <2>2
<1>15. ReasonSent'
  <2> SUFFICES ASSUME NEW q \in AllSequences, Streaming[q[1]], rpc_ok[q[1]], finish_reason'[q] # "NONE"
               PROVE  \/ told[q] = finish_reason'[q]
                      \/ \E i \in DOMAIN tasks' : Sends(i, q)' /\ tasks'[i].reason = finish_reason'[q]
    BY <1>7 DEF ReasonSent
  <2>1. CASE q = s
    <3>1. tasks' = Append(tasks, t)
      BY <1>6, <1>12, <2>1
    <3>2. last \in DOMAIN tasks' /\ tasks'[last] = t
      BY <1>8, <3>1
    <3>3. Sends(last, q)' /\ tasks'[last].reason = finish_reason'[q]
      BY <1>5, <1>12, <2>1, <3>2 DEF Sends
    <3> QED
      BY <3>2, <3>3
  <2>2. CASE q # s
    <3>1. \/ told[q] = finish_reason[q]
          \/ \E i \in DOMAIN tasks : Sends(i, q) /\ tasks[i].reason = finish_reason[q]
      BY <1>12, <2>2 DEF TaskInv, ReasonSent
    <3> QED
      BY <1>8, <1>12, <1>13, <2>2, <3>1
  <2> QED
    BY <2>1, <2>2
<1> QED
  BY <1>10, <1>14, <1>15 DEF TaskInv

\* The task at the head runs; a delta task of s that leaves the queue had no finish
\* reason, has told it to the client, or found the client gone.
LEMMA ResponseTasks ==
  ASSUME TypeInv, TaskInv, ResponseThread
  PROVE  TaskInv'
<1> DEFINE t == tasks[1]
<1>1. /\ tasks \in Seq(Task) /\ tasks # <<>> /\ owner \in [Requests -> Owner]
      /\ told \in [AllSequences -> Reason] /\ UNCHANGED <<finish_reason, rpc_ok>>
  BY DEF ResponseThread, DecodeDelta, StreamDelta, RunFinishTask, TypeInv, TypeOK, QueueTypes,
     ResponseTypes, respVars, seqVars
<1>2. Head(tasks) = t /\ 1 \in DOMAIN tasks /\ t \in Task
  BY <1>1, TailFacts
<1>3. /\ t.type = "finish" => t.request \in Requests
      /\ t.type # "finish" => t.seq \in AllSequences /\ t.reason \in Reason
  BY <1>2 DEF Task
<1>4. ASSUME NEW x \in Task, tasks' = <<x>> \o Tail(tasks), x.type # "finish", t.type # "finish",
             x.seq = t.seq, x.reason = t.reason, UNCHANGED <<owner, told>>
      PROVE  TaskInv'
  <2>1. /\ DOMAIN tasks' = DOMAIN tasks /\ tasks'[1] = x
        /\ \A i \in DOMAIN tasks : i # 1 => tasks'[i] = tasks[i]
        /\ \A i \in DOMAIN tasks : \A j \in 1..i - 1 : j \in DOMAIN tasks
    BY <1>1, <1>4, HeadReplaced
  <2>2. \A i \in DOMAIN tasks : TaskRequest(tasks'[i]) = TaskRequest(tasks[i])
                                /\ (tasks'[i].type = "finish" <=> tasks[i].type = "finish")
    BY <1>4, <2>1 DEF TaskRequest
  <2>3. TasksOwned'
    <3>1. \A i \in DOMAIN tasks' :
             /\ owner[TaskRequest(tasks'[i])] \in {"scheduler", "response"}
             /\ tasks'[i].type = "finish" => owner[TaskRequest(tasks'[i])] = "response"
             /\ \A j \in 1..i - 1 : tasks'[j].type = "finish" =>
                   TaskRequest(tasks'[j]) # TaskRequest(tasks'[i])
      BY <2>1, <2>2 DEF TaskInv, TasksOwned
    <3> QED
      BY <1>4, <3>1 DEF TasksOwned, TaskRequest
  <2>4. \A q \in AllSequences : \A i \in DOMAIN tasks :
           (Sends(i, q)' <=> Sends(i, q)) /\ (Sends(i, q) => tasks'[i].reason = tasks[i].reason)
    BY <1>4, <2>1 DEF Sends
  <2>5. ReasonLast'
    <3>1. \A q \in AllSequences : \A i \in DOMAIN tasks' : Sends(i, q)' =>
             /\ told[q] = "NONE" /\ tasks'[i].reason \in {"NONE", finish_reason[q]}
             /\ \A j \in 1..i - 1 : Sends(j, q)' => tasks'[j].reason = "NONE"
      BY <2>1, <2>4 DEF TaskInv, ReasonLast
    <3> QED
      BY <1>1, <1>4, <3>1 DEF TaskInv, ReasonLast
  <2>6. ReasonSent'
    <3> SUFFICES ASSUME NEW q \in AllSequences, Streaming[q[1]], rpc_ok[q[1]], finish_reason[q] # "NONE"
                 PROVE  \/ told[q] = finish_reason[q]
                        \/ \E i \in DOMAIN tasks' : Sends(i, q)' /\ tasks'[i].reason = finish_reason[q]
      BY <1>1, <1>4 DEF ReasonSent
    <3> QED
      BY <2>1, <2>4 DEF TaskInv, ReasonSent
  <2> QED
    BY <2>3, <2>5, <2>6 DEF TaskInv
<1>5. ASSUME tasks' = Tail(tasks),
             \A q \in AllSequences :
               \/ told'[q] = told[q] /\ (~Sends(1, q) \/ t.reason = "NONE" \/ ~rpc_ok[q[1]])
               \/ Sends(1, q) /\ told'[q] = t.reason
      PROVE  ReasonLast' /\ ReasonSent'
  <2>1. /\ \A i \in DOMAIN tasks' : i + 1 \in DOMAIN tasks /\ i + 1 # 1 /\ tasks'[i] = tasks[i + 1]
        /\ \A i \in DOMAIN tasks : i # 1 => i - 1 \in DOMAIN tasks' /\ tasks'[i - 1] = tasks[i]
        /\ \A i \in DOMAIN tasks' : \A j \in 1..i - 1 : j + 1 \in 1..(i + 1) - 1 /\ j \in DOMAIN tasks'
        /\ \A i \in DOMAIN tasks' : 1 \in 1..(i + 1) - 1
    BY <1>1, <1>5, TailFacts
  <2>2. \A q \in AllSequences : \A i \in DOMAIN tasks' : Sends(i, q)' <=> Sends(i + 1, q)
    BY <2>1 DEF Sends
  <2>3. \A q \in AllSequences : \A i \in DOMAIN tasks : i # 1 /\ Sends(i, q) => Sends(i - 1, q)'
    BY <2>1 DEF Sends
  <2>4. ReasonLast'
    <3> SUFFICES ASSUME NEW q \in AllSequences
                 PROVE  /\ \A i \in DOMAIN tasks' : Sends(i, q)' =>
                              /\ told'[q] = "NONE" /\ tasks'[i].reason \in {"NONE", finish_reason[q]}
                              /\ \A j \in 1..i - 1 : Sends(j, q)' => tasks'[j].reason = "NONE"
                        /\ told'[q] \in {"NONE", finish_reason[q]}
      BY <1>1 DEF ReasonLast
    <3>1. /\ told[q] \in {"NONE", finish_reason[q]}
          /\ \A i \in DOMAIN tasks : Sends(i, q) =>
               /\ told[q] = "NONE" /\ tasks[i].reason \in {"NONE", finish_reason[q]}
               /\ \A j \in 1..i - 1 : Sends(j, q) => tasks[j].reason = "NONE"
      BY DEF TaskInv, ReasonLast
    <3>2. told'[q] \in {"NONE", finish_reason[q]}
      BY <1>2, <1>5, <3>1
    <3>3. ASSUME NEW i \in DOMAIN tasks', Sends(i, q)'
          PROVE  /\ told'[q] = "NONE" /\ tasks'[i].reason \in {"NONE", finish_reason[q]}
                 /\ \A j \in 1..i - 1 : Sends(j, q)' => tasks'[j].reason = "NONE"
      <4>1. i + 1 \in DOMAIN tasks /\ Sends(i + 1, q) /\ tasks'[i] = tasks[i + 1]
        BY <2>1, <2>2, <3>3
      <4>2. told[q] = "NONE" /\ (Sends(1, q) => t.reason = "NONE")
        BY <2>1, <3>1, <3>3, <4>1
      <4>3. told'[q] = "NONE"
        BY <1>5, <4>2
      <4>4. \A j \in 1..i - 1 : Sends(j, q)' => tasks'[j].reason = "NONE"
        BY <2>1, <2>2, <3>1, <4>1
      <4> QED
        BY <3>1, <4>1, <4>3, <4>4
    <3> QED
      BY <3>2, <3>3
  <2>5. ReasonSent'
    <3> SUFFICES ASSUME NEW q \in AllSequences, Streaming[q[1]], rpc_ok[q[1]], finish_reason[q] # "NONE"
                 PROVE  \/ told'[q] = finish_reason[q]
                        \/ \E i \in DOMAIN tasks' : Sends(i, q)' /\ tasks'[i].reason = finish_reason[q]
      BY <1>1 DEF ReasonSent
    <3>1. CASE told[q] = finish_reason[q]
      <4>1. ~Sends(1, q)
        BY <1>2, <3>1 DEF TaskInv, ReasonLast
      <4> QED
        BY <1>5, <3>1, <4>1
    <3>2. ASSUME NEW i \in DOMAIN tasks, Sends(i, q), tasks[i].reason = finish_reason[q], i # 1
          PROVE  \E j \in DOMAIN tasks' : Sends(j, q)' /\ tasks'[j].reason = finish_reason[q]
      <4>1. i - 1 \in DOMAIN tasks' /\ tasks'[i - 1] = tasks[i] /\ Sends(i - 1, q)'
        BY <2>1, <2>3, <3>2
      <4> QED
        BY <3>2, <4>1
    <3>3. CASE Sends(1, q) /\ t.reason = finish_reason[q]
      BY <1>5, <3>3
    <3> QED
      BY <3>1, <3>2, <3>3 DEF TaskInv, ReasonSent
  <2> QED
    BY <2>4, <2>5
<1>6. ASSUME tasks' = Tail(tasks), \A i \in DOMAIN tasks : i # 1 =>
               owner'[TaskRequest(tasks[i])] = owner[TaskRequest(tasks[i])]
      PROVE  TasksOwned'
  <2>1. /\ \A i \in DOMAIN tasks' : i + 1 \in DOMAIN tasks /\ i + 1 # 1 /\ tasks'[i] = tasks[i + 1]
        /\ \A i \in DOMAIN tasks' : \A j \in 1..i - 1 : j + 1 \in 1..(i + 1) - 1 /\ j \in DOMAIN tasks'
    BY <1>1, <1>6, TailFacts
  <2>2. \A i \in DOMAIN tasks' :
           /\ owner'[TaskRequest(tasks'[i])] \in {"scheduler", "response"}
           /\ tasks'[i].type = "finish" => owner'[TaskRequest(tasks'[i])] = "response"
           /\ \A j \in 1..i - 1 : tasks'[j].type = "finish" =>
                 TaskRequest(tasks'[j]) # TaskRequest(tasks'[i])
    BY <1>6, <2>1 DEF TaskInv, TasksOwned
  <2> QED
    BY <2>2 DEF TasksOwned, TaskRequest
<1>7. CASE DecodeDelta
  <2>1. /\ t.type = "stream" /\ UNCHANGED <<owner, told>>
        /\ \/ tasks' = <<[t EXCEPT !.type = "write"]>> \o Tail(tasks)
           \/ tasks' = Tail(tasks) /\ t.reason = "NONE"
    BY <1>2, <1>7 DEF DecodeDelta
  <2>2. CASE tasks' = <<[t EXCEPT !.type = "write"]>> \o Tail(tasks)
    <3> DEFINE x == [t EXCEPT !.type = "write"]
    <3>1. x \in Task /\ x.type # "finish" /\ x.seq = t.seq /\ x.reason = t.reason
      BY <1>2, <2>1 DEF Task
    <3> HIDE DEF x
    <3> QED
      BY <1>4, <2>1, <2>2, <3>1 DEF x
  <2>3. CASE tasks' = Tail(tasks) /\ t.reason = "NONE"
    <3>1. ReasonLast' /\ ReasonSent'
      BY <1>5, <2>1, <2>3
    <3>2. TasksOwned'
      BY <1>6, <2>1, <2>3
    <3> QED
      BY <3>1, <3>2 DEF TaskInv
  <2> QED
    BY <2>1, <2>2, <2>3
<1>8. CASE StreamDelta
  <2>1. /\ t.type = "write" /\ UNCHANGED owner /\ tasks' = Tail(tasks)
        /\ told' = IF rpc_ok[t.seq[1]] THEN [told EXCEPT ![t.seq] = t.reason] ELSE told
    BY <1>2, <1>8 DEF StreamDelta
  <2>2. \A q \in AllSequences : Sends(1, q) <=> q = t.seq
    BY <2>1 DEF Sends
  <2>3. \A q \in AllSequences :
           \/ told'[q] = told[q] /\ (~Sends(1, q) \/ t.reason = "NONE" \/ ~rpc_ok[q[1]])
           \/ Sends(1, q) /\ told'[q] = t.reason
    BY <1>1, <1>3, <2>1, <2>2
  <2>4. ReasonLast' /\ ReasonSent'
    BY <1>5, <2>1, <2>3
  <2>5. TasksOwned'
    BY <1>6, <2>1
  <2> QED
    BY <2>4, <2>5 DEF TaskInv
<1>9. CASE RunFinishTask
  <2>1. /\ t.type = "finish" /\ UNCHANGED told /\ tasks' = Tail(tasks)
        /\ owner' = [owner EXCEPT ![t.request] = "nobody"]
    BY <1>2, <1>9 DEF RunFinishTask, respVars
  <2>2. \A q \in AllSequences : ~Sends(1, q)
    BY <2>1 DEF Sends
  <2>3. ReasonLast' /\ ReasonSent'
    BY <1>5, <2>1, <2>2
  <2>4. \A i \in DOMAIN tasks : i # 1 => TaskRequest(tasks[i]) # t.request
    <3>1. \A i \in DOMAIN tasks : i # 1 => 1 \in 1..i - 1
      BY <1>1
    <3> QED
      BY <2>1, <3>1 DEF TaskInv, TasksOwned, TaskRequest
  <2>5. TasksOwned'
    BY <1>1, <1>6, <2>1, <2>4, ContainerTypes
  <2> QED
    BY <2>3, <2>5 DEF TaskInv
<1> QED
  BY <1>7, <1>8, <1>9 DEF ResponseThread

\* The main thread and the handlers.
LEMMA OtherTasks ==
  ASSUME TypeInv, ContainerInv, TaskInv, Handlers \/ MainThread
  PROVE  TaskInv'
<1>0. owner \in [Requests -> Owner] /\ rpc_ok \in [Requests -> BOOLEAN]
  BY DEF TypeInv, TypeOK, QueueTypes, ResponseTypes
<1>1. ASSUME NEW r \in Requests, Schedule(r) PROVE TaskInv'
  <2>1. owner[r] = "handler" /\ UNCHANGED <<tasks, told, finish_reason, rpc_ok>>
    BY <1>1 DEF Schedule, respVars, seqVars
  <2>3. \A i \in DOMAIN tasks : owner'[TaskRequest(tasks[i])] = owner[TaskRequest(tasks[i])]
    <3>1. \A i \in DOMAIN tasks : TaskRequest(tasks[i]) # r
      BY <2>1 DEF TaskInv, TasksOwned
    <3>2. owner' = [owner EXCEPT ![r] = "scheduler"] \/ owner' = [owner EXCEPT ![r] = "refused"]
      BY <1>1 DEF Schedule
    <3>3. \A q \in Requests : q # r => owner'[q] = owner[q]
      BY <1>0, <3>2
    <3> QED
      BY <3>1, <3>3, ContainerTypes
  <2>4. TasksOwned'
    BY <2>1, <2>3 DEF TaskInv, TasksOwned, TaskRequest
  <2> QED
    BY <2>1, <2>4, KeepsTasks DEF TaskInv
<1>2. ASSUME NEW r \in Requests, ClientFails(r) PROVE TaskInv'
  <2>1. UNCHANGED <<owner, tasks, told, finish_reason>> /\ rpc_ok' = [rpc_ok EXCEPT ![r] = FALSE]
    BY <1>2 DEF ClientFails, seqVars
  <2>2. \A q \in Requests : rpc_ok'[q] => rpc_ok[q]
    BY <1>0, <2>1
  <2> QED
    BY <2>1, <2>2, KeepsTasks DEF TaskInv
<1>3. ASSUME UNCHANGED <<owner, tasks, told, finish_reason, rpc_ok>> PROVE TaskInv'
  BY <1>3, KeepsTasks DEF TaskInv
<1>4. CASE RequeueRequest
  <2>1. /\ UNCHANGED <<told, finish_reason, rpc_ok>>
        /\ \/ UNCHANGED <<owner, tasks>>
           \/ OnRequestFinish(request_batch[idx])
    BY <1>4 DEF RequeueRequest, respVars, seqVars
  <2>2. idx \in 1..Len(request_batch) /\ request_batch[idx] \in Requests /\ idx \in 1..BatchLimit
    BY <1>4 DEF RequeueRequest, TypeInv, LoopBounds, TypeOK, ControlTypes, BatchTypes, BatchLimit
  <2>3. owner[request_batch[idx]] = "scheduler"
    BY <2>2 DEF ContainerInv, Ownership, OwnedByScheduler
  <2> QED
    BY <1>3, <2>1, <2>2, <2>3, FinishTasks
<1>5. CASE GiveUp
  <2>1. /\ UNCHANGED <<told, finish_reason, rpc_ok>>
        /\ \/ UNCHANGED <<owner, tasks>>
           \/ OnRequestFinish(candidate)
    BY <1>5 DEF GiveUp, respVars, seqVars
  <2>2. candidate \in Requests /\ owner[candidate] = "scheduler"
    BY <1>5 DEF GiveUp, AllSequencesTried, TypeInv, LoopBounds, ContainerInv, BatchInv, CandidateWaits,
       Allocating, Ownership, OwnedByScheduler
  <2> QED
    BY <1>3, <2>1, <2>2, FinishTasks
<1>6. CASE DrainRequestQueue \/ ClearBatch \/ PickCandidate \/ ConsiderSequence
             \/ AllocateSlotsForSequence \/ ScheduleCandidate \/ PreemptLowest
             \/ PreemptDestroyed \/ PartiallySchedule \/ ExecuteModel
  <2>1. UNCHANGED <<owner, tasks, told, finish_reason, rpc_ok>>
    BY <1>6 DEF DrainRequestQueue, ClearBatch, PickCandidate, ConsiderSequence, AllocateSlotsForSequence,
       ScheduleCandidate, PreemptLowest, PreemptDestroyed, PartiallySchedule, ExecuteModel,
       respVars, seqVars
  <2> QED
    BY <1>3, <2>1
<1> QED
  BY <1>1, <1>2, <1>4, <1>5, <1>6, StreamTasks DEF Handlers, MainThread, BuildSequenceBatch

-----------------------------------------------------------------------------
(* The invariant and what follows from it *)

OwnershipInv == TypeInv /\ ContainerInv /\ TaskInv

LEMMA NextOwnership == OwnershipInv /\ [Next]_vars => OwnershipInv'
<1> SUFFICES ASSUME OwnershipInv, [Next]_vars PROVE OwnershipInv'
  OBVIOUS
<1> USE DEF OwnershipInv
<1>1. TypeInv'
  BY NextType
<1>2. ContainerInv'
  <2>1. CASE UNCHANGED vars
    <3>1. UNCHANGED <<owner, request_queue, batchGroup, controlGroup, blocks, finish_reason>>
      BY <2>1 DEF vars, batchGroup, controlGroup, memVars, seqVars
    <3>2. UNCHANGED BatchLimit
      BY <3>1 DEF BatchLimit, batchGroup, controlGroup
    <3> QED
      BY <3>1, <3>2, KeepsContainers DEF ContainerInv, BatchInv, batchGroup, controlGroup, localVars
  <2> QED
    BY <2>1, OtherThreadsContainers, RequeueContainers, TryContainers, StepContainers
       DEF TaskInv, Next, Stopped, MainThread, BuildSequenceBatch
<1>3. TaskInv'
  <2>1. CASE UNCHANGED vars
    BY <2>1, KeepsTasks DEF TaskInv, vars, respVars, seqVars
  <2> QED
    BY <2>1, OtherTasks, ResponseTasks DEF Next, Stopped
<1> QED
  BY <1>1, <1>2, <1>3

\* Every request is in at most one container, the queued tasks point to live
\* requests, and a finish reason is the last thing sent for a sequence.
THEOREM OwnershipHolds == Spec => []OwnershipInv
<1>1. Init => OwnershipInv
  BY InitType, InitContainers, InitTasks DEF OwnershipInv
<1> QED
  BY <1>1, NextOwnership, PTL DEF Spec

\* Blocks are only ever held by requests that wait in the heap or are in the batch:
\* finishing, cancelling, preempting or running out of memory leaks none, whatever
\* the order of the requests (on_request_finish, release_slots_for_request).
THEOREM NoBlockLeaks == Spec => []NoBlockLeak
<1>1. OwnershipInv => NoBlockLeak
  <2> SUFFICES ASSUME OwnershipInv, NEW s \in AllSequences, blocks[s] # <<>>
               PROVE  owner[s[1]] = "scheduler" /\ s[1] \in priority_queue \cup ToSet(request_batch)
    BY DEF NoBlockLeak
  <2>1. s[1] \in priority_queue \/ \E k \in 1..BatchLimit : request_batch[k] = s[1]
    BY DEF OwnershipInv, ContainerInv, BlocksHeld
  <2>2. \A k \in 1..BatchLimit : k \in DOMAIN request_batch
    BY DEF OwnershipInv, TypeInv, TypeOK, LoopBounds, BatchTypes, ControlTypes, BatchLimit
  <2> QED
    BY <2>1, <2>2 DEF OwnershipInv, ContainerInv, Ownership, OwnedByScheduler, ToSet
<1> QED
  BY <1>1, OwnershipHolds, PTL

\* on_finish of a streaming request whose client can be reached comes after the
\* client was told the finish reason of each of its sequences (on_sequence_stream
\* and on_request_finish queue their tasks in that order).
THEOREM ReasonToldBeforeFinish == Spec => ToldBeforeFinish
<1>1. ASSUME OwnershipInv, [Next]_vars, NEW r \in Requests, Streaming[r], rpc_ok[r],
             owner[r] = "response", owner'[r] = "nobody", NEW s \in SequencesOf(r)
      PROVE  told[s] = finish_reason[s]
  <2>1. owner \in [Requests -> Owner] /\ tasks \in Seq(Task)
    BY <1>1 DEF OwnershipInv, TypeInv, TypeOK, QueueTypes
  <2>2. s \in AllSequences /\ s[1] = r
    BY SequenceFacts DEF SequencesOf
  <2>3. RunFinishTask
    <3>1. ASSUME NEW q \in Requests, Schedule(q) PROVE FALSE
      BY <1>1, <2>1, <3>1 DEF Schedule
    <3>2. ASSUME NEW q, OnRequestFinish(q) PROVE FALSE
      BY <1>1, <2>1, <3>2 DEF OnRequestFinish
    <3>3. owner' # owner
      BY <1>1
    <3> QED
      BY <1>1, <3>1, <3>2, <3>3 DEF Next, Stopped, Handlers, MainThread, BuildSequenceBatch, ResponseThread,
         ClientFails, DrainRequestQueue, RequeueRequest, ClearBatch, PickCandidate,
         ConsiderSequence, AllocateSlotsForSequence, ScheduleCandidate, PreemptLowest,
         PreemptDestroyed, PartiallySchedule, GiveUp, ExecuteModel, ProcessToken, DecodeDelta,
         StreamDelta, vars
  <2>4. tasks # <<>> /\ Head(tasks) = tasks[1] /\ tasks[1].type = "finish" /\ tasks[1].request = r
    <3>1. tasks # <<>> /\ Head(tasks) = tasks[1] /\ tasks[1].type = "finish"
          /\ owner' = [owner EXCEPT ![tasks[1].request] = "nobody"]
      BY <2>1, <2>3, TailFacts DEF RunFinishTask
    <3> QED
      BY <1>1, <2>1, <3>1
  <2>5. \A i \in DOMAIN tasks : ~Sends(i, s)
    <3> SUFFICES ASSUME NEW i \in DOMAIN tasks, Sends(i, s) PROVE FALSE
      OBVIOUS
    <3>1. i # 1 /\ TaskRequest(tasks[i]) = r /\ TaskRequest(tasks[1]) = r
      BY <2>2, <2>4 DEF Sends, TaskRequest
    <3>2. 1 \in 1..i - 1
      BY <2>1, <3>1
    <3> QED
      BY <1>1, <2>4, <3>1, <3>2 DEF OwnershipInv, TaskInv, TasksOwned
  <2>6. told[s] \in {"NONE", finish_reason[s]}
    BY <1>1, <2>2 DEF OwnershipInv, TaskInv, ReasonLast
  <2>7. finish_reason[s] # "NONE" => told[s] = finish_reason[s]
    BY <1>1, <2>2, <2>5 DEF OwnershipInv, TaskInv, ReasonSent
  <2> QED
    BY <2>6, <2>7
<1>2. OwnershipInv /\ [Next]_vars =>
        [\A r \in Requests : Streaming[r] /\ rpc_ok[r] /\ owner[r] = "response" /\ owner'[r] = "nobody" =>
            \A s \in SequencesOf(r) : told[s] = finish_reason[s]]_vars
  BY <1>1
<1> QED
  BY <1>2, OwnershipHolds, PTL DEF Spec, ToldBeforeFinish

-----------------------------------------------------------------------------
(* Refinement of CompletionService *)

\* What the client sees of a request, as the refinement maps it.
Status == [r \in Requests |->
             CASE owner[r] = "handler" -> "new"
               [] owner[r] = "refused" -> "refused"
               [] owner[r] \in {"scheduler", "response"} -> "accepted"
               [] owner[r] = "nobody" -> "finished"]

\* The actions of CompletionService under the refinement mapping.
LEMMA ServiceActions ==
  /\ \A r : Service!Answer(r) <=>
       /\ Status[r] = "new"
       /\ \E answer \in {"accepted", "refused"} : Status' = [Status EXCEPT ![r] = answer]
       /\ UNCHANGED <<output_offset, told>>
  /\ \A s : Service!Send(s) <=>
       /\ Status[s[1]] = "accepted" /\ told[s] = "NONE"
       /\ output_offset'[s] >= output_offset[s]
       /\ output_offset' = [output_offset EXCEPT ![s] = output_offset'[s]]
       /\ told' = [told EXCEPT ![s] = told'[s]]
       /\ UNCHANGED Status
  /\ \A r : Service!Finish(r) <=>
       /\ Status[r] = "accepted" /\ Status' = [Status EXCEPT ![r] = "finished"]
       /\ UNCHANGED <<output_offset, told>>
<1>1. \A r : Service!Answer(r) <=>
       /\ Status[r] = "new"
       /\ \E answer \in {"accepted", "refused"} : Status' = [Status EXCEPT ![r] = answer]
       /\ UNCHANGED <<output_offset, told>>
  BY DEF Service!Answer, Status
<1>2. \A s : Service!Send(s) <=>
       /\ Status[s[1]] = "accepted" /\ told[s] = "NONE"
       /\ output_offset'[s] >= output_offset[s]
       /\ output_offset' = [output_offset EXCEPT ![s] = output_offset'[s]]
       /\ told' = [told EXCEPT ![s] = told'[s]]
       /\ UNCHANGED Status
  BY DEF Service!Send, Status
<1>3. \A r : Service!Finish(r) <=>
       /\ Status[r] = "accepted" /\ Status' = [Status EXCEPT ![r] = "finished"]
       /\ UNCHANGED <<output_offset, told>>
  BY DEF Service!Finish, Status
<1> QED
  BY <1>1, <1>2, <1>3

\* How the status follows the owner.
LEMMA StatusFacts ==
  ASSUME TypeInv
  PROVE  /\ \A r \in Requests :
              /\ owner[r] = "handler" => Status[r] = "new"
              /\ owner[r] \in {"scheduler", "response"} => Status[r] = "accepted"
         /\ owner' = owner => Status' = Status
         /\ \A r \in Requests : owner[r] = "scheduler" /\ owner' = [owner EXCEPT ![r] = "response"]
              => Status' = Status
         /\ \A r \in Requests : owner' = [owner EXCEPT ![r] = "scheduler"]
              => Status' = [Status EXCEPT ![r] = "accepted"]
         /\ \A r \in Requests : owner' = [owner EXCEPT ![r] = "refused"]
              => Status' = [Status EXCEPT ![r] = "refused"]
         /\ \A r \in Requests : owner' = [owner EXCEPT ![r] = "nobody"]
              => Status' = [Status EXCEPT ![r] = "finished"]
<1> DEFINE Seen(o) == CASE o = "handler" -> "new"
                        [] o = "refused" -> "refused"
                        [] o \in {"scheduler", "response"} -> "accepted"
                        [] o = "nobody" -> "finished"
<1>1. /\ Status = [r \in Requests |-> Seen(owner[r])]
      /\ Status' = [r \in Requests |-> Seen(owner'[r])]
  BY DEF Status
<1>2. /\ Seen("handler") = "new" /\ Seen("refused") = "refused" /\ Seen("nobody") = "finished"
      /\ Seen("scheduler") = "accepted" /\ Seen("response") = "accepted"
  OBVIOUS
<1>3. owner \in [Requests -> Owner]
  BY DEF TypeInv, TypeOK, QueueTypes
<1> HIDE DEF Seen
<1>4. \A r \in Requests : /\ owner[r] = "handler" => Status[r] = "new"
                          /\ owner[r] \in {"scheduler", "response"} => Status[r] = "accepted"
  BY <1>1, <1>2
<1>5. owner' = owner => Status' = Status
  BY <1>1
<1>6. ASSUME NEW r \in Requests, NEW o, owner' = [owner EXCEPT ![r] = o]
      PROVE  Status' = [Status EXCEPT ![r] = Seen(o)]
  <2>1. \A q \in Requests : owner'[q] = IF q = r THEN o ELSE owner[q]
    BY <1>3, <1>6
  <2> QED
    BY <1>1, <2>1
<1>7. \A r \in Requests : owner[r] = "scheduler" /\ owner' = [owner EXCEPT ![r] = "response"]
         => Status' = Status
  <2> SUFFICES ASSUME NEW r \in Requests, owner[r] = "scheduler", owner' = [owner EXCEPT ![r] = "response"]
               PROVE  Status' = Status
    OBVIOUS
  <2>1. Status' = [Status EXCEPT ![r] = "accepted"]
    BY <1>2, <1>6
  <2>2. Status[r] = "accepted"
    BY <1>4
  <2> QED
    BY <1>1, <2>1, <2>2
<1> QED
  BY <1>2, <1>4, <1>5, <1>6, <1>7

\* What a step shows a client is a step of CompletionService, or nothing.
LEMMA ServiceStep ==
  ASSUME OwnershipInv, [Next]_vars
  PROVE  [Service!ServiceNext]_<<Status, output_offset, told>>
<1> USE DEF OwnershipInv
<1>1. ASSUME UNCHANGED <<Status, output_offset, told>>
      PROVE  [Service!ServiceNext]_<<Status, output_offset, told>>
  BY <1>1
<1>2. /\ owner \in [Requests -> Owner] /\ tasks \in Seq(Task)
      /\ output_offset \in [AllSequences -> Nat] /\ told \in [AllSequences -> Reason]
  BY DEF TypeInv, TypeOK, QueueTypes, ResponseTypes
<1>3. ASSUME NEW r \in Requests, Schedule(r) PROVE Service!ServiceNext
  <2>1. /\ owner[r] = "handler" /\ UNCHANGED <<output_offset, told>>
        /\ owner' = [owner EXCEPT ![r] = "scheduler"] \/ owner' = [owner EXCEPT ![r] = "refused"]
    BY <1>3 DEF Schedule, respVars
  <2>2. Service!Answer(r)
    BY <2>1, StatusFacts, ServiceActions
  <2> QED
    BY <2>2 DEF Service!ServiceNext
<1>4. ASSUME NEW r \in Requests, owner[r] = "scheduler", OnRequestFinish(r), UNCHANGED <<output_offset, told>>
      PROVE  [Service!ServiceNext]_<<Status, output_offset, told>>
  <2>1. owner' = [owner EXCEPT ![r] = "response"]
    BY <1>4 DEF OnRequestFinish
  <2>2. Status' = Status
    BY <1>4, <2>1, StatusFacts
  <2> QED
    BY <1>1, <1>4, <2>2
<1>5. ASSUME UNCHANGED <<owner, output_offset, told>>
      PROVE  [Service!ServiceNext]_<<Status, output_offset, told>>
  BY <1>1, <1>5, StatusFacts
<1>6. CASE RequeueRequest
  <2>1. /\ UNCHANGED <<output_offset, told>>
        /\ UNCHANGED owner \/ OnRequestFinish(request_batch[idx])
    BY <1>6 DEF RequeueRequest, respVars
  <2>2. idx \in 1..BatchLimit
    BY <1>6 DEF RequeueRequest, BatchLimit, TypeInv, TypeOK, ControlTypes
  <2>3. request_batch[idx] \in Requests /\ owner[request_batch[idx]] = "scheduler"
    BY <2>2, ContainerTypes DEF ContainerInv, Ownership, OwnedByScheduler
  <2> QED
    BY <1>4, <1>5, <2>1, <2>3
<1>7. CASE GiveUp
  <2>1. /\ UNCHANGED <<output_offset, told>>
        /\ UNCHANGED owner \/ OnRequestFinish(candidate)
    BY <1>7 DEF GiveUp, respVars
  <2>2. candidate \in Requests /\ owner[candidate] = "scheduler"
    BY <1>7 DEF GiveUp, AllSequencesTried, TypeInv, LoopBounds, ContainerInv, BatchInv, CandidateWaits,
       Allocating, Ownership, OwnedByScheduler
  <2> QED
    BY <1>4, <1>5, <2>1, <2>2
<1>8. CASE \/ DrainRequestQueue \/ ClearBatch \/ PickCandidate \/ ConsiderSequence
           \/ AllocateSlotsForSequence \/ ScheduleCandidate \/ PreemptLowest
           \/ PreemptDestroyed \/ PartiallySchedule \/ ExecuteModel \/ ProcessToken \/ UNCHANGED vars
  <2>1. UNCHANGED <<owner, output_offset, told>>
    BY <1>8 DEF DrainRequestQueue, ClearBatch, PickCandidate, ConsiderSequence, AllocateSlotsForSequence,
       ScheduleCandidate, PreemptLowest, PreemptDestroyed, PartiallySchedule, ExecuteModel, ProcessToken,
       vars, respVars
  <2> QED
    BY <1>5, <2>1
<1>9. ASSUME NEW r \in Requests, ClientFails(r)
      PROVE  [Service!ServiceNext]_<<Status, output_offset, told>>
  BY <1>5, <1>9 DEF ClientFails
<1>10. CASE ResponseThread
  <2> DEFINE t == tasks[1]
  <2>1. tasks # <<>>
    BY <1>10 DEF ResponseThread, DecodeDelta, StreamDelta, RunFinishTask
  <2>2. Head(tasks) = t /\ 1 \in DOMAIN tasks /\ t \in Task
    BY <1>2, <2>1, TailFacts
  <2>3. /\ TaskRequest(t) \in Requests /\ owner[TaskRequest(t)] \in {"scheduler", "response"}
        /\ t.type = "finish" => TaskRequest(t) = t.request
        /\ t.type # "finish" => TaskRequest(t) = t.seq[1] /\ t.seq \in AllSequences /\ t.end \in Nat
                                /\ Sends(1, t.seq) /\ told[t.seq] = "NONE"
    <3>1. t.type # "finish" => t.seq \in AllSequences /\ t.end \in Nat
      BY <2>2 DEF Task
    <3> QED
      BY <2>2, <3>1, ContainerTypes DEF TaskInv, TasksOwned, ReasonLast, Sends, TaskRequest
  <2>4. Status[TaskRequest(t)] = "accepted"
    BY <2>3, StatusFacts
  <2>5. CASE RunFinishTask
    <3>1. t.type = "finish" /\ owner' = [owner EXCEPT ![t.request] = "nobody"]
          /\ UNCHANGED <<output_offset, told>>
      BY <2>2, <2>5 DEF RunFinishTask, respVars
    <3>2. PICK r \in Requests : r = t.request
      BY <2>3, <3>1
    <3>3. Status[r] = "accepted" /\ Status' = [Status EXCEPT ![r] = "finished"]
      BY <2>3, <2>4, <3>1, <3>2, StatusFacts
    <3>4. Service!Finish(r)
      BY <3>1, <3>3, ServiceActions
    <3> QED
      BY <3>4 DEF Service!ServiceNext
  <2>6. CASE DecodeDelta
    <3>1. /\ t.type = "stream" /\ UNCHANGED <<owner, told>>
          /\ \/ output_offset' = output_offset
             \/ /\ t.end > output_offset[t.seq]
                /\ output_offset' = [output_offset EXCEPT ![t.seq] = t.end]
      BY <2>2, <2>6 DEF DecodeDelta
    <3>2. CASE output_offset' = output_offset
      BY <1>5, <3>1, <3>2
    <3>3. CASE t.end > output_offset[t.seq] /\ output_offset' = [output_offset EXCEPT ![t.seq] = t.end]
      <4>1. output_offset'[t.seq] = t.end /\ output_offset[t.seq] \in Nat /\ t.end \in Nat
        BY <1>2, <2>3, <3>1, <3>3
      <4>2. output_offset'[t.seq] >= output_offset[t.seq]
        BY <3>3, <4>1
      <4>3. output_offset' = [output_offset EXCEPT ![t.seq] = output_offset'[t.seq]]
        BY <3>3, <4>1
      <4>4. told' = [told EXCEPT ![t.seq] = told'[t.seq]]
        BY <1>2, <3>1
      <4>5. Service!Send(t.seq)
        BY <2>3, <2>4, <3>1, <4>2, <4>3, <4>4, StatusFacts, ServiceActions
      <4> QED
        BY <2>3, <3>1, <4>5 DEF Service!ServiceNext
    <3> QED
      BY <3>1, <3>2, <3>3
  <2>7. CASE StreamDelta
    <3>1. /\ t.type = "write" /\ UNCHANGED <<owner, output_offset>>
          /\ told' = told \/ told' = [told EXCEPT ![t.seq] = t.reason]
      BY <2>2, <2>7 DEF StreamDelta
    <3>2. CASE told' = told
      BY <1>5, <3>1, <3>2
    <3>3. CASE told' = [told EXCEPT ![t.seq] = t.reason]
      <4>1. told' = [told EXCEPT ![t.seq] = told'[t.seq]]
        BY <1>2, <2>3, <3>1, <3>3
      <4>2. output_offset' = [output_offset EXCEPT ![t.seq] = output_offset'[t.seq]]
        BY <1>2, <3>1
      <4>3. output_offset'[t.seq] >= output_offset[t.seq]
        BY <1>2, <2>3, <3>1
      <4>4. Service!Send(t.seq)
        BY <2>3, <2>4, <3>1, <4>1, <4>2, <4>3, StatusFacts, ServiceActions
      <4> QED
        BY <2>3, <3>1, <4>4 DEF Service!ServiceNext
    <3> QED
      BY <3>1, <3>2, <3>3
  <2> QED
    BY <1>10, <2>5, <2>6, <2>7 DEF ResponseThread
<1> QED
  BY <1>3, <1>6, <1>7, <1>8, <1>9, <1>10 DEF Next, Stopped, Handlers, MainThread, BuildSequenceBatch

\* The scheduler with its response thread implements CompletionService: a request
\* is answered once, its text only grows, a finish reason is the last word of a
\* sequence, on_finish the last of a request, and nothing follows.
THEOREM SchedulerImplementsService == Spec => ImplementsService
<1>1. Init => Service!ServiceInit
  <2> SUFFICES ASSUME Init PROVE Service!ServiceInit
    OBVIOUS
  <2>1. output_offset \in [AllSequences -> Nat]
    BY InitType DEF TypeInv, TypeOK, ResponseTypes
  <2>2. Status = [r \in Requests |-> "new"]
    BY DEF Init, Status
  <2> QED
    BY <2>1, <2>2 DEF Init, Status, Service!ServiceInit
<1>2. OwnershipInv /\ [Next]_vars => [Service!ServiceNext]_<<Status, output_offset, told>>
  BY ServiceStep
<1> QED
  BY <1>1, <1>2, OwnershipHolds, PTL DEF Spec, ImplementsService, Service!ServiceSpec, Status

-----------------------------------------------------------------------------
(* What build_sequence_batch guarantees about the batch it builds: the     *)
(* batch is in priority order, the cached prefix of a sequence is its own, *)
(* and, as long as no listed request overtakes another of its key, a       *)
(* scheduled request is not preempted and preemptable_candidates_ is sound. *)

-----------------------------------------------------------------------------
(* The inductive invariants of the batch *)

Building == pc \in {"top", "allocate", "slots", "execute"}

\* The batch is in the order of the heap, comes before what is left in it, and the
\* candidate comes next.
InHeapOrder ==
    /\ \A i, j \in 1..BatchLimit : i < j => ~ProcessedBefore(request_batch[j], request_batch[i])
    /\ Building => \A k \in 1..BatchLimit : \A q \in priority_queue :
                     ~ProcessedBefore(q, request_batch[k])
    /\ Allocating => \A q \in priority_queue : ~ProcessedBefore(q, candidate)

Preempting == pc \in {"requeue", "top", "allocate", "slots"}

\* The preemptable requests wait in the heap, in order, and do not come before the
\* part of the last batch that is still to be requeued.
ListSound ==
    /\ \A i, j \in DOMAIN preemptable_candidates : i < j =>
         /\ preemptable_candidates[i] # preemptable_candidates[j]
         /\ ~ProcessedBefore(preemptable_candidates[j], preemptable_candidates[i])
    /\ Preempting => \A i \in DOMAIN preemptable_candidates :
                       preemptable_candidates[i] \in priority_queue
    /\ ~Preempting => preemptable_candidates = <<>>
    /\ pc = "requeue" => \A k \in 1..idx : \A i \in DOMAIN preemptable_candidates :
                           ~ProcessedBefore(preemptable_candidates[i], request_batch[k])

\* The list is sound until a listed request overtakes the first of the list, and
\* again from the next build that finds the list empty.
PreemptableInv == overtaken \/ ListSound

\* A table is never longer than its sequence needs.
NoSurplus == \A s \in AllSequences : Len(blocks[s]) <= BlocksNeeded(num_tokens[s])

HasItsBlocks(s) == IsFinishedSeq(s) \/ Len(blocks[s]) = BlocksNeeded(num_tokens[s])

\* What was picked for the batch keeps the blocks it got.
KeepsWhatItGot ==
    /\ Building => \A i \in DOMAIN sequences_batch : HasItsBlocks(sequences_batch[i])
    /\ Allocating => \A i \in DOMAIN sequence_candidates : HasItsBlocks(sequence_candidates[i])

PickedHaveBlocks == overtaken \/ KeepsWhatItGot

\* The first n tokens of s are in the slots of s.
Cached(s, n) ==
    \A p \in 0..n - 1 : p \div BlockSize < Len(blocks[s]) /\ kv[SlotOf(s, p)] = <<s, p>>

\* cache_pos_ never claims too much; a sequence is before its prefill or lacks just
\* its newest token; and what the model has run is cached entirely.
CacheInv ==
    /\ \A s \in AllSequences : Cached(s, cache_pos[s])
    /\ \A s \in AllSequences : cache_pos[s] = 0 \/ cache_pos[s] = num_tokens[s] - 1
    /\ pc = "process" => \A i \in idx..Len(sequences_batch) :
         Cached(sequences_batch[i], num_tokens[sequences_batch[i]])

-----------------------------------------------------------------------------
(* Priority order *)

\* Of two requests neither of which comes before the other, both have one key.
LEMMA NeitherBefore ==
  ASSUME NEW a \in Requests, NEW b \in Requests, ~ProcessedBefore(a, b), ~ProcessedBefore(b, a)
  PROVE  SameKey(a, b)
<1>1. /\ Priority[a] \in Int /\ Priority[b] \in Int
      /\ CreatedTime[a] \in Int /\ CreatedTime[b] \in Int
  BY SchedulerAssumption
<1> QED
  BY <1>1 DEF SameKey, ProcessedBefore

\* The containers and the control variables that the order speaks of.
orderVars ==
    <<pc, idx, candidate, priority_queue, request_batch, preemptable_candidates, overtaken>>

\* Only the main thread moves requests.
LEMMA OthersKeepOrder ==
  ASSUME Handlers \/ ResponseThread \/ UNCHANGED vars
  PROVE  UNCHANGED orderVars
  BY DEF Handlers, ResponseThread, Schedule, ClientFails, DecodeDelta, StreamDelta, RunFinishTask,
     vars, orderVars, localVars

LEMMA KeepsHeapOrder ==
  ASSUME InHeapOrder
  PROVE  UNCHANGED orderVars => InHeapOrder'
<1> SUFFICES ASSUME UNCHANGED orderVars PROVE InHeapOrder'
  OBVIOUS
<1>1. UNCHANGED <<pc, idx, candidate, priority_queue, request_batch>> /\ BatchLimit' = BatchLimit
  BY DEF orderVars, BatchLimit
<1> QED
  BY <1>1 DEF InHeapOrder, Building, Allocating

\* The loop always takes the top of the heap, so the batch grows in the heap's order.
LEMMA NextHeapOrder ==
  ASSUME OwnershipInv, InHeapOrder, [Next]_vars
  PROVE  InHeapOrder'
<1> USE DEF OwnershipInv
<1>0. idx \in Nat /\ request_batch \in Seq(Requests) /\ Len(request_batch) \in Nat
      /\ (pc = "requeue" => idx <= Len(request_batch))
  BY DEF TypeInv, TypeOK, ControlTypes, BatchTypes, LoopBounds
<1>1. CASE Handlers \/ ResponseThread \/ UNCHANGED vars
  BY <1>1, OthersKeepOrder, KeepsHeapOrder
<1>2. CASE DrainRequestQueue \/ RequeueRequest \/ PreemptDestroyed \/ ExecuteModel \/ ProcessToken
  <2>1. /\ request_batch' = request_batch /\ pc' \in {"requeue", "process", "crashed", "idle"}
        /\ BatchLimit' \in Nat /\ BatchLimit \in Nat /\ BatchLimit' <= BatchLimit
    BY <1>0, <1>2 DEF DrainRequestQueue, RequeueRequest, PreemptDestroyed, AllSequencesTried,
       ExecuteModel, ProcessToken, BatchLimit
  <2>2. 1..BatchLimit' \subseteq 1..BatchLimit
    BY <2>1
  <2> QED
    BY <2>1, <2>2 DEF InHeapOrder, Building, Allocating
<1>3. CASE ClearBatch
  <2>1. request_batch' = <<>> /\ pc' = "top"
    BY <1>3 DEF ClearBatch
  <2>2. BatchLimit' = 0
    BY <2>1 DEF BatchLimit
  <2> QED
    BY <2>1, <2>2 DEF InHeapOrder, Building, Allocating
<1>4. CASE PickCandidate
  <2>1. /\ UNCHANGED <<priority_queue, request_batch>> /\ pc = "top"
        /\ \/ pc' \in {"idle", "execute"}
           \/ pc' = "allocate" /\ candidate' \in Tops
    BY <1>4 DEF PickCandidate
  <2>2. BatchLimit' = BatchLimit
    BY <2>1 DEF BatchLimit
  <2> QED
    BY <2>1, <2>2 DEF InHeapOrder, Building, Allocating, Tops
<1>5. CASE ConsiderSequence \/ AllocateSlotsForSequence \/ PreemptLowest
  <2>1. /\ UNCHANGED <<priority_queue, request_batch, candidate>>
        /\ pc \in {"allocate", "slots"} /\ pc' \in {"allocate", "slots"}
    BY <1>5 DEF ConsiderSequence, AllocateSlotsForSequence, PreemptLowest, AllSequencesTried, localVars
  <2>2. BatchLimit' = BatchLimit
    BY <2>1 DEF BatchLimit
  <2> QED
    BY <2>1, <2>2 DEF InHeapOrder, Building, Allocating
<1>6. CASE ScheduleCandidate \/ PartiallySchedule
  <2>1. /\ priority_queue' = priority_queue \ {candidate}
        /\ request_batch' = Append(request_batch, candidate)
        /\ pc = "allocate" /\ pc' \in {"top", "execute"}
    BY <1>6 DEF ScheduleCandidate, PartiallySchedule, AddToBatch, AllSequencesTried
  <2>2. candidate \in priority_queue /\ candidate \in Requests
    BY <2>1 DEF ContainerInv, BatchInv, CandidateWaits, Allocating, TypeInv, LoopBounds
  <2>3. BatchLimit = Len(request_batch) /\ BatchLimit' = Len(request_batch) + 1
    BY <1>0, <2>1, <2>2 DEF BatchLimit
  <2>4. \A k \in 1..BatchLimit' :
           \/ k \in 1..BatchLimit /\ request_batch'[k] = request_batch[k]
           \/ k = BatchLimit' /\ request_batch'[k] = candidate
    BY <1>0, <2>1, <2>2, <2>3
  <2>5. \A k \in 1..BatchLimit : ~ProcessedBefore(candidate, request_batch[k])
    BY <2>1, <2>2 DEF InHeapOrder, Building
  <2>6. \A q \in priority_queue : ~ProcessedBefore(q, candidate)
    BY <2>1 DEF InHeapOrder, Allocating
  <2>7. \A i, j \in 1..BatchLimit' : i < j => ~ProcessedBefore(request_batch'[j], request_batch'[i])
    <3> SUFFICES ASSUME NEW i \in 1..BatchLimit', NEW j \in 1..BatchLimit', i < j
                 PROVE  ~ProcessedBefore(request_batch'[j], request_batch'[i])
      OBVIOUS
    <3>1. i \in 1..BatchLimit /\ request_batch'[i] = request_batch[i]
      BY <1>0, <2>3, <2>4
    <3> QED
      BY <2>4, <2>5, <3>1 DEF InHeapOrder
  <2>8. \A k \in 1..BatchLimit' : \A q \in priority_queue' : ~ProcessedBefore(q, request_batch'[k])
    BY <2>1, <2>4, <2>6 DEF InHeapOrder, Building
  <2> QED
    BY <2>1, <2>7, <2>8 DEF InHeapOrder, Allocating, ProcessedBefore
<1>7. CASE GiveUp
  <2>1. /\ priority_queue' \subseteq priority_queue /\ request_batch' = request_batch
        /\ pc = "allocate" /\ pc' \in {"idle", "execute"}
    BY <1>7 DEF GiveUp, AllSequencesTried
  <2>2. BatchLimit' = BatchLimit
    BY <2>1 DEF BatchLimit
  <2> QED
    BY <2>1, <2>2 DEF InHeapOrder, Building, Allocating
<1> QED
  BY <1>1, <1>2, <1>3, <1>4, <1>5, <1>6, <1>7 DEF Next, Stopped, MainThread, BuildSequenceBatch

LEMMA HeapOrderHolds == Spec => []InHeapOrder
<1>1. Init => InHeapOrder
  BY DEF Init, InHeapOrder, BatchLimit, Building, Allocating
<1> QED
  BY <1>1, NextHeapOrder, OwnershipHolds, PTL DEF Spec

\* Each batch is in priority order and no request left waiting comes before one that
\* runs, for any priorities and creation times (RequestPtrLess, priority_queue_).
THEOREM BatchFollowsPriority == Spec => []BatchInPriorityOrder
<1>1. OwnershipInv /\ InHeapOrder => BatchInPriorityOrder
  <2> SUFFICES ASSUME OwnershipInv, InHeapOrder, pc = "execute"
               PROVE  /\ \A i, j \in DOMAIN request_batch : i < j =>
                           ~ProcessedBefore(request_batch[j], request_batch[i])
                      /\ \A r \in ToSet(request_batch), q \in priority_queue : ~ProcessedBefore(q, r)
    BY DEF BatchInPriorityOrder
  <2>1. DOMAIN request_batch = 1..BatchLimit
    BY DEF BatchLimit, OwnershipInv, TypeInv, TypeOK, BatchTypes
  <2>2. \A r \in ToSet(request_batch) : \E k \in 1..BatchLimit : request_batch[k] = r
    BY <2>1 DEF ToSet
  <2> QED
    BY <2>1, <2>2 DEF InHeapOrder, Building
<1> QED
  BY <1>1, HeapOrderHolds, OwnershipHolds, PTL

-----------------------------------------------------------------------------
(* Preemption *)

\* An element at the front of a sequence.
LEMMA PrependFacts ==
  ASSUME NEW S, NEW q \in Seq(S), NEW x \in S
  PROVE  \A i \in DOMAIN (<<x>> \o q) :
           \/ i = 1 /\ (<<x>> \o q)[i] = x
           \/ i - 1 \in DOMAIN q /\ (<<x>> \o q)[i] = q[i - 1] /\ i > 1
<1>1. <<x>> \in Seq(S) /\ Len(<<x>>) = 1 /\ <<x>>[1] = x
  OBVIOUS
<1>2. <<x>> \o q \in Seq(S) /\ Len(<<x>> \o q) = Len(q) + 1 /\ Len(q) \in Nat
  BY <1>1
<1>3. \A i \in 1..Len(q) + 1 : (<<x>> \o q)[i] = IF i = 1 THEN x ELSE q[i - 1]
  BY <1>1, <1>2
<1> QED
  BY <1>2, <1>3

\* A prefix of a sequence.
LEMMA PrefixFacts ==
  ASSUME NEW S, NEW q \in Seq(S), NEW m \in 0..Len(q)
  PROVE  /\ SubSeq(q, 1, m) \in Seq(S) /\ Len(SubSeq(q, 1, m)) = m
         /\ \A i \in 1..m : SubSeq(q, 1, m)[i] = q[i]
<1>1. Len(q) \in Nat /\ m \in Int /\ 1 \in Int /\ m - 1 + 1 = m
  OBVIOUS
<1>2. \A i \in 1..m : q[i] \in S
  BY <1>1
<1>3. /\ SubSeq(q, 1, m) \in Seq(S)
      /\ Len(SubSeq(q, 1, m)) = IF 1 <= m THEN m - 1 + 1 ELSE 0
      /\ \A i \in 1..m - 1 + 1 : SubSeq(q, 1, m)[i] = q[1 + i - 1]
  BY <1>1, <1>2, SubSeqProperties
<1>4. \A i \in 1..m : 1 + i - 1 = i
  BY <1>1
<1>5. Len(SubSeq(q, 1, m)) = m
  BY <1>1, <1>3
<1> QED
  BY <1>1, <1>3, <1>4, <1>5

\* The last element of a sequence, and what is left without it.
LEMMA FrontFacts ==
  ASSUME NEW S, NEW q \in Seq(S), q # <<>>
  PROVE  /\ Len(q) \in DOMAIN q /\ Last(q) = q[Len(q)] /\ Last(q) \in S
         /\ Front(q) \in Seq(S)
         /\ \A i \in DOMAIN Front(q) : i \in DOMAIN q /\ Front(q)[i] = q[i]
<1>1. Len(q) \in Nat /\ Len(q) > 0 /\ Len(q) - 1 \in 0..Len(q)
  OBVIOUS
<1>2. Last(q) = q[Len(q)] /\ Front(q) = SubSeq(q, 1, Len(q) - 1)
  BY DEF Last, Front
<1>3. SubSeq(q, 1, Len(q) - 1) \in Seq(S) /\ Len(SubSeq(q, 1, Len(q) - 1)) = Len(q) - 1
      /\ \A i \in 1..Len(q) - 1 : SubSeq(q, 1, Len(q) - 1)[i] = q[i]
  BY <1>1, PrefixFacts
<1> QED
  BY <1>1, <1>2, <1>3

\* The first preemptable request has the key of every candidate that is listed
\* behind it: the heap and the list are in the same order.
LEMMA ListedCandidate ==
  ASSUME TypeInv, InHeapOrder, ListSound, Allocating,
         NEW i \in DOMAIN preemptable_candidates, preemptable_candidates[i] = candidate, i # 1
  PROVE  Overtakes
<1> DEFINE first == preemptable_candidates[1]
<1>1. 1 \in DOMAIN preemptable_candidates /\ 1 < i /\ preemptable_candidates # <<>>
      /\ first \in Requests /\ candidate \in Requests /\ preemptable_candidates \in Seq(Requests)
  BY DEF TypeInv, TypeOK, BatchTypes
<1>2. first # candidate /\ ~ProcessedBefore(candidate, first)
  BY <1>1 DEF ListSound
<1>3. first \in priority_queue
  BY <1>1 DEF ListSound, Preempting, Allocating
<1>4. ~ProcessedBefore(first, candidate)
  BY <1>3 DEF InHeapOrder
<1>5. Head(preemptable_candidates) = first
  BY <1>1, TailFacts
<1>6. candidate \in ToSet(preemptable_candidates)
  BY DEF ToSet
<1> HIDE DEF first
<1>7. SameKey(candidate, first)
  BY <1>1, <1>2, <1>4, NeitherBefore
<1> QED
  BY <1>2, <1>5, <1>6, <1>7 DEF Overtakes

LEMMA NextPreemptable ==
  ASSUME OwnershipInv, InHeapOrder, PreemptableInv, [Next]_vars
  PROVE  PreemptableInv'
<1> USE DEF OwnershipInv
<1> DEFINE list == preemptable_candidates
<1>0. list \in Seq(Requests) /\ idx \in Nat /\ request_batch \in Seq(Requests)
  BY DEF TypeInv, TypeOK, ControlTypes, BatchTypes
<1>1. CASE Handlers \/ ResponseThread \/ UNCHANGED vars
  <2>1. UNCHANGED <<pc, idx, priority_queue, request_batch, preemptable_candidates, overtaken>>
    BY <1>1, OthersKeepOrder DEF orderVars
  <2> QED
    BY <2>1 DEF PreemptableInv, ListSound, Preempting
<1>2. ASSUME preemptable_candidates' = <<>> PROVE ListSound'
  <2>1. DOMAIN preemptable_candidates' = {}
    BY <1>2
  <2> QED
    BY <1>2, <2>1 DEF ListSound
<1>3. CASE DrainRequestQueue
  <2>1. /\ preemptable_candidates' = list /\ pc = "idle"
        /\ overtaken' = (overtaken /\ list # <<>>)
    BY <1>3 DEF DrainRequestQueue
  <2>2. CASE list = <<>>
    BY <1>2, <2>1, <2>2 DEF PreemptableInv
  <2>3. CASE list # <<>>
    BY <2>1, <2>3 DEF PreemptableInv, ListSound, Preempting
  <2> QED
    BY <2>2, <2>3
<1>4. ASSUME ~overtaken, ListSound, Next, ~(Handlers \/ ResponseThread \/ Stopped \/ DrainRequestQueue)
      PROVE  overtaken' \/ ListSound'
  <2>1. CASE ExecuteModel \/ ProcessToken
    <3>1. preemptable_candidates' = preemptable_candidates /\ pc \in {"execute", "process"}
      BY <2>1 DEF ExecuteModel, ProcessToken
    <3> QED
      BY <1>2, <1>4, <3>1 DEF ListSound, Preempting
  <2>2. CASE RequeueRequest
    <3> DEFINE r == request_batch[idx]
    <3>1. /\ pc = "requeue" /\ pc' = "requeue" /\ idx' = idx - 1 /\ request_batch' = request_batch
          /\ idx \in 1..Len(request_batch) /\ r \in Requests
          /\ \/ preemptable_candidates' = <<r>> \o list /\ priority_queue' = priority_queue \cup {r}
             \/ UNCHANGED <<preemptable_candidates, priority_queue>>
      BY <1>0, <2>2 DEF RequeueRequest, Requeue, TypeInv, LoopBounds
    <3>2. 1..idx - 1 \subseteq 1..idx /\ idx \in 1..idx
      BY <1>0, <3>1
    <3>3. CASE UNCHANGED <<preemptable_candidates, priority_queue>>
      BY <1>4, <3>1, <3>2, <3>3 DEF ListSound, Preempting
    <3>4. CASE preemptable_candidates' = <<r>> \o list /\ priority_queue' = priority_queue \cup {r}
      <4>1. \A i \in DOMAIN list : ~ProcessedBefore(list[i], r) /\ list[i] # r
        <5>1. BatchLimit = idx
          BY <3>1 DEF BatchLimit
        <5> QED
          BY <1>4, <3>1, <3>2, <5>1 DEF ListSound, Preempting, ContainerInv, Ownership, InOneContainer
      <4>2. \A k \in 1..idx - 1 : ~ProcessedBefore(r, request_batch[k])
        <5> SUFFICES ASSUME NEW k \in 1..idx - 1 PROVE ~ProcessedBefore(r, request_batch[k])
          OBVIOUS
        <5>1. BatchLimit = idx /\ k \in 1..idx /\ k < idx
          BY <1>0, <3>1 DEF BatchLimit
        <5> QED
          BY <3>2, <5>1 DEF InHeapOrder
      <4>3. \A i \in DOMAIN preemptable_candidates' :
               \/ i = 1 /\ preemptable_candidates'[i] = r
               \/ i - 1 \in DOMAIN list /\ preemptable_candidates'[i] = list[i - 1] /\ i > 1
        <5> HIDE DEF r
        <5> QED
          BY <1>0, <3>1, <3>4, PrependFacts
      <4>4. \A i \in DOMAIN preemptable_candidates' : i \in Nat
        <5> HIDE DEF r
        <5>1. <<r>> \in Seq(Requests)
          BY <3>1
        <5>2. preemptable_candidates' \in Seq(Requests)
          BY <1>0, <3>4, <5>1
        <5> QED
          BY <5>2
      <4>5. \A i, j \in DOMAIN preemptable_candidates' : i < j =>
               /\ preemptable_candidates'[i] # preemptable_candidates'[j]
               /\ ~ProcessedBefore(preemptable_candidates'[j], preemptable_candidates'[i])
        <5> SUFFICES ASSUME NEW i \in DOMAIN preemptable_candidates',
                            NEW j \in DOMAIN preemptable_candidates', i < j
                     PROVE  /\ preemptable_candidates'[i] # preemptable_candidates'[j]
                            /\ ~ProcessedBefore(preemptable_candidates'[j], preemptable_candidates'[i])
          OBVIOUS
        <5>1. i \in Nat /\ j \in Nat /\ j # 1
          BY <4>3, <4>4
        <5>2. j - 1 \in DOMAIN list /\ preemptable_candidates'[j] = list[j - 1]
          BY <4>3, <5>1
        <5>3. CASE i = 1
          BY <4>1, <4>3, <5>2, <5>3
        <5>4. CASE i # 1
          <6>1. i - 1 \in DOMAIN list /\ preemptable_candidates'[i] = list[i - 1] /\ i - 1 < j - 1
            BY <4>3, <5>1, <5>4
          <6> QED
            BY <1>4, <5>2, <6>1 DEF ListSound
        <5> QED
          BY <5>3, <5>4
      <4>6. \A i \in DOMAIN preemptable_candidates' : preemptable_candidates'[i] \in priority_queue'
        BY <1>4, <3>1, <3>4, <4>3 DEF ListSound, Preempting
      <4>7. \A k \in 1..idx - 1 : \A i \in DOMAIN preemptable_candidates' :
               ~ProcessedBefore(preemptable_candidates'[i], request_batch[k])
        BY <1>4, <3>1, <3>2, <4>2, <4>3 DEF ListSound
      <4> QED
        BY <3>1, <4>5, <4>6, <4>7 DEF ListSound, Preempting, ProcessedBefore
    <3> QED
      BY <3>1, <3>3, <3>4
  <2>3. CASE ClearBatch \/ ConsiderSequence \/ AllocateSlotsForSequence
    <3>1. /\ UNCHANGED <<preemptable_candidates, priority_queue>>
          /\ pc \in {"requeue", "allocate", "slots"} /\ pc' \in {"top", "allocate", "slots"}
      BY <2>3 DEF ClearBatch, ConsiderSequence, AllocateSlotsForSequence
    <3> QED
      BY <1>4, <3>1 DEF ListSound, Preempting
  <2>4. CASE PickCandidate
    <3>1. UNCHANGED <<preemptable_candidates, priority_queue>> /\ pc = "top"
      BY <2>4 DEF PickCandidate
    <3>2. CASE pc' = "allocate"
      BY <1>4, <3>1, <3>2 DEF ListSound, Preempting
    <3>3. CASE priority_queue = {}
      <4>1. DOMAIN list = {}
        BY <1>4, <3>1, <3>3 DEF ListSound, Preempting
      <4>2. preemptable_candidates' = <<>>
        BY <1>0, <3>1, <4>1
      <4> QED
        BY <1>2, <4>2
    <3> QED
      BY <2>4, <3>2, <3>3 DEF PickCandidate
  <2>5. CASE ScheduleCandidate
    <3> SUFFICES ASSUME ~Overtakes PROVE ListSound'
      BY <2>5 DEF ScheduleCandidate
    <3>1. /\ preemptable_candidates' = NoLongerPreemptable
          /\ priority_queue' = priority_queue \ {candidate}
          /\ pc = "allocate" /\ pc' = "top"
      BY <2>5 DEF ScheduleCandidate, AllSequencesTried, AddToBatch
    <3>2. \A i \in DOMAIN list : list[i] = candidate => i = 1
      BY <1>4, <3>1, ListedCandidate DEF Allocating
    <3>3. CASE list # <<>> /\ candidate = Head(list)
      <4>1. preemptable_candidates' = Tail(list)
        BY <3>1, <3>3 DEF NoLongerPreemptable
      <4>2. \A i \in DOMAIN preemptable_candidates' :
               i + 1 \in DOMAIN list /\ i + 1 # 1 /\ preemptable_candidates'[i] = list[i + 1]
        BY <1>0, <3>3, <4>1, TailFacts
      <4>3. \A i \in DOMAIN preemptable_candidates' : i \in Int
        BY <1>0, <3>3, <4>1
      <4>4. \A i, j \in DOMAIN preemptable_candidates' : i < j => i + 1 < j + 1
        BY <4>3
      <4>5. \A i, j \in DOMAIN preemptable_candidates' : i < j =>
               /\ preemptable_candidates'[i] # preemptable_candidates'[j]
               /\ ~ProcessedBefore(preemptable_candidates'[j], preemptable_candidates'[i])
        BY <1>4, <4>2, <4>4 DEF ListSound
      <4>6. \A i \in DOMAIN preemptable_candidates' : preemptable_candidates'[i] \in priority_queue'
        BY <1>4, <3>1, <3>2, <4>2 DEF ListSound, Preempting
      <4> QED
        BY <3>1, <4>5, <4>6 DEF ListSound, Preempting, ProcessedBefore
    <3>4. CASE ~(list # <<>> /\ candidate = Head(list))
      <4>1. preemptable_candidates' = list
        BY <3>1, <3>4 DEF NoLongerPreemptable
      <4>2. \A i \in DOMAIN list : list[i] # candidate
        <5> SUFFICES ASSUME NEW i \in DOMAIN list, list[i] = candidate PROVE FALSE
          OBVIOUS
        <5>1. i = 1 /\ list # <<>>
          BY <1>0, <3>2
        <5>2. Head(list) = list[1]
          BY <1>0, <5>1, TailFacts
        <5> QED
          BY <3>4, <5>1, <5>2
      <4> QED
        BY <1>4, <3>1, <4>1, <4>2 DEF ListSound, Preempting
    <3> QED
      BY <3>3, <3>4
  <2>6. CASE PreemptLowest
    <3>1. /\ list # <<>> /\ preemptable_candidates' = Front(list)
          /\ priority_queue' = priority_queue /\ pc = "allocate" /\ pc' = "allocate"
      BY <2>6 DEF PreemptLowest, AllSequencesTried
    <3>2. \A i \in DOMAIN preemptable_candidates' : i \in DOMAIN list /\ preemptable_candidates'[i] = list[i]
      BY <1>0, <3>1, FrontFacts
    <3> QED
      BY <1>4, <3>1, <3>2 DEF ListSound, Preempting
  <2>7. CASE PreemptDestroyed
    <3>1. list # <<>> /\ owner[Last(list)] = "nobody" /\ Preempting
      BY <2>7 DEF PreemptDestroyed, AllSequencesTried, Preempting
    <3>2. Last(list) \in priority_queue
      BY <1>0, <1>4, <3>1, FrontFacts DEF ListSound
    <3>3. owner[Last(list)] = "scheduler"
      BY <3>2 DEF ContainerInv, Ownership, OwnedByScheduler
    <3> QED
      BY <3>1, <3>3
  <2>8. CASE PartiallySchedule \/ GiveUp
    <3>1. preemptable_candidates' = <<>>
      BY <2>8 DEF PartiallySchedule, GiveUp
    <3> QED
      BY <1>2, <3>1
  <2> QED
    BY <1>4, <2>1, <2>2, <2>3, <2>4, <2>5, <2>6, <2>7, <2>8 DEF Next, MainThread, BuildSequenceBatch
<1>5. CASE MainThread /\ ~DrainRequestQueue /\ overtaken
  <2>1. overtaken'
    BY <1>5 DEF MainThread, BuildSequenceBatch, RequeueRequest, ClearBatch, PickCandidate,
       ConsiderSequence, AllocateSlotsForSequence, ScheduleCandidate, PreemptLowest, PreemptDestroyed,
       PartiallySchedule, GiveUp, ExecuteModel, ProcessToken
  <2> QED
    BY <2>1 DEF PreemptableInv
<1> QED
  BY <1>1, <1>3, <1>4, <1>5 DEF PreemptableInv, Next, Stopped

LEMMA PreemptableHolds == Spec => []PreemptableInv
<1>1. Init => PreemptableInv
  BY DEF Init, PreemptableInv, ListSound, Preempting
<1>2. OwnershipInv /\ InHeapOrder /\ PreemptableInv /\ [Next]_vars => PreemptableInv'
  BY NextPreemptable
<1> QED
  BY <1>1, <1>2, HeapOrderHolds, OwnershipHolds, PTL DEF Spec

\* preemptable_candidates_ is "sorted by priority from high to low", holds only
\* requests that still wait, each once, and is empty when the batch runs
\* (build_sequence_batch).  For any priorities and creation times, equal ones
\* included, one event alone can end this: a request of the list that the heap
\* hands out before the first of the list, which has the same key.
THEOREM PreemptableIsSound == Spec => []PreemptableSound
<1>1. PreemptableInv => PreemptableSound
  BY DEF PreemptableInv, ListSound, PreemptableSound, Preempting, ToSet
<1> QED
  BY <1>1, PreemptableHolds, PTL

\* Nothing in request_queue_, priority_queue_ or the batch and no queued task points
\* to a request that was handed over for destruction or destroyed, for any
\* priorities and creation times; preemptable_candidates_ does only after a request
\* of the list has overtaken one of its key (on_request_finish, on_sequence_stream).
THEOREM NoPointerDangles == Spec => []NoDanglingPointer
<1>1. OwnershipInv /\ PreemptableInv => NoDanglingPointer
  <2> SUFFICES ASSUME OwnershipInv, PreemptableInv PROVE NoDanglingPointer
    OBVIOUS
  <2> USE DEF OwnershipInv
  <2>1. \A r \in priority_queue \cup ToSet(request_queue) : owner[r] = "scheduler"
    BY DEF ContainerInv, Ownership, OwnedByScheduler, ToSet
  <2>2. overtaken \/ \A r \in ToSet(preemptable_candidates) : owner[r] = "scheduler"
    <3> SUFFICES ASSUME ~overtaken PROVE \A r \in ToSet(preemptable_candidates) : owner[r] = "scheduler"
      OBVIOUS
    <3>1. CASE Preempting
      BY <2>1, <3>1 DEF PreemptableInv, ListSound, ToSet
    <3>2. CASE ~Preempting
      <4>1. DOMAIN preemptable_candidates = {}
        BY <3>2 DEF PreemptableInv, ListSound
      <4> QED
        BY <4>1 DEF ToSet
    <3> QED
      BY <3>1, <3>2
  <2>3. \A r \in Reachable : owner[r] = "scheduler"
    <3> DEFINE held == IF pc = "requeue" THEN SubSeq(request_batch, 1, idx) ELSE request_batch
    <3>1. \A i \in DOMAIN held : i \in 1..BatchLimit /\ held[i] = request_batch[i]
      <4>1. request_batch \in Seq(Requests) /\ idx \in Nat /\ Len(request_batch) \in Nat
            /\ (pc = "requeue" => idx <= Len(request_batch))
        BY DEF TypeInv, TypeOK, BatchTypes, ControlTypes, LoopBounds
      <4>2. CASE pc = "requeue"
        <5>1. idx \in 0..Len(request_batch) /\ BatchLimit = idx
          BY <4>1, <4>2 DEF BatchLimit
        <5>2. /\ SubSeq(request_batch, 1, idx) \in Seq(Requests) /\ Len(SubSeq(request_batch, 1, idx)) = idx
              /\ \A i \in 1..idx : SubSeq(request_batch, 1, idx)[i] = request_batch[i]
          BY <4>1, <5>1, PrefixFacts
        <5>3. held = SubSeq(request_batch, 1, idx)
          BY <4>2
        <5> QED
          BY <5>1, <5>2, <5>3
      <4>3. CASE pc # "requeue"
        BY <4>1, <4>3 DEF BatchLimit
      <4> QED
        BY <4>2, <4>3
    <3>2. Reachable = priority_queue \cup ToSet(request_queue) \cup ToSet(held)
      BY DEF Reachable
    <3> HIDE DEF held
    <3>3. \A r \in ToSet(held) : owner[r] = "scheduler"
      BY <3>1 DEF ContainerInv, Ownership, OwnedByScheduler, ToSet
    <3> QED
      BY <2>1, <3>2, <3>3
  <2> QED
    BY <2>2, <2>3 DEF TaskInv, TasksOwned, NoDanglingPointer
<1> QED
  BY <1>1, PreemptableHolds, OwnershipHolds, PTL

\* Only a request that the candidate need not let pass and that was not scheduled
\* in this build loses its blocks while the scheduler keeps it, for any priorities
\* and creation times, unless a request of the list has overtaken one of its key
\* (release_slots_for_request in build_sequence_batch).
THEOREM PreemptionTakesFromLower == Spec => PreemptsOnlyLower
<1>1. ASSUME OwnershipInv, InHeapOrder, PreemptableInv, [Next]_vars, NEW r \in Requests,
             HoldsBlocks(r), ~HoldsBlocks(r)', owner'[r] = "scheduler", ~overtaken
      PROVE  /\ r # candidate /\ ~ProcessedBefore(r, candidate)
             /\ r \notin ToSet(request_batch)
  <2> USE DEF OwnershipInv
  <2>1. PICK s \in SequencesOf(r) : blocks[s] # <<>> /\ blocks'[s] = <<>>
    BY <1>1 DEF HoldsBlocks
  <2>2. s \in AllSequences /\ s[1] = r
    BY SequenceFacts DEF SequencesOf
  <2>3. blocks' # blocks
    BY <2>1
  <2>4. ASSUME NEW q \in Requests, OnRequestFinish(q) PROVE FALSE
    <3>1. owner' = [owner EXCEPT ![q] = "response"] /\ owner \in [Requests -> Owner]
          /\ ReleaseSlotsForRequest(q)
      BY <1>1, <2>4 DEF OnRequestFinish, TypeInv, TypeOK, QueueTypes
    <3>2. s[1] = q
      BY <1>1, <2>1, <2>2, <3>1, ReleaseEmpties
    <3> QED
      BY <1>1, <2>2, <3>1, <3>2
  <2>5. CASE RequeueRequest
    <3>1. OnRequestFinish(request_batch[idx])
      BY <2>3, <2>5 DEF RequeueRequest, memVars
    <3>2. request_batch[idx] \in Requests
      BY <1>1, <2>5 DEF RequeueRequest, TypeInv, TypeOK, LoopBounds, BatchTypes, ControlTypes
    <3> QED
      BY <2>4, <3>1, <3>2
  <2>6. CASE GiveUp
    <3>1. OnRequestFinish(candidate)
      BY <2>3, <2>6 DEF GiveUp, memVars
    <3>2. candidate \in Requests
      BY <1>1, <2>6 DEF GiveUp, AllSequencesTried, TypeInv, LoopBounds
    <3> QED
      BY <2>4, <3>1, <3>2
  <2>7. CASE AllocateSlotsForSequence
    <3> DEFINE a == <<candidate, idx>>
    <3>1. Pool!Allocate(a, NumBlocksToAllocate(a))
      BY <2>3, <2>7 DEF AllocateSlotsForSequence
    <3>2. a \in AllSequences
      <4>1. candidate \in Requests /\ idx \in Nat /\ idx >= 1 /\ idx <= NumSeqs[candidate]
        BY <1>1, <2>7 DEF AllocateSlotsForSequence, TypeInv, LoopBounds, TypeOK, ControlTypes
      <4>2. NumSeqs[candidate] \in Nat
        BY <4>1, SchedulerAssumption
      <4> QED
        BY <4>1, <4>2, SequenceFacts
    <3>3. NumBlocksToAllocate(a) \in Nat
      BY <1>1, <3>2, BlocksToAllocateType
    <3>4. PICK new \in Pool!Injection(1..NumBlocksToAllocate(a), free) :
            blocks' = [blocks EXCEPT ![a] = @ \o new]
      BY <3>1 DEF Pool!Allocate
    <3>5. new \in Seq(free) /\ blocks \in [AllSequences -> Seq(BlockIds)] /\ free \subseteq BlockIds
      <4>1. new \in [1..NumBlocksToAllocate(a) -> free]
        BY DEF Pool!Injection
      <4>2. new \in Seq(free)
        BY <3>3, <4>1
      <4> QED
        BY <1>1, <4>2 DEF TypeInv, TypeOK, PoolTypes
    <3> HIDE DEF a
    <3>6. blocks[a] \in Seq(BlockIds) /\ new \in Seq(BlockIds)
      BY <3>2, <3>5
    <3>7. blocks[a] # <<>> => blocks[a] \o new # <<>>
      <4>1. blocks[a] # <<>> => Len(blocks[a]) > 0
        BY <3>6
      <4>2. Len(blocks[a] \o new) = Len(blocks[a]) + Len(new) /\ Len(new) \in Nat /\ Len(blocks[a]) \in Nat
        BY <3>6
      <4>3. Len(blocks[a]) > 0 => Len(blocks[a] \o new) # 0
        BY <4>2
      <4> QED
        BY <4>1, <4>3
    <3>8. blocks'[s] = IF s = a THEN blocks[a] \o new ELSE blocks[s]
      BY <2>2, <3>2, <3>4, <3>5
    <3> QED
      BY <2>1, <3>7, <3>8
  <2>8. CASE PreemptLowest
    <3> DEFINE v == Last(preemptable_candidates)
    <3>1. /\ preemptable_candidates # <<>> /\ preemptable_candidates \in Seq(Requests)
          /\ v # candidate /\ ReleaseSlotsForRequest(v)
          /\ Allocating /\ Preempting /\ BatchLimit = Len(request_batch)
      BY <1>1, <2>3, <2>8 DEF PreemptLowest, AllSequencesTried, memVars, TypeInv, TypeOK, BatchTypes,
         Allocating, Preempting, BatchLimit
    <3>2. v \in Requests /\ v \in priority_queue
      BY <1>1, <3>1, FrontFacts DEF PreemptableInv, ListSound
    <3>3. r = v
      BY <1>1, <2>1, <2>2, <3>1, <3>2, ReleaseEmpties
    <3>4. candidate \in Requests /\ ~ProcessedBefore(v, candidate)
      BY <1>1, <3>1, <3>2 DEF InHeapOrder, TypeInv, LoopBounds, Allocating
    <3>5. \A k \in DOMAIN request_batch : request_batch[k] # v
      <4>1. DOMAIN request_batch = 1..BatchLimit
        BY <1>1, <3>1 DEF TypeInv, TypeOK, BatchTypes
      <4> QED
        BY <1>1, <3>2, <4>1 DEF ContainerInv, Ownership, InOneContainer
    <3> QED
      BY <3>1, <3>3, <3>4, <3>5 DEF ToSet
  <2> QED
    BY <1>1, <2>3, <2>5, <2>6, <2>7, <2>8 DEF Next, Stopped, Handlers, MainThread, BuildSequenceBatch, ResponseThread,
       Schedule, ClientFails, DrainRequestQueue, ClearBatch, PickCandidate, ConsiderSequence,
       ScheduleCandidate, PreemptDestroyed, PartiallySchedule, ExecuteModel, ProcessToken, DecodeDelta,
       StreamDelta, RunFinishTask, vars, memVars
<1>2. OwnershipInv /\ InHeapOrder /\ PreemptableInv /\ [Next]_vars =>
        [\A r \in Requests : HoldsBlocks(r) /\ ~HoldsBlocks(r)' /\ owner'[r] = "scheduler" =>
            \/ overtaken
            \/ /\ r # candidate /\ ~ProcessedBefore(r, candidate)
               /\ r \notin ToSet(request_batch)]_vars
  BY <1>1
<1> QED
  BY <1>2, OwnershipHolds, HeapOrderHolds, PreemptableHolds, PTL DEF Spec, PreemptsOnlyLower

-----------------------------------------------------------------------------
(* How many blocks a sequence needs *)

\* A product with a positive number keeps a strict order, by at least that number.
LEMMA ProductGap ==
  ASSUME NEW y \in Nat, y > 0, NEW a \in Int, NEW b \in Int, a < b
  PROVE  y * a + y <= y * b /\ y * a \in Int /\ y * b \in Int
<1>1. PICK d \in Nat : b = a + 1 + d
  <2>1. b - a - 1 \in Nat /\ b = a + 1 + (b - a - 1)
    OBVIOUS
  <2> QED
    BY <2>1
<1>2. y * b = y * a + y + y * d /\ y * d \in Nat /\ y * a \in Int
  BY <1>1
<1> QED
  BY <1>2

\* Quotient and remainder are unique.
LEMMA DivUnique ==
  ASSUME NEW y \in Nat, y > 0, NEW a \in Int, NEW b \in Int, NEW u \in 0..y - 1, NEW v \in 0..y - 1,
         y * a + u = y * b + v
  PROVE  a = b /\ u = v
<1>1. ASSUME a < b PROVE FALSE
  <2>1. y * a + y <= y * b /\ y * a \in Int /\ y * b \in Int
    BY <1>1, ProductGap
  <2> QED
    BY <2>1
<1>2. ASSUME b < a PROVE FALSE
  <2>1. y * b + y <= y * a /\ y * a \in Int /\ y * b \in Int
    BY <1>2, ProductGap
  <2> QED
    BY <2>1
<1>3. a = b
  BY <1>1, <1>2
<1> QED
  BY <1>3

LEMMA DivFacts ==
  ASSUME NEW y \in Nat, y > 0, NEW x \in Nat
  PROVE  /\ x \div y \in Nat /\ x % y \in 0..y - 1
         /\ x = y * (x \div y) + (x % y)
<1>1. x \div y \in Int /\ x % y \in 0..y - 1 /\ x = y * (x \div y) + (x % y)
  OBVIOUS
<1>2. ASSUME x \div y < 0 PROVE FALSE
  <2>1. y * (x \div y) + y <= y * 0 /\ y * (x \div y) \in Int /\ y * 0 = 0
    BY <1>1, <1>2, ProductGap
  <2> QED
    BY <1>1, <2>1
<1> QED
  BY <1>1, <1>2

\* Division is monotone.
LEMMA DivMonotone ==
  ASSUME NEW y \in Nat, y > 0, NEW x \in Nat, NEW z \in Nat, x <= z
  PROVE  x \div y <= z \div y
<1>1. /\ x \div y \in Nat /\ x % y \in 0..y - 1 /\ x = y * (x \div y) + (x % y)
      /\ z \div y \in Nat /\ z % y \in 0..y - 1 /\ z = y * (z \div y) + (z % y)
  BY DivFacts
<1>2. ASSUME z \div y < x \div y PROVE FALSE
  <2>1. y * (z \div y) + y <= y * (x \div y) /\ y * (z \div y) \in Int /\ y * (x \div y) \in Int
    BY <1>1, <1>2, ProductGap
  <2> QED
    BY <1>1, <2>1
<1> QED
  BY <1>1, <1>2

\* The blocks for n tokens: those before the block of the last token, and that one.
LEMMA BlocksNeededFacts ==
  ASSUME NEW n \in Nat
  PROVE  /\ BlocksNeeded(n) \in Nat
         /\ n > 0 => BlocksNeeded(n) = ((n - 1) \div BlockSize) + 1
         /\ BlocksNeeded(0) = 0
<1>0. BlockSize \in Nat /\ BlockSize > 0
  BY SchedulerAssumption
<1>1. n + BlockSize - 1 \in Nat
  BY <1>0
<1>2. BlocksNeeded(n) \in Nat
  BY <1>0, <1>1, DivFacts DEF BlocksNeeded
<1>3. ASSUME n > 0 PROVE BlocksNeeded(n) = ((n - 1) \div BlockSize) + 1
  <2> DEFINE a == (n - 1) \div BlockSize
             u == (n - 1) % BlockSize
             b == (n + BlockSize - 1) \div BlockSize
             v == (n + BlockSize - 1) % BlockSize
  <2>1. n - 1 \in Nat
    BY <1>3
  <2>2. a \in Nat /\ u \in 0..BlockSize - 1 /\ n - 1 = BlockSize * a + u
    BY <1>0, <2>1, DivFacts
  <2>3. b \in Nat /\ v \in 0..BlockSize - 1 /\ n + BlockSize - 1 = BlockSize * b + v
    BY <1>0, <1>1, DivFacts
  <2>4. BlocksNeeded(n) = b
    BY DEF BlocksNeeded
  <2> HIDE DEF a, u, b, v
  <2>5. BlockSize * (a + 1) = BlockSize * a + BlockSize /\ BlockSize * a \in Int /\ BlockSize * b \in Int
    BY <1>0, <2>2, <2>3
  <2>6. BlockSize * (a + 1) + u = BlockSize * b + v
    BY <1>0, <2>2, <2>3, <2>5
  <2>7. a + 1 = b
    BY <1>0, <2>2, <2>3, <2>6, DivUnique
  <2> QED
    BY <2>4, <2>7 DEF a
<1>4. BlocksNeeded(0) = 0
  <2> DEFINE b == (BlockSize - 1) \div BlockSize
             v == (BlockSize - 1) % BlockSize
  <2>1. BlockSize - 1 \in Nat /\ BlockSize - 1 \in 0..BlockSize - 1 /\ 0 + BlockSize - 1 = BlockSize - 1
    BY <1>0
  <2>2. b \in Nat /\ v \in 0..BlockSize - 1 /\ BlockSize - 1 = BlockSize * b + v
    BY <1>0, <2>1, DivFacts
  <2>3. BlocksNeeded(0) = b
    BY <2>1 DEF BlocksNeeded
  <2> HIDE DEF b, v
  <2>4. BlockSize * 0 + (BlockSize - 1) = BlockSize * b + v
    BY <1>0, <2>2
  <2>5. 0 = b
    BY <1>0, <2>1, <2>2, <2>4, DivUnique
  <2> QED
    BY <2>3, <2>5
<1> QED
  BY <1>2, <1>3, <1>4

LEMMA BlocksNeededGrows ==
  ASSUME NEW n \in Nat
  PROVE  BlocksNeeded(n) <= BlocksNeeded(n + 1)
<1>0. BlockSize \in Nat /\ BlockSize > 0 /\ n + 1 \in Nat /\ (n + 1) - 1 = n
  BY SchedulerAssumption
<1>1. BlocksNeeded(n + 1) = (n \div BlockSize) + 1 /\ BlocksNeeded(n + 1) \in Nat /\ n \div BlockSize \in Nat
  BY <1>0, BlocksNeededFacts, DivFacts
<1>2. CASE n = 0
  BY <1>1, <1>2, BlocksNeededFacts
<1>3. CASE n > 0
  <2>1. n - 1 \in Nat /\ n - 1 <= n
    BY <1>3
  <2>2. (n - 1) \div BlockSize <= n \div BlockSize /\ (n - 1) \div BlockSize \in Nat
    BY <1>0, <2>1, DivMonotone, DivFacts
  <2>3. BlocksNeeded(n) = ((n - 1) \div BlockSize) + 1
    BY <1>3, BlocksNeededFacts
  <2> QED
    BY <1>1, <2>2, <2>3
<1> QED
  BY <1>2, <1>3

\* has_enough_cache_slots for a table that is not too long: the last token is in the
\* last block, the others before or in it.
LEMMA EnoughSlots ==
  ASSUME NEW n \in Nat, n > 0, NEW len \in Nat, len <= BlocksNeeded(n), n <= len * BlockSize
  PROVE  /\ len = BlocksNeeded(n)
         /\ (n - 1) \div BlockSize = len - 1
         /\ \A p \in 0..n - 1 : p \div BlockSize \in Nat /\ p \div BlockSize < len
<1>0. BlockSize \in Nat /\ BlockSize > 0 /\ n - 1 \in Nat
  BY SchedulerAssumption
<1> DEFINE a == (n - 1) \div BlockSize
<1>1. a \in Nat /\ (n - 1) % BlockSize \in 0..BlockSize - 1 /\ n - 1 = BlockSize * a + ((n - 1) % BlockSize)
  BY <1>0, DivFacts
<1>2. BlocksNeeded(n) = a + 1
  BY BlocksNeededFacts
<1> HIDE DEF a
<1>3. ASSUME len <= a PROVE FALSE
  <2>1. BlockSize * len <= BlockSize * a /\ BlockSize * len \in Int /\ BlockSize * a \in Int
    <3>1. CASE len = a
      BY <1>0, <1>1, <3>1
    <3>2. CASE len < a
      BY <1>0, <1>1, <3>2, ProductGap
    <3> QED
      BY <1>1, <1>3, <3>1, <3>2
  <2>2. len * BlockSize = BlockSize * len
    BY <1>0
  <2> QED
    BY <1>0, <1>1, <2>1, <2>2
<1>4. len = a + 1
  BY <1>1, <1>2, <1>3
<1>5. \A p \in 0..n - 1 : p \div BlockSize \in Nat /\ p \div BlockSize <= a
  BY <1>0, DivMonotone, DivFacts DEF a
<1> QED
  BY <1>1, <1>2, <1>4, <1>5 DEF a

-----------------------------------------------------------------------------
(* The tables are never too long *)

\* The steps that touch the tables, the cache positions, the tokens or the cache.
LEMMA MemorySteps ==
  ASSUME TypeInv, [Next]_vars
  PROVE  \/ /\ UNCHANGED <<blocks, cache_pos, num_tokens, kv>>
            /\ pc' = "process" => UNCHANGED <<pc, idx, sequences_batch>>
         \/ /\ \E r \in Requests : ReleaseSlotsForRequest(r)
            /\ UNCHANGED <<num_tokens, kv>> /\ pc' # "process"
         \/ AllocateSlotsForSequence \/ ExecuteModel \/ ProcessToken
<1>1. CASE Handlers \/ ResponseThread \/ UNCHANGED vars
  BY <1>1 DEF Handlers, ResponseThread, Schedule, ClientFails, DecodeDelta, StreamDelta, RunFinishTask,
     vars, memVars, seqVars
<1>2. CASE DrainRequestQueue \/ ClearBatch \/ PickCandidate \/ ConsiderSequence
             \/ ScheduleCandidate \/ PreemptDestroyed \/ PartiallySchedule
  BY <1>2 DEF DrainRequestQueue, ClearBatch, PickCandidate, ConsiderSequence, ScheduleCandidate,
     PreemptDestroyed, PartiallySchedule, memVars, seqVars, AllSequencesTried
<1>3. CASE RequeueRequest
  <2>1. request_batch[idx] \in Requests
    BY <1>3 DEF RequeueRequest, TypeInv, TypeOK, BatchTypes, ControlTypes, LoopBounds
  <2> QED
    BY <1>3, <2>1 DEF RequeueRequest, OnRequestFinish, memVars, seqVars
<1>4. CASE PreemptLowest
  <2>1. Last(preemptable_candidates) \in Requests
    BY <1>4 DEF PreemptLowest, TypeInv, TypeOK, BatchTypes, Last
  <2> QED
    BY <1>4, <2>1 DEF PreemptLowest, memVars, seqVars, AllSequencesTried
<1>5. CASE GiveUp
  <2>1. candidate \in Requests
    BY <1>5 DEF GiveUp, AllSequencesTried, TypeInv, LoopBounds
  <2> QED
    BY <1>5, <2>1 DEF GiveUp, OnRequestFinish, memVars, seqVars, AllSequencesTried
<1> QED
  BY <1>1, <1>2, <1>3, <1>4, <1>5 DEF Next, Stopped, MainThread, BuildSequenceBatch

\* allocate_slots_for_sequence: a table only grows at its end, by what it lacks.
LEMMA AllocatedTables ==
  ASSUME TypeInv, AllocateSlotsForSequence, NEW s \in AllSequences
  PROVE  /\ Len(blocks'[s]) >= Len(blocks[s])
         /\ \A i \in 1..Len(blocks[s]) : blocks'[s][i] = blocks[s][i]
         /\ \/ blocks'[s] = blocks[s]
            \/ s = <<candidate, idx>> /\ Len(blocks'[s]) = BlocksNeeded(num_tokens[s])
         /\ \/ blocks' = blocks /\ sequence_candidates' = sequence_candidates
            \/ /\ sequence_candidates' = Append(sequence_candidates, <<candidate, idx>>)
               /\ s = <<candidate, idx>> =>
                    \/ IsFinishedSeq(s)
                    \/ Len(blocks'[s]) >= BlocksNeeded(num_tokens[s])
<1> DEFINE t == <<candidate, idx>>
           n == NumBlocksToAllocate(t)
<1>1. t \in AllSequences
  <2>1. candidate \in Requests /\ idx \in Nat /\ idx >= 1 /\ idx <= NumSeqs[candidate]
    BY DEF AllocateSlotsForSequence, TypeInv, LoopBounds, TypeOK, ControlTypes
  <2>2. NumSeqs[candidate] \in Nat
    BY <2>1, SchedulerAssumption
  <2>3. idx \in 1..NumSeqs[candidate]
    BY <2>1, <2>2
  <2> QED
    BY <2>1, <2>3, SequenceFacts
<1>2. n \in Nat
  BY <1>1, BlocksToAllocateType
<1>3. \/ Pool!Allocate(t, n) /\ sequence_candidates' = Append(sequence_candidates, t)
      \/ blocks' = blocks /\ sequence_candidates' = sequence_candidates
  BY DEF AllocateSlotsForSequence
<1>4. blocks \in [AllSequences -> Seq(BlockIds)] /\ free \in SUBSET BlockIds /\ num_tokens[t] \in Nat
  BY <1>1 DEF TypeInv, TypeOK, PoolTypes, SequenceTypes
<1>5. /\ Len(blocks[t]) \in Nat /\ BlocksNeeded(num_tokens[t]) \in Nat
      /\ \/ n = 0 /\ (IsFinishedSeq(t) \/ BlocksNeeded(num_tokens[t]) <= Len(blocks[t]))
         \/ Len(blocks[t]) + n = BlocksNeeded(num_tokens[t])
  <2>1. Len(blocks[t]) \in Nat
    BY <1>1, <1>4
  <2>2. \A k \in Nat : BlocksNeeded(k) \in Nat
    BY BlocksNeededFacts
  <2>3. BlocksNeeded(num_tokens[t]) \in Nat
    BY <1>4, <2>2
  <2> QED
    BY <2>1, <2>3 DEF NumBlocksToAllocate
<1> HIDE DEF n, t
<1>6. CASE blocks' = blocks /\ sequence_candidates' = sequence_candidates
  BY <1>4, <1>6
<1>7. CASE Pool!Allocate(t, n) /\ sequence_candidates' = Append(sequence_candidates, t)
  <2>1. PICK new \in Pool!Injection(1..n, free) : blocks' = [blocks EXCEPT ![t] = @ \o new]
    BY <1>7 DEF Pool!Allocate
  <2>2. new \in Seq(BlockIds) /\ Len(new) = n
    BY <1>2, <1>4 DEF Pool!Injection
  <2>3. CASE s # t
    <3>1. blocks'[s] = blocks[s]
      BY <1>4, <2>1, <2>3
    <3> QED
      BY <1>4, <1>7, <2>3, <3>1 DEF t
  <2>4. CASE s = t
    <3>1. blocks[t] \in Seq(BlockIds)
      BY <1>1, <1>4
    <3>2. blocks'[t] = blocks[t] \o new
      BY <1>1, <1>4, <2>1
    <3>3. /\ Len(blocks'[t]) = Len(blocks[t]) + n
          /\ \A i \in 1..Len(blocks[t]) : blocks'[t][i] = blocks[t][i]
          /\ n = 0 => blocks'[t] = blocks[t]
      <4>1. PICK old \in Seq(BlockIds) : old = blocks[t]
        BY <3>1
      <4>2. Len(old \o new) = Len(old) + n /\ \A i \in 1..Len(old) : (old \o new)[i] = old[i]
        BY <2>2
      <4>3. n = 0 => new = <<>> /\ old \o new = old
        BY <2>2
      <4> QED
        BY <3>2, <4>1, <4>2, <4>3
    <3>4. /\ Len(blocks'[t]) >= Len(blocks[t])
          /\ blocks'[t] = blocks[t] \/ Len(blocks'[t]) = BlocksNeeded(num_tokens[t])
          /\ IsFinishedSeq(t) \/ Len(blocks'[t]) >= BlocksNeeded(num_tokens[t])
      <4>1. PICK l \in Nat : l = Len(blocks[t])
        BY <1>5
      <4>2. PICK b \in Nat : b = BlocksNeeded(num_tokens[t])
        BY <1>5
      <4>3. l + n >= l /\ (n = 0 \/ l + n = b) /\ (IsFinishedSeq(t) \/ l + n >= b)
        BY <1>2, <1>5, <4>1, <4>2
      <4> QED
        BY <3>3, <4>1, <4>2, <4>3
    <3> QED
      BY <1>7, <2>4, <3>3, <3>4 DEF t
  <2> QED
    BY <2>3, <2>4
<1> QED
  BY <1>3, <1>6, <1>7 DEF t

\* Tables grow to what the tokens need, and tokens only become more.
LEMMA NextNoSurplus ==
  ASSUME TypeInv, NoSurplus, [Next]_vars
  PROVE  NoSurplus'
<1>0. \A s \in AllSequences : num_tokens[s] \in Nat /\ BlocksNeeded(num_tokens[s]) \in Nat
                              /\ Len(blocks[s]) \in Nat
  BY BlocksNeededFacts DEF TypeInv, TypeOK, PoolTypes, SequenceTypes
<1>1. CASE UNCHANGED <<blocks, num_tokens>>
  BY <1>1 DEF NoSurplus, BlocksNeeded
<1>2. ASSUME NEW r \in Requests, ReleaseSlotsForRequest(r), num_tokens' = num_tokens
      PROVE  NoSurplus'
  <2>1. \A s \in AllSequences : blocks'[s] = <<>> \/ blocks'[s] = blocks[s]
    BY <1>2, ReleaseEmpties
  <2> QED
    BY <1>0, <1>2, <2>1 DEF NoSurplus, BlocksNeeded
<1>3. CASE AllocateSlotsForSequence
  <2>1. num_tokens' = num_tokens
    BY <1>3 DEF AllocateSlotsForSequence, seqVars
  <2>2. \A s \in AllSequences :
           blocks'[s] = blocks[s] \/ Len(blocks'[s]) = BlocksNeeded(num_tokens[s])
    BY <1>3, AllocatedTables
  <2> QED
    BY <1>0, <2>1, <2>2 DEF NoSurplus, BlocksNeeded
<1>4. CASE ExecuteModel
  BY <1>1, <1>4 DEF ExecuteModel, memVars, seqVars
<1>5. CASE ProcessToken
  <2>1. /\ blocks' = blocks /\ num_tokens \in [AllSequences -> Nat]
        /\ num_tokens' = [num_tokens EXCEPT ![sequences_batch[idx]] = num_tokens[sequences_batch[idx]] + 1]
    BY <1>5 DEF ProcessToken, TypeInv, TypeOK, SequenceTypes
  <2> SUFFICES ASSUME NEW s \in AllSequences
               PROVE  Len(blocks[s]) <= BlocksNeeded(num_tokens'[s])
    BY <2>1 DEF NoSurplus, BlocksNeeded
  <2>2. num_tokens'[s] = num_tokens[s] \/ num_tokens'[s] = num_tokens[s] + 1
    BY <2>1
  <2>3. BlocksNeeded(num_tokens[s]) <= BlocksNeeded(num_tokens[s] + 1)
        /\ BlocksNeeded(num_tokens[s] + 1) \in Nat
    <3>1. \A n \in Nat : BlocksNeeded(n) <= BlocksNeeded(n + 1) /\ BlocksNeeded(n + 1) \in Nat
      BY BlocksNeededGrows, BlocksNeededFacts
    <3> QED
      BY <1>0, <3>1
  <2> QED
    BY <1>0, <2>2, <2>3 DEF NoSurplus
<1> QED
  BY <1>1, <1>2, <1>3, <1>4, <1>5, MemorySteps

LEMMA NoSurplusHolds == Spec => []NoSurplus
<1>1. Init => NoSurplus
  <2> SUFFICES ASSUME Init PROVE NoSurplus
    OBVIOUS
  <2>1. TypeInv
    BY InitType
  <2>2. \A s \in AllSequences : blocks[s] = <<>> /\ BlocksNeeded(num_tokens[s]) \in Nat
    BY <2>1, BlocksNeededFacts DEF Init, Pool!PoolInit, TypeInv, TypeOK, SequenceTypes
  <2> QED
    BY <2>2 DEF NoSurplus
<1>2. TypeInv /\ NoSurplus /\ [Next]_vars => NoSurplus'
  BY NextNoSurplus
<1> QED
  BY <1>1, <1>2, TypeCorrect, PTL DEF Spec, TypeInv

-----------------------------------------------------------------------------
(* The cached prefix of a sequence is its own *)

\* Two tokens of any sequences never share a slot.
LEMMA SlotsDiffer ==
  ASSUME TypeInv, BlocksPartition,
         NEW s \in AllSequences, NEW p \in Nat, p \div BlockSize < Len(blocks[s]),
         NEW t \in AllSequences, NEW q \in Nat, q \div BlockSize < Len(blocks[t])
  PROVE  /\ SlotOf(s, p) \in Slots
         /\ SlotOf(s, p) = SlotOf(t, q) => s = t /\ p = q
<1>0. BlockSize \in Nat /\ BlockSize > 0 /\ blocks[s] \in Seq(BlockIds) /\ blocks[t] \in Seq(BlockIds)
  BY SchedulerAssumption DEF TypeInv, TypeOK, PoolTypes
<1>1. /\ p \div BlockSize \in Nat /\ p % BlockSize \in 0..BlockSize - 1
      /\ p = BlockSize * (p \div BlockSize) + (p % BlockSize)
  BY <1>0, DivFacts
<1>2. /\ q \div BlockSize \in Nat /\ q % BlockSize \in 0..BlockSize - 1
      /\ q = BlockSize * (q \div BlockSize) + (q % BlockSize)
  BY <1>0, DivFacts
<1> DEFINE i == (p \div BlockSize) + 1
           j == (q \div BlockSize) + 1
<1>3. i \in DOMAIN blocks[s] /\ j \in DOMAIN blocks[t]
  <2>1. \A b \in Seq(BlockIds), k \in Nat : k < Len(b) => k + 1 \in DOMAIN b
    OBVIOUS
  <2> QED
    BY <1>0, <1>1, <1>2, <2>1
<1>4. SlotOf(s, p) \in Slots
  <2>1. blocks[s][i] \in BlockIds
    BY <1>0, <1>3
  <2> QED
    BY <1>1, <2>1 DEF SlotOf, Slots
<1>5. ASSUME SlotOf(s, p) = SlotOf(t, q) PROVE s = t /\ p = q
  <2>1. blocks[s][i] = blocks[t][j] /\ p % BlockSize = q % BlockSize
    BY <1>5 DEF SlotOf
  <2>2. blocks[s][i] \in Pool!Range(blocks[s]) /\ blocks[t][j] \in Pool!Range(blocks[t])
    BY <1>3 DEF Pool!Range
  <2> HIDE DEF i, j
  <2>3. s = t
    BY <2>1, <2>2 DEF BlocksPartition, Pool!BlocksPartition
  <2>4. i = j
    BY <1>3, <2>1, <2>3 DEF BlocksPartition, Pool!BlocksPartition, Pool!IsInjective
  <2>5. p \div BlockSize = q \div BlockSize
    BY <1>1, <1>2, <2>4 DEF i, j
  <2> QED
    BY <1>1, <1>2, <2>1, <2>3, <2>5
<1> QED
  BY <1>4, <1>5

\* An execution that prepare_inputs accepts writes tokens of the batch to their own
\* slots, and those of every token that was not cached.
LEMMA CacheWritesFacts ==
  ASSUME TypeInv, NoSurplus, CacheInv, NEW s \in AllSequences, HasEnoughCacheSlots(s)
  PROVE  /\ \A p \in 0..num_tokens[s] - 1 : p \in Nat /\ p \div BlockSize < Len(blocks[s])
         /\ \A w \in CacheWrites(s) : \E p \in 0..num_tokens[s] - 1 : w = <<SlotOf(s, p), <<s, p>>>>
         /\ \A p \in 0..num_tokens[s] - 1 :
               p < cache_pos[s] \/ <<SlotOf(s, p), <<s, p>>>> \in CacheWrites(s)
<1>1. /\ num_tokens[s] \in Nat /\ num_tokens[s] > 0 /\ Len(blocks[s]) \in Nat
      /\ Len(blocks[s]) <= BlocksNeeded(num_tokens[s]) /\ num_tokens[s] <= Len(blocks[s]) * BlockSize
      /\ blocks[s] \in Seq(BlockIds) /\ cache_pos[s] \in Nat
      /\ (cache_pos[s] = 0 \/ cache_pos[s] = num_tokens[s] - 1)
  BY DEF TypeInv, TypeOK, PoolTypes, SequenceTypes, NoSurplus, HasEnoughCacheSlots, CacheInv
<1>2. PICK n \in Nat : n = num_tokens[s]
  BY <1>1
<1>3. PICK len \in Nat : len = Len(blocks[s])
  BY <1>1
<1>4. /\ (n - 1) \div BlockSize = len - 1
      /\ \A p \in 0..n - 1 : p \div BlockSize \in Nat /\ p \div BlockSize < len
  BY <1>1, <1>2, <1>3, EnoughSlots
<1>5. LastSlot(s) = SlotOf(s, n - 1)
  <2>1. ((n - 1) \div BlockSize) + 1 = len
    BY <1>3, <1>4
  <2> QED
    BY <1>2, <1>3, <2>1 DEF LastSlot, SlotOf, Last
<1>6. n - 1 \in 0..n - 1
  BY <1>1, <1>2
<1>7. \A w \in CacheWrites(s) : \E p \in 0..n - 1 : w = <<SlotOf(s, p), <<s, p>>>>
  BY <1>2, <1>5, <1>6 DEF CacheWrites
<1>8. \A p \in 0..n - 1 : p < cache_pos[s] \/ <<SlotOf(s, p), <<s, p>>>> \in CacheWrites(s)
  <2> SUFFICES ASSUME NEW p \in 0..n - 1, ~(p < cache_pos[s])
               PROVE  <<SlotOf(s, p), <<s, p>>>> \in CacheWrites(s)
    OBVIOUS
  <2>1. CASE cache_pos[s] = 0
    BY <1>2, <2>1 DEF CacheWrites
  <2>2. CASE cache_pos[s] # 0
    <3>1. p = n - 1
      BY <1>1, <1>2, <2>2
    <3> QED
      BY <1>2, <1>5, <2>2, <3>1 DEF CacheWrites
  <2> QED
    BY <2>1, <2>2
<1> QED
  BY <1>2, <1>3, <1>4, <1>7, <1>8

\* execute_model keeps what is cached and completes the sequences of the batch.
LEMMA ExecuteCache ==
  ASSUME TypeInv, BlocksPartition, NoSurplus, CacheInv, ExecuteModel
  PROVE  CacheInv'
<1>0. /\ UNCHANGED <<blocks, cache_pos, num_tokens, sequences_batch>>
      /\ sequences_batch \in Seq(AllSequences)
      /\ num_tokens \in [AllSequences -> Nat] /\ cache_pos \in [AllSequences -> Nat]
      /\ \A s \in AllSequences : num_tokens[s] - 1 \in Nat
  BY DEF ExecuteModel, memVars, seqVars, TypeInv, TypeOK, SequenceTypes, BatchTypes
<1>1. CASE kv' = kv /\ pc' = "crashed"
  BY <1>0, <1>1 DEF CacheInv, Cached, SlotOf
<1> DEFINE writes == UNION {CacheWrites(s) : s \in ToSet(sequences_batch)}
<1>2. CASE /\ InputsAccepted /\ pc' = "process" /\ idx' = 1
           /\ kv' = [slot \in Slots |->
                      IF \E w \in writes : w[1] = slot
                      THEN (CHOOSE w \in writes : w[1] = slot)[2] ELSE kv[slot]]
  <2>1. \A s \in ToSet(sequences_batch) : s \in AllSequences /\ HasEnoughCacheSlots(s)
    BY <1>0, <1>2 DEF InputsAccepted, ToSet
  <2>2. \A w \in writes : \E t \in AllSequences : \E q \in Nat :
           w = <<SlotOf(t, q), <<t, q>>>> /\ q \div BlockSize < Len(blocks[t])
    <3> SUFFICES ASSUME NEW t \in ToSet(sequences_batch), NEW w \in CacheWrites(t)
                 PROVE  \E q \in Nat : w = <<SlotOf(t, q), <<t, q>>>> /\ q \div BlockSize < Len(blocks[t])
      BY <2>1
    <3> QED
      BY <2>1, CacheWritesFacts
  <2>3. ASSUME NEW s \in AllSequences, NEW p \in Nat, p \div BlockSize < Len(blocks[s])
        PROVE  /\ SlotOf(s, p)' = SlotOf(s, p)
               /\ \/ kv'[SlotOf(s, p)] = <<s, p>>
                  \/ /\ kv'[SlotOf(s, p)] = kv[SlotOf(s, p)]
                     /\ <<SlotOf(s, p), <<s, p>>>> \notin writes
    <3>0. SlotOf(s, p)' = SlotOf(s, p)
      BY <1>0 DEF SlotOf
    <3>1. PICK slot \in Slots : slot = SlotOf(s, p)
      BY <2>3, SlotsDiffer
    <3>2. ASSUME NEW w \in writes, w[1] = slot PROVE w[2] = <<s, p>>
      <4>1. PICK t \in AllSequences, q \in Nat :
              w = <<SlotOf(t, q), <<t, q>>>> /\ q \div BlockSize < Len(blocks[t])
        BY <2>2
      <4>2. SlotOf(s, p) = SlotOf(t, q)
        BY <3>1, <3>2, <4>1
      <4>3. s = t /\ p = q
        BY <2>3, <4>1, <4>2, SlotsDiffer
      <4> QED
        BY <4>1, <4>3
    <3> HIDE DEF writes
    <3>3. CASE \E w \in writes : w[1] = slot
      <4>1. (CHOOSE w \in writes : w[1] = slot) \in writes /\ (CHOOSE w \in writes : w[1] = slot)[1] = slot
        BY <3>3
      <4>2. (CHOOSE w \in writes : w[1] = slot)[2] = <<s, p>>
        BY <3>2, <4>1
      <4>3. kv'[slot] = (CHOOSE w \in writes : w[1] = slot)[2]
        BY <1>2, <3>3
      <4> QED
        BY <3>0, <3>1, <4>2, <4>3
    <3>4. CASE ~\E w \in writes : w[1] = slot
      <4>1. kv'[slot] = kv[slot]
        BY <1>2, <3>4
      <4>2. <<slot, <<s, p>>>> \notin writes
        BY <3>4
      <4> QED
        BY <3>0, <3>1, <4>1, <4>2
    <3> QED
      BY <3>3, <3>4
  <2>4. \A s \in AllSequences : Cached(s, cache_pos[s])'
    <3> SUFFICES ASSUME NEW s \in AllSequences, NEW p \in 0..cache_pos[s] - 1
                 PROVE  p \div BlockSize < Len(blocks'[s]) /\ kv'[SlotOf(s, p)'] = <<s, p>>
      BY <1>0 DEF Cached
    <3>1. p \in Nat /\ p \div BlockSize < Len(blocks[s]) /\ kv[SlotOf(s, p)] = <<s, p>>
      BY <1>0 DEF CacheInv, Cached
    <3> QED
      BY <1>0, <2>3, <3>1
  <2>5. \A s \in ToSet(sequences_batch) : Cached(s, num_tokens[s])'
    <3> SUFFICES ASSUME NEW s \in ToSet(sequences_batch), NEW p \in 0..num_tokens[s] - 1
                 PROVE  p \div BlockSize < Len(blocks'[s]) /\ kv'[SlotOf(s, p)'] = <<s, p>>
      BY <1>0 DEF Cached
    <3>1. s \in AllSequences /\ p \in Nat /\ p \div BlockSize < Len(blocks[s])
      BY <2>1, CacheWritesFacts
    <3>2. CASE p < cache_pos[s]
      <4>1. p \in 0..cache_pos[s] - 1
        BY <1>0, <3>1, <3>2
      <4>2. kv[SlotOf(s, p)] = <<s, p>>
        BY <3>1, <4>1 DEF CacheInv, Cached
      <4> QED
        BY <1>0, <2>3, <3>1, <4>2
    <3>3. CASE <<SlotOf(s, p), <<s, p>>>> \in CacheWrites(s)
      <4>1. <<SlotOf(s, p), <<s, p>>>> \in writes
        BY <3>3
      <4> HIDE DEF writes
      <4> QED
        BY <1>0, <2>3, <3>1, <4>1
    <3> QED
      BY <2>1, <3>2, <3>3, CacheWritesFacts
  <2>6. \A i \in 1..Len(sequences_batch) : Cached(sequences_batch[i], num_tokens[sequences_batch[i]])'
    <3>1. \A i \in 1..Len(sequences_batch) : sequences_batch[i] \in ToSet(sequences_batch)
      BY <1>0 DEF ToSet
    <3> QED
      BY <1>0, <2>5, <3>1 DEF Cached, SlotOf
  <2> QED
    BY <1>0, <1>2, <2>4, <2>6 DEF CacheInv
<1> QED
  BY <1>1, <1>2 DEF ExecuteModel

\* Every other step keeps what is cached, or forgets it with the blocks.
LEMMA NextCache ==
  ASSUME OwnershipInv, BlocksPartition, NoSurplus, CacheInv, [Next]_vars
  PROVE  CacheInv'
<1>0. /\ TypeInv /\ sequences_batch \in Seq(AllSequences) /\ idx \in Nat
      /\ num_tokens \in [AllSequences -> Nat] /\ cache_pos \in [AllSequences -> Nat]
      /\ blocks \in [AllSequences -> Seq(BlockIds)]
  BY DEF OwnershipInv, TypeInv, TypeOK, SequenceTypes, BatchTypes, ControlTypes, PoolTypes
<1>1. CASE /\ UNCHANGED <<blocks, cache_pos, num_tokens, kv>>
           /\ pc' = "process" => UNCHANGED <<pc, idx, sequences_batch>>
  BY <1>1 DEF CacheInv, Cached, SlotOf
<1>2. ASSUME NEW r \in Requests, ReleaseSlotsForRequest(r), UNCHANGED <<num_tokens, kv>>, pc' # "process"
      PROVE  CacheInv'
  <2>1. \A s \in AllSequences : IF s[1] = r THEN cache_pos'[s] = 0
                                ELSE cache_pos'[s] = cache_pos[s] /\ blocks'[s] = blocks[s]
    BY <1>0, <1>2, ReleaseEmpties DEF ReleaseSlotsForRequest
  <2>2. \A s \in AllSequences : Cached(s, cache_pos[s])'
    BY <1>2, <2>1 DEF CacheInv, Cached, SlotOf
  <2> QED
    BY <1>2, <2>1, <2>2 DEF CacheInv
<1>3. CASE AllocateSlotsForSequence
  <2>1. UNCHANGED <<cache_pos, num_tokens, kv>> /\ pc' = "allocate"
    BY <1>3 DEF AllocateSlotsForSequence, seqVars
  <2>2. \A s \in AllSequences : Cached(s, cache_pos[s])'
    <3> SUFFICES ASSUME NEW s \in AllSequences, NEW p \in 0..cache_pos[s] - 1
                 PROVE  p \div BlockSize < Len(blocks'[s]) /\ kv[SlotOf(s, p)'] = <<s, p>>
      BY <2>1 DEF Cached
    <3>1. p \div BlockSize < Len(blocks[s]) /\ kv[SlotOf(s, p)] = <<s, p>>
      BY DEF CacheInv, Cached
    <3>2. /\ Len(blocks'[s]) >= Len(blocks[s]) /\ Len(blocks[s]) \in Nat /\ Len(blocks'[s]) \in Nat
          /\ \A i \in 1..Len(blocks[s]) : blocks'[s][i] = blocks[s][i]
      <4>1. blocks' \in [AllSequences -> Seq(BlockIds)]
        BY <1>0, <1>3, AllocateType DEF TypeInv, TypeOK, PoolTypes
      <4> QED
        BY <1>0, <1>3, <4>1, AllocatedTables
    <3>3. p \div BlockSize \in Nat
      <4>1. p \in Nat /\ BlockSize \in Nat /\ BlockSize > 0
        BY <1>0, SchedulerAssumption
      <4> QED
        BY <4>1, DivFacts
    <3>4. (p \div BlockSize) + 1 \in 1..Len(blocks[s])
      BY <3>1, <3>2, <3>3
    <3>5. SlotOf(s, p)' = SlotOf(s, p)
      BY <3>2, <3>4 DEF SlotOf
    <3> QED
      BY <3>1, <3>2, <3>3, <3>5
  <2> QED
    BY <2>1, <2>2 DEF CacheInv
<1>4. CASE ExecuteModel
  BY <1>0, <1>4, ExecuteCache
<1>5. CASE ProcessToken
  <2>1. PICK s \in AllSequences : s = sequences_batch[idx]
    BY <1>0, <1>5 DEF ProcessToken, TypeInv, LoopBounds
  <2>2. /\ num_tokens' = [num_tokens EXCEPT ![s] = num_tokens[s] + 1]
        /\ cache_pos' = [cache_pos EXCEPT ![s] = num_tokens[s]]
        /\ UNCHANGED <<blocks, kv, sequences_batch>> /\ pc = "process" /\ idx' = idx + 1
        /\ idx \in 1..Len(sequences_batch)
    BY <1>0, <1>5, <2>1 DEF ProcessToken, CachePosAfterAppend, TypeInv, LoopBounds
  <2>3. Cached(s, num_tokens[s])
    BY <1>0, <2>1, <2>2 DEF CacheInv
  <2>4. \A q \in AllSequences : \A n \in Nat : Cached(q, n)' <=> Cached(q, n)
    BY <2>2 DEF Cached, SlotOf
  <2>5. \A q \in AllSequences :
           IF q = s THEN cache_pos'[q] = num_tokens[s] /\ num_tokens'[q] = num_tokens[s] + 1
           ELSE cache_pos'[q] = cache_pos[q] /\ num_tokens'[q] = num_tokens[q]
    BY <1>0, <2>2
  <2>6. \A q \in AllSequences : Cached(q, cache_pos[q])'
    <3> SUFFICES ASSUME NEW q \in AllSequences PROVE Cached(q, cache_pos[q])'
      OBVIOUS
    <3>1. PICK n \in Nat : n = cache_pos'[q]
      BY <1>0, <2>5
    <3>2. Cached(q, n)
      BY <2>3, <2>5, <3>1 DEF CacheInv
    <3>3. Cached(q, n)'
      BY <2>4, <3>2
    <3> QED
      BY <3>1, <3>3 DEF Cached
  <2>7. \A q \in AllSequences : cache_pos'[q] = 0 \/ cache_pos'[q] = num_tokens'[q] - 1
    <3> TAKE q \in AllSequences
    <3>1. num_tokens[s] \in Nat /\ (num_tokens[s] + 1) - 1 = num_tokens[s]
      BY <1>0
    <3>2. cache_pos[q] = 0 \/ cache_pos[q] = num_tokens[q] - 1
      BY DEF CacheInv
    <3>3. CASE q = s
      BY <2>5, <3>1, <3>3
    <3>4. CASE q # s
      BY <2>5, <3>2, <3>4
    <3> QED
      BY <3>3, <3>4
  <2>8. \A i \in idx'..Len(sequences_batch) :
           Cached(sequences_batch[i], num_tokens[sequences_batch[i]])'
    <3> SUFFICES ASSUME NEW i \in idx + 1..Len(sequences_batch)
                 PROVE  Cached(sequences_batch[i], num_tokens[sequences_batch[i]])'
      BY <2>2
    <3>1. i \in DOMAIN sequences_batch /\ idx \in DOMAIN sequences_batch /\ i # idx /\ i \in idx..Len(sequences_batch)
      <4>1. PICK m \in Nat : m = Len(sequences_batch) /\ DOMAIN sequences_batch = 1..m
        BY <1>0
      <4>2. idx \in 1..m
        BY <2>2, <4>1
      <4>3. i \in 1..m /\ i # idx /\ i \in idx..m
        BY <4>1, <4>2
      <4> QED
        BY <4>1, <4>2, <4>3
    <3>2. PICK q \in AllSequences : q = sequences_batch[i] /\ q # s
      BY <1>0, <2>1, <3>1 DEF OwnershipInv, ContainerInv, BatchInv, SequencesOfBatch
    <3>3. PICK n \in Nat : n = num_tokens[q] /\ n = num_tokens'[q]
      BY <1>0, <2>5, <3>2
    <3>4. Cached(q, n)
      BY <2>2, <3>1, <3>2, <3>3 DEF CacheInv
    <3>5. Cached(q, n)'
      BY <2>4, <3>4
    <3> QED
      BY <2>2, <3>2, <3>3, <3>5 DEF Cached, SlotOf
  <2> QED
    BY <2>2, <2>6, <2>7, <2>8 DEF CacheInv
<1> QED
  BY <1>0, <1>1, <1>2, <1>3, <1>4, <1>5, MemorySteps

LEMMA CacheInvHolds == Spec => []CacheInv
<1>1. Init => CacheInv
  <2> SUFFICES ASSUME Init PROVE CacheInv
    OBVIOUS
  <2>1. \A s \in AllSequences : cache_pos[s] = 0
    BY DEF Init
  <2>2. \A s \in AllSequences : Cached(s, cache_pos[s])
    BY <2>1 DEF Cached
  <2> QED
    BY <2>1, <2>2 DEF Init, CacheInv
<1>2. OwnershipInv /\ BlocksPartition /\ NoSurplus /\ CacheInv /\ [Next]_vars => CacheInv'
  BY NextCache
<1> QED
  BY <1>1, <1>2, OwnershipHolds, BlocksArePartitioned, NoSurplusHolds, PTL DEF Spec

\* CacheValid: what cache_pos_ claims is true after every preemption, cancellation
\* and reuse of blocks, whatever the priorities and creation times.
THEOREM CacheStaysValid == Spec => []CacheValid
<1>1. CacheInv => CacheValid
  BY DEF CacheInv, Cached, CacheValid
<1> QED
  BY <1>1, CacheInvHolds, PTL

-----------------------------------------------------------------------------
(* A batch that is handed to the engine has its slots *)

LEMMA KeepsItsBlocks ==
  ASSUME NEW s \in AllSequences, HasItsBlocks(s), blocks'[s] = blocks[s],
         num_tokens'[s] = num_tokens[s], finish_reason'[s] = finish_reason[s],
         is_cancelled[s] => is_cancelled'[s]
  PROVE  HasItsBlocks(s)'
  BY DEF HasItsBlocks, IsFinishedSeq, BlocksNeeded

\* Until execution only the thread of response_executor_ changes a sequence in the
\* batch, and it only cancels.
LEMMA SequenceStable ==
  ASSUME TypeInv, [Next]_vars, Building'
  PROVE  /\ UNCHANGED <<num_tokens, finish_reason>>
         /\ \A s \in AllSequences : is_cancelled[s] => is_cancelled'[s]
<1>1. ~ExecuteModel /\ ~ProcessToken
  BY DEF ExecuteModel, ProcessToken, Building
<1>2. is_cancelled \in [AllSequences -> BOOLEAN] /\ tasks \in Seq(Task)
  BY DEF TypeInv, TypeOK, ResponseTypes, QueueTypes
<1>3. CASE StreamDelta
  <2>1. \A s \in AllSequences : is_cancelled[s] => is_cancelled'[s]
    BY <1>2, <1>3 DEF StreamDelta
  <2> QED
    BY <1>3, <2>1 DEF StreamDelta, seqVars
<1>4. CASE ~StreamDelta
  <2>1. UNCHANGED <<num_tokens, finish_reason, is_cancelled>>
    BY <1>1, <1>4 DEF Next, Stopped, Handlers, MainThread, BuildSequenceBatch, ResponseThread,
       Schedule, ClientFails, DrainRequestQueue, RequeueRequest, ClearBatch, PickCandidate, ConsiderSequence,
       AllocateSlotsForSequence, ScheduleCandidate, PreemptLowest, PreemptDestroyed, PartiallySchedule,
       GiveUp, DecodeDelta, RunFinishTask, vars, seqVars, respVars
  <2> QED
    BY <2>1
<1> QED
  BY <1>3, <1>4

\* While the list is sound preemption takes blocks from waiting requests only.
LEMMA NextKeepsWhatItGot ==
  ASSUME OwnershipInv, NoSurplus, ListSound, KeepsWhatItGot, [Next]_vars
  PROVE  KeepsWhatItGot'
<1> SUFFICES ASSUME Building' PROVE KeepsWhatItGot'
  BY DEF KeepsWhatItGot, Building, Allocating
<1>0. /\ TypeInv /\ sequences_batch \in Seq(AllSequences) /\ sequence_candidates \in Seq(AllSequences)
      /\ \A s \in AllSequences : num_tokens[s] \in Nat /\ Len(blocks[s]) \in Nat
  BY DEF OwnershipInv, TypeInv, TypeOK, BatchTypes, ControlTypes, SequenceTypes, PoolTypes
<1>1. /\ UNCHANGED <<num_tokens, finish_reason>>
      /\ \A s \in AllSequences : is_cancelled[s] => is_cancelled'[s]
  BY <1>0, SequenceStable
<1>2. \A s \in AllSequences : HasItsBlocks(s) /\ blocks'[s] = blocks[s] => HasItsBlocks(s)'
  BY <1>1, KeepsItsBlocks
<1>3. \A i \in DOMAIN sequences_batch : sequences_batch[i] \in AllSequences
  BY <1>0
<1>4. \A i \in DOMAIN sequence_candidates : sequence_candidates[i] \in AllSequences
  BY <1>0
<1>5. CASE /\ UNCHANGED <<blocks, sequences_batch>> /\ Building
           /\ Allocating' => \/ sequence_candidates' = <<>>
                             \/ Allocating /\ sequence_candidates' = sequence_candidates
  <2>1. \A i \in DOMAIN sequences_batch : HasItsBlocks(sequences_batch[i])'
    <3> SUFFICES ASSUME NEW i \in DOMAIN sequences_batch PROVE HasItsBlocks(sequences_batch[i])'
      OBVIOUS
    <3>1. PICK s \in AllSequences : s = sequences_batch[i]
      BY <1>3
    <3>2. HasItsBlocks(s)'
      BY <1>2, <1>5, <3>1 DEF KeepsWhatItGot
    <3> QED
      BY <1>5, <3>1, <3>2
  <2>2. ASSUME Allocating, sequence_candidates' = sequence_candidates
        PROVE  \A i \in DOMAIN sequence_candidates : HasItsBlocks(sequence_candidates[i])'
    <3> SUFFICES ASSUME NEW i \in DOMAIN sequence_candidates PROVE HasItsBlocks(sequence_candidates[i])'
      OBVIOUS
    <3>1. PICK s \in AllSequences : s = sequence_candidates[i]
      BY <1>4
    <3>2. HasItsBlocks(s)'
      BY <1>2, <1>5, <2>2, <3>1 DEF KeepsWhatItGot
    <3> QED
      BY <2>2, <3>1, <3>2
  <2> QED
    BY <1>5, <2>1, <2>2 DEF KeepsWhatItGot
<1>6. CASE Handlers \/ ResponseThread \/ UNCHANGED vars \/ PickCandidate \/ ConsiderSequence
  <2>1. UNCHANGED <<blocks, sequences_batch>>
    BY <1>6 DEF Handlers, ResponseThread, Schedule, ClientFails, DecodeDelta, StreamDelta, RunFinishTask,
       vars, memVars, PickCandidate, ConsiderSequence
  <2>2. Building /\ (Allocating' => \/ sequence_candidates' = <<>>
                                    \/ Allocating /\ sequence_candidates' = sequence_candidates)
    BY <1>6 DEF Handlers, ResponseThread, Schedule, ClientFails, DecodeDelta, StreamDelta, RunFinishTask,
       vars, localVars, PickCandidate, ConsiderSequence, Building, Allocating
  <2> QED
    BY <1>5, <2>1, <2>2
<1>7. CASE DrainRequestQueue \/ RequeueRequest \/ PreemptDestroyed \/ ExecuteModel \/ ProcessToken
  BY <1>7 DEF DrainRequestQueue, RequeueRequest, PreemptDestroyed, ExecuteModel, ProcessToken, Building
<1>8. CASE ClearBatch
  BY <1>8 DEF ClearBatch, KeepsWhatItGot, Allocating
<1>9. CASE GiveUp
  <2>1. UNCHANGED <<blocks, sequences_batch>> /\ pc = "allocate" /\ pc' = "execute"
    BY <1>9 DEF GiveUp, Building, memVars, AllSequencesTried
  <2> QED
    BY <1>5, <2>1 DEF Building, Allocating
<1>10. CASE ScheduleCandidate \/ PartiallySchedule
  <2>1. /\ sequences_batch' = sequences_batch \o sequence_candidates /\ blocks' = blocks
        /\ pc = "allocate" /\ pc' \in {"top", "execute"}
    BY <1>10 DEF ScheduleCandidate, PartiallySchedule, AddToBatch, AllSequencesTried, memVars
  <2>2. \A i \in DOMAIN sequences_batch' :
           \/ \E k \in DOMAIN sequences_batch : sequences_batch'[i] = sequences_batch[k]
           \/ \E k \in DOMAIN sequence_candidates : sequences_batch'[i] = sequence_candidates[k]
    <3>0. DOMAIN sequences_batch' = 1..Len(sequences_batch) + Len(sequence_candidates)
      BY <1>0, <2>1
    <3> SUFFICES ASSUME NEW i \in 1..Len(sequences_batch) + Len(sequence_candidates)
                 PROVE  \/ \E k \in DOMAIN sequences_batch : sequences_batch'[i] = sequences_batch[k]
                        \/ \E k \in DOMAIN sequence_candidates : sequences_batch'[i] = sequence_candidates[k]
      BY <3>0, Zenon
    <3>1. CASE i <= Len(sequences_batch)
      BY <1>0, <2>1, <3>1
    <3>2. CASE i > Len(sequences_batch)
      <4>1. i - Len(sequences_batch) \in DOMAIN sequence_candidates
        BY <1>0, <3>2
      <4> QED
        BY <1>0, <2>1, <3>2, <4>1
    <3> QED
      BY <1>0, <3>1, <3>2
  <2>3. \A i \in DOMAIN sequences_batch' : HasItsBlocks(sequences_batch[i])'
    <3> SUFFICES ASSUME NEW i \in DOMAIN sequences_batch' PROVE HasItsBlocks(sequences_batch[i])'
      OBVIOUS
    <3>1. PICK s \in AllSequences : s = sequences_batch'[i] /\ HasItsBlocks(s)
      BY <1>3, <1>4, <2>1, <2>2 DEF KeepsWhatItGot, Building, Allocating
    <3>2. HasItsBlocks(s)'
      BY <1>2, <2>1, <3>1
    <3> QED
      BY <3>1, <3>2
  <2> QED
    BY <2>1, <2>3 DEF KeepsWhatItGot, Allocating
<1>11. ASSUME Allocating, BatchLimit = Len(request_batch)
       PROVE  \A i \in DOMAIN sequences_batch : sequences_batch[i][1] \notin priority_queue
  <2>1. request_batch \in Seq(Requests)
    BY <1>0 DEF TypeInv, TypeOK, BatchTypes
  <2>2. \A k \in DOMAIN request_batch : request_batch[k] \notin priority_queue
    BY <1>11, <2>1 DEF OwnershipInv, ContainerInv, Ownership, InOneContainer
  <2> QED
    BY <2>2 DEF OwnershipInv, ContainerInv, BatchInv, SequencesOfBatch
<1>12. CASE PreemptLowest
  <2>1. /\ UNCHANGED sequences_batch /\ pc = "allocate" /\ pc' = "allocate" /\ sequence_candidates' = <<>>
        /\ preemptable_candidates # <<>>
        /\ \/ ReleaseSlotsForRequest(Last(preemptable_candidates))
           \/ blocks' = blocks
    BY <1>12 DEF PreemptLowest, memVars, AllSequencesTried
  <2>2. preemptable_candidates \in Seq(Requests) /\ Last(preemptable_candidates) \in priority_queue
        /\ Last(preemptable_candidates) \in Requests
    <3>1. preemptable_candidates \in Seq(Requests)
      BY <1>0 DEF TypeInv, TypeOK, BatchTypes
    <3>2. Len(preemptable_candidates) \in DOMAIN preemptable_candidates
      BY <2>1, <3>1
    <3> QED
      BY <2>1, <3>1, <3>2 DEF ListSound, Preempting, Last
  <2>3. \A i \in DOMAIN sequences_batch : blocks'[sequences_batch[i]] = blocks[sequences_batch[i]]
    <3>1. BatchLimit = Len(request_batch) /\ Allocating
      BY <2>1 DEF BatchLimit, Allocating
    <3> QED
      BY <1>0, <1>3, <1>11, <2>1, <2>2, <3>1, ReleaseEmpties
  <2>4. \A i \in DOMAIN sequences_batch : HasItsBlocks(sequences_batch[i])'
    <3> SUFFICES ASSUME NEW i \in DOMAIN sequences_batch PROVE HasItsBlocks(sequences_batch[i])'
      OBVIOUS
    <3>1. PICK s \in AllSequences : s = sequences_batch[i]
      BY <1>3
    <3>2. HasItsBlocks(s)'
      BY <1>2, <2>1, <2>3, <3>1 DEF KeepsWhatItGot, Building
    <3> QED
      BY <2>1, <3>1, <3>2
  <2> QED
    BY <2>1, <2>4 DEF KeepsWhatItGot
<1>13. CASE AllocateSlotsForSequence
  <2>1. UNCHANGED <<sequences_batch, candidate, is_cancelled>> /\ pc = "slots" /\ pc' = "allocate" /\ idx' = idx + 1
    BY <1>13 DEF AllocateSlotsForSequence, respVars
  <2>2. BatchLimit = Len(request_batch) /\ Allocating /\ candidate \in priority_queue
    BY <2>1 DEF BatchLimit, Allocating, OwnershipInv, ContainerInv, BatchInv, CandidateWaits
  <2>3. PICK t : t = <<candidate, idx>>
    OBVIOUS
  <2>4. t \in AllSequences
    <3>1. candidate \in Requests /\ idx \in Nat /\ idx >= 1 /\ idx <= NumSeqs[candidate]
      BY <1>0, <2>1 DEF TypeInv, LoopBounds, TypeOK, ControlTypes
    <3>2. NumSeqs[candidate] \in Nat
      BY <3>1, SchedulerAssumption
    <3>3. idx \in 1..NumSeqs[candidate]
      BY <3>1, <3>2
    <3> QED
      BY <2>3, <3>1, <3>3, SequenceFacts
  <2>5. \A s \in AllSequences : s # t => blocks'[s] = blocks[s]
    BY <1>0, <1>13, <2>3, AllocatedTables
  <2>6. \A i \in DOMAIN sequences_batch : sequences_batch[i] # t
    BY <1>11, <2>2, <2>3
  <2>7. \A i \in DOMAIN sequence_candidates : sequence_candidates[i] # t
    <3>1. idx \in Nat
      BY <1>0 DEF TypeInv, TypeOK, ControlTypes
    <3> QED
      BY <2>2, <2>3, <3>1 DEF OwnershipInv, ContainerInv, BatchInv, SequencesOfCandidate
  <2>8. \A i \in DOMAIN sequences_batch : HasItsBlocks(sequences_batch[i])'
    <3> SUFFICES ASSUME NEW i \in DOMAIN sequences_batch PROVE HasItsBlocks(sequences_batch[i])'
      OBVIOUS
    <3>1. PICK s \in AllSequences : s = sequences_batch[i]
      BY <1>3
    <3>2. HasItsBlocks(s)'
      BY <1>2, <2>1, <2>5, <2>6, <3>1 DEF KeepsWhatItGot, Building
    <3> QED
      BY <2>1, <3>1, <3>2
  <2>9. \A i \in DOMAIN sequence_candidates : \A s \in AllSequences :
           s = sequence_candidates[i] => HasItsBlocks(s)'
    BY <1>2, <2>2, <2>5, <2>7 DEF KeepsWhatItGot
  <2>10. \/ sequence_candidates' = sequence_candidates
         \/ sequence_candidates' = Append(sequence_candidates, t) /\ HasItsBlocks(t)'
    <3>1. CASE sequence_candidates' = sequence_candidates
      BY <3>1
    <3>2. CASE sequence_candidates' # sequence_candidates
      <4>1. /\ sequence_candidates' = Append(sequence_candidates, t)
            /\ IsFinishedSeq(t) \/ Len(blocks'[t]) >= BlocksNeeded(num_tokens[t])
        BY <1>0, <1>13, <2>3, <2>4, <3>2, AllocatedTables
      <4>2. Len(blocks'[t]) <= BlocksNeeded(num_tokens[t])
        BY <1>0, <1>1, <2>4, NextNoSurplus DEF NoSurplus, BlocksNeeded
      <4>3. Len(blocks'[t]) \in Nat /\ BlocksNeeded(num_tokens[t]) \in Nat
        <5>1. blocks' \in [AllSequences -> Seq(BlockIds)]
          BY <1>0, <1>13, AllocateType DEF TypeInv, TypeOK, PoolTypes
        <5>2. \A n \in Nat : BlocksNeeded(n) \in Nat
          BY BlocksNeededFacts
        <5>3. blocks'[t] \in Seq(BlockIds) /\ num_tokens[t] \in Nat
          BY <1>0, <2>4, <5>1
        <5>4. Len(blocks'[t]) \in Nat
          BY <5>3
        <5> QED
          BY <5>2, <5>3, <5>4
      <4>4. IsFinishedSeq(t) \/ Len(blocks'[t]) = BlocksNeeded(num_tokens[t])
        BY <4>1, <4>2, <4>3
      <4>5. HasItsBlocks(t)'
        BY <1>1, <2>1, <4>4 DEF HasItsBlocks, IsFinishedSeq, BlocksNeeded
      <4> QED
        BY <4>1, <4>5
    <3> QED
      BY <3>1, <3>2
  <2>11. \A i \in DOMAIN sequence_candidates' : \A s \in AllSequences :
            s = sequence_candidates'[i] => HasItsBlocks(s)'
    <3>1. CASE sequence_candidates' = sequence_candidates
      BY <2>9, <3>1
    <3>2. CASE sequence_candidates' = Append(sequence_candidates, t) /\ HasItsBlocks(t)'
      <4>1. \A i \in DOMAIN sequence_candidates' :
               \/ i \in DOMAIN sequence_candidates /\ sequence_candidates'[i] = sequence_candidates[i]
               \/ sequence_candidates'[i] = t
        BY <1>0, <2>4, <3>2
      <4> QED
        BY <2>9, <3>2, <4>1
    <3> QED
      BY <2>10, <3>1, <3>2
  <2>12. \A i \in DOMAIN sequence_candidates' : HasItsBlocks(sequence_candidates[i])'
    <3> SUFFICES ASSUME NEW i \in DOMAIN sequence_candidates' PROVE HasItsBlocks(sequence_candidates[i])'
      OBVIOUS
    <3>1. sequence_candidates' \in Seq(AllSequences)
      BY <1>0, <1>13, AllocateType DEF TypeInv, TypeOK, ControlTypes
    <3>2. PICK s \in AllSequences : s = sequence_candidates'[i]
      BY <3>1
    <3>3. HasItsBlocks(s)'
      BY <2>11, <3>2
    <3> QED
      BY <3>2, <3>3
  <2> QED
    BY <2>1, <2>8, <2>12 DEF KeepsWhatItGot
<1> QED
  BY <1>6, <1>7, <1>8, <1>9, <1>10, <1>12, <1>13 DEF Next, Stopped, MainThread, BuildSequenceBatch

LEMMA NextPicked ==
  ASSUME OwnershipInv, NoSurplus, PreemptableInv, PickedHaveBlocks, [Next]_vars
  PROVE  PickedHaveBlocks'
<1>1. CASE DrainRequestQueue
  BY <1>1 DEF DrainRequestQueue, PickedHaveBlocks, KeepsWhatItGot, Building, Allocating
<1>2. CASE ~DrainRequestQueue /\ overtaken
  <2>1. overtaken'
    BY <1>2 DEF Next, Stopped, Handlers, MainThread, BuildSequenceBatch, ResponseThread, Schedule,
       ClientFails, RequeueRequest, ClearBatch, PickCandidate, ConsiderSequence,
       AllocateSlotsForSequence, ScheduleCandidate, PreemptLowest, PreemptDestroyed, PartiallySchedule,
       GiveUp, ExecuteModel, ProcessToken, DecodeDelta, StreamDelta, RunFinishTask, vars
  <2> QED
    BY <2>1 DEF PickedHaveBlocks
<1>3. CASE ~overtaken
  BY <1>3, NextKeepsWhatItGot DEF PreemptableInv, PickedHaveBlocks
<1> QED
  BY <1>1, <1>2, <1>3

\* Every batch that reaches execute_model has the cached prefix and the slots that
\* prepare_inputs and the kernels rely on, for any priorities and creation times;
\* slots may be missing only after a listed request has overtaken one of its key.
THEOREM BatchIsReady == Spec => []BatchReady
<1>1. Init => PickedHaveBlocks
  BY DEF Init, PickedHaveBlocks, KeepsWhatItGot, Building, Allocating
<1>2. OwnershipInv /\ NoSurplus /\ PreemptableInv /\ PickedHaveBlocks /\ [Next]_vars => PickedHaveBlocks'
  BY NextPicked
<1>3. PickedHaveBlocks /\ CacheValid => BatchReady
  BY DEF PickedHaveBlocks, KeepsWhatItGot, Building, HasItsBlocks, BatchReady, BatchHasSlots, ToSet
<1> QED
  BY <1>1, <1>2, <1>3, OwnershipHolds, NoSurplusHolds, PreemptableHolds, CacheStaysValid, PTL DEF Spec
=============================================================================
