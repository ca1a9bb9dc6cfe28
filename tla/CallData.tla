------------------------------ MODULE CallData ------------------------------
(***************************************************************************)
(* CallData (src/src/server/call_data.h): one server-streaming call.  Two  *)
(* threads share it:                                                       *)
(*   - the thread of GrpcServer::handle_rpcs takes events off the          *)
(*     completion queue and calls proceed();                               *)
(*   - a producer, the thread of a handler's converter executor or of the  *)
(*     scheduler's response executor, calls write() any number of times    *)
(*     and finish() (or finish_with_error()) once.                         *)
(* gRPC itself is external: an operation started with responder_ completes *)
(* some time later, each completed operation and each Set of an alarm puts *)
(* one event on the completion queue, and all events carry the same tag,   *)
(* so proceed() cannot tell them apart; their order is not fixed.          *)
(***************************************************************************)
EXTENDS Integers, Sequences

CONSTANTS QueueSize,   \* kResponseQueueSize
          MaxWrites,   \* bound: how many responses the producer may write
          RpcMayFail   \* whether an operation may complete with ok = false

ASSUME CallDataAssumption ==
    /\ QueueSize \in Nat \ {0}
    /\ MaxWrites \in Nat
    /\ RpcMayFail \in BOOLEAN

\* A ResponseWithState: the number of a response, or the final status.
FinalStatus == 0

VARIABLES
    status,          \* status_, or "DELETED" once handle_rpcs has deleted it
    rpc_ok,          \* rpc_ok_
    response_queue,  \* response_queue_, a bounded FIFO queue
    registered,      \* the call waits for a client (on_register_)
    spawned,         \* a new CallData was created to wait for the next client
    alarms,          \* events of write_alarm_ and finish_alarm_ not yet taken
    writing,         \* Write operations gRPC has not completed
    written,         \* events of completed Writes not yet taken
    finishing,       \* Finish operations started
    finished,        \* events of completed Finishes taken
    producer,        \* where the producer is in write() or finish()
    pushed,          \* how many responses it has pushed
    sent             \* history: the responses handed to responder_.Write

handlerVars == <<status, registered, spawned>>
grpcVars == <<writing, written, finishing, finished>>
producerVars == <<producer, pushed>>
vars == <<handlerVars, rpc_ok, response_queue, alarms, grpcVars, producerVars, sent>>

\* The constructor registers the call with the service.
Init ==
    /\ status = "CREATE" /\ registered = TRUE /\ spawned = FALSE
    /\ rpc_ok = TRUE
    /\ response_queue = <<>>
    /\ alarms = 0 /\ writing = 0 /\ written = 0
    /\ finishing = 0 /\ finished = 0
    /\ producer = "none" /\ pushed = 0
    /\ sent = <<>>

-----------------------------------------------------------------------------
(* The producer *)

\* write(): returns false at once when the rpc has failed.
WriteCheck ==
    /\ producer = "ready" /\ pushed < MaxWrites
    /\ producer' = IF rpc_ok THEN "push" ELSE "ready"
    /\ UNCHANGED <<handlerVars, rpc_ok, response_queue, alarms, grpcVars, pushed, sent>>

\* Faulty variant: the queue is written to without looking at its size.
WritePushUnbounded ==
    /\ producer = "push"
    /\ response_queue' = Append(response_queue, pushed + 1)
    /\ pushed' = pushed + 1
    /\ producer' = "alarm"
    /\ UNCHANGED <<handlerVars, rpc_ok, alarms, grpcVars, sent>>

\* blockingWrite waits while the queue is full.
WritePush ==
    /\ producer = "push" /\ Len(response_queue) < QueueSize
    /\ response_queue' = Append(response_queue, pushed + 1)
    /\ pushed' = pushed + 1
    /\ producer' = "alarm"
    /\ UNCHANGED <<handlerVars, rpc_ok, alarms, grpcVars, sent>>

\* Faulty variant: an alarm that is already set is not set again.
WriteAlarmOnce ==
    /\ producer = "alarm"
    /\ alarms' = IF alarms = 0 THEN 1 ELSE alarms
    /\ producer' = "ready"
    /\ UNCHANGED <<handlerVars, rpc_ok, response_queue, grpcVars, pushed, sent>>

WriteAlarm ==
    /\ producer = "alarm"
    /\ alarms' = alarms + 1
    /\ producer' = "ready"
    /\ UNCHANGED <<handlerVars, rpc_ok, response_queue, grpcVars, pushed, sent>>

FinishPush ==
    /\ producer = "ready" /\ Len(response_queue) < QueueSize
    /\ response_queue' = Append(response_queue, FinalStatus)
    /\ producer' = "finish_alarm"
    /\ UNCHANGED <<handlerVars, rpc_ok, alarms, grpcVars, pushed, sent>>

\* Faulty variant: finish() does not wake the handler thread.
FinishWithoutAlarm ==
    /\ producer = "finish_alarm"
    /\ producer' = "finish_return"
    /\ UNCHANGED <<handlerVars, rpc_ok, response_queue, alarms, grpcVars, pushed, sent>>

FinishAlarm ==
    /\ producer = "finish_alarm"
    /\ alarms' = alarms + 1
    /\ producer' = "finish_return"
    /\ UNCHANGED <<handlerVars, rpc_ok, response_queue, grpcVars, pushed, sent>>

\* finish() reads rpc_ok_ once more for its result.
FinishReturn ==
    /\ producer = "finish_return"
    /\ producer' = "done"
    /\ UNCHANGED <<handlerVars, rpc_ok, response_queue, alarms, grpcVars, pushed, sent>>

Producer ==
    \/ WriteCheck \/ WritePush \/ WriteAlarm
    \/ FinishPush \/ FinishAlarm \/ FinishReturn

-----------------------------------------------------------------------------
(* The handler thread: proceed(), given the result of the event *)

\* A client has called: the next CallData is created and the request handed to
\* the handler; an error before that only releases the call.
ProceedCreate(ok) ==
    /\ status = "CREATE"
    /\ IF ok THEN status' = "WRITE" /\ producer' = "ready" /\ spawned' = TRUE
             ELSE status' = "DELETED" /\ UNCHANGED <<producer, spawned>>
    /\ UNCHANGED <<response_queue, writing, finishing, sent>>

\* Faulty variant: the call is deleted as soon as a response cannot be sent.
ProceedWriteDeletes(ok) ==
    /\ status = "WRITE" /\ response_queue # <<>>
    /\ response_queue' = Tail(response_queue)
    /\ \/ /\ ok /\ Head(response_queue) # FinalStatus
          /\ status' = "PENDING" /\ writing' = writing + 1
          /\ sent' = Append(sent, Head(response_queue)) /\ UNCHANGED finishing
       \/ /\ ok /\ Head(response_queue) = FinalStatus
          /\ status' = "FINISH" /\ finishing' = finishing + 1
          /\ UNCHANGED <<writing, sent>>
       \/ /\ ~ok
          /\ status' = "DELETED" /\ UNCHANGED <<writing, sent, finishing>>
    /\ UNCHANGED <<producer, spawned>>

\* The next item of the queue, if there is one: a response is written while the
\* rpc is ok and dropped otherwise; the final status ends the call.
ProceedWrite(ok) ==
    /\ status = "WRITE"
    /\ IF response_queue = <<>>
       THEN UNCHANGED <<status, response_queue, writing, finishing, sent>>
       ELSE /\ response_queue' = Tail(response_queue)
            /\ IF Head(response_queue) # FinalStatus
               THEN /\ status' = IF ok THEN "PENDING" ELSE "WRITE"
                    /\ writing' = IF ok THEN writing + 1 ELSE writing
                    /\ sent' = IF ok THEN Append(sent, Head(response_queue)) ELSE sent
                    /\ UNCHANGED finishing
               ELSE /\ status' = IF ok THEN "FINISH" ELSE "DELETED"
                    /\ finishing' = IF ok THEN finishing + 1 ELSE finishing
                    /\ UNCHANGED <<writing, sent>>
    /\ UNCHANGED <<producer, spawned>>

\* Faulty variant: the response is taken off the queue after its write, too.
ProceedPendingPops ==
    /\ status = "PENDING"
    /\ status' = "WRITE"
    /\ response_queue' = IF response_queue = <<>> THEN <<>> ELSE Tail(response_queue)
    /\ UNCHANGED <<writing, finishing, sent, producer, spawned>>

\* Taken for the end of the write operation.
ProceedPending ==
    /\ status = "PENDING"
    /\ status' = "WRITE"
    /\ UNCHANGED <<response_queue, writing, finishing, sent, producer, spawned>>

ProceedFinish ==
    /\ status = "FINISH"
    /\ status' = "DELETED"
    /\ UNCHANGED <<response_queue, writing, finishing, sent, producer, spawned>>

\* proceed(event_ok), and the delete of handle_rpcs when it returns false.
Proceed(event_ok) ==
    /\ rpc_ok' = (rpc_ok /\ event_ok)
    /\ \/ ProceedCreate(event_ok /\ rpc_ok) \/ ProceedWrite(event_ok /\ rpc_ok)
       \/ ProceedPending \/ ProceedFinish
    /\ UNCHANGED pushed

\* What cq_->Next may return for this call.
Results == IF RpcMayFail THEN BOOLEAN ELSE {TRUE}

CallEvent ==
    /\ registered
    /\ registered' = FALSE
    /\ \E ok \in Results : Proceed(ok)
    /\ UNCHANGED <<alarms, written, finished>>

AlarmEvent ==
    /\ alarms > 0
    /\ alarms' = alarms - 1
    /\ Proceed(TRUE)
    /\ UNCHANGED <<registered, written, finished>>

WriteEvent ==
    /\ written > 0
    /\ written' = written - 1
    /\ \E ok \in Results : Proceed(ok)
    /\ UNCHANGED <<registered, alarms, finished>>

FinishEvent ==
    /\ finishing > finished
    /\ finished' = finished + 1
    /\ \E ok \in Results : Proceed(ok)
    /\ UNCHANGED <<registered, alarms, written>>

HandleRpcs == CallEvent \/ AlarmEvent \/ WriteEvent \/ FinishEvent

-----------------------------------------------------------------------------
(* gRPC *)

CompleteWrite ==
    /\ writing > 0
    /\ writing' = writing - 1
    /\ written' = written + 1
    /\ UNCHANGED <<handlerVars, rpc_ok, response_queue, alarms, finishing, finished,
                   producerVars, sent>>

Next == Producer \/ HandleRpcs \/ CompleteWrite

Spec == Init /\ [][Next]_vars

\* Both threads run and gRPC completes what was started.  A producer that could
\* go on writing is not obliged to, but it does call finish() in the end.
FairSpec ==
    /\ Spec
    /\ WF_vars(HandleRpcs) /\ WF_vars(CompleteWrite)
    /\ WF_vars(WritePush \/ WriteAlarm \/ FinishPush \/ FinishAlarm \/ FinishReturn)

-----------------------------------------------------------------------------
(* Properties *)

\* The type of every variable.
TypeOK ==
    /\ status \in {"CREATE", "WRITE", "PENDING", "FINISH", "DELETED"}
    /\ registered \in BOOLEAN /\ spawned \in BOOLEAN /\ rpc_ok \in BOOLEAN
    /\ response_queue \in Seq(Nat) /\ Len(response_queue) <= QueueSize
    /\ alarms \in Nat /\ writing \in Nat /\ written \in Nat
    /\ finishing \in Nat /\ finished \in Nat
    /\ producer \in {"none", "ready", "push", "alarm", "finish_alarm",
                     "finish_return", "done"}
    /\ pushed \in Nat
    /\ sent \in Seq(Nat)

\* Events that are on the completion queue or will come without the producer.
PendingEvents == alarms + writing + written + (finishing - finished)

\* The producer has pushed an item and not yet set the alarm for it.
AlarmOwed == IF producer \in {"alarm", "finish_alarm"} THEN 1 ELSE 0

\* Although proceed() cannot tell which event woke it, it is woken exactly as
\* often as there is something to do: once for each queued item and once for the
\* write it waits for.  So no item is stranded in the queue, no wakeup finds the
\* queue empty, and when the call is deleted no event with its tag is left.
EventsMatchWork ==
    /\ status \in {"WRITE", "PENDING"} =>
         PendingEvents + AlarmOwed
           = Len(response_queue) + (IF status = "PENDING" THEN 1 ELSE 0)
    /\ status = "FINISH" => PendingEvents = 1 /\ AlarmOwed = 0
    /\ status \in {"CREATE", "DELETED"} => PendingEvents = 0 /\ AlarmOwed = 0

\* Nothing that can still touch the call outlives it: write() and the part of
\* finish() up to its alarm run on a live call, and so does every event.
DeletedLast ==
    status = "DELETED" =>
        /\ producer \in {"none", "finish_return", "done"}
        /\ ~registered /\ PendingEvents = 0

FinalQueued ==
    response_queue # <<>> /\ response_queue[Len(response_queue)] = FinalStatus

\* While the rpc is ok the client gets the responses in the order they were
\* written: what was sent and what is queued, taken together, are the responses
\* 1, 2, ..., pushed, none lost and none twice, and the final status is sent only
\* after all of them.
ResponsesInOrder ==
    rpc_ok =>
        /\ \A i \in DOMAIN sent : sent[i] = i
        /\ \A i \in DOMAIN response_queue :
             response_queue[i] = IF i = Len(response_queue) /\ FinalQueued
                                 THEN FinalStatus ELSE Len(sent) + i
        /\ pushed = Len(sent) + Len(response_queue) - (IF FinalQueued THEN 1 ELSE 0)

\* "Change the status to pending to wait for write op to finish": gRPC allows one
\* outstanding Write per call.
OneWriteAtATime == writing <= 1

\* A call that was handed to the handler is released in the end; in particular
\* no producer waits for ever on a full queue.
CallReleased == producer = "ready" ~> (status = "DELETED" /\ producer = "done")

\* How the state of the call, the producer and the queue go together: nothing
\* happens before the call arrives, the final status is the last item ever
\* queued, and only a call whose queue is empty is finished or deleted.
Phases ==
    /\ registered <=> status = "CREATE"
    /\ finished <= finishing
    /\ producer = "none" => status \in {"CREATE", "DELETED"}
    /\ status = "CREATE" => producer = "none"
    /\ status \in {"CREATE", "FINISH", "DELETED"} => response_queue = <<>>
    /\ producer \in {"ready", "push", "alarm"} =>
         status \in {"WRITE", "PENDING"} /\ ~FinalQueued
    /\ \A i \in DOMAIN response_queue :
         response_queue[i] = FinalStatus => i = Len(response_queue)

\* The inductive invariant of CallData: the counting of EventsMatchWork alone
\* does not exclude a call that is deleted while its producer still writes.
CallDataInv == TypeOK /\ Phases /\ EventsMatchWork /\ ResponsesInOrder
=============================================================================
