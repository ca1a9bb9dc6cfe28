-------------------------- MODULE CallDataProofs --------------------------
(***************************************************************************)
(* Proofs about CallData, for every size of the response queue, every      *)
(* number of responses and every interleaving of the producer, the handler *)
(* thread and gRPC.                                                        *)
(***************************************************************************)
EXTENDS CallData, TLAPS

\* What pushing to response_queue_ does to its length and items.
LEMMA AppendFacts ==
  ASSUME NEW q \in Seq(Nat), NEW x \in Nat
  PROVE  /\ Append(q, x) \in Seq(Nat)
         /\ Len(Append(q, x)) = Len(q) + 1
         /\ DOMAIN Append(q, x) = 1..Len(q) + 1
         /\ Append(q, x) # <<>>
         /\ Append(q, x)[Len(q) + 1] = x
         /\ \A i \in 1..Len(q) : Append(q, x)[i] = q[i]
  OBVIOUS

\* What reading from response_queue_ does to its length and items.
LEMMA TailFacts ==
  ASSUME NEW q \in Seq(Nat), q # <<>>
  PROVE  /\ Head(q) = q[1] /\ Head(q) \in Nat
         /\ Tail(q) \in Seq(Nat)
         /\ Len(Tail(q)) = Len(q) - 1
         /\ DOMAIN Tail(q) = 1..Len(q) - 1
         /\ Len(q) >= 1 /\ DOMAIN q = 1..Len(q)
         /\ \A i \in 1..Len(q) - 1 : Tail(q)[i] = q[i + 1]
  OBVIOUS

\* An empty sequence is one of length 0.
LEMMA EmptyFacts ==
  ASSUME NEW q \in Seq(Nat)
  PROVE  /\ Len(q) \in Nat /\ DOMAIN q = 1..Len(q)
         /\ q = <<>> <=> Len(q) = 0
         /\ Len(q) > 0 => q[Len(q)] \in Nat
  OBVIOUS

\* The constructor establishes the invariant.
LEMMA InitInv == Init => CallDataInv
<1> SUFFICES ASSUME Init PROVE CallDataInv
  OBVIOUS
<1> USE CallDataAssumption DEF Init, FinalQueued
<1>1. TypeOK
  <2>1. registered \in BOOLEAN /\ spawned \in BOOLEAN /\ rpc_ok \in BOOLEAN
    BY Zenon
  <2>2. response_queue \in Seq(Nat) /\ Len(response_queue) <= QueueSize /\ sent \in Seq(Nat)
    OBVIOUS
  <2> QED
    BY <2>1, <2>2 DEF TypeOK
<1>2. Phases
  BY DEF Phases
<1>3. EventsMatchWork
  BY DEF EventsMatchWork, PendingEvents, AlarmOwed
<1>4. ResponsesInOrder
  BY DEF ResponsesInOrder
<1> QED
  BY <1>1, <1>2, <1>3, <1>4 DEF CallDataInv

\* An item pushed to the queue: the producer then owes an alarm for it.
LEMMA PushInv ==
  ASSUME CallDataInv, WritePush \/ FinishPush
  PROVE  CallDataInv'
<1> DEFINE x == IF producer = "push" THEN pushed + 1 ELSE FinalStatus
<1> USE DEF CallDataInv
<1>1. /\ x \in Nat /\ response_queue' = Append(response_queue, x)
      /\ Len(response_queue) < QueueSize
      /\ producer = "push" => x = pushed + 1 /\ x # FinalStatus /\ pushed' = pushed + 1
                              /\ producer' = "alarm"
      /\ producer = "ready" => x = FinalStatus /\ pushed' = pushed /\ producer' = "finish_alarm"
      /\ producer \in {"ready", "push"}
      /\ status' = status /\ registered' = registered /\ spawned' = spawned
      /\ alarms' = alarms /\ writing' = writing /\ written' = written
      /\ finishing' = finishing /\ finished' = finished
      /\ sent' = sent /\ rpc_ok' = rpc_ok
  BY DEF WritePush, FinishPush, TypeOK, FinalStatus, handlerVars, grpcVars
<1> HIDE DEF x
<1>2. /\ response_queue' \in Seq(Nat)
      /\ Len(response_queue') = Len(response_queue) + 1
      /\ DOMAIN response_queue' = 1..Len(response_queue) + 1
      /\ DOMAIN response_queue = 1..Len(response_queue)
      /\ response_queue' # <<>> /\ Len(response_queue) \in Nat
      /\ response_queue'[Len(response_queue) + 1] = x
      /\ \A i \in 1..Len(response_queue) : response_queue'[i] = response_queue[i]
      /\ response_queue = <<>> <=> Len(response_queue) = 0
  <2>1. response_queue \in Seq(Nat)
    BY DEF TypeOK
  <2>2. /\ DOMAIN response_queue = 1..Len(response_queue) /\ Len(response_queue) \in Nat
        /\ response_queue = <<>> <=> Len(response_queue) = 0
    BY <2>1, EmptyFacts
  <2> DEFINE q == Append(response_queue, x)
  <2>3. /\ q \in Seq(Nat)
        /\ Len(q) = Len(response_queue) + 1
        /\ DOMAIN q = 1..Len(response_queue) + 1
        /\ q # <<>>
        /\ q[Len(response_queue) + 1] = x
        /\ \A i \in 1..Len(response_queue) : q[i] = response_queue[i]
    BY <1>1, <2>1, AppendFacts
  <2>4. response_queue' = q
    BY <1>1
  <2> HIDE DEF q
  <2> QED
    BY <2>2, <2>3, <2>4
<1>3. /\ FinalQueued' <=> x = FinalStatus
      /\ status \in {"WRITE", "PENDING"} /\ ~FinalQueued
  BY <1>1, <1>2 DEF FinalQueued, Phases
<1>4. TypeOK'
  BY <1>1, <1>2, CallDataAssumption DEF TypeOK
<1>5. Phases'
  BY <1>1, <1>2, <1>3 DEF Phases, FinalQueued, TypeOK
<1>6. EventsMatchWork'
  <2>1. PendingEvents' = PendingEvents /\ PendingEvents \in Int
    BY <1>1 DEF PendingEvents, TypeOK
  <2>2. AlarmOwed = 0 /\ AlarmOwed' = 1
    BY <1>1 DEF AlarmOwed
  <2>3. Len(response_queue') = Len(response_queue) + 1 /\ Len(response_queue) \in Nat
    BY <1>2
  <2>4. status' = status /\ status \in {"WRITE", "PENDING"}
    BY <1>1, <1>3
  <2> QED
    BY <2>1, <2>2, <2>3, <2>4 DEF EventsMatchWork
<1>7. ResponsesInOrder'
  <2> SUFFICES ASSUME rpc_ok' PROVE ResponsesInOrder'
    BY DEF ResponsesInOrder
  <2>1. Len(sent) \in Nat /\ pushed \in Nat
    BY DEF TypeOK
  <2>a. rpc_ok /\ ~FinalQueued
    BY <1>1, <1>3
  <2>b. /\ \A i \in DOMAIN sent : sent[i] = i
        /\ \A i \in DOMAIN response_queue : response_queue[i] = Len(sent) + i
        /\ pushed = Len(sent) + Len(response_queue) - 0
    BY <2>a DEF ResponsesInOrder
  <2>2. /\ \A i \in DOMAIN sent : sent[i] = i
        /\ \A i \in 1..Len(response_queue) : response_queue[i] = Len(sent) + i
        /\ pushed = Len(sent) + Len(response_queue)
    <3>1. DOMAIN response_queue = 1..Len(response_queue) /\ Len(response_queue) \in Nat
      BY <1>2
    <3> QED
      BY <2>1, <2>b, <3>1
  <2>3. \A i \in DOMAIN response_queue' :
          response_queue'[i] = IF i = Len(response_queue') /\ FinalQueued'
                               THEN FinalStatus ELSE Len(sent') + i
    <3> TAKE i \in DOMAIN response_queue'
    <3>1. CASE i \in 1..Len(response_queue)
      BY <1>1, <1>2, <2>1, <2>2, <3>1 DEF FinalQueued
    <3>2. CASE i = Len(response_queue) + 1
      BY <1>1, <1>2, <1>3, <2>1, <2>2, <3>2
    <3> QED
      BY <1>2, <3>1, <3>2
  <2>4. pushed' = Len(sent') + Len(response_queue') - (IF FinalQueued' THEN 1 ELSE 0)
    <3>1. pushed' = pushed + (IF x = FinalStatus THEN 0 ELSE 1)
      BY <1>1, <2>1
    <3>2. Len(response_queue') = Len(response_queue) + 1 /\ Len(response_queue) \in Nat
      BY <1>2
    <3>3. sent' = sent /\ pushed = Len(sent) + Len(response_queue)
      BY <1>1, <2>2
    <3>4. CASE x = FinalStatus
      <4>1. FinalQueued' /\ pushed' = pushed
        BY <1>3, <2>1, <3>1, <3>4
      <4> QED
        BY <2>1, <3>2, <3>3, <4>1
    <3>5. CASE x # FinalStatus
      <4>1. ~FinalQueued' /\ pushed' = pushed + 1
        BY <1>3, <3>1, <3>5
      <4> QED
        BY <2>1, <3>2, <3>3, <4>1
    <3> QED
      BY <3>4, <3>5
  <2> QED
    BY <1>1, <2>2, <2>3, <2>4 DEF ResponsesInOrder
<1> QED
  BY <1>4, <1>5, <1>6, <1>7

\* write() and finish() preserve the invariant.
LEMMA ProducerInv == CallDataInv /\ Producer => CallDataInv'
<1> SUFFICES ASSUME CallDataInv, Producer PROVE CallDataInv'
  OBVIOUS
<1> USE CallDataAssumption DEF CallDataInv, TypeOK, Phases, EventsMatchWork,
      ResponsesInOrder, PendingEvents, AlarmOwed, FinalQueued, FinalStatus,
      handlerVars, grpcVars, producerVars
<1>1. CASE WriteCheck
  BY <1>1 DEF WriteCheck
<1>2. CASE WritePush \/ FinishPush
  BY <1>2, PushInv
<1>3. CASE WriteAlarm
  BY <1>3 DEF WriteAlarm
<1>5. CASE FinishAlarm
  BY <1>5 DEF FinishAlarm
<1>6. CASE FinishReturn
  BY <1>6 DEF FinishReturn
<1> QED
  BY <1>1, <1>2, <1>3, <1>5, <1>6 DEF Producer


\* The arrival of the call.
LEMMA CallEventInv == CallDataInv /\ CallEvent => CallDataInv'
<1> SUFFICES ASSUME CallDataInv, CallEvent PROVE CallDataInv'
  OBVIOUS
<1> USE DEF CallDataInv
<1>1. status = "CREATE" /\ producer = "none" /\ response_queue = <<>>
  BY DEF CallEvent, Phases
<1>2. PICK ok \in BOOLEAN : Proceed(ok)
  BY DEF CallEvent, Results
<1>3. /\ response_queue' = response_queue /\ sent' = sent /\ pushed' = pushed
      /\ alarms' = alarms /\ writing' = writing /\ written' = written
      /\ finishing' = finishing /\ finished' = finished
      /\ registered' = FALSE
      /\ rpc_ok' = (rpc_ok /\ ok)
      /\ \/ status' = "WRITE" /\ producer' = "ready" /\ spawned' = TRUE
         \/ status' = "DELETED" /\ producer' = producer /\ spawned' = spawned
  BY <1>1, <1>2 DEF CallEvent, Proceed, ProceedCreate, ProceedWrite, ProceedPending,
       ProceedFinish
<1>4. TypeOK'
  <2>1. registered' \in BOOLEAN /\ spawned' \in BOOLEAN /\ rpc_ok' \in BOOLEAN
    BY <1>3 DEF TypeOK
  <2> QED
    BY <1>3, <2>1 DEF TypeOK
<1>5. Phases'
  BY <1>1, <1>3 DEF Phases, FinalQueued, FinalStatus, TypeOK
<1>6. EventsMatchWork'
  <2>1. PendingEvents' = 0 /\ AlarmOwed' = 0 /\ Len(response_queue') = 0
    BY <1>1, <1>3 DEF EventsMatchWork, PendingEvents, AlarmOwed
  <2> QED
    BY <1>3, <2>1 DEF EventsMatchWork
<1>7. ResponsesInOrder'
  <2>1. FinalQueued' = FinalQueued
    BY <1>3 DEF FinalQueued
  <2>2. rpc_ok' => rpc_ok
    BY <1>3
  <2> QED
    BY <1>3, <2>1, <2>2 DEF ResponsesInOrder
<1> QED
  BY <1>4, <1>5, <1>6, <1>7


\* An alarm or a completed operation is taken off the completion queue.
TakesEvent ==
    /\ alarms' \in Nat /\ written' \in Nat /\ finished' \in Nat
    /\ finished' <= finishing
    /\ alarms' + written' + finished + 1 = alarms + written + finished'
    /\ registered' = registered
    /\ PendingEvents >= 1

\* The counters of events are integers, and one event fewer is pending, but for
\* what proceed() starts.
LEMMA EventTaken ==
  ASSUME TypeOK, TakesEvent, writing' \in Int, finishing' \in Int
  PROVE  /\ PendingEvents \in Int
         /\ PendingEvents' = PendingEvents - 1 + (writing' - writing)
                                             + (finishing' - finishing)
<1>1. /\ alarms \in Int /\ written \in Int /\ writing \in Int
      /\ finishing \in Int /\ finished \in Int
  BY DEF TypeOK
<1>2. alarms' \in Int /\ written' \in Int /\ finished' \in Int
  BY DEF TakesEvent
<1>3. alarms' + written' + finished + 1 = alarms + written + finished'
  BY DEF TakesEvent
<1> QED
  BY <1>1, <1>2, <1>3 DEF PendingEvents

\* An event in state WRITE finds an item; it is the last one if it is the final
\* status, and then no other event is pending and no alarm owed.
LEMMA ProceedWriteInv ==
  ASSUME CallDataInv, TakesEvent, NEW ok \in BOOLEAN, Proceed(ok), status = "WRITE"
  PROVE  CallDataInv'
<1> DEFINE q == response_queue
           good == ok /\ rpc_ok
<1> USE DEF CallDataInv
<1>1. /\ rpc_ok' = (rpc_ok /\ ok) /\ pushed' = pushed
      /\ producer' = producer /\ spawned' = spawned
      /\ ProceedWrite(good)
  BY DEF Proceed, ProceedCreate, ProceedWrite, ProceedPending, ProceedFinish
<1>2. q \in Seq(Nat) /\ Len(q) \in Nat /\ (q = <<>> <=> Len(q) = 0)
  BY EmptyFacts DEF TypeOK
<1>3. PendingEvents \in Int /\ AlarmOwed \in {0, 1} /\ PendingEvents >= 1
      /\ PendingEvents + AlarmOwed = Len(q) + 0
  BY DEF EventsMatchWork, TakesEvent, AlarmOwed, PendingEvents, TypeOK
<1>4. q # <<>>
  BY <1>2, <1>3
<1>5. /\ Head(q) = q[1] /\ Head(q) \in Nat
      /\ Tail(q) \in Seq(Nat)
      /\ Len(Tail(q)) = Len(q) - 1
      /\ DOMAIN Tail(q) = 1..Len(q) - 1
      /\ Len(q) >= 1 /\ DOMAIN q = 1..Len(q)
      /\ \A i \in 1..Len(q) - 1 : Tail(q)[i] = q[i + 1]
  BY <1>2, <1>4, TailFacts
<1>6. AlarmOwed' = AlarmOwed
  BY <1>1 DEF AlarmOwed
<1>7. response_queue' = Tail(q)
  BY <1>1, <1>4 DEF ProceedWrite
<1>q. /\ response_queue' \in Seq(Nat)
      /\ Len(response_queue') = Len(q) - 1
      /\ DOMAIN response_queue' = 1..Len(q) - 1
      /\ response_queue' = <<>> <=> Len(q) = 1
      /\ \A i \in 1..Len(q) - 1 : response_queue'[i] = q[i + 1]
  <2> DEFINE rest == Tail(q)
  <2>1. rest = <<>> <=> Len(rest) = 0
    BY <1>5, EmptyFacts
  <2>2. /\ rest \in Seq(Nat) /\ Len(rest) = Len(q) - 1 /\ DOMAIN rest = 1..Len(q) - 1
        /\ \A i \in 1..Len(q) - 1 : rest[i] = q[i + 1]
    BY <1>5
  <2>3. response_queue' = rest
    BY <1>7
  <2> HIDE DEF rest
  <2>4. rest = <<>> <=> Len(q) = 1
    BY <1>2, <2>1, <2>2
  <2> QED
    BY <2>2, <2>3, <2>4
<1>8. CASE q[1] # FinalStatus
  <2>1. /\ good => status' = "PENDING" /\ writing' = writing + 1 /\ sent' = Append(sent, q[1])
        /\ ~good => status' = "WRITE" /\ writing' = writing /\ sent' = sent
        /\ finishing' = finishing
    BY <1>1, <1>4, <1>5, <1>8 DEF ProceedWrite
  <2>2. sent' \in Seq(Nat)
    BY <1>5, <2>1, AppendFacts DEF TypeOK
  <2>3. TypeOK'
    <3>1. rpc_ok' \in BOOLEAN /\ spawned' \in BOOLEAN
      BY <1>1 DEF TypeOK
    <3>2. response_queue' \in Seq(Nat) /\ Len(response_queue') <= QueueSize
      BY <1>2, <1>q, CallDataAssumption DEF TypeOK
    <3>3. writing' \in Nat /\ finishing' \in Nat
      BY <2>1 DEF TypeOK
    <3>4. status' \in {"WRITE", "PENDING", "FINISH", "DELETED"} /\ sent' \in Seq(Nat)
      BY <2>1, <2>2 DEF TypeOK
    <3> QED
      BY <1>1, <2>2, <3>1, <3>2, <3>3, <3>4 DEF TypeOK, TakesEvent
  <2>4. FinalQueued' => FinalQueued
    <3>1. CASE Len(q) = 1
      BY <1>q, <3>1 DEF FinalQueued
    <3>2. CASE Len(q) > 1
      <4>1. response_queue'[Len(response_queue')] = q[Len(q)]
        BY <1>2, <1>q, <3>2
      <4> QED
        BY <1>4, <4>1 DEF FinalQueued
    <3> QED
      BY <1>2, <1>5, <3>1, <3>2
  <2>5. Phases'
    <3>1. \A i \in DOMAIN response_queue' :
            response_queue'[i] = FinalStatus => i = Len(response_queue')
      <4> SUFFICES ASSUME NEW i \in 1..Len(q) - 1, q[i + 1] = FinalStatus
                   PROVE  i = Len(q) - 1
        BY <1>q
      <4>1. i + 1 \in DOMAIN q
        BY <1>2, <1>5
      <4>2. i + 1 = Len(q)
        BY <4>1 DEF Phases
      <4> QED
        BY <1>2, <4>2
    <3>2. status' \in {"WRITE", "PENDING"}
      BY <2>1
    <3> QED
      BY <1>1, <2>1, <2>4, <3>1, <3>2 DEF Phases, TakesEvent, TypeOK
  <2>6. EventsMatchWork'
    <3>1. PendingEvents' = PendingEvents - 1 + (writing' - writing)
      <4>1. writing' \in Nat /\ finishing' = finishing
        BY <2>1 DEF TypeOK
      <4> QED
        BY <1>3, <4>1, EventTaken DEF TypeOK
    <3>2. CASE good
      <4>1. PendingEvents' = PendingEvents /\ status' = "PENDING"
        BY <1>3, <2>1, <3>1, <3>2 DEF TypeOK
      <4> QED
        BY <1>2, <1>3, <1>6, <1>q, <4>1 DEF EventsMatchWork
    <3>3. CASE ~good
      <4>1. PendingEvents' = PendingEvents - 1 /\ status' = "WRITE"
        BY <1>3, <2>1, <3>1, <3>3 DEF TypeOK
      <4> QED
        BY <1>2, <1>3, <1>6, <1>q, <4>1 DEF EventsMatchWork
    <3> QED
      BY <3>2, <3>3
  <2>7. ResponsesInOrder'
    <3> SUFFICES ASSUME rpc_ok' PROVE ResponsesInOrder'
      BY DEF ResponsesInOrder
    <3>1. good /\ rpc_ok
      BY <1>1
    <3>2. /\ \A i \in DOMAIN sent : sent[i] = i
          /\ \A i \in 1..Len(q) : q[i] = IF i = Len(q) /\ FinalQueued
                                          THEN FinalStatus ELSE Len(sent) + i
          /\ pushed = Len(sent) + Len(q) - (IF FinalQueued THEN 1 ELSE 0)
      BY <1>5, <3>1 DEF ResponsesInOrder
    <3>3. q[1] = Len(sent) + 1
      <4>1. 1 \in 1..Len(q)
        BY <1>2, <1>5
      <4>2. q[1] = IF 1 = Len(q) /\ FinalQueued THEN FinalStatus ELSE Len(sent) + 1
        BY <3>2, <4>1
      <4> QED
        BY <1>8, <4>2
    <3>4. /\ sent \in Seq(Nat) /\ Len(sent) \in Nat /\ DOMAIN sent = 1..Len(sent)
          /\ sent' = Append(sent, Len(sent) + 1)
      BY <2>1, <3>1, <3>3 DEF TypeOK
    <3>5. Len(sent') = Len(sent) + 1 /\ \A i \in DOMAIN sent' : sent'[i] = i
      BY <3>2, <3>4
    <3>6. FinalQueued' <=> FinalQueued
      <4>1. CASE Len(q) = 1
        BY <1>8, <1>q, <4>1 DEF FinalQueued
      <4>2. CASE Len(q) > 1
        <5>1. response_queue'[Len(response_queue')] = q[Len(q)] /\ response_queue' # <<>>
          BY <1>2, <1>q, <4>2
        <5> QED
          BY <1>4, <5>1 DEF FinalQueued
      <4> QED
        BY <1>2, <1>5, <4>1, <4>2
    <3>7. \A i \in DOMAIN response_queue' :
            response_queue'[i] = IF i = Len(response_queue') /\ FinalQueued'
                                 THEN FinalStatus ELSE Len(sent') + i
      <4> SUFFICES ASSUME NEW i \in 1..Len(q) - 1
                   PROVE  q[i + 1] = IF i = Len(q) - 1 /\ FinalQueued'
                                     THEN FinalStatus ELSE Len(sent') + i
        BY <1>q
      <4>1. i + 1 \in 1..Len(q) /\ i \in Nat
        BY <1>2
      <4>2. q[i + 1] = IF i + 1 = Len(q) /\ FinalQueued
                       THEN FinalStatus ELSE Len(sent) + (i + 1)
        BY <3>2, <4>1
      <4>3. i + 1 = Len(q) <=> i = Len(q) - 1
        BY <1>2, <4>1
      <4>4. Len(sent) + (i + 1) = Len(sent') + i
        BY <3>4, <3>5, <4>1
      <4> QED
        BY <3>6, <4>2, <4>3, <4>4
    <3>8. pushed' = Len(sent') + Len(response_queue') - (IF FinalQueued' THEN 1 ELSE 0)
      <4>1. Len(sent') + Len(response_queue') = Len(sent) + Len(q)
        BY <1>2, <1>q, <3>4, <3>5
      <4> QED
        BY <1>1, <3>2, <3>6, <4>1
    <3> QED
      BY <3>5, <3>7, <3>8 DEF ResponsesInOrder
  <2> QED
    BY <2>3, <2>5, <2>6, <2>7
<1>9. CASE q[1] = FinalStatus
  <2>1. /\ good => status' = "FINISH" /\ finishing' = finishing + 1
        /\ ~good => status' = "DELETED" /\ finishing' = finishing
        /\ writing' = writing /\ sent' = sent
    BY <1>1, <1>4, <1>5, <1>9 DEF ProceedWrite
  <2>2. Len(q) = 1 /\ FinalQueued
    <3>1. 1 \in DOMAIN q
      BY <1>2, <1>5
    <3> QED
      BY <1>4, <1>9, <3>1 DEF Phases, FinalQueued
  <2>3. PendingEvents = 1 /\ AlarmOwed = 0
    BY <1>3, <2>2
  <2>4. response_queue' = <<>> /\ Len(response_queue') = 0 /\ ~FinalQueued'
    BY <1>q, <2>2 DEF FinalQueued
  <2>5. TypeOK'
    <3>1. rpc_ok' \in BOOLEAN /\ spawned' \in BOOLEAN
      BY <1>1 DEF TypeOK
    <3>2. response_queue' \in Seq(Nat) /\ Len(response_queue') <= QueueSize
      BY <1>2, <1>q, CallDataAssumption DEF TypeOK
    <3>3. writing' \in Nat /\ finishing' \in Nat
      BY <2>1 DEF TypeOK
    <3>4. status' \in {"WRITE", "PENDING", "FINISH", "DELETED"} /\ sent' \in Seq(Nat)
      BY <2>1, <2>2 DEF TypeOK
    <3> QED
      BY <1>1, <3>1, <3>2, <3>3, <3>4 DEF TypeOK, TakesEvent
  <2>6. Phases'
    <3>1. producer \notin {"none", "ready", "push", "alarm"}
      BY <2>2 DEF Phases
    <3>2. finished' <= finishing'
      <4>1. finishing \in Nat /\ finished' \in Nat /\ finished' <= finishing
        BY DEF TypeOK, TakesEvent
      <4>2. finishing' \in {finishing, finishing + 1}
        BY <2>1
      <4> QED
        BY <4>1, <4>2
    <3>3. status' \in {"FINISH", "DELETED"}
      BY <2>1
    <3>4. \A i \in DOMAIN response_queue' :
            response_queue'[i] = FinalStatus => i = Len(response_queue')
      BY <1>q, <2>2
    <3> QED
      BY <1>1, <2>4, <3>1, <3>2, <3>3, <3>4 DEF Phases, TakesEvent
  <2>7. EventsMatchWork'
    <3>1. PendingEvents' = finishing' - finishing
      <4>1. finishing' \in Nat /\ writing' = writing
        BY <2>1 DEF TypeOK
      <4> QED
        <5>1. finishing \in Int /\ writing' - writing = 0
          BY <4>1 DEF TypeOK
        <5>2. PendingEvents' = 1 - 1 + 0 + (finishing' - finishing)
          BY <2>3, <4>1, <5>1, EventTaken DEF TypeOK
        <5> QED
          BY <4>1, <5>1, <5>2
    <3>2. \/ status' = "FINISH" /\ PendingEvents' = 1
          \/ status' = "DELETED" /\ PendingEvents' = 0
      <4>1. finishing \in Int
        BY DEF TypeOK
      <4> HIDE DEF good
      <4>2. CASE good
        BY <2>1, <3>1, <4>1, <4>2
      <4>3. CASE ~good
        BY <2>1, <3>1, <4>1, <4>3
      <4> QED
        BY <4>2, <4>3
    <3> QED
      BY <1>6, <2>3, <3>2 DEF EventsMatchWork
  <2>8. ResponsesInOrder'
    <3> SUFFICES ASSUME rpc_ok' PROVE ResponsesInOrder'
      BY DEF ResponsesInOrder
    <3>1. rpc_ok
      BY <1>1
    <3>2. pushed = Len(sent) + 1 - 1 /\ \A i \in DOMAIN sent : sent[i] = i
      BY <2>2, <3>1 DEF ResponsesInOrder
    <3>3. DOMAIN response_queue' = {}
      BY <2>4
    <3>4. Len(sent) \in Nat
      BY DEF TypeOK
    <3>5. pushed' = Len(sent') + 0 - 0
      BY <1>1, <2>1, <3>2, <3>4
    <3> QED
      BY <2>1, <2>4, <3>2, <3>3, <3>5 DEF ResponsesInOrder
  <2> QED
    BY <2>5, <2>6, <2>7, <2>8
<1> QED
  BY <1>8, <1>9


\* An event in state PENDING or FINISH.
LEMMA ProceedOtherInv ==
  ASSUME CallDataInv, TakesEvent, NEW ok \in BOOLEAN, Proceed(ok),
         status \in {"PENDING", "FINISH"}
  PROVE  CallDataInv'
<1> USE DEF CallDataInv
<1>1. /\ rpc_ok' = (rpc_ok /\ ok) /\ pushed' = pushed
      /\ producer' = producer /\ spawned' = spawned
      /\ response_queue' = response_queue /\ writing' = writing
      /\ finishing' = finishing /\ sent' = sent
      /\ status' = IF status = "PENDING" THEN "WRITE" ELSE "DELETED"
  BY DEF Proceed, ProceedCreate, ProceedWrite, ProceedPending, ProceedFinish
<1>3. PendingEvents' = PendingEvents - 1 /\ PendingEvents \in Int
  <2>1. writing' \in Int /\ finishing' \in Int /\ writing' - writing = 0
        /\ finishing' - finishing = 0
    BY <1>1 DEF TypeOK
  <2> QED
    BY <2>1, EventTaken
<1>4. AlarmOwed' = AlarmOwed /\ AlarmOwed \in {0, 1} /\ (FinalQueued' <=> FinalQueued)
  BY <1>1 DEF AlarmOwed, FinalQueued
<1>5. TypeOK'
  <2>1. rpc_ok' \in BOOLEAN /\ spawned' \in BOOLEAN
    BY <1>1 DEF TypeOK
  <2> QED
    BY <1>1, <2>1 DEF TypeOK, TakesEvent
<1>6. Phases'
  <2>1. status' \in {"WRITE", "DELETED"} /\ (status' = "WRITE" <=> status = "PENDING")
    BY <1>1
  <2>2. status = "FINISH" => producer \notin {"none", "ready", "push", "alarm"}
    BY DEF Phases
  <2> QED
    BY <1>1, <1>4, <2>1, <2>2 DEF Phases, TakesEvent
<1>7. EventsMatchWork'
  <2>1. Len(response_queue) \in Nat
    BY DEF TypeOK
  <2> QED
    BY <1>1, <1>3, <1>4, <2>1 DEF EventsMatchWork
<1>8. ResponsesInOrder'
  <2>1. rpc_ok' => rpc_ok
    BY <1>1
  <2> QED
    BY <1>1, <1>4, <2>1 DEF ResponsesInOrder
<1> QED
  BY <1>5, <1>6, <1>7, <1>8

\* The handler thread preserves the invariant.
LEMMA HandlerInv == CallDataInv /\ HandleRpcs => CallDataInv'
<1> SUFFICES ASSUME CallDataInv, HandleRpcs PROVE CallDataInv'
  OBVIOUS
<1> USE DEF CallDataInv
<1>1. CASE CallEvent
  BY <1>1, CallEventInv
<1>2. ASSUME AlarmEvent \/ WriteEvent \/ FinishEvent
      PROVE  TakesEvent /\ \E ok \in BOOLEAN : Proceed(ok)
  <2>1. \E ok \in BOOLEAN : Proceed(ok)
    BY <1>2 DEF AlarmEvent, WriteEvent, FinishEvent, Results
  <2>2. /\ alarms \in Nat /\ written \in Nat /\ writing \in Nat
        /\ finishing \in Nat /\ finished \in Nat /\ finished <= finishing
    BY DEF TypeOK, Phases
  <2>3. TakesEvent
    <3>1. PendingEvents \in Int /\ PendingEvents >= alarms /\ PendingEvents >= written
          /\ (finishing > finished => PendingEvents >= 1)
      BY <2>2 DEF PendingEvents
    <3>2. CASE AlarmEvent
      BY <2>2, <3>1, <3>2 DEF TakesEvent, AlarmEvent
    <3>3. CASE WriteEvent
      BY <2>2, <3>1, <3>3 DEF TakesEvent, WriteEvent
    <3>4. CASE FinishEvent
      BY <2>2, <3>1, <3>4 DEF TakesEvent, FinishEvent
    <3> QED
      BY <1>2, <3>2, <3>3, <3>4
  <2> QED
    BY <2>1, <2>3
<1>3. CASE AlarmEvent \/ WriteEvent \/ FinishEvent
  <2>1. status \in {"WRITE", "PENDING", "FINISH"}
    BY <1>2, <1>3 DEF TakesEvent, EventsMatchWork, TypeOK
  <2> QED
    BY <1>2, <1>3, <2>1, ProceedWriteInv, ProceedOtherInv
<1> QED
  BY <1>1, <1>3 DEF HandleRpcs

\* gRPC completing a write only moves its event to the completion queue.
LEMMA CompleteWriteInv == CallDataInv /\ CompleteWrite => CallDataInv'
<1> SUFFICES ASSUME CallDataInv, CompleteWrite PROVE CallDataInv'
  OBVIOUS
<1> USE DEF CallDataInv, CompleteWrite, handlerVars, producerVars
<1>1. TypeOK'
  BY DEF TypeOK
<1>2. Phases'
  BY DEF Phases, FinalQueued
<1>3. EventsMatchWork'
  <2>1. PendingEvents' = PendingEvents
    BY DEF PendingEvents, TypeOK
  <2> QED
    BY <2>1 DEF EventsMatchWork, AlarmOwed
<1>4. ResponsesInOrder'
  BY DEF ResponsesInOrder, FinalQueued
<1> QED
  BY <1>1, <1>2, <1>3, <1>4

\* The counting argument behind CallData: the handler thread, the producer and
\* gRPC keep the inductive invariant, so proceed() is woken exactly as often as
\* there is work for it.
THEOREM CallDataInvariant == Spec => []CallDataInv
<1>1. CallDataInv /\ [Next]_vars => CallDataInv'
  <2> SUFFICES ASSUME CallDataInv, [Next]_vars PROVE CallDataInv'
    OBVIOUS
  <2>1. CASE UNCHANGED vars
    BY <2>1 DEF vars, handlerVars, grpcVars, producerVars, CallDataInv, TypeOK, Phases,
         EventsMatchWork, PendingEvents, AlarmOwed, ResponsesInOrder, FinalQueued
  <2> QED
    BY <2>1, ProducerInv, HandlerInv, CompleteWriteInv DEF Next
<1> QED
  BY <1>1, InitInv, PTL DEF Spec

\* Every wakeup has its work and every item its wakeup, whatever the size of the
\* queue and the number of responses.
THEOREM WakeupsMatchWork == Spec => []EventsMatchWork
<1>1. CallDataInv => EventsMatchWork
  BY DEF CallDataInv
<1> QED
  BY <1>1, CallDataInvariant, PTL

\* Responses reach gRPC in order, none lost and none twice, while the rpc is ok.
THEOREM StreamInOrder == Spec => []ResponsesInOrder
<1>1. CallDataInv => ResponsesInOrder
  BY DEF CallDataInv
<1> QED
  BY <1>1, CallDataInvariant, PTL

\* No event and no write() or finish() (up to its alarm) meets a deleted call.
THEOREM NothingOutlivesCall == Spec => []DeletedLast
<1>1. CallDataInv => DeletedLast
  BY DEF CallDataInv, DeletedLast, Phases, EventsMatchWork, AlarmOwed, TypeOK
<1> QED
  BY <1>1, CallDataInvariant, PTL

\* The types: the queue of responses is never longer than its capacity and the
\* number of events is a number, for every queue size and number of responses.
THEOREM TypeCorrect == Spec => []TypeOK
<1>1. CallDataInv => TypeOK
  BY DEF CallDataInv
<1> QED
  BY <1>1, CallDataInvariant, PTL
===========================================================================
