------------------------ MODULE RequestHandlersProofs ------------------------
(***************************************************************************)
(* Proofs about RequestHandlers, for any number of calls with any          *)
(* arguments: a call is answered once and nothing follows its answer, its  *)
(* sequence stays inside its limit, the calls of a handler are served in   *)
(* the order of their arrival, what a client reads is well formed and is   *)
(* the text of its tokens, and the prompt of a chat names the author of    *)
(* every message.                                                          *)
(***************************************************************************)
EXTENDS RequestHandlers, WellFoundedInduction, TLAPS

Reasons == {"NONE", "LENGTH", "STOP"}

\* The variables that hold one value per call.
HandlersType ==
    /\ clock \in Nat
    /\ args \in [Calls -> Args \cup {NotConverted}]
    /\ arrived \in Seq(Calls)
    /\ converter \in [Kinds -> Seq(Calls)]
    /\ DOMAIN request = Calls
    /\ status \in [Calls -> {"new", "accepted", "refused", "finished"}]
    /\ told \in [{Stream(c) : c \in Calls} -> Reasons]
    /\ num_tokens \in [Calls -> Nat]
    /\ finish_reason \in [Calls -> Reasons]
    /\ DOMAIN responses = Calls
    /\ DOMAIN answers = Calls

-----------------------------------------------------------------------------
(* The inductive invariants *)

\* A call is in the list of arrivals once.
ArrivedOnce ==
    /\ \A i \in DOMAIN arrived : args[arrived[i]] # NotConverted
    /\ \A i, j \in DOMAIN arrived : i # j => arrived[i] # arrived[j]

\* A call waits in the queue of its kind, which is the end of the list of arrivals of
\* that kind, in order.
Waiting(c, k) == \E x \in DOMAIN converter[k] : converter[k][x] = c

QueueInOrder ==
    \A k \in Kinds :
        /\ \A x \in DOMAIN converter[k] : \E i \in DOMAIN arrived :
             arrived[i] = converter[k][x] /\ args[arrived[i]].kind = k
        /\ \A x, y \in DOMAIN converter[k] : \A i, j \in DOMAIN arrived :
             x < y /\ arrived[i] = converter[k][x] /\ arrived[j] = converter[k][y] => i < j
        /\ \A i, j \in DOMAIN arrived :
             i < j /\ args[arrived[j]].kind = k /\ Waiting(arrived[i], k) => Waiting(arrived[j], k)

\* What a request takes over from its call.
RequestMade ==
    \A c \in Calls : request[c] # NotConverted =>
        /\ args[c] # NotConverted /\ ErrorOf(args[c]) = "OK"
        /\ request[c].max_tokens = MaxTokens(args[c])
        /\ request[c].stream = args[c].stream
        /\ request[c].capacity = args[c].prompt_tokens + MaxTokens(args[c])
        /\ request[c].created_time \in Nat /\ request[c].created_time <= clock

\* A call that waits is not answered and not submitted; only the first one that
\* waits may be converted already.
WaitingCalls ==
    \A k \in Kinds : \A x \in DOMAIN converter[k] :
        LET c == converter[k][x] IN
        /\ answers[c] = <<>> /\ status[c] = "new"
        /\ request[c] # NotConverted => x = 1

\* The scheduler has converted requests whose calls are not answered.
AcceptedCalls ==
    \A c \in Calls : status[c] = "accepted" => request[c] # NotConverted /\ answers[c] = <<>>

\* Nothing was generated or written for a call before its request was made, and
\* nothing at all happened to it before it arrived.
Untouched ==
    \A c \in Calls :
        /\ request[c] = NotConverted => finish_reason[c] = "NONE"
        /\ args[c] = NotConverted => answers[c] = <<>> /\ status[c] = "new"

\* A sequence goes on only below its limit.
BelowLimit ==
    \A c \in Calls : request[c] # NotConverted /\ request[c].max_tokens > 0 =>
        /\ num_tokens[c] - args[c].prompt_tokens <= request[c].max_tokens
        /\ finish_reason[c] = "NONE" =>
             num_tokens[c] - args[c].prompt_tokens < request[c].max_tokens

\* The messages of a call up to now: a role only in the first, a reason only in the
\* last, which is what the client was told.
MessagesOf(c) ==
    /\ Len(responses[c]) \in Nat /\ responses[c] = [i \in 1..Len(responses[c]) |-> responses[c][i]]
    /\ \A i \in 1..Len(responses[c]) :
         /\ responses[c][i].role <=> i = 1 /\ args[c].kind = "chat"
         /\ responses[c][i].reason # "NONE" => i = Len(responses[c])
    /\ status[c] = "new" => responses[c] = <<>> /\ told[Stream(c)] = "NONE"
    /\ status[c] = "accepted" /\ request[c].stream =>
         \/ told[Stream(c)] = "NONE" /\ \A i \in 1..Len(responses[c]) : responses[c][i].reason = "NONE"
         \/ /\ responses[c] # <<>> /\ told[Stream(c)] # "NONE"
            /\ responses[c][Len(responses[c])].reason = told[Stream(c)]
    /\ status[c] = "accepted" /\ ~request[c].stream => responses[c] = <<>>
    /\ answers[c] = <<"OK">> /\ finish_reason[c] # "NONE" =>
         responses[c] # <<>> /\ responses[c][Len(responses[c])].reason = finish_reason[c]

MessagesSoFar == \A c \in Calls : MessagesOf(c)

Fifo == ArrivedOnce /\ QueueInOrder
CallsInv == RequestMade /\ WaitingCalls /\ AcceptedCalls /\ Untouched
HandlersInv == HandlersType /\ Fifo /\ CallsInv

-----------------------------------------------------------------------------
(* Facts the proofs share *)

LEMMA ArgsFacts ==
  ASSUME NEW a \in Args
  PROVE  /\ a # NotConverted /\ a.kind \in Kinds /\ a.stream \in BOOLEAN
         /\ a.prompt_tokens \in Nat /\ a.max_tokens \in Nat \cup {Absent}
  BY HandlersAssumption DEF ArgsType, NotConverted

LEMMA RequestIsRecord ==
  ASSUME NEW a \in Args
  PROVE  MakeRequest(a) # NotConverted
  BY DEF MakeRequest, NotConverted

\* A sequence of whatever elements, and one more.
LEMMA AppendAny ==
  ASSUME NEW s, Len(s) \in Nat, s = [i \in 1..Len(s) |-> s[i]], NEW e
  PROVE  /\ Len(Append(s, e)) = Len(s) + 1
         /\ \A i \in 1..Len(s) : Append(s, e)[i] = s[i]
         /\ Append(s, e)[Len(s) + 1] = e
         /\ Append(s, e) = [i \in 1..Len(s) + 1 |-> Append(s, e)[i]]
         /\ Append(s, e) # <<>>
<1> DEFINE S == {s[i] : i \in 1..Len(s)} \cup {e}
<1>1. s \in Seq(S) /\ e \in S
  OBVIOUS
<1> HIDE DEF S
<1>2. /\ Append(s, e) \in Seq(S) /\ Len(Append(s, e)) = Len(s) + 1
      /\ \A i \in 1..Len(s) : Append(s, e)[i] = s[i]
      /\ Append(s, e)[Len(s) + 1] = e
  BY <1>1
<1>3. Append(s, e) # <<>>
  BY <1>2
<1>4. PICK t \in Seq(S) : t = Append(s, e) /\ Len(t) = Len(s) + 1
  BY <1>2
<1>5. t = [i \in 1..Len(t) |-> t[i]]
  OBVIOUS
<1>6. Append(s, e) = [i \in 1..Len(s) + 1 |-> Append(s, e)[i]]
  BY <1>4, <1>5
<1> QED
  BY <1>2, <1>3, <1>6

LEMMA AppendToNothing ==
  ASSUME NEW e
  PROVE  Append(<<>>, e) = <<e>>
  OBVIOUS

LEMMA StreamsDiffer ==
  ASSUME NEW c \in Calls, NEW d \in Calls
  PROVE  /\ Stream(c) \in {Stream(b) : b \in Calls} /\ Stream(c)[1] = c
         /\ Stream(c) = Stream(d) <=> c = d
  BY DEF Stream

LEMMA NextTaskIsHead ==
  ASSUME HandlersType, NEW k \in Kinds, NEW c \in NextTask(k)
  PROVE  converter[k] # <<>> /\ c \in Calls /\ 1 \in DOMAIN converter[k] /\ c = converter[k][1]
<1>1. converter[k] \in Seq(Calls) /\ converter[k] # <<>> /\ c = Head(converter[k])
  BY DEF HandlersType, NextTask
<1> QED
  BY <1>1

\* The thread of a handler takes the first call off its queue.
LEMMA DoneFacts ==
  ASSUME HandlersType, NEW k \in Kinds, converter[k] # <<>>, Done(k)
  PROVE  /\ converter' \in [Kinds -> Seq(Calls)]
         /\ \A l \in Kinds : l # k => converter'[l] = converter[l]
         /\ \A x \in DOMAIN converter'[k] :
              /\ x \in Nat /\ x >= 1 /\ x + 1 \in DOMAIN converter[k]
              /\ converter'[k][x] = converter[k][x + 1]
         /\ \A y \in DOMAIN converter[k] : y # 1 =>
              y - 1 \in DOMAIN converter'[k] /\ converter'[k][y - 1] = converter[k][y]
<1>1. PICK q \in Seq(Calls) : q = converter[k] /\ q # <<>>
  BY DEF HandlersType
<1>2. converter' = [converter EXCEPT ![k] = Tail(q)] /\ converter \in [Kinds -> Seq(Calls)]
  BY <1>1 DEF Done, HandlersType
<1>3. Tail(q) \in Seq(Calls) /\ Len(Tail(q)) = Len(q) - 1 /\ Len(q) \in Nat
      /\ \A x \in 1..Len(q) - 1 : Tail(q)[x] = q[x + 1]
  BY <1>1
<1>4. converter'[k] = Tail(q) /\ \A l \in Kinds : l # k => converter'[l] = converter[l]
  BY <1>2
<1>5. converter' \in [Kinds -> Seq(Calls)]
  BY <1>2, <1>3
<1>6. DOMAIN q = 1..Len(q) /\ DOMAIN Tail(q) = 1..Len(q) - 1
  BY <1>1, <1>3
<1>7. \A x \in DOMAIN Tail(q) : x \in Nat /\ x >= 1 /\ x + 1 \in DOMAIN q /\ Tail(q)[x] = q[x + 1]
  BY <1>3, <1>6
<1>8. \A y \in DOMAIN q : y # 1 => y - 1 \in DOMAIN Tail(q) /\ Tail(q)[y - 1] = q[y]
  <2> SUFFICES ASSUME NEW y \in 1..Len(q), y # 1 PROVE y - 1 \in 1..Len(q) - 1 /\ Tail(q)[y - 1] = q[y]
    BY <1>6
  <2>1. y - 1 \in 1..Len(q) - 1 /\ (y - 1) + 1 = y
    BY <1>3
  <2> QED
    BY <1>3, <2>1
<1> QED
  BY <1>1, <1>4, <1>5, <1>7, <1>8

-----------------------------------------------------------------------------
(* Types *)

LEMMA StoppingReasonType ==
  ASSUME NEW c, NEW n, NEW eos
  PROVE  StoppingReason(c, n, eos) \in Reasons
  BY DEF StoppingReason, Reasons

\* A call that waits has arrived, at the handler of its kind.
LEMMA WaitingFacts ==
  ASSUME HandlersType, Fifo, NEW k \in Kinds, NEW x \in DOMAIN converter[k]
  PROVE  /\ converter[k][x] \in Calls
         /\ args[converter[k][x]] \in Args /\ args[converter[k][x]].kind = k
<1>1. PICK i \in DOMAIN arrived : arrived[i] = converter[k][x] /\ args[arrived[i]].kind = k
  BY DEF Fifo, QueueInOrder
<1>2. arrived[i] \in Calls /\ args[arrived[i]] # NotConverted
  BY <1>1 DEF Fifo, ArrivedOnce, HandlersType
<1> QED
  BY <1>1, <1>2 DEF HandlersType

LEMMA NextHandlersType ==
  ASSUME HandlersType, Fifo, [Next]_vars
  PROVE  HandlersType'
<1> USE DEF HandlersType
<1>1. CASE UNCHANGED vars
  BY <1>1 DEF vars, serviceVars, seqVars, callVars
<1>2. ASSUME NEW c \in Calls, NEW a \in Args, Arrive(c, a) PROVE HandlersType'
  <2>1. a.kind \in Kinds
    BY ArgsFacts
  <2>2. converter' \in [Kinds -> Seq(Calls)]
    BY <1>2, <2>1 DEF Arrive
  <2>3. args' \in [Calls -> Args \cup {NotConverted}] /\ arrived' \in Seq(Calls)
    BY <1>2 DEF Arrive
  <2> QED
    BY <1>2, <2>2, <2>3 DEF Arrive, serviceVars, seqVars, callVars
<1>3. ASSUME NEW k \in Kinds, Reject(k) PROVE HandlersType'
  <2>1. PICK c \in NextTask(k) : Done(k) /\ answers' = [answers EXCEPT ![c] = Append(@, ErrorOf(args[c]))]
    BY <1>3 DEF Reject
  <2>2. converter' \in [Kinds -> Seq(Calls)]
    BY <2>1, NextTaskIsHead, DoneFacts
  <2>3. DOMAIN answers' = Calls
    BY <2>1
  <2> QED
    BY <1>3, <2>2, <2>3 DEF Reject, serviceVars, seqVars
<1>4. ASSUME NEW k \in Kinds, Convert(k) PROVE HandlersType'
  <2>1. PICK c \in NextTask(k) :
          /\ request' = [request EXCEPT ![c] = MakeRequest(args[c])]
          /\ num_tokens' = [num_tokens EXCEPT ![c] = args[c].prompt_tokens]
    BY <1>4 DEF Convert
  <2>2. c \in Calls /\ args[c] \in Args
    BY NextTaskIsHead, WaitingFacts
  <2>3. num_tokens' \in [Calls -> Nat]
    BY <2>1, <2>2, ArgsFacts
  <2>4. DOMAIN request' = Calls
    BY <2>1
  <2> QED
    BY <1>4, <2>3, <2>4 DEF Convert, callVars
<1>5. ASSUME NEW k \in Kinds, Submit(k) PROVE HandlersType'
  <2>1. PICK c \in NextTask(k) :
          /\ Done(k)
          /\ \/ status' = [status EXCEPT ![c] = "accepted"]
             \/ status' = [status EXCEPT ![c] = "refused"]
          /\ answers' = answers \/ answers' = [answers EXCEPT ![c] = Append(@, "RESOURCE_EXHAUSTED")]
    BY <1>5 DEF Submit
  <2>2. converter' \in [Kinds -> Seq(Calls)]
    BY <2>1, NextTaskIsHead, DoneFacts
  <2>3. DOMAIN answers' = Calls /\ status' \in [Calls -> {"new", "accepted", "refused", "finished"}]
    BY <2>1
  <2> QED
    BY <1>5, <2>2, <2>3 DEF Submit, serviceVars, seqVars
<1>6. CASE Tick \/ Drain
  BY <1>6 DEF Tick, Drain, serviceVars, seqVars, callVars
<1>7. ASSUME NEW c \in Calls, Generate(c) PROVE HandlersType'
  <2>1. PICK reason \in Reasons : finish_reason' = [finish_reason EXCEPT ![c] = reason]
    BY <1>7, StoppingReasonType DEF Generate
  <2>2. num_tokens' \in [Calls -> Nat] /\ finish_reason' \in [Calls -> Reasons]
    BY <1>7, <2>1 DEF Generate
  <2> QED
    BY <1>7, <2>2 DEF Generate, serviceVars, callVars
<1>8. ASSUME NEW c \in Calls, OnStream(c) PROVE HandlersType'
  <2>1. status' = status /\ told' = [told EXCEPT ![Stream(c)] = finish_reason[c]]
    BY <1>8 DEF OnStream, Service!Send
  <2>2. told' \in [{Stream(b) : b \in Calls} -> Reasons]
    BY <2>1
  <2>3. DOMAIN responses' = Calls
    BY <1>8 DEF OnStream
  <2> QED
    BY <1>8, <2>1, <2>2, <2>3 DEF OnStream
<1>9. ASSUME NEW c \in Calls, OnFinish(c) PROVE HandlersType'
  <2>1. status' = [status EXCEPT ![c] = "finished"] /\ told' = told
    BY <1>9 DEF OnFinish, Service!Finish
  <2>2. status' \in [Calls -> {"new", "accepted", "refused", "finished"}]
    BY <2>1
  <2>3. DOMAIN responses' = Calls /\ DOMAIN answers' = Calls
    BY <1>9 DEF OnFinish
  <2> QED
    BY <1>9, <2>1, <2>2, <2>3 DEF OnFinish, seqVars
<1> QED
  BY <1>1, <1>2, <1>3, <1>4, <1>5, <1>6, <1>7, <1>8, <1>9 DEF Next, Converter, SchedulerOn

-----------------------------------------------------------------------------
(* Arrival order *)

\* The queues are first-in first-out.
LEMMA ArriveFifo ==
  ASSUME HandlersType, Fifo, NEW c \in Calls, NEW a \in Args, Arrive(c, a)
  PROVE  Fifo'
<1>1. PICK q \in Seq(Calls) : q = converter[a.kind]
  BY ArgsFacts DEF HandlersType
<1>2. /\ args[c] = NotConverted /\ args' = [args EXCEPT ![c] = a]
      /\ arrived' = Append(arrived, c) /\ converter' = [converter EXCEPT ![a.kind] = Append(q, c)]
      /\ a # NotConverted /\ a.kind \in Kinds
      /\ args \in [Calls -> Args \cup {NotConverted}] /\ converter \in [Kinds -> Seq(Calls)]
      /\ arrived \in Seq(Calls)
  BY <1>1, ArgsFacts DEF Arrive, HandlersType
<1>3. PICK n \in Nat : n = Len(arrived)
  BY <1>2
<1>4. /\ DOMAIN arrived = 1..n /\ DOMAIN arrived' = 1..n + 1 /\ arrived'[n + 1] = c
      /\ \A i \in 1..n : arrived'[i] = arrived[i] /\ arrived[i] \in Calls
  BY <1>2, <1>3
<1>5. \A i \in 1..n : arrived[i] # c
  BY <1>2, <1>4 DEF Fifo, ArrivedOnce
<1>6. \A d \in Calls : d # c => args'[d] = args[d]
  BY <1>2
<1>7. args'[c] = a
  BY <1>2
<1>8. ArrivedOnce'
  <2>1. \A i \in 1..n + 1 : args'[arrived'[i]] # NotConverted
    BY <1>2, <1>4, <1>5, <1>6, <1>7 DEF Fifo, ArrivedOnce
  <2>2. \A i, j \in 1..n + 1 : i # j => arrived'[i] # arrived'[j]
    BY <1>4, <1>5 DEF Fifo, ArrivedOnce
  <2> QED
    BY <1>4, <2>1, <2>2 DEF ArrivedOnce
<1>9. \A k \in Kinds : \A x \in DOMAIN converter[k] :
         converter'[k][x] = converter[k][x] /\ x \in DOMAIN converter'[k] /\ x \in Nat
         /\ converter[k][x] # c /\ converter[k][x] \in Calls
  <2> SUFFICES ASSUME NEW k \in Kinds, NEW x \in DOMAIN converter[k]
               PROVE  /\ converter'[k][x] = converter[k][x] /\ x \in DOMAIN converter'[k] /\ x \in Nat
                      /\ converter[k][x] # c /\ converter[k][x] \in Calls
    OBVIOUS
  <2>1. converter[k][x] \in Calls /\ converter[k][x] # c
    BY <1>2, WaitingFacts, ArgsFacts
  <2>2. PICK r \in Seq(Calls) : r = converter[k] /\ x \in 1..Len(r)
    BY <1>2
  <2>3. converter'[k] = r \/ converter'[k] = Append(r, c)
    BY <1>1, <1>2, <2>2
  <2> QED
    BY <2>1, <2>2, <2>3
<1>10. \A k \in Kinds : \A x \in DOMAIN converter'[k] :
          \/ x \in DOMAIN converter[k]
          \/ /\ k = a.kind /\ converter'[k][x] = c
             /\ \A y \in DOMAIN converter'[k] : y <= x
  <2> SUFFICES ASSUME NEW k \in Kinds, NEW x \in DOMAIN converter'[k], x \notin DOMAIN converter[k]
               PROVE  /\ k = a.kind /\ converter'[k][x] = c
                      /\ \A y \in DOMAIN converter'[k] : y <= x
    OBVIOUS
  <2>1. k = a.kind /\ converter'[k] = Append(q, c)
    BY <1>1, <1>2
  <2>2. x = Len(q) + 1 /\ DOMAIN Append(q, c) = 1..Len(q) + 1
    BY <1>1, <2>1
  <2> QED
    BY <2>1, <2>2
<1>11. \E x \in DOMAIN converter'[a.kind] : converter'[a.kind][x] = c
  <2>1. Len(q) + 1 \in DOMAIN Append(q, c) /\ Append(q, c)[Len(q) + 1] = c
    OBVIOUS
  <2> QED
    BY <1>2, <2>1
<1> USE DEF Fifo
<1>12. ASSUME NEW k \in Kinds
       PROVE  \A x \in DOMAIN converter'[k] : \E i \in DOMAIN arrived' :
                arrived'[i] = converter'[k][x] /\ args'[arrived'[i]].kind = k
  <2> SUFFICES ASSUME NEW x \in DOMAIN converter'[k]
               PROVE  \E i \in 1..n + 1 : arrived'[i] = converter'[k][x] /\ args'[arrived'[i]].kind = k
    BY <1>4
  <2>1. CASE x \in DOMAIN converter[k]
    <3>1. PICK i \in 1..n : arrived[i] = converter[k][x] /\ args[arrived[i]].kind = k
      BY <1>4, <2>1 DEF QueueInOrder
    <3>2. i \in 1..n + 1 /\ arrived'[i] = converter'[k][x] /\ args'[arrived'[i]].kind = k
      BY <1>4, <1>5, <1>6, <1>9, <2>1, <3>1
    <3> QED
      BY <3>2
  <2>2. CASE x \notin DOMAIN converter[k]
    <3>1. k = a.kind /\ converter'[k][x] = c
      BY <1>10, <2>2
    <3>2. n + 1 \in 1..n + 1
      OBVIOUS
    <3> QED
      BY <1>4, <1>7, <3>1, <3>2
  <2> QED
    BY <2>1, <2>2
<1>13. ASSUME NEW k \in Kinds
       PROVE  \A x, y \in DOMAIN converter'[k] : \A i, j \in DOMAIN arrived' :
                x < y /\ arrived'[i] = converter'[k][x] /\ arrived'[j] = converter'[k][y] => i < j
  <2> SUFFICES ASSUME NEW x \in DOMAIN converter'[k], NEW y \in DOMAIN converter'[k],
                      NEW i \in 1..n + 1, NEW j \in 1..n + 1,
                      x < y, arrived'[i] = converter'[k][x], arrived'[j] = converter'[k][y]
               PROVE  i < j
    BY <1>4
  <2>0. x \in Nat /\ y \in Nat
    <3>1. converter' \in [Kinds -> Seq(Calls)]
      BY <1>1, <1>2
    <3>2. PICK r \in Seq(Calls) : r = converter'[k]
      BY <3>1
    <3> QED
      BY <3>2
  <2>1. x \in DOMAIN converter[k]
    BY <1>10, <2>0
  <2>2. converter'[k][x] = converter[k][x] /\ converter[k][x] # c
    BY <1>9, <2>1
  <2>3. i \in 1..n /\ arrived'[i] = arrived[i]
    BY <1>4, <2>2
  <2>4. CASE y \in DOMAIN converter[k]
    <3>1. converter'[k][y] = converter[k][y] /\ converter[k][y] # c
      BY <1>9, <2>4
    <3>2. j \in 1..n /\ arrived'[j] = arrived[j]
      BY <1>4, <3>1
    <3> QED
      BY <1>4, <2>1, <2>2, <2>3, <2>4, <3>1, <3>2 DEF QueueInOrder
  <2>5. CASE y \notin DOMAIN converter[k]
    <3>1. converter'[k][y] = c
      BY <1>10, <2>5
    <3>2. j = n + 1
      BY <1>4, <1>5, <3>1
    <3> QED
      BY <2>3, <3>2
  <2> QED
    BY <2>4, <2>5
<1>14. ASSUME NEW k \in Kinds, NEW d \in Calls
       PROVE  (Waiting(d, k) => Waiting(d, k)') /\ (d # c /\ Waiting(d, k)' => Waiting(d, k))
  <2>1. ASSUME NEW x \in DOMAIN converter[k], converter[k][x] = d PROVE Waiting(d, k)'
    BY <1>9, <2>1 DEF Waiting
  <2>2. ASSUME d # c, NEW x \in DOMAIN converter'[k], converter'[k][x] = d PROVE Waiting(d, k)
    <3>1. x \in DOMAIN converter[k]
      BY <1>10, <2>2
    <3> QED
      BY <1>9, <2>2, <3>1 DEF Waiting
  <2> QED
    BY <2>1, <2>2 DEF Waiting
<1>15. ASSUME NEW k \in Kinds
       PROVE  \A i, j \in DOMAIN arrived' :
                (i < j /\ args[arrived[j]].kind = k /\ Waiting(arrived[i], k))' => Waiting(arrived[j], k)'
  <2> SUFFICES ASSUME NEW i \in 1..n + 1, NEW j \in 1..n + 1, i < j,
                      args'[arrived'[j]].kind = k, Waiting(arrived[i], k)'
               PROVE  Waiting(arrived[j], k)'
    BY <1>4
  <2>1. i \in 1..n /\ arrived'[i] = arrived[i] /\ arrived[i] # c /\ arrived[i] \in Calls
    BY <1>4, <1>5
  <2>2. PICK d \in Calls : d = arrived[i]
    BY <2>1
  <2>3. Waiting(d, k)
    <3>1. Waiting(d, k)'
      BY <2>1, <2>2 DEF Waiting
    <3> QED
      BY <1>14, <2>1, <2>2, <3>1
  <2>4. CASE j = n + 1
    <3>1. k = a.kind /\ arrived'[j] = c
      BY <1>4, <1>7, <2>4
    <3> QED
      BY <1>11, <3>1 DEF Waiting
  <2>5. CASE j # n + 1
    <3>1. j \in 1..n /\ arrived'[j] = arrived[j] /\ arrived[j] # c /\ arrived[j] \in Calls
      BY <1>4, <1>5, <2>5
    <3>2. args[arrived[j]].kind = k
      BY <1>6, <3>1
    <3>3. PICK e \in Calls : e = arrived[j]
      BY <3>1
    <3>4. Waiting(e, k)
      BY <1>4, <2>1, <2>2, <2>3, <3>1, <3>2, <3>3 DEF QueueInOrder
    <3>5. Waiting(e, k)'
      BY <1>14, <3>4
    <3> QED
      BY <3>1, <3>3, <3>5 DEF Waiting
  <2> QED
    BY <2>4, <2>5
<1>16. QueueInOrder'
  BY <1>12, <1>13, <1>15 DEF QueueInOrder
<1> QED
  BY <1>8, <1>16

\* Taking the first call off a queue leaves the end of the arrivals.
LEMMA DoneFifo ==
  ASSUME HandlersType, Fifo, NEW k \in Kinds, converter[k] # <<>>, Done(k), UNCHANGED <<args, arrived>>
  PROVE  Fifo'
<1> USE DEF Fifo
<1>1. /\ \A l \in Kinds : l # k => converter'[l] = converter[l]
      /\ \A x \in DOMAIN converter'[k] :
           x \in Nat /\ x >= 1 /\ x + 1 \in DOMAIN converter[k] /\ converter'[k][x] = converter[k][x + 1]
      /\ \A y \in DOMAIN converter[k] : y # 1 =>
           y - 1 \in DOMAIN converter'[k] /\ converter'[k][y - 1] = converter[k][y]
  BY DoneFacts
<1>2. ArrivedOnce'
  BY DEF ArrivedOnce
<1>3. 1 \in DOMAIN converter[k] /\ DOMAIN arrived \subseteq Nat
  <2>1. converter[k] \in Seq(Calls) /\ arrived \in Seq(Calls)
    BY DEF HandlersType
  <2> QED
    BY <2>1
<1>4. ASSUME NEW i \in DOMAIN arrived, NEW j \in DOMAIN arrived, i < j,
             args[arrived[j]].kind = k, NEW x \in DOMAIN converter'[k], converter'[k][x] = arrived[i]
      PROVE  Waiting(arrived[j], k)'
  <2>1. x + 1 \in DOMAIN converter[k] /\ converter[k][x + 1] = arrived[i] /\ x \in Nat /\ x >= 1
    BY <1>1, <1>4
  <2>2. PICK y \in DOMAIN converter[k] : converter[k][y] = arrived[j]
    BY <1>4, <2>1 DEF QueueInOrder, Waiting
  <2>3. y # 1
    <3> SUFFICES ASSUME y = 1 PROVE FALSE
      OBVIOUS
    <3>1. 1 < x + 1
      BY <2>1
    <3>2. j < i
      BY <1>3, <2>1, <2>2, <3>1 DEF QueueInOrder
    <3> QED
      BY <1>3, <1>4, <3>2
  <2>4. y - 1 \in DOMAIN converter'[k] /\ converter'[k][y - 1] = arrived[j]
    BY <1>1, <2>2, <2>3
  <2> QED
    BY <2>4 DEF Waiting
<1>5. ASSUME NEW l \in Kinds
      PROVE  /\ \A x \in DOMAIN converter'[l] : \E i \in DOMAIN arrived :
                  arrived[i] = converter'[l][x] /\ args[arrived[i]].kind = l
             /\ \A x, y \in DOMAIN converter'[l] : \A i, j \in DOMAIN arrived :
                  x < y /\ arrived[i] = converter'[l][x] /\ arrived[j] = converter'[l][y] => i < j
  <2>1. CASE l # k
    BY <1>1, <2>1 DEF QueueInOrder
  <2>2. CASE l = k
    <3>1. \A x \in DOMAIN converter'[k] : \E i \in DOMAIN arrived :
             arrived[i] = converter'[k][x] /\ args[arrived[i]].kind = k
      BY <1>1 DEF QueueInOrder
    <3>2. ASSUME NEW x \in DOMAIN converter'[k], NEW y \in DOMAIN converter'[k],
                 NEW i \in DOMAIN arrived, NEW j \in DOMAIN arrived,
                 x < y, arrived[i] = converter'[k][x], arrived[j] = converter'[k][y]
          PROVE  i < j
      <4>1. x + 1 < y + 1 /\ x + 1 \in DOMAIN converter[k] /\ y + 1 \in DOMAIN converter[k]
            /\ arrived[i] = converter[k][x + 1] /\ arrived[j] = converter[k][y + 1]
        BY <1>1, <3>2
      <4> QED
        BY <4>1 DEF QueueInOrder
    <3> QED
      BY <2>2, <3>1, <3>2
  <2> QED
    BY <2>1, <2>2
<1>6. ASSUME NEW l \in Kinds, NEW i \in DOMAIN arrived, NEW j \in DOMAIN arrived, i < j,
             args[arrived[j]].kind = l, Waiting(arrived[i], l)'
      PROVE  Waiting(arrived[j], l)'
  <2>1. CASE l # k
    BY <1>1, <1>6, <2>1 DEF QueueInOrder, Waiting
  <2>2. CASE l = k
    <3>1. PICK x \in DOMAIN converter'[k] : converter'[k][x] = arrived[i]
      BY <1>6, <2>2 DEF Waiting
    <3> QED
      BY <1>4, <1>6, <2>2, <3>1
  <2> QED
    BY <2>1, <2>2
<1>7. QueueInOrder'
  BY <1>5, <1>6 DEF QueueInOrder
<1> QED
  BY <1>2, <1>7

LEMMA NextFifo ==
  ASSUME HandlersType, Fifo, [Next]_vars
  PROVE  Fifo'
<1>1. ASSUME UNCHANGED <<args, arrived, converter>> PROVE Fifo'
  BY <1>1 DEF Fifo, ArrivedOnce, QueueInOrder, Waiting
<1>2. ASSUME NEW k \in Kinds, Reject(k) \/ Submit(k) PROVE Fifo'
  <2>1. converter[k] # <<>> /\ Done(k) /\ UNCHANGED <<args, arrived>>
    BY <1>2, NextTaskIsHead DEF Reject, Submit
  <2> QED
    BY <2>1, DoneFifo
<1>3. ASSUME NEW k \in Kinds, Convert(k) PROVE UNCHANGED <<args, arrived, converter>>
  BY <1>3 DEF Convert
<1>4. ASSUME NEW c \in Calls, SchedulerOn(c) PROVE UNCHANGED <<args, arrived, converter>>
  BY <1>4 DEF SchedulerOn, Generate, OnFinish, OnStream
<1>5. CASE Tick \/ Drain \/ UNCHANGED vars
  BY <1>1, <1>5 DEF Tick, Drain, vars
<1> QED
  BY <1>1, <1>2, <1>3, <1>4, <1>5, ArriveFifo DEF Next, Converter

-----------------------------------------------------------------------------
(* The way of a call *)

\* The calls in a queue are different, and in no other queue.
LEMMA WaitingOnce ==
  ASSUME HandlersType, Fifo, NEW k \in Kinds, NEW x \in DOMAIN converter[k],
         NEW l \in Kinds, NEW y \in DOMAIN converter[l], converter[k][x] = converter[l][y]
  PROVE  k = l /\ x = y
<1>1. k = l
  BY WaitingFacts
<1>2. converter[k] \in Seq(Calls) /\ x \in Nat /\ y \in Nat /\ arrived \in Seq(Calls)
  <2>1. PICK q \in Seq(Calls) : q = converter[k]
    BY DEF HandlersType
  <2> QED
    BY <1>1, <2>1 DEF HandlersType
<1>3. PICK i \in DOMAIN arrived : arrived[i] = converter[k][x]
  BY DEF Fifo, QueueInOrder
<1>4. i \in Nat
  BY <1>2
<1>5. ~(x < y) /\ ~(y < x)
  BY <1>1, <1>3, <1>4 DEF Fifo, QueueInOrder
<1> QED
  BY <1>1, <1>2, <1>5

\* A call that has left its queue, and those that stay in it.
LEMMA DoneLeaves ==
  ASSUME HandlersType, Fifo, NEW k \in Kinds, NEW c \in NextTask(k), Done(k)
  PROVE  \A l \in Kinds : \A x \in DOMAIN converter'[l] :
            /\ converter'[l][x] \in Calls /\ converter'[l][x] # c
            /\ \E y \in DOMAIN converter[l] : converter[l][y] = converter'[l][x] /\ (l = k => y # 1)
            /\ l # k => converter'[l] = converter[l]
<1>1. converter[k] # <<>> /\ 1 \in DOMAIN converter[k] /\ c = converter[k][1]
  BY NextTaskIsHead
<1>2. /\ \A l \in Kinds : l # k => converter'[l] = converter[l]
      /\ \A x \in DOMAIN converter'[k] :
           x \in Nat /\ x >= 1 /\ x + 1 \in DOMAIN converter[k] /\ converter'[k][x] = converter[k][x + 1]
  BY <1>1, DoneFacts
<1> SUFFICES ASSUME NEW l \in Kinds, NEW x \in DOMAIN converter'[l]
             PROVE  /\ converter'[l][x] \in Calls /\ converter'[l][x] # c
                    /\ \E y \in DOMAIN converter[l] : converter[l][y] = converter'[l][x] /\ (l = k => y # 1)
  BY <1>2
<1>3. PICK y \in DOMAIN converter[l] : converter[l][y] = converter'[l][x] /\ (l = k => y # 1)
  <2>1. CASE l = k
    <3>1. x + 1 # 1 /\ x + 1 \in DOMAIN converter[k]
      BY <1>2, <2>1
    <3> QED
      BY <1>2, <2>1, <3>1
  <2>2. CASE l # k
    BY <1>2, <2>2
  <2> QED
    BY <2>1, <2>2
<1>4. converter[l][y] # c
  BY <1>1, <1>3, WaitingOnce
<1>5. converter[l][y] \in Calls
  BY WaitingFacts
<1> QED
  BY <1>3, <1>4, <1>5

LEMMA KeepsRequests ==
  ASSUME RequestMade, UNCHANGED <<args, request>>, clock' \in Nat, clock \in Nat, clock' >= clock
  PROVE  RequestMade'
  BY DEF RequestMade

LEMMA ArriveCalls ==
  ASSUME HandlersInv, NEW c \in Calls, NEW a \in Args, Arrive(c, a)
  PROVE  CallsInv'
<1> USE DEF HandlersInv, CallsInv
<1>1. /\ args[c] = NotConverted /\ request[c] = NotConverted /\ answers[c] = <<>> /\ status[c] = "new"
      /\ args' = [args EXCEPT ![c] = a] /\ a # NotConverted /\ args \in [Calls -> Args \cup {NotConverted}]
      /\ UNCHANGED <<clock, request, answers, status, finish_reason, told, responses>>
  BY ArgsFacts DEF Arrive, HandlersType, RequestMade, Untouched, serviceVars, seqVars, callVars
<1>2. \A d \in Calls : d # c => args'[d] = args[d]
  BY <1>1
<1>3. args'[c] = a
  BY <1>1
<1>4. RequestMade'
  <2> SUFFICES ASSUME NEW d \in Calls, request[d] # NotConverted
               PROVE  /\ args'[d] = args[d] /\ args[d] # NotConverted /\ ErrorOf(args[d]) = "OK"
                      /\ request[d].max_tokens = MaxTokens(args[d])
                      /\ request[d].stream = args[d].stream
                      /\ request[d].capacity = args[d].prompt_tokens + MaxTokens(args[d])
                      /\ request[d].created_time \in Nat /\ request[d].created_time <= clock
    BY <1>1 DEF RequestMade
  <2> QED
    BY <1>1, <1>2 DEF RequestMade
<1>5. ASSUME NEW k \in Kinds, NEW x \in DOMAIN converter'[k]
      PROVE  \/ x \in DOMAIN converter[k] /\ converter'[k][x] = converter[k][x]
             \/ converter'[k][x] = c
  <2>1. PICK q \in Seq(Calls) : q = converter[k]
    BY DEF HandlersType
  <2>2. converter'[k] = q \/ converter'[k] = Append(q, c)
    BY <2>1, ArgsFacts DEF Arrive, HandlersType
  <2> QED
    BY <1>5, <2>1, <2>2
<1>6. WaitingCalls'
  BY <1>1, <1>5 DEF WaitingCalls
<1>7. AcceptedCalls'
  BY <1>1 DEF AcceptedCalls
<1>8. Untouched'
  BY <1>1, <1>2, <1>3 DEF Untouched
<1> QED
  BY <1>4, <1>6, <1>7, <1>8

LEMMA RejectCalls ==
  ASSUME HandlersInv, NEW k \in Kinds, Reject(k)
  PROVE  CallsInv'
<1> USE DEF HandlersInv, CallsInv
<1>1. PICK c \in NextTask(k) :
        /\ request[c] = NotConverted /\ Done(k)
        /\ answers' = [answers EXCEPT ![c] = Append(@, ErrorOf(args[c]))]
        /\ UNCHANGED <<clock, args, request, status, finish_reason, told>>
  BY DEF Reject, serviceVars, seqVars
<1>2. c \in Calls /\ args[c] \in Args /\ args[c] # NotConverted /\ clock \in Nat
  BY NextTaskIsHead, WaitingFacts, ArgsFacts DEF HandlersType
<1>3. \A d \in Calls : d # c => answers'[d] = answers[d]
  BY <1>1 DEF HandlersType
<1>4. RequestMade'
  BY <1>1, <1>2, KeepsRequests
<1>5. WaitingCalls'
  <2> SUFFICES ASSUME NEW l \in Kinds, NEW x \in DOMAIN converter'[l]
               PROVE  /\ answers'[converter'[l][x]] = <<>> /\ status'[converter'[l][x]] = "new"
                      /\ request'[converter'[l][x]] # NotConverted => x = 1
    BY DEF WaitingCalls
  <2>1. /\ converter'[l][x] \in Calls /\ converter'[l][x] # c
        /\ l # k => converter'[l] = converter[l]
    BY <1>1, DoneLeaves
  <2>2. PICK y \in DOMAIN converter[l] : converter[l][y] = converter'[l][x] /\ (l = k => y # 1)
    BY <1>1, DoneLeaves
  <2> QED
    BY <1>1, <1>3, <2>1, <2>2 DEF WaitingCalls
<1>6. status[c] = "new"
  BY NextTaskIsHead DEF WaitingCalls
<1>7. AcceptedCalls'
  BY <1>1, <1>3, <1>6 DEF AcceptedCalls
<1>8. Untouched'
  BY <1>1, <1>2, <1>3 DEF Untouched
<1> QED
  BY <1>4, <1>5, <1>7, <1>8

LEMMA ConvertCalls ==
  ASSUME HandlersInv, NEW k \in Kinds, Convert(k)
  PROVE  CallsInv'
<1> USE DEF HandlersInv, CallsInv
<1>1. PICK c \in NextTask(k) :
        /\ request[c] = NotConverted /\ ErrorOf(args[c]) = "OK"
        /\ request' = [request EXCEPT ![c] = MakeRequest(args[c])]
        /\ UNCHANGED <<clock, args, arrived, converter, status, told, finish_reason, answers>>
  BY DEF Convert, callVars
<1>2. c \in Calls /\ args[c] \in Args /\ args[c] # NotConverted /\ clock \in Nat
      /\ 1 \in DOMAIN converter[k] /\ c = converter[k][1]
  BY NextTaskIsHead, WaitingFacts, ArgsFacts DEF HandlersType
<1>3. (\A d \in Calls : d # c => request'[d] = request[d]) /\ request'[c] = MakeRequest(args[c])
  BY <1>1, <1>2 DEF HandlersType
<1>4. request'[c] # NotConverted
  BY <1>2, <1>3, RequestIsRecord
<1>5. RequestMade'
  <2>1. /\ request'[c].max_tokens = MaxTokens(args[c])
        /\ request'[c].stream = args[c].stream
        /\ request'[c].capacity = args[c].prompt_tokens + MaxTokens(args[c])
        /\ request'[c].created_time = clock
    BY <1>3 DEF MakeRequest
  <2> SUFFICES ASSUME NEW d \in Calls, request'[d] # NotConverted
               PROVE  /\ args[d] # NotConverted /\ ErrorOf(args[d]) = "OK"
                      /\ request'[d].max_tokens = MaxTokens(args[d])
                      /\ request'[d].stream = args[d].stream
                      /\ request'[d].capacity = args[d].prompt_tokens + MaxTokens(args[d])
                      /\ request'[d].created_time \in Nat /\ request'[d].created_time <= clock
    BY <1>1 DEF RequestMade
  <2>2. CASE d = c
    BY <1>1, <1>2, <2>1, <2>2
  <2>3. CASE d # c
    BY <1>3, <2>3 DEF RequestMade
  <2> QED
    BY <2>2, <2>3
<1>6. WaitingCalls'
  <2> SUFFICES ASSUME NEW l \in Kinds, NEW x \in DOMAIN converter[l]
               PROVE  /\ answers[converter[l][x]] = <<>> /\ status[converter[l][x]] = "new"
                      /\ request'[converter[l][x]] # NotConverted => x = 1
    BY <1>1 DEF WaitingCalls
  <2>1. converter[l][x] = c => x = 1
    BY <1>2, WaitingOnce
  <2>2. converter[l][x] \in Calls
    BY WaitingFacts
  <2> QED
    BY <1>3, <2>1, <2>2 DEF WaitingCalls
<1>7. AcceptedCalls'
  BY <1>1, <1>3, <1>4 DEF AcceptedCalls
<1>8. Untouched'
  BY <1>1, <1>3, <1>4 DEF Untouched
<1> QED
  BY <1>5, <1>6, <1>7, <1>8

LEMMA SubmitCalls ==
  ASSUME HandlersInv, NEW k \in Kinds, Submit(k)
  PROVE  CallsInv'
<1> USE DEF HandlersInv, CallsInv
<1>1. PICK c \in NextTask(k) :
        /\ request[c] # NotConverted /\ Done(k)
        /\ \/ status' = [status EXCEPT ![c] = "accepted"] /\ answers' = answers
           \/ /\ status' = [status EXCEPT ![c] = "refused"]
              /\ answers' = [answers EXCEPT ![c] = Append(@, "RESOURCE_EXHAUSTED")]
        /\ UNCHANGED <<clock, args, request, finish_reason>>
  BY DEF Submit, seqVars
<1>2. c \in Calls /\ args[c] \in Args /\ args[c] # NotConverted /\ clock \in Nat /\ answers[c] = <<>>
  BY NextTaskIsHead, WaitingFacts, ArgsFacts DEF HandlersType, WaitingCalls
<1>3. \A d \in Calls : d # c => answers'[d] = answers[d] /\ status'[d] = status[d]
  BY <1>1 DEF HandlersType
<1>4. status'[c] = "accepted" => answers'[c] = <<>>
  BY <1>1, <1>2 DEF HandlersType
<1>5. RequestMade'
  BY <1>1, <1>2, KeepsRequests
<1>6. WaitingCalls'
  <2> SUFFICES ASSUME NEW l \in Kinds, NEW x \in DOMAIN converter'[l]
               PROVE  /\ answers'[converter'[l][x]] = <<>> /\ status'[converter'[l][x]] = "new"
                      /\ request'[converter'[l][x]] # NotConverted => x = 1
    BY DEF WaitingCalls
  <2>1. /\ converter'[l][x] \in Calls /\ converter'[l][x] # c
        /\ l # k => converter'[l] = converter[l]
    BY <1>1, DoneLeaves
  <2>2. PICK y \in DOMAIN converter[l] : converter[l][y] = converter'[l][x] /\ (l = k => y # 1)
    BY <1>1, DoneLeaves
  <2> QED
    BY <1>1, <1>3, <2>1, <2>2 DEF WaitingCalls
<1>7. AcceptedCalls'
  BY <1>1, <1>3, <1>4 DEF AcceptedCalls
<1>8. Untouched'
  BY <1>1, <1>2, <1>3 DEF Untouched
<1> QED
  BY <1>5, <1>6, <1>7, <1>8

LEMMA SchedulerCalls ==
  ASSUME HandlersInv, NEW c \in Calls, SchedulerOn(c)
  PROVE  CallsInv'
<1> USE DEF HandlersInv, CallsInv
<1>1. /\ UNCHANGED <<clock, args, request, converter>> /\ clock \in Nat /\ status[c] = "accepted"
      /\ \/ finish_reason' = finish_reason
         \/ \E reason : finish_reason' = [finish_reason EXCEPT ![c] = reason]
      /\ \/ UNCHANGED <<status, answers>>
         \/ /\ status' = [status EXCEPT ![c] = "finished"]
            /\ answers' = [answers EXCEPT ![c] = Append(@, "OK")]
  <2>1. CASE Generate(c)
    BY <2>1 DEF Generate, serviceVars, callVars, HandlersType
  <2>2. CASE OnFinish(c)
    BY <2>2 DEF OnFinish, Service!Finish, seqVars, HandlersType
  <2>3. CASE OnStream(c)
    BY <2>3 DEF OnStream, Service!Send, HandlersType
  <2> QED
    BY <2>1, <2>2, <2>3 DEF SchedulerOn
<1>2. request[c] # NotConverted /\ args[c] # NotConverted
  BY <1>1 DEF AcceptedCalls, RequestMade
<1>3. /\ \A d \in Calls : d # c => /\ answers'[d] = answers[d] /\ status'[d] = status[d]
                                   /\ finish_reason'[d] = finish_reason[d]
      /\ status'[c] = "accepted" => answers'[c] = <<>>
  BY <1>1 DEF HandlersType, AcceptedCalls
<1>4. RequestMade'
  BY <1>1, KeepsRequests
<1>5. \A k \in Kinds : \A x \in DOMAIN converter[k] : converter[k][x] # c /\ converter[k][x] \in Calls
  BY <1>1, WaitingFacts DEF WaitingCalls
<1>6. WaitingCalls'
  BY <1>1, <1>3, <1>5 DEF WaitingCalls
<1>7. AcceptedCalls'
  BY <1>1, <1>2, <1>3 DEF AcceptedCalls
<1>8. Untouched'
  BY <1>1, <1>2, <1>3 DEF Untouched
<1> QED
  BY <1>4, <1>6, <1>7, <1>8

LEMMA NextHandlersInv == HandlersInv /\ [Next]_vars => HandlersInv'
<1> SUFFICES ASSUME HandlersInv, [Next]_vars PROVE HandlersInv'
  OBVIOUS
<1>1. HandlersType' /\ Fifo'
  BY NextHandlersType, NextFifo DEF HandlersInv
<1>2. CASE Tick \/ Drain \/ UNCHANGED vars
  <2>1. /\ UNCHANGED <<args, request, converter, status, finish_reason, answers>>
        /\ clock' \in Nat /\ clock \in Nat /\ clock' >= clock
    BY <1>2 DEF Tick, Drain, vars, serviceVars, seqVars, callVars, HandlersInv, HandlersType
  <2>2. RequestMade'
    BY <2>1, KeepsRequests DEF HandlersInv, CallsInv
  <2> QED
    BY <1>1, <2>1, <2>2 DEF HandlersInv, CallsInv, WaitingCalls, AcceptedCalls, Untouched
<1>3. CASE \E c \in Calls, a \in Args : Arrive(c, a)
  BY <1>1, <1>3, ArriveCalls DEF HandlersInv
<1>4. CASE \E k \in Kinds : Converter(k)
  BY <1>1, <1>4, RejectCalls, ConvertCalls, SubmitCalls DEF HandlersInv, Converter
<1>5. CASE \E c \in Calls : SchedulerOn(c)
  BY <1>1, <1>5, SchedulerCalls DEF HandlersInv
<1> QED
  BY <1>2, <1>3, <1>4, <1>5 DEF Next

LEMMA InitHandlers == Init => HandlersInv
<1> SUFFICES ASSUME Init PROVE HandlersInv
  OBVIOUS
<1>1. HandlersType
  BY DEF Init, HandlersType, Reasons
<1>2. Fifo /\ CallsInv
  BY DEF Init, Fifo, CallsInv, ArrivedOnce, QueueInOrder, Waiting, RequestMade, WaitingCalls, AcceptedCalls,
     Untouched
<1> QED
  BY <1>1, <1>2 DEF HandlersInv

\* The way of every call through its handler's queue, the scheduler and the
\* callbacks: HandlersInv holds for any number of calls.
THEOREM HandlersHold == Spec => []HandlersInv
  BY InitHandlers, NextHandlersInv, PTL DEF Spec

\* AnswerIsFinal: finish() or finish_with_error() is called at most once for a call,
\* and no message is written to it afterwards.
THEOREM CallAnsweredOnce == Spec => AnswerIsFinal
<1>1. ASSUME HandlersInv, [Next]_vars, NEW d \in Calls, answers[d] # <<>>
      PROVE  answers'[d] = answers[d] /\ responses'[d] = responses[d]
  <2> USE DEF HandlersInv, CallsInv
  <2>1. CASE (\E c \in Calls, a \in Args : Arrive(c, a)) \/ Tick \/ Drain \/ UNCHANGED vars
    BY <2>1 DEF Arrive, Tick, Drain, vars, callVars
  <2>2. ASSUME NEW k \in Kinds, Converter(k) PROVE answers'[d] = answers[d] /\ responses'[d] = responses[d]
    <3>1. PICK c \in NextTask(k) :
            /\ responses' = responses
            /\ \/ answers' = answers
               \/ answers' = [answers EXCEPT ![c] = Append(@, ErrorOf(args[c]))]
               \/ answers' = [answers EXCEPT ![c] = Append(@, "RESOURCE_EXHAUSTED")]
      <4>1. CASE Reject(k)
        BY <4>1 DEF Reject
      <4>2. CASE Convert(k)
        BY <4>2 DEF Convert, callVars
      <4>3. CASE Submit(k)
        BY <4>3 DEF Submit
      <4> QED
        BY <2>2, <4>1, <4>2, <4>3 DEF Converter
    <3>2. answers[c] = <<>>
      BY <1>1, NextTaskIsHead DEF WaitingCalls
    <3>3. c # d /\ DOMAIN answers = Calls /\ d \in Calls
      BY <1>1, <3>2 DEF HandlersType
    <3> QED
      BY <3>1, <3>3
  <2>3. ASSUME NEW c \in Calls, SchedulerOn(c) PROVE answers'[d] = answers[d] /\ responses'[d] = responses[d]
    <3>1. /\ answers' = answers \/ \E e : answers' = [answers EXCEPT ![c] = e]
          /\ responses' = responses \/ \E e : responses' = [responses EXCEPT ![c] = e]
          /\ status[c] = "accepted"
      <4>1. CASE Generate(c)
        BY <4>1 DEF Generate, callVars
      <4>2. CASE OnFinish(c)
        BY <4>2 DEF OnFinish
      <4>3. CASE OnStream(c)
        <5>1. \E delta \in {Delta(c)} : responses' =
                [responses EXCEPT ![c] = Append(@, Chunk(c, delta.text, finish_reason[c]))]
          BY <4>3 DEF OnStream
        <5> QED
          BY <4>3, <5>1 DEF OnStream
      <4> QED
        BY <2>3, <4>1, <4>2, <4>3 DEF SchedulerOn
    <3>2. c # d /\ DOMAIN answers = Calls /\ DOMAIN responses = Calls /\ d \in Calls
      BY <1>1, <3>1 DEF AcceptedCalls, HandlersType
    <3>3. answers'[d] = answers[d]
      BY <3>1, <3>2
    <3>4. responses'[d] = responses[d]
      BY <3>1, <3>2
    <3> QED
      BY <3>3, <3>4
  <2> QED
    BY <1>1, <2>1, <2>2, <2>3 DEF Next
<1>2. HandlersInv /\ [Next]_vars =>
        [\A c \in Calls : answers[c] # <<>> =>
            answers'[c] = answers[c] /\ responses'[c] = responses[c]]_vars
  BY <1>1
<1> QED
  BY <1>2, HandlersHold, PTL DEF Spec, AnswerIsFinal

-----------------------------------------------------------------------------
(* The limit of a request *)

\* stopping_criteria.max_tokens is inside the context and the client's wish.
LEMMA MaxTokensFacts ==
  ASSUME NEW a \in Args, ErrorOf(a) = "OK"
  PROVE  /\ MaxTokens(a) \in Int /\ MaxTokens(a) <= MaxContextLen - a.prompt_tokens
         /\ a.max_tokens # Absent => a.max_tokens \in Nat /\ MaxTokens(a) <= a.max_tokens
<1> DEFINE x == MaxContextLen - a.prompt_tokens
           y == IF a.max_tokens = Absent THEN DefaultMaxTokens ELSE a.max_tokens
<1>1. x \in Int /\ y \in Int /\ (a.max_tokens # Absent => a.max_tokens \in Nat /\ y = a.max_tokens)
  BY ArgsFacts, HandlersAssumption
<1>2. MaxTokens(a) = Min({x, y})
  BY DEF MaxTokens
<1> HIDE DEF x, y
<1>3. \E m \in {x, y} : \A z \in {x, y} : m <= z
  BY <1>1
<1>4. Min({x, y}) \in {x, y} /\ \A z \in {x, y} : Min({x, y}) <= z
  BY <1>3 DEF Min
<1>5. MaxTokens(a) \in Int /\ MaxTokens(a) <= x /\ MaxTokens(a) <= y
  BY <1>1, <1>2, <1>4
<1> QED
  BY <1>1, <1>5 DEF x

\* check_stopping_creteria runs after every token, so a sequence never passes its
\* limit.
LEMMA NextBelowLimit ==
  ASSUME HandlersInv, BelowLimit, [Next]_vars
  PROVE  BelowLimit'
<1> USE DEF HandlersInv, CallsInv
<1>1. ASSUME UNCHANGED <<request, num_tokens, finish_reason>>,
             \A c \in Calls : request[c] # NotConverted => args'[c] = args[c]
      PROVE  BelowLimit'
  BY <1>1 DEF BelowLimit
<1>2. ASSUME NEW c \in Calls, NEW a \in Args, Arrive(c, a) PROVE BelowLimit'
  <2>1. UNCHANGED <<request, num_tokens, finish_reason>> /\ args[c] = NotConverted
        /\ args' = [args EXCEPT ![c] = a] /\ args \in [Calls -> Args \cup {NotConverted}]
    BY <1>2 DEF Arrive, seqVars, HandlersType
  <2>2. \A d \in Calls : request[d] # NotConverted => args'[d] = args[d]
    BY <2>1 DEF RequestMade
  <2> QED
    BY <1>1, <2>1, <2>2
<1>3. ASSUME NEW k \in Kinds, Convert(k) PROVE BelowLimit'
  <2>1. PICK c \in NextTask(k) :
          /\ request' = [request EXCEPT ![c] = MakeRequest(args[c])]
          /\ num_tokens' = [num_tokens EXCEPT ![c] = args[c].prompt_tokens]
          /\ UNCHANGED <<args, finish_reason>>
    BY <1>3 DEF Convert
  <2>2. c \in Calls /\ args[c] \in Args /\ args[c].prompt_tokens \in Nat
    BY NextTaskIsHead, WaitingFacts, ArgsFacts
  <2>3. \A d \in Calls : d # c => request'[d] = request[d] /\ num_tokens'[d] = num_tokens[d]
    BY <2>1 DEF HandlersType
  <2>4. num_tokens'[c] = args[c].prompt_tokens
    BY <2>1, <2>2 DEF HandlersType
  <2>5. request'[c].max_tokens > 0 => num_tokens'[c] - args[c].prompt_tokens < request'[c].max_tokens
                                      /\ num_tokens'[c] - args[c].prompt_tokens <= request'[c].max_tokens
    <3>1. request'[c].max_tokens \in Int
      <4>1. ErrorOf(args[c]) = "OK" /\ request'[c] = MakeRequest(args[c])
        <5>1. HandlersInv' /\ request'[c] = MakeRequest(args[c]) /\ MakeRequest(args[c]) # NotConverted
          BY <1>3, <2>1, <2>2, NextHandlersInv, RequestIsRecord DEF HandlersType
        <5> QED
          BY <2>1, <2>2, <5>1 DEF RequestMade
      <4> QED
        BY <2>2, <4>1, MaxTokensFacts DEF MakeRequest
    <3> QED
      BY <2>2, <2>4, <3>1
  <2> QED
    BY <2>1, <2>3, <2>5 DEF BelowLimit
<1>4. ASSUME NEW c \in Calls, Generate(c) PROVE BelowLimit'
  <2>1. /\ UNCHANGED <<args, request>> /\ status[c] = "accepted" /\ finish_reason[c] = "NONE"
        /\ num_tokens' = [num_tokens EXCEPT ![c] = num_tokens[c] + 1]
        /\ finish_reason' = [finish_reason EXCEPT ![c] =
             StoppingReason(c, num_tokens'[c], args[c].tokens[num_tokens'[c]] = "eos")]
    BY <1>4 DEF Generate
  <2>2. /\ request[c] # NotConverted /\ args[c] \in Args /\ args[c].prompt_tokens \in Nat
        /\ num_tokens[c] \in Nat /\ request[c].max_tokens \in Int
    <3>1. request[c] # NotConverted /\ args[c] \in Args /\ ErrorOf(args[c]) = "OK"
          /\ request[c].max_tokens = MaxTokens(args[c])
      BY <2>1 DEF AcceptedCalls, RequestMade, HandlersType
    <3> QED
      BY <3>1, ArgsFacts, MaxTokensFacts DEF HandlersType
  <2>3. \A d \in Calls : d # c => finish_reason'[d] = finish_reason[d] /\ num_tokens'[d] = num_tokens[d]
    BY <2>1 DEF HandlersType
  <2>4. /\ num_tokens'[c] = num_tokens[c] + 1
        /\ finish_reason'[c] = StoppingReason(c, num_tokens'[c], args[c].tokens[num_tokens'[c]] = "eos")
    BY <2>1 DEF HandlersType
  <2>5. request[c].max_tokens > 0 =>
           /\ num_tokens'[c] - args[c].prompt_tokens <= request[c].max_tokens
           /\ finish_reason'[c] = "NONE" => num_tokens'[c] - args[c].prompt_tokens < request[c].max_tokens
    <3> SUFFICES ASSUME request[c].max_tokens > 0
                 PROVE  /\ num_tokens'[c] - args[c].prompt_tokens <= request[c].max_tokens
                        /\ finish_reason'[c] = "NONE" =>
                             num_tokens'[c] - args[c].prompt_tokens < request[c].max_tokens
      OBVIOUS
    <3>1. num_tokens[c] - args[c].prompt_tokens < request[c].max_tokens
      BY <2>1, <2>2 DEF BelowLimit
    <3>2. num_tokens'[c] - args[c].prompt_tokens >= request[c].max_tokens => finish_reason'[c] = "LENGTH"
      BY <2>4 DEF StoppingReason
    <3> QED
      BY <2>2, <2>4, <3>1, <3>2
  <2> QED
    BY <2>1, <2>3, <2>5 DEF BelowLimit
<1>5. ASSUME NEW k \in Kinds, Reject(k) \/ Submit(k) PROVE BelowLimit'
  BY <1>1, <1>5 DEF Reject, Submit, seqVars
<1>6. ASSUME NEW c \in Calls, OnFinish(c) \/ OnStream(c) PROVE BelowLimit'
  BY <1>1, <1>6 DEF OnFinish, OnStream, seqVars
<1>7. CASE Tick \/ Drain \/ UNCHANGED vars
  BY <1>1, <1>7 DEF Tick, Drain, vars, seqVars
<1> QED
  BY <1>2, <1>3, <1>4, <1>5, <1>6, <1>7 DEF Next, Converter, SchedulerOn

\* LimitHonoured: for every prompt, limit and context length, a sequence with a limit
\* fits into the context, the client's max_tokens and the reserved space.
THEOREM LimitKept == Spec => []LimitHonoured
<1>1. Init => BelowLimit
  BY DEF Init, BelowLimit
<1>2. HandlersInv /\ BelowLimit /\ [Next]_vars => BelowLimit'
  BY NextBelowLimit
<1>3. HandlersInv /\ BelowLimit => LimitHonoured
  <2> SUFFICES ASSUME HandlersInv, BelowLimit, NEW c \in Calls,
                      request[c] # NotConverted, request[c].max_tokens > 0
               PROVE  /\ num_tokens[c] <= MaxContextLen
                      /\ num_tokens[c] <= request[c].capacity
                      /\ args[c].max_tokens # Absent =>
                           num_tokens[c] - args[c].prompt_tokens <= args[c].max_tokens
    BY DEF LimitHonoured
  <2>1. /\ args[c] \in Args /\ ErrorOf(args[c]) = "OK" /\ request[c].max_tokens = MaxTokens(args[c])
        /\ request[c].capacity = args[c].prompt_tokens + MaxTokens(args[c]) /\ num_tokens[c] \in Nat
    BY DEF HandlersInv, CallsInv, RequestMade, HandlersType
  <2>2. args[c].prompt_tokens \in Nat /\ MaxContextLen \in Nat
    BY <2>1, ArgsFacts, HandlersAssumption
  <2>3. num_tokens[c] - args[c].prompt_tokens <= MaxTokens(args[c])
    BY <2>1 DEF BelowLimit
  <2>4. /\ MaxTokens(args[c]) \in Int /\ MaxTokens(args[c]) <= MaxContextLen - args[c].prompt_tokens
        /\ args[c].max_tokens # Absent => args[c].max_tokens \in Nat /\ MaxTokens(args[c]) <= args[c].max_tokens
    BY <2>1, MaxTokensFacts
  <2> QED
    BY <2>1, <2>2, <2>3, <2>4
<1> QED
  BY <1>1, <1>2, <1>3, HandlersHold, PTL DEF Spec

-----------------------------------------------------------------------------
(* First come, first served *)

\* A call is converted when it is the first in its queue, and then those that
\* arrived after it are not converted yet.
LEMMA NextArrivalOrder ==
  ASSUME HandlersInv, ArrivalOrder, [Next]_vars
  PROVE  ArrivalOrder'
<1> USE DEF HandlersInv, CallsInv
<1>1. ASSUME UNCHANGED <<args, arrived, request>> PROVE ArrivalOrder'
  BY <1>1 DEF ArrivalOrder
<1>2. ASSUME NEW c \in Calls, NEW a \in Args, Arrive(c, a) PROVE ArrivalOrder'
  <2>1. /\ args[c] = NotConverted /\ args' = [args EXCEPT ![c] = a] /\ arrived' = Append(arrived, c)
        /\ request' = request /\ args \in [Calls -> Args \cup {NotConverted}] /\ arrived \in Seq(Calls)
    BY <1>2 DEF Arrive, HandlersType
  <2>2. request[c] = NotConverted
    BY <2>1 DEF RequestMade
  <2>3. \A i \in DOMAIN arrived' : \/ i \in DOMAIN arrived /\ arrived'[i] = arrived[i] /\ arrived[i] \in Calls
                                   \/ arrived'[i] = c
    BY <2>1
  <2>4. \A d \in Calls : d # c => args'[d] = args[d]
    BY <2>1
  <2> SUFFICES ASSUME NEW i \in DOMAIN arrived', NEW j \in DOMAIN arrived', i < j,
                      args'[arrived'[i]].kind = args'[arrived'[j]].kind,
                      request[arrived'[i]] # NotConverted, request[arrived'[j]] # NotConverted
               PROVE  request[arrived'[i]].created_time <= request[arrived'[j]].created_time
    BY <2>1 DEF ArrivalOrder
  <2>5. /\ i \in DOMAIN arrived /\ arrived'[i] = arrived[i] /\ args'[arrived[i]] = args[arrived[i]]
        /\ j \in DOMAIN arrived /\ arrived'[j] = arrived[j] /\ args'[arrived[j]] = args[arrived[j]]
    BY <2>2, <2>3, <2>4
  <2> QED
    BY <2>5 DEF ArrivalOrder
<1>3. ASSUME NEW k \in Kinds, Convert(k) PROVE ArrivalOrder'
  <2>1. PICK c \in NextTask(k) :
          /\ request' = [request EXCEPT ![c] = MakeRequest(args[c])]
          /\ request[c] = NotConverted /\ UNCHANGED <<args, arrived>>
    BY <1>3 DEF Convert
  <2>2. /\ c \in Calls /\ args[c].kind = k /\ clock \in Nat
        /\ 1 \in DOMAIN converter[k] /\ c = converter[k][1]
    BY NextTaskIsHead, WaitingFacts DEF HandlersType
  <2>3. \A d \in Calls : d # c => request'[d] = request[d]
    BY <2>1 DEF HandlersType
  <2>4. request'[c].created_time = clock
    <3>1. request'[c] = MakeRequest(args[c])
      BY <2>1, <2>2 DEF HandlersType
    <3> QED
      BY <3>1 DEF MakeRequest
  <2> SUFFICES ASSUME NEW i \in DOMAIN arrived, NEW j \in DOMAIN arrived, i < j,
                      args[arrived[i]].kind = args[arrived[j]].kind,
                      request'[arrived[i]] # NotConverted, request'[arrived[j]] # NotConverted
               PROVE  request'[arrived[i]].created_time <= request'[arrived[j]].created_time
    BY <2>1 DEF ArrivalOrder
  <2>5. arrived[i] \in Calls /\ arrived[j] \in Calls /\ i # j /\ i \in Nat /\ j \in Nat
    <3>1. arrived \in Seq(Calls)
      BY DEF HandlersType
    <3> QED
      BY <3>1
  <2>6. arrived[i] # arrived[j]
    BY <2>5 DEF Fifo, ArrivedOnce
  <2>7. CASE arrived[j] = c
    <3>1. request'[arrived[i]] = request[arrived[i]] /\ request[arrived[i]] # NotConverted
      BY <2>3, <2>5, <2>6, <2>7
    <3>2. request[arrived[i]].created_time <= clock
      BY <2>5, <3>1 DEF RequestMade
    <3> QED
      BY <2>4, <2>7, <3>1, <3>2
  <2>8. CASE arrived[i] = c
    <3>1. request[arrived[j]] # NotConverted
      BY <2>3, <2>5, <2>6, <2>8
    <3>2. Waiting(arrived[j], k)
      BY <2>2, <2>8 DEF Fifo, QueueInOrder, Waiting
    <3>3. PICK x \in DOMAIN converter[k] : converter[k][x] = arrived[j]
      BY <3>2 DEF Waiting
    <3>4. x = 1
      BY <3>1, <3>3 DEF WaitingCalls
    <3> QED
      BY <2>2, <2>6, <2>8, <3>3, <3>4
  <2>9. CASE arrived[i] # c /\ arrived[j] # c
    BY <2>3, <2>5, <2>9 DEF ArrivalOrder
  <2> QED
    BY <2>7, <2>8, <2>9
<1>4. ASSUME NEW k \in Kinds, Reject(k) \/ Submit(k) PROVE ArrivalOrder'
  BY <1>1, <1>4 DEF Reject, Submit
<1>5. ASSUME NEW c \in Calls, SchedulerOn(c) PROVE ArrivalOrder'
  BY <1>1, <1>5 DEF SchedulerOn, Generate, OnFinish, OnStream
<1>6. CASE Tick \/ Drain \/ UNCHANGED vars
  BY <1>1, <1>6 DEF Tick, Drain, vars
<1> QED
  BY <1>2, <1>3, <1>4, <1>5, <1>6 DEF Next, Converter

\* ArrivalOrder: the calls of a handler get their created_time in the order in which
\* they arrived, however many wait.
THEOREM CreatedInArrivalOrder == Spec => []ArrivalOrder
<1>1. Init => ArrivalOrder
  BY DEF Init, ArrivalOrder
<1>2. HandlersInv /\ ArrivalOrder /\ [Next]_vars => ArrivalOrder'
  BY NextArrivalOrder
<1> QED
  BY <1>1, <1>2, HandlersHold, PTL DEF Spec

-----------------------------------------------------------------------------
(* What a client reads *)

\* A call that a step leaves alone, or that has not been submitted yet.
LEMMA KeepsMessages ==
  ASSUME NEW d \in Calls, MessagesOf(d),
         responses'[d] = responses[d], status'[d] = status[d], told'[Stream(d)] = told[Stream(d)],
         finish_reason'[d] = finish_reason[d], answers'[d] = answers[d],
         \/ args'[d] = args[d] /\ request'[d] = request[d]
         \/ status[d] = "new"
  PROVE  MessagesOf(d)'
<1>1. CASE args'[d] = args[d] /\ request'[d] = request[d]
  BY <1>1 DEF MessagesOf, Stream
<1>2. CASE status[d] = "new"
  <2>1. responses[d] = <<>> /\ Len(responses[d]) = 0
    BY <1>2 DEF MessagesOf
  <2> QED
    BY <1>2, <2>1 DEF MessagesOf, Stream
<1> QED
  BY <1>1, <1>2

\* The chunk that on_stream writes, for a call whose client was not told a reason.
LEMMA StreamMessages ==
  ASSUME HandlersInv, MessagesSoFar, NEW c \in Calls, OnStream(c)
  PROVE  MessagesSoFar'
<1> USE DEF HandlersInv, CallsInv
<1>1. PICK text : responses' = [responses EXCEPT ![c] = Append(@, Chunk(c, text, finish_reason[c]))]
  BY DEF OnStream
<1>2. /\ status' = status /\ status[c] = "accepted" /\ request[c].stream
      /\ told[Stream(c)] = "NONE" /\ told' = [told EXCEPT ![Stream(c)] = finish_reason[c]]
      /\ UNCHANGED <<args, request, finish_reason, answers>>
  BY DEF OnStream, Service!Send
<1>3. ASSUME NEW d \in Calls, d # c PROVE MessagesOf(d)'
  <2>1. responses'[d] = responses[d]
    BY <1>1, <1>3 DEF HandlersType
  <2>2. told'[Stream(d)] = told[Stream(d)]
    BY <1>2, <1>3, StreamsDiffer DEF HandlersType
  <2>3. MessagesOf(d)
    BY DEF MessagesSoFar
  <2> QED
    BY <1>2, <2>1, <2>2, <2>3, KeepsMessages
<1>4. MessagesOf(c)'
  <2>1. PICK s : s = responses[c]
    OBVIOUS
  <2>2. PICK m : m = Chunk(c, text, finish_reason[c])
    OBVIOUS
  <2>3. PICK n : n = Len(s)
    OBVIOUS
  <2>4. /\ n \in Nat /\ s = [i \in 1..n |-> s[i]]
        /\ \A i \in 1..n : (s[i].role <=> i = 1 /\ args[c].kind = "chat") /\ s[i].reason = "NONE"
    BY <1>2, <2>1, <2>3 DEF MessagesSoFar, MessagesOf
  <2>5. (m.role <=> n = 0 /\ args[c].kind = "chat") /\ m.reason = finish_reason[c]
    <3>1. s = <<>> <=> n = 0
      BY <2>3, <2>4
    <3> QED
      BY <2>1, <2>2, <3>1 DEF Chunk
  <2>6. responses'[c] = Append(s, m)
    BY <1>1, <2>1, <2>2 DEF HandlersType
  <2>7. PICK t : t = Append(s, m)
    OBVIOUS
  <2>8. /\ Len(t) = n + 1 /\ \A i \in 1..n : t[i] = s[i]
        /\ t[n + 1] = m /\ t = [i \in 1..n + 1 |-> t[i]] /\ t # <<>>
    BY <2>3, <2>4, <2>7, AppendAny
  <2>9. told'[Stream(c)] = finish_reason[c]
    BY <1>2, StreamsDiffer DEF HandlersType
  <2>10. answers[c] = <<>>
    BY <1>2 DEF AcceptedCalls
  <2>11. ASSUME NEW i \in 1..n + 1
         PROVE  /\ t[i].role <=> i = 1 /\ args[c].kind = "chat"
                /\ t[i].reason # "NONE" => i = n + 1
                /\ finish_reason[c] = "NONE" => t[i].reason = "NONE"
    <3>1. CASE i \in 1..n
      <4>1. t[i] = s[i] /\ s[i].reason = "NONE" /\ (s[i].role <=> i = 1 /\ args[c].kind = "chat")
        BY <2>4, <2>8, <3>1
      <4> QED
        BY <4>1
    <3>2. CASE i = n + 1
      <4>1. t[i] = m /\ (n = 0 <=> i = 1)
        BY <2>4, <2>8, <3>2
      <4> QED
        BY <2>5, <3>2, <4>1
    <3> QED
      BY <2>4, <3>1, <3>2
  <2> QED
    BY <1>2, <2>4, <2>5, <2>6, <2>7, <2>8, <2>9, <2>10, <2>11 DEF MessagesOf, Stream
<1> QED
  BY <1>3, <1>4 DEF MessagesSoFar

\* on_finish: the only message of a call that does not stream, and the answer.
LEMMA FinishMessages ==
  ASSUME HandlersInv, MessagesSoFar, NEW c \in Calls, OnFinish(c)
  PROVE  MessagesSoFar'
<1> USE DEF HandlersInv, CallsInv
<1>1. /\ status[c] = "accepted" /\ (request[c].stream => told[Stream(c)] = finish_reason[c])
      /\ status' = [status EXCEPT ![c] = "finished"] /\ told' = told
      /\ UNCHANGED <<args, request, finish_reason>>
      /\ answers' = [answers EXCEPT ![c] = Append(@, "OK")]
  BY DEF OnFinish, Service!Finish, seqVars
<1>2. PICK m :
        /\ m.role <=> args[c].kind = "chat"
        /\ m.reason = finish_reason[c]
        /\ responses' = IF request[c].stream THEN responses ELSE [responses EXCEPT ![c] = Append(@, m)]
  <2>1. PICK m : m = [role |-> args[c].kind = "chat", text |-> Delta(c).text, reason |-> finish_reason[c]]
    OBVIOUS
  <2>2. responses' = IF request[c].stream THEN responses ELSE [responses EXCEPT ![c] = Append(@, m)]
    BY <2>1 DEF OnFinish
  <2>3. (m.role <=> args[c].kind = "chat") /\ m.reason = finish_reason[c]
    BY <2>1
  <2> QED
    BY <2>2, <2>3
<1>3. ASSUME NEW d \in Calls, d # c PROVE MessagesOf(d)'
  <2>1. responses'[d] = responses[d] /\ status'[d] = status[d] /\ answers'[d] = answers[d]
    BY <1>1, <1>2, <1>3 DEF HandlersType
  <2>2. MessagesOf(d)
    BY DEF MessagesSoFar
  <2> QED
    BY <1>1, <2>1, <2>2, KeepsMessages
<1>4. status'[c] = "finished" /\ MessagesOf(c)
  BY <1>1 DEF HandlersType, MessagesSoFar
<1>5. request[c].stream \in BOOLEAN
  BY <1>1, ArgsFacts DEF AcceptedCalls, RequestMade, HandlersType
<1>6. CASE request[c].stream
  <2>1. responses' = responses /\ told[Stream(c)] = finish_reason[c]
    BY <1>1, <1>2, <1>6
  <2>2. finish_reason[c] # "NONE" =>
           responses[c] # <<>> /\ responses[c][Len(responses[c])].reason = finish_reason[c]
    BY <1>1, <1>4, <1>6, <2>1 DEF MessagesOf
  <2>3. MessagesOf(c)'
    BY <1>1, <1>4, <2>1, <2>2 DEF MessagesOf
  <2> QED
    BY <1>3, <2>3 DEF MessagesSoFar
<1>7. CASE ~request[c].stream
  <2>1. responses[c] = <<>>
    BY <1>1, <1>4, <1>7 DEF MessagesOf
  <2>2. responses'[c] = <<m>>
    <3>1. responses'[c] = Append(<<>>, m)
      BY <1>2, <1>7, <2>1 DEF HandlersType
    <3> QED
      BY <3>1, AppendToNothing
  <2>3. Len(<<m>>) = 1 /\ <<m>>[1] = m /\ <<m>> # <<>> /\ <<m>> = [i \in 1..1 |-> <<m>>[i]]
    OBVIOUS
  <2>4. MessagesOf(c)'
    <3>1. PICK t : t = <<m>> /\ Len(t) = 1 /\ t[1] = m /\ t # <<>> /\ t = [i \in 1..1 |-> t[i]]
      BY <2>3
    <3>2. responses'[c] = t /\ \A i \in 1..1 : i = 1
      BY <2>2, <3>1
    <3> QED
      BY <1>1, <1>2, <1>4, <3>1, <3>2 DEF MessagesOf
  <2> QED
    BY <1>3, <2>4 DEF MessagesSoFar
<1> QED
  BY <1>5, <1>6, <1>7

\* The answer of a handler itself is an error.
LEMMA HandlersAnswer ==
  ASSUME HandlersInv, NEW k \in Kinds, Reject(k) \/ Submit(k)
  PROVE  \E c \in NextTask(k) :
           /\ UNCHANGED <<args, request, sent, told, seqVars, responses>>
           /\ \A d \in Calls : d # c => status'[d] = status[d] /\ answers'[d] = answers[d]
           /\ answers'[c] # <<"OK">>
<1> USE DEF HandlersInv, CallsInv
<1>0. ASSUME NEW c \in NextTask(k) PROVE c \in Calls /\ answers[c] = <<>>
  BY NextTaskIsHead DEF WaitingCalls
<1>1. CASE Reject(k)
  <2>1. PICK c \in NextTask(k) :
          /\ ErrorOf(args[c]) # "OK"
          /\ answers' = [answers EXCEPT ![c] = Append(@, ErrorOf(args[c]))]
          /\ UNCHANGED <<args, request, status, sent, told, seqVars, responses>>
    BY <1>1 DEF Reject, serviceVars
  <2>2. \A d \in Calls : d # c => answers'[d] = answers[d]
    BY <2>1 DEF HandlersType
  <2>3. answers'[c] = Append(<<>>, ErrorOf(args[c]))
    BY <1>0, <2>1 DEF HandlersType
  <2>4. answers'[c] = <<ErrorOf(args[c])>>
    BY <2>3, AppendToNothing
  <2> QED
    BY <2>1, <2>2, <2>4
<1>2. CASE Submit(k)
  <2>1. PICK c \in NextTask(k) :
          /\ \/ status' = [status EXCEPT ![c] = "accepted"] /\ answers' = answers
             \/ /\ status' = [status EXCEPT ![c] = "refused"]
                /\ answers' = [answers EXCEPT ![c] = Append(@, "RESOURCE_EXHAUSTED")]
          /\ UNCHANGED <<args, request, sent, told, seqVars, responses>>
    BY <1>2 DEF Submit
  <2>2. \A d \in Calls : d # c => status'[d] = status[d] /\ answers'[d] = answers[d]
    BY <2>1 DEF HandlersType
  <2>3. answers'[c] = <<>> \/ answers'[c] = Append(<<>>, "RESOURCE_EXHAUSTED")
    BY <1>0, <2>1 DEF HandlersType
  <2>4. Append(<<>>, "RESOURCE_EXHAUSTED") = <<"RESOURCE_EXHAUSTED">>
    BY AppendToNothing
  <2>5. <<>> # <<"OK">> /\ <<"RESOURCE_EXHAUSTED">> # <<"OK">>
    OBVIOUS
  <2> QED
    BY <2>1, <2>2, <2>3, <2>4, <2>5
<1> QED
  BY <1>1, <1>2

\* The answer of a handler promises no message.
LEMMA ConverterMessages ==
  ASSUME HandlersInv, MessagesSoFar, NEW k \in Kinds, Converter(k)
  PROVE  MessagesSoFar'
<1> USE DEF HandlersInv, CallsInv
<1>0. ASSUME NEW c \in NextTask(k)
      PROVE  c \in Calls /\ status[c] = "new" /\ answers[c] = <<>> /\ MessagesOf(c) /\ c = converter[k][1]
  BY NextTaskIsHead DEF WaitingCalls, MessagesSoFar
<1>1. CASE Convert(k)
  <2>1. PICK c \in NextTask(k) :
          /\ request' = [request EXCEPT ![c] = MakeRequest(args[c])]
          /\ UNCHANGED <<args, status, told, finish_reason, answers, responses>>
    BY <1>1 DEF Convert, callVars
  <2>2. \A d \in Calls : d # c => request'[d] = request[d]
    BY <2>1 DEF HandlersType
  <2>3. \A d \in Calls : MessagesOf(d)'
    BY <1>0, <2>1, <2>2, KeepsMessages DEF MessagesSoFar
  <2> QED
    BY <2>3 DEF MessagesSoFar
<1>2. CASE Reject(k) \/ Submit(k)
  <2>1. PICK c \in NextTask(k) :
          /\ UNCHANGED <<args, request, told, finish_reason, responses>>
          /\ \A d \in Calls : d # c => status'[d] = status[d] /\ answers'[d] = answers[d]
          /\ answers'[c] # <<"OK">>
    BY <1>2, HandlersAnswer DEF seqVars
  <2>2. c \in Calls /\ status[c] = "new" /\ MessagesOf(c)
    BY <1>0
  <2>3. ASSUME NEW d \in Calls, d # c PROVE MessagesOf(d)'
    <3>1. MessagesOf(d)
      BY DEF MessagesSoFar
    <3> QED
      BY <2>1, <2>3, <3>1, KeepsMessages
  <2>4. responses'[c] = <<>> /\ told'[Stream(c)] = "NONE" /\ Len(<<>>) = 0 /\ responses[c] = <<>>
    BY <2>1, <2>2 DEF MessagesOf
  <2>5. MessagesOf(c)'
    BY <2>1, <2>2, <2>4 DEF MessagesOf, Stream
  <2> QED
    BY <2>3, <2>5 DEF MessagesSoFar
<1> QED
  BY <1>1, <1>2 DEF Converter

LEMMA NextMessages ==
  ASSUME HandlersInv, MessagesSoFar, [Next]_vars
  PROVE  MessagesSoFar'
<1> USE DEF HandlersInv, CallsInv
<1>1. ASSUME NEW c \in Calls, NEW a \in Args, Arrive(c, a) PROVE MessagesSoFar'
  <2>1. /\ args[c] = NotConverted /\ args' = [args EXCEPT ![c] = a]
        /\ UNCHANGED <<request, status, told, finish_reason, answers, responses>>
    BY <1>1 DEF Arrive, serviceVars, seqVars, callVars
  <2>2. status[c] = "new" /\ \A d \in Calls : d # c => args'[d] = args[d]
    BY <2>1 DEF Untouched, HandlersType
  <2> QED
    BY <2>1, <2>2, KeepsMessages DEF MessagesSoFar
<1>2. ASSUME NEW c \in Calls, Generate(c) PROVE MessagesSoFar'
  <2>1. /\ UNCHANGED <<args, request, status, told, answers, responses>> /\ status[c] = "accepted"
        /\ \A d \in Calls : d # c => finish_reason'[d] = finish_reason[d]
    BY <1>2 DEF Generate, serviceVars, callVars, HandlersType
  <2>2. answers[c] = <<>> /\ answers[c] # <<"OK">>
    BY <2>1 DEF AcceptedCalls
  <2>3. MessagesOf(c)'
    BY <2>1, <2>2 DEF MessagesSoFar, MessagesOf, Stream
  <2> QED
    BY <2>1, <2>3, KeepsMessages DEF MessagesSoFar
<1>3. CASE Tick \/ Drain \/ UNCHANGED vars
  <2>1. UNCHANGED <<args, request, status, told, finish_reason, answers, responses>>
    BY <1>3 DEF Tick, Drain, vars, serviceVars, seqVars, callVars
  <2> QED
    BY <2>1, KeepsMessages DEF MessagesSoFar
<1> QED
  BY <1>1, <1>2, <1>3, ConverterMessages, StreamMessages, FinishMessages DEF Next, SchedulerOn

LEMMA MessagesHold == Spec => []MessagesSoFar
<1>1. Init => MessagesSoFar
  <2> SUFFICES ASSUME Init, NEW c \in Calls PROVE MessagesOf(c)
    BY DEF MessagesSoFar
  <2>1. responses[c] = <<>> /\ answers[c] = <<>> /\ status[c] = "new" /\ told[Stream(c)] = "NONE"
    BY StreamsDiffer DEF Init
  <2>2. Len(<<>>) = 0 /\ 1..0 = {} /\ <<>> # <<"OK">>
    OBVIOUS
  <2> QED
    BY <2>1, <2>2 DEF MessagesOf
<1>2. HandlersInv /\ MessagesSoFar /\ [Next]_vars => MessagesSoFar'
  BY NextMessages
<1> QED
  BY <1>1, <1>2, HandlersHold, PTL DEF Spec

\* WellFormedAnswer: the role comes first, the finish reason last, and a call that
\* ends well has told its client why its sequence stopped.
THEOREM AnswersAreWellFormed == Spec => []WellFormedAnswer
<1>1. MessagesSoFar => WellFormedAnswer
  <2> SUFFICES ASSUME MessagesSoFar, NEW c \in Calls
               PROVE  /\ \A i \in DOMAIN responses[c] :
                           /\ responses[c][i].role <=> i = 1 /\ args[c].kind = "chat"
                           /\ responses[c][i].reason # "NONE" => i = Len(responses[c])
                      /\ answers[c] = <<"OK">> /\ finish_reason[c] # "NONE" =>
                           responses[c] # <<>> /\ Last(responses[c]).reason = finish_reason[c]
    BY DEF WellFormedAnswer
  <2>1. MessagesOf(c)
    BY DEF MessagesSoFar
  <2>2. DOMAIN responses[c] = 1..Len(responses[c])
    <3>1. responses[c] = [i \in 1..Len(responses[c]) |-> responses[c][i]]
      BY <2>1 DEF MessagesOf
    <3>2. DOMAIN [i \in 1..Len(responses[c]) |-> responses[c][i]] = 1..Len(responses[c])
      OBVIOUS
    <3> QED
      BY <3>1, <3>2
  <2> QED
    BY <2>1, <2>2 DEF MessagesOf, Last
<1> QED
  BY <1>1, MessagesHold, PTL

-----------------------------------------------------------------------------
(* Induction over lengths, from the well-foundedness of the naturals *)

LEMMA LeastNatural ==
  ASSUME NEW T \in SUBSET Nat, T # {}
  PROVE  \E x \in T : \A y \in T : x <= y
<1> DEFINE less == OpToRel(<, Nat)
<1>1. IsWellFoundedOn(less, Nat)
  BY NatLessThanWellFounded
<1>2. \A x, y \in Nat : <<y, x>> \in less <=> y < x
  BY DEF OpToRel
<1> HIDE DEF less
<1>3. PICK x \in T : \A y \in T : ~(<<y, x>> \in less)
  BY <1>1, WFMin
<1>4. \A y \in T : x <= y
  <2> TAKE y \in T
  <2>1. x \in Nat /\ y \in Nat /\ ~(y < x)
    BY <1>2, <1>3
  <2> QED
    BY <2>1
<1> QED
  BY <1>4

\* Induction over the lengths up to m, for a set of lengths.
LEMMA LengthInduction ==
  ASSUME NEW m \in Nat, NEW G, 0 \in G, \A n \in 0..m - 1 : n \in G => n + 1 \in G
  PROVE  \A n \in 0..m : n \in G
<1> DEFINE T == {n \in 0..m : n \notin G}
<1> SUFFICES ASSUME T # {} PROVE FALSE
  OBVIOUS
<1>1. PICK x \in T : \A y \in T : x <= y
  <2>1. T \in SUBSET Nat
    OBVIOUS
  <2> QED
    BY <2>1, LeastNatural
<1>2. x \in 0..m /\ x \notin G /\ x # 0
  BY <1>1
<1>3. x - 1 \in 0..m - 1 /\ (x - 1) + 1 = x /\ x - 1 \in 0..m /\ ~(x <= x - 1)
  BY <1>2
<1>4. x - 1 \in G
  BY <1>1, <1>3
<1> QED
  BY <1>2, <1>3, <1>4

-----------------------------------------------------------------------------
(* Pieces of text, one after the other *)

Chars == {Space, Replacement, "word", "letter", "char"}
Texts == Seq(Chars)

LEMMA ConcatFacts ==
  ASSUME NEW s \in Texts, NEW t \in Texts
  PROVE  /\ s \o t \in Texts /\ Len(s \o t) = Len(s) + Len(t)
         /\ \A i \in 1..Len(s) : (s \o t)[i] = s[i]
         /\ \A i \in 1..Len(t) : (s \o t)[Len(s) + i] = t[i]
         /\ <<>> \o s = s /\ s \o <<>> = s
  BY DEF Texts

LEMMA SameText ==
  ASSUME NEW s \in Texts, NEW t \in Texts, Len(s) = Len(t), \A i \in 1..Len(s) : s[i] = t[i]
  PROVE  s = t
  BY DEF Texts

LEMMA EndOfText ==
  ASSUME NEW s \in Texts, NEW t \in Texts
  PROVE  SubSeq(s \o t, Len(s) + 1, Len(s \o t)) = t
<1>1. PICK n \in Nat, k \in Nat, u \in Texts : n = Len(s) /\ k = Len(t) /\ u = s \o t /\ Len(u) = n + k
  <2>1. Len(s) \in Nat /\ Len(t) \in Nat
    BY DEF Texts
  <2>2. s \o t \in Texts /\ Len(s \o t) = Len(s) + Len(t)
    BY ConcatFacts
  <2> QED
    BY <2>1, <2>2
<1>2. /\ SubSeq(u, n + 1, n + k) \in Texts /\ Len(SubSeq(u, n + 1, n + k)) = k
      /\ \A i \in 1..k : SubSeq(u, n + 1, n + k)[i] = u[n + i]
  BY <1>1 DEF Texts
<1>3. \A i \in 1..k : u[n + i] = t[i]
  BY <1>1, ConcatFacts
<1>4. PICK v \in Texts : v = SubSeq(u, n + 1, n + k)
  BY <1>2
<1>5. v = t
  <2>1. Len(v) = Len(t) /\ \A i \in 1..Len(v) : v[i] = t[i]
    BY <1>1, <1>2, <1>3, <1>4
  <2> QED
    BY <2>1, SameText
<1> QED
  BY <1>1, <1>4, <1>5

LEMMA ConcatAssociative ==
  ASSUME NEW s \in Texts, NEW t \in Texts, NEW u \in Texts
  PROVE  (s \o t) \o u = s \o (t \o u)
<1> DEFINE l == (s \o t) \o u
           r == s \o (t \o u)
<1>1. l \in Texts /\ r \in Texts /\ Len(l) = Len(s) + Len(t) + Len(u) /\ Len(r) = Len(l)
      /\ Len(s) \in Nat /\ Len(t) \in Nat /\ Len(u) \in Nat
  BY DEF Texts
<1>2. ASSUME NEW i \in 1..Len(l) PROVE l[i] = r[i]
  <2>1. i \in 1..Len(s) \/ (\E j \in 1..Len(t) : i = Len(s) + j)
        \/ (\E j \in 1..Len(u) : i = Len(s) + Len(t) + j)
    <3>1. CASE i > Len(s) + Len(t)
      <4>1. i - (Len(s) + Len(t)) \in 1..Len(u) /\ i = Len(s) + Len(t) + (i - (Len(s) + Len(t)))
        BY <1>1, <3>1
      <4> QED
        BY <4>1
    <3>2. CASE i > Len(s) /\ i <= Len(s) + Len(t)
      <4>1. i - Len(s) \in 1..Len(t) /\ i = Len(s) + (i - Len(s))
        BY <1>1, <3>2
      <4> QED
        BY <4>1
    <3> QED
      BY <1>1, <3>1, <3>2
  <2>2. CASE i \in 1..Len(s)
    <3>1. i \in 1..Len(s \o t) /\ Len(s \o t) = Len(s) + Len(t)
      BY <1>1, <2>2, ConcatFacts
    <3>2. l[i] = (s \o t)[i] /\ (s \o t)[i] = s[i] /\ r[i] = s[i]
      BY <2>2, <3>1, ConcatFacts
    <3> QED
      BY <3>2
  <2>3. ASSUME NEW j \in 1..Len(t), i = Len(s) + j PROVE l[i] = r[i]
    <3>1. i \in 1..Len(s \o t) /\ Len(s \o t) = Len(s) + Len(t) /\ j \in 1..Len(t \o u)
      BY <1>1, <2>3, ConcatFacts
    <3>2. l[i] = (s \o t)[i] /\ (s \o t)[i] = t[j] /\ r[i] = (t \o u)[j] /\ (t \o u)[j] = t[j]
      BY <2>3, <3>1, ConcatFacts
    <3> QED
      BY <3>2
  <2>4. ASSUME NEW j \in 1..Len(u), i = Len(s) + Len(t) + j PROVE l[i] = r[i]
    <3>1. Len(s \o t) = Len(s) + Len(t) /\ Len(t) + j \in 1..Len(t \o u) /\ i = Len(s) + (Len(t) + j)
      BY <1>1, <2>4, ConcatFacts
    <3>2. l[i] = u[j] /\ r[i] = (t \o u)[Len(t) + j] /\ (t \o u)[Len(t) + j] = u[j]
      BY <2>4, <3>1, ConcatFacts
    <3> QED
      BY <3>2
  <2> QED
    BY <2>1, <2>2, <2>3, <2>4
<1> HIDE DEF l, r
<1>3. l = r
  BY <1>1, <1>2, SameText
<1> QED
  BY <1>3 DEF l, r

\* What the recursive function in Joined is, for the first m pieces of p.
Accumulates(F, p, m) ==
    F = [n \in 0..m |-> IF n = 0 THEN <<>> ELSE F[n - 1] \o p[n]]

LEMMA AccumulationExists ==
  ASSUME NEW p, NEW m \in Nat
  PROVE  \E F : Accumulates(F, p, m)
<1> DEFINE G == {n \in 0..m : \E F : Accumulates(F, p, n)}
<1>1. 0 \in G
  <2> DEFINE F == [n \in 0..0 |-> <<>>]
  <2>1. F = [n \in 0..0 |-> IF n = 0 THEN <<>> ELSE F[n - 1] \o p[n]]
    OBVIOUS
  <2> HIDE DEF F
  <2>2. Accumulates(F, p, 0)
    BY <2>1 DEF Accumulates
  <2>3. 0 \in 0..m
    OBVIOUS
  <2> QED
    BY <2>2, <2>3
<1>2. ASSUME NEW n \in 0..m - 1, n \in G PROVE n + 1 \in G
  <2>1. PICK F : Accumulates(F, p, n)
    BY <1>2
  <2> DEFINE H == [k \in 0..n + 1 |-> IF k <= n THEN F[k] ELSE F[n] \o p[n + 1]]
  <2>2. ASSUME NEW k \in 0..n + 1 PROVE H[k] = IF k = 0 THEN <<>> ELSE H[k - 1] \o p[k]
    <3>1. CASE k = 0
      BY <2>1, <3>1 DEF Accumulates
    <3>2. CASE k \in 1..n
      <4>1. k \in 0..n /\ k - 1 \in 0..n /\ k - 1 \in 0..n + 1 /\ k <= n /\ k - 1 <= n /\ k # 0
        BY <3>2
      <4>2. F[k] = F[k - 1] \o p[k]
        BY <2>1, <4>1 DEF Accumulates
      <4> QED
        BY <4>1, <4>2
    <3>3. CASE k = n + 1
      <4>1. ~(n + 1 <= n) /\ k - 1 = n /\ n <= n /\ n \in 0..n + 1 /\ k # 0
        BY <3>3
      <4> QED
        BY <3>3, <4>1
    <3> QED
      BY <3>1, <3>2, <3>3
  <2>3. H = [k \in 0..n + 1 |-> H[k]]
    OBVIOUS
  <2> HIDE DEF H
  <2>4. H = [k \in 0..n + 1 |-> IF k = 0 THEN <<>> ELSE H[k - 1] \o p[k]]
    BY <2>2, <2>3
  <2>5. Accumulates(H, p, n + 1)
    BY <2>4 DEF Accumulates
  <2>6. n + 1 \in 0..m
    OBVIOUS
  <2> QED
    BY <2>5, <2>6
<1> HIDE DEF G
<1>3. m \in G
  BY <1>1, <1>2, LengthInduction
<1> QED
  BY <1>3 DEF G

SameUpto(p, q, j) == \A i \in 1..j : p[i] = q[i]

\* The pieces of p and of q that are the same give the same text.
LEMMA AccumulationUnique ==
  ASSUME NEW p, NEW q, NEW m \in Nat, NEW k \in Nat, NEW j \in 0..m, j <= k,
         NEW F, Accumulates(F, p, m), NEW H, Accumulates(H, q, k),
         SameUpto(p, q, j)
  PROVE  F[j] = H[j]
<1> DEFINE G == {n \in 0..j : F[n] = H[n]}
<1>1. 0 \in G
  BY DEF Accumulates
<1>2. ASSUME NEW n \in 0..j - 1, n \in G PROVE n + 1 \in G
  <2>1. n + 1 \in 0..m /\ n + 1 \in 0..k /\ n + 1 \in 1..j /\ n + 1 # 0 /\ (n + 1) - 1 = n /\ n + 1 \in 0..j
    OBVIOUS
  <2>2. F[n + 1] = F[n] \o p[n + 1] /\ H[n + 1] = H[n] \o q[n + 1]
    BY <2>1 DEF Accumulates
  <2>3. p[n + 1] = q[n + 1]
    BY <2>1 DEF SameUpto
  <2> QED
    BY <1>2, <2>1, <2>2, <2>3
<1>3. j \in Nat
  OBVIOUS
<1> HIDE DEF G
<1>4. j \in G
  BY <1>1, <1>2, <1>3, LengthInduction
<1> QED
  BY <1>4 DEF G

LEMMA SameBeginning ==
  ASSUME NEW p, NEW r, NEW a \in Nat, NEW b \in Nat, SameUpto(p, r, a),
         NEW F, Accumulates(F, p, a), NEW K, Accumulates(K, r, a + b)
  PROVE  K[a] = F[a]
<1>1. a + b \in Nat /\ a \in 0..a + b /\ a <= a
  OBVIOUS
<1>2. F[a] = K[a]
  BY <1>1, AccumulationUnique
<1> QED
  BY <1>2

LEMMA JoinedAccumulates ==
  ASSUME NEW p, Len(p) \in Nat
  PROVE  \E F : Accumulates(F, p, Len(p)) /\ Joined(p) = F[Len(p)]
<1> DEFINE F == CHOOSE First : First = [n \in 0..Len(p) |-> IF n = 0 THEN <<>> ELSE First[n - 1] \o p[n]]
<1>1. F = [n \in 0..Len(p) |-> IF n = 0 THEN <<>> ELSE F[n - 1] \o p[n]]
  BY AccumulationExists DEF Accumulates
<1>2. Joined(p) = F[Len(p)]
  BY DEF Joined
<1> QED
  BY <1>1, <1>2 DEF Accumulates

\* Nothing, and one piece more.
LEMMA JoinedEmpty ==
  ASSUME NEW p, Len(p) = 0
  PROVE  Joined(p) = <<>>
<1>1. PICK F : Accumulates(F, p, 0) /\ Joined(p) = F[0]
  BY JoinedAccumulates
<1> QED
  BY <1>1 DEF Accumulates

LEMMA JoinedStep ==
  ASSUME NEW p, NEW q, NEW n \in Nat, Len(p) = n + 1, Len(q) = n, SameUpto(p, q, n)
  PROVE  Joined(p) = Joined(q) \o p[n + 1]
<1>1. PICK F : Accumulates(F, p, n + 1) /\ Joined(p) = F[n + 1]
  BY JoinedAccumulates
<1>2. PICK H : Accumulates(H, q, n) /\ Joined(q) = H[n]
  BY JoinedAccumulates
<1>3. F[n] = H[n]
  <2>1. n \in 0..n + 1 /\ n + 1 \in Nat /\ n <= n
    OBVIOUS
  <2> QED
    BY <1>1, <1>2, <2>1, AccumulationUnique
<1>4. F[n + 1] = F[n] \o p[n + 1]
  <2>1. n + 1 \in 0..n + 1 /\ n + 1 # 0 /\ (n + 1) - 1 = n
    OBVIOUS
  <2> QED
    BY <1>1, <2>1 DEF Accumulates
<1> QED
  BY <1>1, <1>2, <1>3, <1>4

LEMMA JoinedType ==
  ASSUME NEW p, Len(p) \in Nat, \A i \in 1..Len(p) : p[i] \in Texts
  PROVE  Joined(p) \in Texts
<1>0. PICK m \in Nat : m = Len(p)
  OBVIOUS
<1>1. PICK F : Accumulates(F, p, m) /\ Joined(p) = F[m]
  BY <1>0, JoinedAccumulates
<1> DEFINE G == {n \in 0..m : F[n] \in Texts}
<1>2. 0 \in G
  BY <1>1 DEF Accumulates, Texts
<1>3. ASSUME NEW n \in 0..m - 1, n \in G PROVE n + 1 \in G
  <2>1. n + 1 \in 0..m /\ n + 1 \in 1..m /\ n + 1 # 0 /\ (n + 1) - 1 = n
    OBVIOUS
  <2>2. F[n + 1] = F[n] \o p[n + 1]
    BY <1>1, <2>1 DEF Accumulates
  <2>3. F[n] \o p[n + 1] \in Texts
    <3>1. p[n + 1] \in Texts /\ F[n] \in Texts
      BY <1>0, <1>3, <2>1
    <3> QED
      BY <3>1, ConcatFacts
  <2> QED
    BY <2>1, <2>2, <2>3
<1> HIDE DEF G
<1>4. m \in G
  <2>1. \A n \in 0..m : n \in G
    BY <1>2, <1>3, LengthInduction, Zenon
  <2> QED
    BY <2>1
<1> QED
  BY <1>1, <1>4 DEF G

\* r has the a pieces of p, followed by the b pieces of q.
Followed(r, p, a, q, b) ==
    /\ Len(p) = a /\ Len(q) = b /\ Len(r) = a + b
    /\ \A i \in 1..a : p[i] \in Texts /\ r[i] = p[i]
    /\ \A i \in 1..b : q[i] \in Texts /\ r[a + i] = q[i]

LEMMA JoinedConcat ==
  ASSUME NEW a \in Nat, NEW b \in Nat, NEW p, NEW q, NEW r, Followed(r, p, a, q, b)
  PROVE  Joined(r) = Joined(p) \o Joined(q)
<1>a. /\ Len(p) = a /\ Len(q) = b /\ Len(r) = a + b
      /\ \A i \in 1..a : p[i] \in Texts /\ r[i] = p[i]
      /\ \A i \in 1..b : q[i] \in Texts /\ r[a + i] = q[i]
  BY DEF Followed
<1>1. PICK F : Accumulates(F, p, a) /\ Joined(p) = F[a]
  BY <1>a, JoinedAccumulates
<1>2. PICK H : Accumulates(H, q, b) /\ Joined(q) = H[b]
  BY <1>a, JoinedAccumulates
<1>3. PICK K : Accumulates(K, r, a + b) /\ Joined(r) = K[a + b]
  BY <1>a, JoinedAccumulates
<1>4. Joined(p) \in Texts
  BY <1>a, JoinedType
<1> DEFINE G == {n \in 0..b : H[n] \in Texts /\ K[a + n] = F[a] \o H[n]}
<1>5. 0 \in G
  <2>1. K[a] = F[a]
    <3>1. SameUpto(p, r, a)
      BY <1>a DEF SameUpto
    <3> QED
      BY <1>1, <1>3, <3>1, SameBeginning
  <2>2. H[0] = <<>> /\ <<>> \in Texts /\ a + 0 = a /\ 0 \in 0..b
    BY <1>2 DEF Accumulates, Texts
  <2> QED
    BY <1>1, <1>4, <2>1, <2>2, ConcatFacts
<1>6. ASSUME NEW n \in 0..b - 1, n \in G PROVE n + 1 \in G
  <2>1. n + 1 \in 0..b /\ n + 1 \in 1..b /\ n + 1 # 0 /\ (n + 1) - 1 = n
        /\ a + (n + 1) \in 0..a + b /\ a + (n + 1) # 0 /\ (a + (n + 1)) - 1 = a + n
    OBVIOUS
  <2>2. H[n + 1] = H[n] \o q[n + 1]
    BY <1>2, <2>1 DEF Accumulates
  <2>3. K[a + (n + 1)] = K[a + n] \o r[a + (n + 1)]
    BY <1>3, <2>1 DEF Accumulates
  <2>4. r[a + (n + 1)] = q[n + 1] /\ q[n + 1] \in Texts
    BY <1>a, <2>1
  <2>5. H[n] \in Texts /\ K[a + n] = F[a] \o H[n] /\ F[a] \in Texts
    BY <1>1, <1>4, <1>6
  <2>6. (F[a] \o H[n]) \o q[n + 1] = F[a] \o (H[n] \o q[n + 1]) /\ H[n] \o q[n + 1] \in Texts
    <3>1. PICK s \in Texts, t \in Texts, u \in Texts : s = F[a] /\ t = H[n] /\ u = q[n + 1]
      BY <2>4, <2>5
    <3>2. (s \o t) \o u = s \o (t \o u)
      BY ConcatAssociative
    <3>3. t \o u \in Texts
      BY ConcatFacts
    <3> QED
      BY <3>1, <3>2, <3>3
  <2> QED
    BY <2>1, <2>2, <2>3, <2>4, <2>5, <2>6
<1> HIDE DEF G
<1>7. b \in G
  <2>1. \A n \in 0..b : n \in G
    BY <1>5, <1>6, LengthInduction, Zenon
  <2> QED
    BY <2>1
<1> QED
  BY <1>1, <1>2, <1>3, <1>7 DEF G

-----------------------------------------------------------------------------
(* What tokens are decoded to *)

Pieces(ids) == [i \in DOMAIN ids |-> TextOf(ids, i)]
Raw(ids) == Joined(Pieces(ids))
Stripped(text) == IF text # <<>> /\ Head(text) = Space THEN Tail(text) ELSE text

LEMMA DecodeIsStripped ==
  ASSUME NEW ids
  PROVE  decode(ids) = Stripped(Raw(ids))
  BY DEF decode, Stripped, Raw, Pieces

LEMMA PieceFacts ==
  ASSUME NEW ids \in Seq(Tokens)
  PROVE  /\ Len(Pieces(ids)) = Len(ids)
         /\ \A i \in 1..Len(ids) : Pieces(ids)[i] = TextOf(ids, i) /\ TextOf(ids, i) \in Texts
         /\ Raw(ids) \in Texts
<1>1. DOMAIN ids = 1..Len(ids) /\ Len(ids) \in Nat
  OBVIOUS
<1>2. ASSUME NEW i \in 1..Len(ids) PROVE TextOf(ids, i) \in Texts
  <2>1. ids[i] \in Tokens
    OBVIOUS
  <2> QED
    <3>1. ids[i] \in {"word", "letter", "byte1", "byte2", "eos"}
      BY <2>1 DEF Tokens
    <3>2. TextOf(ids, i) \in {<<Space, "word">>, <<"letter">>, <<"char">>, <<Replacement>>, <<>>}
      BY <3>1 DEF TextOf
    <3>3. {<<Space, "word">>, <<"letter">>, <<"char">>, <<Replacement>>, <<>>} \subseteq Texts
      <4>1. \A x, y \in Chars : <<x, y>> \in Seq(Chars) /\ <<x>> \in Seq(Chars) /\ <<>> \in Seq(Chars)
        OBVIOUS
      <4>2. Space \in Chars /\ Replacement \in Chars /\ "word" \in Chars /\ "letter" \in Chars
            /\ "char" \in Chars
        BY DEF Chars
      <4> QED
        BY <4>1, <4>2 DEF Texts
    <3> QED
      BY <3>2, <3>3
<1>3. Pieces(ids) = [i \in 1..Len(ids) |-> TextOf(ids, i)]
  BY <1>1 DEF Pieces
<1>4. Len(Pieces(ids)) = Len(ids) /\ \A i \in 1..Len(ids) : Pieces(ids)[i] = TextOf(ids, i)
  <2>1. Pieces(ids) \in Seq(Texts)
    BY <1>1, <1>2, <1>3
  <2>2. DOMAIN Pieces(ids) = 1..Len(Pieces(ids)) /\ DOMAIN Pieces(ids) = 1..Len(ids)
    BY <1>3, <2>1
  <2> QED
    BY <1>1, <1>3, <2>1, <2>2
<1>5. Raw(ids) \in Texts
  BY <1>1, <1>2, <1>4, JoinedType DEF Raw
<1> QED
  BY <1>2, <1>4, <1>5

\* The tokens from a to b can be decoded up to m and from m on.
CutAt(ids, a, m, b) ==
    /\ a \in Nat /\ m \in Nat /\ b \in Nat /\ a <= m /\ m <= b /\ b <= Len(ids)
    /\ m = a \/ ids[m] # "byte1"

\* The tokens may be cut after m unless a character begins there: the texts of both
\* sides make up the text of the whole.
LEMMA RawCut ==
  ASSUME NEW ids \in Seq(Tokens), NEW a, NEW m, NEW b, CutAt(ids, a, m, b)
  PROVE  Raw(sub_token_ids(ids, a, b)) =
            Raw(sub_token_ids(ids, a, m)) \o Raw(sub_token_ids(ids, m, b))
<1> USE DEF CutAt
<1> DEFINE p == sub_token_ids(ids, a, m)
           q == sub_token_ids(ids, m, b)
           r == sub_token_ids(ids, a, b)
<1>1. /\ p \in Seq(Tokens) /\ Len(p) = m - a /\ \A i \in 1..m - a : p[i] = ids[a + i]
      /\ q \in Seq(Tokens) /\ Len(q) = b - m /\ \A i \in 1..b - m : q[i] = ids[m + i]
      /\ r \in Seq(Tokens) /\ Len(r) = b - a /\ \A i \in 1..b - a : r[i] = ids[a + i]
  BY DEF sub_token_ids
<1> HIDE DEF p, q, r
<1>2. ASSUME NEW i \in 1..m - a PROVE TextOf(r, i) = TextOf(p, i)
  <2>1. i \in 1..b - a /\ r[i] = p[i] /\ (i < Len(r) => i + 1 \in 1..b - a)
        /\ (i > 1 => i - 1 \in 1..m - a /\ r[i - 1] = p[i - 1])
    <3>1. i \in 1..b - a /\ (i < b - a => i + 1 \in 1..b - a)
          /\ (i > 1 => i - 1 \in 1..m - a /\ i - 1 \in 1..b - a)
      OBVIOUS
    <3> QED
      BY <1>1, <3>1
  <2>2. CASE i < m - a
    <3>1. i + 1 \in 1..m - a /\ r[i + 1] = p[i + 1] /\ i < Len(r) /\ i < Len(p)
      BY <1>1, <2>2
    <3> QED
      BY <2>1, <3>1 DEF TextOf
  <2>3. CASE i = m - a
    <3>1. ids[m] # "byte1" /\ a + i = m
      BY <2>3
    <3>2. r[i] # "byte1" /\ p[i] # "byte1"
      BY <1>1, <2>1, <3>1
    <3> QED
      BY <2>1, <3>2 DEF TextOf
  <2> QED
    BY <2>2, <2>3
<1>3. ASSUME NEW i \in 1..b - m PROVE TextOf(r, (m - a) + i) = TextOf(q, i)
  <2> DEFINE k == (m - a) + i
  <2>1. k \in 1..b - a /\ r[k] = q[i] /\ (k < Len(r) <=> i < Len(q))
    BY <1>1
  <2>2. i < Len(q) => r[k + 1] = q[i + 1]
    <3> SUFFICES ASSUME i < Len(q) PROVE r[k + 1] = q[i + 1]
      OBVIOUS
    <3>1. i + 1 \in 1..b - m /\ k + 1 \in 1..b - a /\ a + (k + 1) = m + (i + 1)
      BY <1>1
    <3> QED
      BY <1>1, <3>1
  <2>3. (k > 1 /\ r[k - 1] = "byte1") <=> (i > 1 /\ q[i - 1] = "byte1")
    <3>1. CASE i > 1
      <4>1. i - 1 \in 1..b - m /\ k - 1 \in 1..b - a /\ a + (k - 1) = m + (i - 1) /\ k > 1
        BY <3>1
      <4> QED
        BY <1>1, <3>1, <4>1
    <3>2. CASE i = 1
      <4>1. k > 1 => k - 1 \in 1..b - a /\ a + (k - 1) = m /\ m # a
        BY <3>2
      <4>2. k > 1 => r[k - 1] # "byte1"
        BY <1>1, <4>1
      <4> QED
        BY <3>2, <4>2
    <3> QED
      BY <3>1, <3>2
  <2> HIDE DEF k
  <2>4. TextOf(r, k) = TextOf(q, i)
    BY <2>1, <2>2, <2>3 DEF TextOf
  <2> QED
    BY <2>4 DEF k
<1>4. /\ Len(Pieces(p)) = m - a /\ \A i \in 1..m - a : Pieces(p)[i] = TextOf(p, i) /\ TextOf(p, i) \in Texts
      /\ Len(Pieces(q)) = b - m /\ \A i \in 1..b - m : Pieces(q)[i] = TextOf(q, i) /\ TextOf(q, i) \in Texts
      /\ Len(Pieces(r)) = b - a /\ \A i \in 1..b - a : Pieces(r)[i] = TextOf(r, i)
  BY <1>1, PieceFacts
<1>5. \A i \in 1..m - a : Pieces(r)[i] = Pieces(p)[i]
  <2>1. \A i \in 1..m - a : i \in 1..b - a
    OBVIOUS
  <2> QED
    BY <1>2, <1>4, <2>1
<1>6. \A i \in 1..b - m : Pieces(r)[(m - a) + i] = Pieces(q)[i]
  <2>1. \A i \in 1..b - m : (m - a) + i \in 1..b - a
    OBVIOUS
  <2> QED
    BY <1>3, <1>4, <2>1
<1>7. m - a \in Nat /\ b - m \in Nat /\ b - a = (m - a) + (b - m)
  OBVIOUS
<1> HIDE DEF Pieces
<1>8. Joined(Pieces(r)) = Joined(Pieces(p)) \o Joined(Pieces(q))
  <2>1. PICK x, y, z : x = Pieces(p) /\ y = Pieces(q) /\ z = Pieces(r)
    OBVIOUS
  <2>2. PICK k \in Nat, l \in Nat : k = m - a /\ l = b - m
    BY <1>7
  <2>3. Followed(z, x, k, y, l)
    BY <1>4, <1>5, <1>6, <1>7, <2>1, <2>2 DEF Followed
  <2>4. Joined(z) = Joined(x) \o Joined(y)
    BY <2>3, JoinedConcat
  <2> QED
    BY <2>1, <2>4
<1> QED
  BY <1>8 DEF Raw, p, q, r

LEMMA StrippedFacts ==
  ASSUME NEW s \in Texts
  PROVE  /\ Stripped(s) \in Texts
         /\ Unfinished(Stripped(s)) <=> Unfinished(s)
         /\ \A t \in Texts : s # <<>> => Stripped(s \o t) = Stripped(s) \o t
<1>1. CASE s = <<>> \/ Head(s) # Space
  <2>1. Stripped(s) = s
    BY <1>1 DEF Stripped
  <2>2. ASSUME NEW t \in Texts, s # <<>> PROVE Stripped(s \o t) = s \o t
    <3>1. s[1] # Space /\ Len(s) \in Nat /\ Len(s) > 0
      BY <1>1, <2>2 DEF Texts
    <3>2. (s \o t)[1] = s[1] /\ s \o t # <<>> /\ s \o t \in Seq(Chars)
      BY <3>1 DEF Texts
    <3>3. Head(s \o t) = (s \o t)[1]
      BY <3>2
    <3> QED
      BY <3>1, <3>2, <3>3 DEF Stripped
  <2> QED
    BY <2>1, <2>2
<1>2. CASE s # <<>> /\ Head(s) = Space
  <2>1. Stripped(s) = Tail(s) /\ Tail(s) \in Texts /\ Len(Tail(s)) = Len(s) - 1 /\ Len(s) \in Nat
        /\ Len(s) > 0 /\ s[1] = Space
        /\ \A i \in 1..Len(s) - 1 : Tail(s)[i] = s[i + 1]
    BY <1>2 DEF Stripped, Texts
  <2>2. Unfinished(Tail(s)) <=> Unfinished(s)
    <3>1. CASE Len(s) = 1
      <4>1. Tail(s) = <<>> /\ Last(s) = Space
        BY <2>1, <3>1 DEF Texts, Last
      <4> QED
        BY <4>1 DEF Unfinished, Space, Replacement
    <3>2. CASE Len(s) > 1
      <4>1. Len(s) - 1 \in 1..Len(s) - 1 /\ (Len(s) - 1) + 1 = Len(s)
        BY <2>1, <3>2
      <4>2. Tail(s)[Len(s) - 1] = s[Len(s)] /\ Tail(s) # <<>> /\ s # <<>>
        <5>1. Tail(s)[Len(s) - 1] = s[(Len(s) - 1) + 1]
          BY <2>1, <4>1
        <5>2. Tail(s) # <<>>
          <6>1. PICK t \in Texts, n \in Nat : t = Tail(s) /\ n = Len(s) /\ Len(t) = n - 1 /\ n > 1
            BY <2>1, <3>2
          <6>2. Len(t) # 0
            BY <6>1
          <6>3. t # <<>>
            BY <6>2
          <6> QED
            BY <6>1, <6>3
        <5> QED
          BY <1>2, <4>1, <5>1, <5>2
      <4>3. Last(Tail(s)) = Last(s)
        BY <2>1, <4>2 DEF Last
      <4> QED
        BY <4>2, <4>3 DEF Unfinished
    <3>3. Len(s) = 1 \/ Len(s) > 1
      <4>1. PICK n \in Nat : n = Len(s) /\ n > 0
        BY <2>1
      <4>2. n = 1 \/ n > 1
        BY <4>1
      <4> QED
        BY <4>1, <4>2
    <3> QED
      BY <3>1, <3>2, <3>3
  <2>3. ASSUME NEW t \in Texts PROVE Stripped(s \o t) = Tail(s) \o t
    <3>1. s \o t \in Seq(Chars) /\ s \o t # <<>> /\ Head(s \o t) = Space
      <4>1. (s \o t)[1] = s[1] /\ s \o t # <<>> /\ s \o t \in Seq(Chars)
        BY <2>1 DEF Texts
      <4> QED
        BY <2>1, <4>1
    <3>2. Stripped(s \o t) = Tail(s \o t)
      BY <3>1 DEF Stripped
    <3>3. PICK n \in Nat, k \in Nat : n = Len(s) /\ k = Len(t)
      BY DEF Texts
    <3>4. Len(s \o t) = n + k /\ Tail(s \o t) \in Texts /\ Len(Tail(s \o t)) = n + k - 1
          /\ \A i \in 1..n + k - 1 : Tail(s \o t)[i] = (s \o t)[i + 1]
      BY <3>1, <3>3 DEF Texts
    <3>5. Tail(s) \o t \in Texts /\ Len(Tail(s) \o t) = n + k - 1
          /\ (\A i \in 1..n - 1 : (Tail(s) \o t)[i] = Tail(s)[i])
          /\ (\A i \in 1..k : (Tail(s) \o t)[(n - 1) + i] = t[i])
      <4>1. Tail(s) \in Texts /\ Len(Tail(s)) = n - 1 /\ n > 0
        BY <2>1, <3>3
      <4> QED
        <5>1. PICK u \in Texts : u = Tail(s)
          BY <4>1
        <5>2. Len(u) = n - 1 /\ Len(t) = k /\ (n - 1) + k = n + k - 1
          BY <3>3, <4>1, <5>1
        <5>3. /\ u \o t \in Texts /\ Len(u \o t) = Len(u) + Len(t)
              /\ \A i \in 1..Len(u) : (u \o t)[i] = u[i]
              /\ \A i \in 1..Len(t) : (u \o t)[Len(u) + i] = t[i]
          BY ConcatFacts
        <5> QED
          BY <5>1, <5>2, <5>3
    <3>6. ASSUME NEW i \in 1..n + k - 1 PROVE Tail(s \o t)[i] = (Tail(s) \o t)[i]
      <4>1. CASE i \in 1..n - 1
        <5>1. i + 1 \in 1..n
          BY <4>1
        <5>2. (s \o t)[i + 1] = s[i + 1]
          BY <3>3, <5>1, ConcatFacts
        <5> QED
          BY <2>1, <3>3, <3>4, <3>5, <4>1, <5>2
      <4>2. CASE ~(i \in 1..n - 1)
        <5>1. PICK j \in 1..k : i = (n - 1) + j
          <6>1. i - (n - 1) \in 1..k /\ i = (n - 1) + (i - (n - 1))
            BY <4>2, <2>1, <3>3
          <6> QED
            BY <6>1
        <5>2. i + 1 = n + j
          BY <5>1
        <5>3. (s \o t)[n + j] = t[j]
          BY <3>3, ConcatFacts
        <5>4. (Tail(s) \o t)[i] = t[j]
          BY <3>5, <5>1
        <5>5. Tail(s \o t)[i] = (s \o t)[i + 1]
          BY <3>4
        <5> QED
          BY <5>2, <5>3, <5>4, <5>5
      <4> QED
        BY <4>1, <4>2
    <3> QED
      BY <3>2, <3>4, <3>5, <3>6, SameText
  <2> QED
    BY <2>1, <2>2, <2>3
<1> QED
  BY <1>1, <1>2

\* A text that ends in the first byte of a character is unfinished.
LEMMA FirstByteUnfinished ==
  ASSUME NEW ids \in Seq(Tokens), NEW a \in Nat, NEW b \in Nat, a < b, b <= Len(ids),
         ids[b] = "byte1"
  PROVE  Unfinished(decode(sub_token_ids(ids, a, b)))
<1> DEFINE r == sub_token_ids(ids, a, b)
<1>1. PICK n \in Nat : b - a = n + 1
  <2>1. b - a - 1 \in Nat /\ b - a = (b - a - 1) + 1
    OBVIOUS
  <2> QED
    BY <2>1
<1>2. r \in Seq(Tokens) /\ Len(r) = n + 1 /\ r[n + 1] = "byte1"
  <2>1. r \in Seq(Tokens) /\ Len(r) = b - a /\ \A i \in 1..b - a : r[i] = ids[a + i]
    BY DEF sub_token_ids
  <2>2. n + 1 \in 1..b - a /\ a + (n + 1) = b
    BY <1>1
  <2> QED
    BY <1>1, <2>1, <2>2
<1> HIDE DEF r
<1>3. TextOf(r, n + 1) = <<Replacement>>
  BY <1>2 DEF TextOf
<1>4. PICK x : x = Pieces(r) /\ Len(x) = n + 1 /\ (\A i \in 1..n + 1 : x[i] \in Texts) /\ x[n + 1] = <<Replacement>>
  <2>1. n + 1 \in 1..n + 1
    OBVIOUS
  <2> QED
    BY <1>2, <1>3, <2>1, PieceFacts
<1> DEFINE q == [i \in 1..n |-> x[i]]
<1>5. Len(q) = n /\ \A i \in 1..n : x[i] = q[i] /\ q[i] \in Texts
  <2>1. \A i \in 1..n : i \in 1..n + 1
    OBVIOUS
  <2>2. q \in Seq(Texts)
    BY <1>4, <2>1
  <2> QED
    BY <1>4, <2>1, <2>2
<1> HIDE DEF q
<1>6. Joined(x) = Joined(q) \o <<Replacement>>
  <2>1. SameUpto(x, q, n)
    BY <1>5 DEF SameUpto
  <2> QED
    BY <1>4, <1>5, <2>1, JoinedStep
<1>7. PICK s \in Texts : s = Joined(q)
  BY <1>5, JoinedType
<1>8. Unfinished(s \o <<Replacement>>) /\ s \o <<Replacement>> \in Texts
  <2>1. <<Replacement>> \in Texts /\ Len(<<Replacement>>) = 1 /\ <<Replacement>>[1] = Replacement
    BY DEF Texts, Chars
  <2>2. Len(s \o <<Replacement>>) = Len(s) + 1 /\ (s \o <<Replacement>>)[Len(s) + 1] = Replacement
        /\ s \o <<Replacement>> \in Texts
    BY <2>1, ConcatFacts
  <2>3. s \o <<Replacement>> # <<>>
    BY <2>2 DEF Texts
  <2> QED
    BY <2>2, <2>3 DEF Unfinished, Last
<1>9. Raw(r) = s \o <<Replacement>>
  BY <1>4, <1>6, <1>7 DEF Raw
<1> QED
  BY <1>8, <1>9, StrippedFacts, DecodeIsStripped DEF r

-----------------------------------------------------------------------------
(* decode_delta_text *)

\* Where the text of the tokens from f on may be cut
Cut(ids, f, m) == m = f \/ ids[m] # "byte1"

\* The offsets of a sequence whose text begins with token f: the text between them is
\* not empty once something was sent, so that a space is never taken for the first.
OffsetsOK(ids, f, offsets) ==
    /\ offsets.prefix \in Nat /\ offsets.output \in Nat
    /\ f <= offsets.prefix /\ offsets.prefix <= offsets.output /\ offsets.output <= Len(ids)
    /\ Cut(ids, f, offsets.prefix) /\ Cut(ids, f, offsets.output)
    /\ \/ offsets.prefix = f /\ offsets.output = f
       \/ Raw(sub_token_ids(ids, offsets.prefix, offsets.output)) # <<>>

\* A delta continues the text sent before, and leaves out nothing that is finished.
LEMMA DeltaContinues ==
  ASSUME NEW ids \in Seq(Tokens), NEW f \in Nat, NEW offsets, OffsetsOK(ids, f, offsets),
         NEW e \in Nat, offsets.output <= e, e <= Len(ids)
  PROVE  LET delta == decode_delta_text(ids, offsets, e)
             Upto(end) == decode(sub_token_ids(ids, f, end))
         IN /\ OffsetsOK(ids, f, delta.offsets) /\ delta.offsets.output <= e
            /\ delta.text \in Texts /\ Upto(offsets.output) \in Texts
            /\ Upto(delta.offsets.output) = Upto(offsets.output) \o delta.text
            /\ ~Unfinished(Upto(e)) => Upto(delta.offsets.output) = Upto(e)
<1> DEFINE p == offsets.prefix
           o == offsets.output
           T(a, b) == Raw(sub_token_ids(ids, a, b))
<1>0. /\ p \in Nat /\ o \in Nat /\ f <= p /\ p <= o /\ o <= e /\ f <= o /\ f <= e /\ p <= e
      /\ o <= Len(ids) /\ p <= Len(ids)
      /\ p = f \/ ids[p] # "byte1"
      /\ o = f \/ ids[o] # "byte1"
      /\ (p = f /\ o = f) \/ T(p, o) # <<>>
  BY DEF OffsetsOK, Cut
<1>1. ASSUME NEW a \in Nat, NEW b \in Nat, a <= b, b <= Len(ids)
      PROVE  T(a, b) \in Texts /\ decode(sub_token_ids(ids, a, b)) = Stripped(T(a, b))
  <2>1. sub_token_ids(ids, a, b) \in Seq(Tokens)
    BY <1>1 DEF sub_token_ids
  <2> QED
    BY <2>1, PieceFacts, DecodeIsStripped
<1> HIDE DEF p, o
<1>2. T(p, e) = T(p, o) \o T(o, e)
  <2>1. CutAt(ids, p, o, e)
    BY <1>0 DEF CutAt
  <2> QED
    BY <2>1, RawCut
<1>3. T(f, e) = T(f, o) \o T(o, e)
  <2>1. CutAt(ids, f, o, e)
    BY <1>0 DEF CutAt
  <2> QED
    BY <2>1, RawCut
<1>4. T(f, o) = T(f, p) \o T(p, o)
  <2>1. CutAt(ids, f, p, o)
    BY <1>0 DEF CutAt
  <2> QED
    BY <2>1, RawCut
<1>5. T(f, e) = T(f, p) \o T(p, e)
  <2>1. CutAt(ids, f, p, e)
    BY <1>0 DEF CutAt
  <2> QED
    BY <2>1, RawCut
<1>6. PICK P \in Texts, N \in Texts, W \in Texts, V \in Texts :
          P = T(p, o) /\ N = T(o, e) /\ W = T(f, o) /\ V = T(f, p)
  BY <1>0, <1>1
<1>7. /\ T(p, e) = P \o N /\ T(f, e) = W \o N /\ W = V \o P /\ T(f, e) = V \o (P \o N)
      /\ P \o N \in Texts /\ W \o N \in Texts
  <2>1. P \o N \in Texts /\ W \o N \in Texts
    BY ConcatFacts
  <2> QED
    BY <1>2, <1>3, <1>4, <1>5, <1>6, <2>1
<1>8. PICK prefix_text \in Texts, new_text \in Texts, sent_text \in Texts, all_text \in Texts :
        /\ prefix_text = decode(sub_token_ids(ids, p, o)) /\ prefix_text = Stripped(P)
        /\ new_text = decode(sub_token_ids(ids, p, e)) /\ new_text = Stripped(P \o N)
        /\ sent_text = decode(sub_token_ids(ids, f, o)) /\ sent_text = Stripped(W)
        /\ all_text = decode(sub_token_ids(ids, f, e)) /\ all_text = Stripped(W \o N)
  <2>1. Stripped(P) \in Texts /\ Stripped(W) \in Texts /\ Stripped(P \o N) \in Texts /\ Stripped(W \o N) \in Texts
    BY <1>7, StrippedFacts
  <2>2. /\ decode(sub_token_ids(ids, p, o)) = Stripped(P)
        /\ decode(sub_token_ids(ids, p, e)) = Stripped(P \o N)
        /\ decode(sub_token_ids(ids, f, o)) = Stripped(W)
        /\ decode(sub_token_ids(ids, f, e)) = Stripped(W \o N)
    BY <1>0, <1>1, <1>6, <1>7
  <2> QED
    BY <2>1, <2>2
<1> HIDE DEF T
<1>9. Unfinished(new_text) => Unfinished(all_text)
  <2> SUFFICES ASSUME Unfinished(new_text) PROVE Unfinished(all_text)
    OBVIOUS
  <2>1. PICK s \in Texts : s = P \o N
    BY <1>7
  <2>2. s # <<>> /\ Last(s) = Replacement
    BY <1>8, <2>1, StrippedFacts DEF Unfinished
  <2>3. Len(s) \in Nat /\ Len(s) > 0 /\ Len(V) \in Nat
    BY <2>2 DEF Texts
  <2>4. Len(V \o s) = Len(V) + Len(s) /\ (V \o s)[Len(V) + Len(s)] = s[Len(s)] /\ V \o s \in Texts
    <3>1. Len(s) \in 1..Len(s)
      BY <2>3
    <3> QED
      BY <3>1, ConcatFacts
  <2>5. V \o s # <<>>
    BY <2>3, <2>4 DEF Texts
  <2>6. Unfinished(V \o s)
    BY <2>2, <2>4, <2>5 DEF Unfinished, Last
  <2>7. W \o N = V \o s
    BY <1>7, <2>1
  <2>8. Unfinished(Stripped(V \o s))
    BY <2>4, <2>6, StrippedFacts
  <2> QED
    BY <1>8, <2>7, <2>8
\* The text after the one sent before, and what the client has then
<1>10. PICK more \in Texts :
         /\ new_text = prefix_text \o more
         /\ all_text = sent_text \o more
         /\ more # <<>> => N # <<>>
  <2>1. CASE P # <<>>
    <3>1. W # <<>>
      <4>1. Len(P) > 0 /\ Len(W) = Len(V) + Len(P) /\ Len(V) \in Nat /\ Len(P) \in Nat
        <5>1. Len(V \o P) = Len(V) + Len(P)
          BY ConcatFacts
        <5>2. Len(V) \in Nat /\ Len(P) \in Nat /\ Len(P) > 0
          BY <2>1 DEF Texts
        <5> QED
          BY <1>7, <5>1, <5>2
      <4> QED
        BY <4>1
    <3>2. new_text = prefix_text \o N /\ all_text = sent_text \o N
      <4>1. Stripped(P \o N) = Stripped(P) \o N
        BY <2>1, StrippedFacts
      <4>2. Stripped(W \o N) = Stripped(W) \o N
        BY <3>1, StrippedFacts
      <4> QED
        BY <1>8, <4>1, <4>2
    <3> QED
      BY <3>2
  <2>2. CASE P = <<>>
    <3>1. p = f /\ o = f
      BY <1>0, <1>6, <2>2
    <3>2. W = P /\ sent_text = prefix_text /\ prefix_text = <<>> /\ new_text = all_text
      <4>1. W = P
        BY <1>6, <3>1
      <4>2. Stripped(<<>>) = <<>>
        BY DEF Stripped
      <4> QED
        BY <1>8, <2>2, <4>1, <4>2
    <3>3. new_text # <<>> => N # <<>>
      <4>1. N = <<>> => P \o N = <<>>
        BY <2>2, ConcatFacts
      <4> QED
        BY <1>8, <4>1 DEF Stripped
    <3>4. <<>> \o new_text = new_text
      BY ConcatFacts
    <3> QED
      BY <3>2, <3>3, <3>4
  <2> QED
    BY <2>1, <2>2
<1>11. PICK n \in Nat, k \in Nat : n = Len(prefix_text) /\ k = Len(more) /\ Len(new_text) = n + k
  <2>1. Len(prefix_text \o more) = Len(prefix_text) + Len(more)
    BY ConcatFacts
  <2>2. Len(prefix_text) \in Nat /\ Len(more) \in Nat
    BY DEF Texts
  <2> QED
    BY <1>10, <2>1, <2>2
<1>12. more = <<>> <=> k = 0
  BY <1>11 DEF Texts
<1> DEFINE delta == decode_delta_text(ids, offsets, e)
<1>13. CASE Len(new_text) > Len(prefix_text) /\ ~Unfinished(new_text)
  <2>1. delta = [text    |-> SubSeq(new_text, Len(prefix_text) + 1, Len(new_text)),
                 offsets |-> [prefix |-> o, output |-> e]]
    BY <1>8, <1>13 DEF decode_delta_text, p, o
  <2>2. SubSeq(new_text, Len(prefix_text) + 1, Len(new_text)) = more
    BY <1>10, EndOfText
  <2>3. delta.text = more /\ delta.offsets.prefix = o /\ delta.offsets.output = e
    BY <2>1, <2>2
  <2>4. N # <<>> /\ T(o, e) # <<>>
    BY <1>6, <1>10, <1>11, <1>12, <1>13
  <2>5. Cut(ids, f, e)
    <3> SUFFICES ASSUME ids[e] = "byte1", e # f PROVE FALSE
      BY DEF Cut
    <3>1. p # e
      <4> SUFFICES ASSUME p = e PROVE FALSE
        OBVIOUS
      <4>1. p = o /\ o = e
        BY <1>0
      <4>2. new_text = prefix_text
        BY <1>8, <4>1
      <4> QED
        BY <1>11, <1>13, <4>2
    <3>2. p < e
      BY <1>0, <3>1
    <3> QED
      BY <1>0, <1>8, <1>13, <3>2, FirstByteUnfinished
  <2>6. OffsetsOK(ids, f, delta.offsets)
    BY <1>0, <2>3, <2>4, <2>5 DEF OffsetsOK, Cut, T
  <2>7. /\ delta.offsets.output <= e /\ delta.text \in Texts
        /\ decode(sub_token_ids(ids, f, offsets.output)) = sent_text
        /\ decode(sub_token_ids(ids, f, delta.offsets.output)) = all_text
        /\ decode(sub_token_ids(ids, f, e)) = all_text
    <3> HIDE DEF delta
    <3>1. offsets.output = o /\ e <= e
      BY DEF o
    <3> QED
      BY <1>8, <2>3, <3>1
  <2> HIDE DEF delta
  <2>8. all_text = sent_text \o delta.text
    BY <1>10, <2>3
  <2> QED
    BY <1>8, <2>6, <2>7, <2>8 DEF delta
<1>14. CASE ~(Len(new_text) > Len(prefix_text) /\ ~Unfinished(new_text))
  <2>1. delta = [text |-> <<>>, offsets |-> offsets]
    BY <1>8, <1>14 DEF decode_delta_text, p, o
  <2>2. delta.text = <<>> /\ delta.offsets = offsets
    BY <2>1
  <2>3. <<>> \in Texts /\ sent_text \o <<>> = sent_text
    BY ConcatFacts DEF Texts
  <2>4. ~Unfinished(all_text) => sent_text = all_text
    <3> SUFFICES ASSUME ~Unfinished(all_text) PROVE sent_text = all_text
      OBVIOUS
    <3>1. ~(Len(new_text) > Len(prefix_text))
      BY <1>9, <1>14
    <3>2. more = <<>>
      BY <1>11, <1>12, <3>1
    <3> QED
      BY <1>10, <2>3, <3>2
  <2> QED
    BY <1>0, <1>8, <2>2, <2>3, <2>4 DEF o
<1> QED
  BY <1>13, <1>14

-----------------------------------------------------------------------------
(* The text of an answer *)

\* What the client of a call has read, the text of its tokens up to one, and how far
\* its deltas are
Messages(s) ==
    /\ Len(s) \in Nat /\ s = [i \in 1..Len(s) |-> s[i]]
    /\ \A i \in 1..Len(s) : s[i].text \in Texts
TextsIn(s) == [i \in DOMAIN s |-> s[i].text]
ReadBy(c) == Joined(TextsIn(responses[c]))
TextUpto(c, end) == decode(sub_token_ids(args[c].tokens, request[c].first_output, end))
OffsetsOf(c) == [prefix |-> prefix_offset[c], output |-> sent[Stream(c)]]

\* The tokens of a request, and the offsets into them.
OffsetsInv(c) ==
    /\ request[c].first_output \in Nat /\ request[c].first_output <= num_tokens[c]
    /\ args[c].prompt_tokens <= num_tokens[c] /\ num_tokens[c] <= Len(args[c].tokens)
    /\ OffsetsOK(args[c].tokens, request[c].first_output, OffsetsOf(c))
    /\ sent[Stream(c)] <= num_tokens[c]
    /\ ~request[c].stream =>
         prefix_offset[c] = request[c].first_output /\ sent[Stream(c)] = request[c].first_output

\* What was read up to now, what it is when the client knows that the sequence
\* stopped, and what it is at the end.
ReadInv(c) ==
    /\ Messages(responses[c])
    /\ request[c].stream => ReadBy(c) = TextUpto(c, sent[Stream(c)])
    /\ request[c].stream /\ told[Stream(c)] # "NONE" =>
         /\ finish_reason[c] = told[Stream(c)]
         /\ ~Unfinished(TextUpto(c, num_tokens[c])) => ReadBy(c) = TextUpto(c, num_tokens[c])
    /\ answers[c] = <<"OK">> /\ finish_reason[c] # "NONE"
         /\ ~Unfinished(TextUpto(c, num_tokens[c])) => ReadBy(c) = TextUpto(c, num_tokens[c])

TextInv ==
    /\ DOMAIN sent = {Stream(c) : c \in Calls} /\ DOMAIN prefix_offset = Calls
    /\ \A c \in Calls : request[c] # NotConverted => OffsetsInv(c) /\ ReadInv(c)

LEMMA TokensFacts ==
  ASSUME NEW a \in Args
  PROVE  /\ a.tokens \in Seq(Tokens) /\ a.prompt_tokens \in Nat /\ a.prompt_tokens <= Len(a.tokens)
         /\ MakeRequest(a).first_output \in Nat /\ MakeRequest(a).first_output <= a.prompt_tokens
         /\ MakeRequest(a).stream = a.stream
<1>1. a.tokens \in Seq(Tokens) /\ a.prompt_tokens \in Nat /\ a.prompt_tokens <= Len(a.tokens)
  BY HandlersAssumption DEF ArgsType
<1>2. MakeRequest(a).first_output = (IF EchoOf(a) THEN 0 ELSE a.prompt_tokens)
      /\ MakeRequest(a).stream = a.stream
  BY DEF MakeRequest
<1> QED
  BY <1>1, <1>2

\* No token, no text.
LEMMA NothingDecoded ==
  ASSUME NEW ids \in Seq(Tokens), NEW f \in Nat, f <= Len(ids)
  PROVE  /\ decode(sub_token_ids(ids, f, f)) = <<>>
         /\ OffsetsOK(ids, f, [prefix |-> f, output |-> f])
<1>1. sub_token_ids(ids, f, f) \in Seq(Tokens) /\ Len(sub_token_ids(ids, f, f)) = 0
  BY DEF sub_token_ids
<1>2. Raw(sub_token_ids(ids, f, f)) = <<>>
  <2>1. Len(Pieces(sub_token_ids(ids, f, f))) = 0
    BY <1>1, PieceFacts
  <2> QED
    BY <2>1, JoinedEmpty DEF Raw
<1>3. decode(sub_token_ids(ids, f, f)) = <<>>
  BY <1>2, DecodeIsStripped DEF Stripped
<1>4. OffsetsOK(ids, f, [prefix |-> f, output |-> f])
  BY DEF OffsetsOK, Cut
<1> QED
  BY <1>3, <1>4

\* The text of the messages s, and of s with the message m behind it.
LEMMA ReadingOn ==
  ASSUME NEW s, Messages(s), NEW m, m.text \in Texts
  PROVE  /\ Messages(Append(s, m))
         /\ Joined(TextsIn(s)) \in Texts
         /\ Joined(TextsIn(Append(s, m))) = Joined(TextsIn(s)) \o m.text
<1>0. Len(s) \in Nat /\ s = [i \in 1..Len(s) |-> s[i]] /\ \A i \in 1..Len(s) : s[i].text \in Texts
  BY DEF Messages
<1>1. PICK n \in Nat : n = Len(s)
  BY <1>0
<1>2. PICK t : t = Append(s, m)
  OBVIOUS
<1>3. /\ Len(t) = n + 1 /\ \A i \in 1..n : t[i] = s[i]
      /\ t[n + 1] = m /\ t = [i \in 1..n + 1 |-> t[i]]
  BY <1>0, <1>1, <1>2, AppendAny
<1>4. DOMAIN s = 1..n /\ DOMAIN t = 1..n + 1
  <2>1. DOMAIN [i \in 1..n |-> s[i]] = 1..n /\ DOMAIN [i \in 1..n + 1 |-> t[i]] = 1..n + 1
    OBVIOUS
  <2> QED
    BY <1>0, <1>1, <1>3, <2>1
<1>5. \A i \in 1..n + 1 : t[i].text \in Texts
  <2>1. \A i \in 1..n + 1 : i \in 1..n \/ i = n + 1
    OBVIOUS
  <2> QED
    BY <1>0, <1>1, <1>3, <2>1
<1> DEFINE p == [i \in 1..n + 1 |-> t[i].text]
           q == [i \in 1..n |-> s[i].text]
<1>6. p \in Seq(Texts) /\ Len(p) = n + 1 /\ p[n + 1] = m.text
  <2>1. p \in Seq(Texts)
    BY <1>5
  <2>2. n + 1 \in 1..n + 1
    OBVIOUS
  <2> QED
    BY <1>3, <2>1, <2>2
<1>7. q \in Seq(Texts) /\ Len(q) = n
  <2>1. q \in Seq(Texts)
    BY <1>0, <1>1
  <2> QED
    BY <2>1
<1>8. \A i \in 1..n : p[i] = q[i] /\ q[i] \in Texts
  <2>1. \A i \in 1..n : i \in 1..n + 1
    OBVIOUS
  <2> QED
    BY <1>0, <1>1, <1>3, <2>1
<1>9. TextsIn(s) = q /\ TextsIn(t) = p
  BY <1>4 DEF TextsIn
<1> HIDE DEF p, q
<1>10. Joined(p) = Joined(q) \o p[n + 1]
  <2>1. SameUpto(p, q, n)
    BY <1>8 DEF SameUpto
  <2> QED
    BY <1>6, <1>7, <2>1, JoinedStep
<1>11. Joined(q) \in Texts
  BY <1>7, <1>8, JoinedType
<1>12. Messages(t)
  BY <1>3, <1>5 DEF Messages
<1> QED
  BY <1>2, <1>6, <1>9, <1>10, <1>11, <1>12

LEMMA NothingRead == Messages(<<>>) /\ Joined(TextsIn(<<>>)) = <<>>
<1>1. Messages(<<>>)
  BY DEF Messages
<1>2. TextsIn(<<>>) = <<>>
  BY DEF TextsIn
<1>3. Len(TextsIn(<<>>)) = 0
  BY <1>2
<1> QED
  BY <1>1, <1>3, JoinedEmpty

\* A call that a step leaves alone.
LEMMA KeepsText ==
  ASSUME NEW d \in Calls, OffsetsInv(d), ReadInv(d),
         args'[d] = args[d], request'[d] = request[d], num_tokens'[d] = num_tokens[d],
         prefix_offset'[d] = prefix_offset[d], sent'[Stream(d)] = sent[Stream(d)],
         responses'[d] = responses[d], told'[Stream(d)] = told[Stream(d)],
         finish_reason'[d] = finish_reason[d],
         answers'[d] = answers[d] \/ answers'[d] # <<"OK">>
  PROVE  OffsetsInv(d)' /\ ReadInv(d)'
<1>1. OffsetsOf(d)' = OffsetsOf(d)
  BY DEF OffsetsOf, Stream
<1>2. OffsetsInv(d)'
  BY <1>1 DEF OffsetsInv, Stream
<1>3. ReadBy(d)' = ReadBy(d)
  BY DEF ReadBy
<1>4. /\ TextUpto(d, num_tokens[d])' = TextUpto(d, num_tokens[d])
      /\ TextUpto(d, sent[Stream(d)])' = TextUpto(d, sent[Stream(d)])
  BY DEF TextUpto, Stream
<1>5. ReadInv(d)'
  BY <1>3, <1>4 DEF ReadInv, Stream
<1> QED
  BY <1>2, <1>5

\* What an accepted request is known to have.
LEMMA AcceptedFacts ==
  ASSUME HandlersInv, TextInv, NEW c \in Calls, status[c] = "accepted"
  PROVE  /\ request[c] # NotConverted /\ answers[c] = <<>> /\ OffsetsInv(c) /\ ReadInv(c)
         /\ args[c] \in Args /\ args[c].tokens \in Seq(Tokens)
         /\ num_tokens[c] \in Nat /\ request[c].stream \in BOOLEAN
<1>1. request[c] # NotConverted /\ answers[c] = <<>>
  BY DEF HandlersInv, CallsInv, AcceptedCalls
<1>2. args[c] \in Args /\ num_tokens[c] \in Nat /\ request[c].stream = args[c].stream
  BY <1>1 DEF HandlersInv, CallsInv, RequestMade, HandlersType
<1> QED
  BY <1>1, <1>2, ArgsFacts, TokensFacts DEF TextInv

\* The next delta of a request.
LEMMA DeltaFacts ==
  ASSUME HandlersInv, TextInv, NEW c \in Calls, status[c] = "accepted"
  PROVE  /\ OffsetsOK(args[c].tokens, request[c].first_output, Delta(c).offsets)
         /\ Delta(c).offsets.output <= num_tokens[c]
         /\ Delta(c).text \in Texts /\ TextUpto(c, sent[Stream(c)]) \in Texts
         /\ TextUpto(c, Delta(c).offsets.output) = TextUpto(c, sent[Stream(c)]) \o Delta(c).text
         /\ ~Unfinished(TextUpto(c, num_tokens[c])) =>
               TextUpto(c, Delta(c).offsets.output) = TextUpto(c, num_tokens[c])
<1>0. PICK offsets : offsets = OffsetsOf(c)
  OBVIOUS
<1>1. PICK ids \in Seq(Tokens), f \in Nat, e \in Nat :
        ids = args[c].tokens /\ f = request[c].first_output /\ e = num_tokens[c]
  BY AcceptedFacts DEF OffsetsInv
<1>2. OffsetsOK(ids, f, offsets) /\ offsets.output = sent[Stream(c)] /\ offsets.output <= e /\ e <= Len(ids)
  BY <1>0, <1>1, AcceptedFacts DEF OffsetsInv, OffsetsOf
<1>3. PICK delta : delta = decode_delta_text(ids, offsets, e)
  OBVIOUS
<1>4. /\ OffsetsOK(ids, f, delta.offsets) /\ delta.offsets.output <= e
      /\ delta.text \in Texts /\ decode(sub_token_ids(ids, f, offsets.output)) \in Texts
      /\ decode(sub_token_ids(ids, f, delta.offsets.output)) =
            decode(sub_token_ids(ids, f, offsets.output)) \o delta.text
      /\ ~Unfinished(decode(sub_token_ids(ids, f, e))) =>
            decode(sub_token_ids(ids, f, delta.offsets.output)) = decode(sub_token_ids(ids, f, e))
  BY <1>2, <1>3, DeltaContinues, Zenon
<1>5. Delta(c) = delta
  BY <1>0, <1>1, <1>3 DEF Delta, OffsetsOf
<1>6. \A end : TextUpto(c, end) = decode(sub_token_ids(ids, f, end))
  BY <1>1 DEF TextUpto
<1> QED
  BY <1>0, <1>1, <1>2, <1>4, <1>5, <1>6

LEMMA StreamText ==
  ASSUME HandlersInv, MessagesSoFar, TextInv, NEW c \in Calls, OnStream(c)
  PROVE  TextInv'
<1>1. PICK delta : delta = Delta(c)
  OBVIOUS
<1>2. /\ status[c] = "accepted" /\ request[c].stream /\ told[Stream(c)] = "NONE"
      /\ sent' = [sent EXCEPT ![Stream(c)] = delta.offsets.output]
      /\ prefix_offset' = [prefix_offset EXCEPT ![c] = delta.offsets.prefix]
      /\ responses' = [responses EXCEPT ![c] = Append(@, Chunk(c, delta.text, finish_reason[c]))]
      /\ told' = [told EXCEPT ![Stream(c)] = finish_reason[c]]
      /\ UNCHANGED <<args, request, num_tokens, finish_reason, answers>>
  BY <1>1 DEF OnStream
<1>3. /\ DOMAIN sent = {Stream(b) : b \in Calls} /\ DOMAIN prefix_offset = Calls
      /\ DOMAIN sent' = {Stream(b) : b \in Calls} /\ DOMAIN prefix_offset' = Calls
  BY <1>2 DEF TextInv
<1>4. ASSUME NEW d \in Calls, d # c, request'[d] # NotConverted PROVE OffsetsInv(d)' /\ ReadInv(d)'
  <2>1. responses'[d] = responses[d]
    BY <1>2, <1>4 DEF HandlersInv, HandlersType
  <2>2. told'[Stream(d)] = told[Stream(d)]
    BY <1>2, <1>4, StreamsDiffer DEF HandlersInv, HandlersType
  <2>3. sent'[Stream(d)] = sent[Stream(d)]
    BY <1>2, <1>3, <1>4, StreamsDiffer
  <2>4. prefix_offset'[d] = prefix_offset[d]
    BY <1>2, <1>3, <1>4
  <2>5. OffsetsInv(d) /\ ReadInv(d)
    BY <1>2, <1>4 DEF TextInv
  <2> QED
    BY <1>2, <2>1, <2>2, <2>3, <2>4, <2>5, KeepsText
<1>5. /\ request[c] # NotConverted /\ answers[c] = <<>> /\ OffsetsInv(c) /\ ReadInv(c)
  BY <1>2, AcceptedFacts
<1>6. /\ sent'[Stream(c)] = delta.offsets.output /\ prefix_offset'[c] = delta.offsets.prefix
      /\ told'[Stream(c)] = finish_reason[c]
  BY <1>2, <1>3, StreamsDiffer DEF HandlersInv, HandlersType
<1>7. /\ OffsetsOK(args[c].tokens, request[c].first_output, delta.offsets)
      /\ delta.offsets.output <= num_tokens[c]
      /\ delta.text \in Texts
      /\ TextUpto(c, delta.offsets.output) = TextUpto(c, sent[Stream(c)]) \o delta.text
      /\ ~Unfinished(TextUpto(c, num_tokens[c])) =>
            TextUpto(c, delta.offsets.output) = TextUpto(c, num_tokens[c])
  BY <1>1, <1>2, DeltaFacts
<1>8. OffsetsInv(c)'
  <2>1. OffsetsOK(args[c].tokens, request[c].first_output, OffsetsOf(c)')
    <3>1. OffsetsOf(c)'.prefix = delta.offsets.prefix /\ OffsetsOf(c)'.output = delta.offsets.output
      BY <1>6 DEF OffsetsOf, Stream
    <3> QED
      BY <1>7, <3>1 DEF OffsetsOK
  <2> QED
    BY <1>2, <1>5, <1>6, <1>7, <2>1 DEF OffsetsInv, Stream
<1>9. PICK m : m = Chunk(c, delta.text, finish_reason[c])
  OBVIOUS
<1>10. m.text = delta.text /\ m.text \in Texts
  BY <1>7, <1>9 DEF Chunk
<1>11. responses'[c] = Append(responses[c], m)
  BY <1>2, <1>9 DEF HandlersInv, HandlersType
<1>12. ReadBy(c)' = ReadBy(c) \o delta.text /\ Messages(responses'[c])
  <2>1. Messages(responses[c])
    BY <1>5 DEF ReadInv
  <2> QED
    BY <1>10, <1>11, <2>1, ReadingOn DEF ReadBy
<1>13. ReadBy(c)' = TextUpto(c, delta.offsets.output)
  BY <1>2, <1>5, <1>7, <1>12 DEF ReadInv
<1>14. /\ TextUpto(c, sent[Stream(c)])' = TextUpto(c, delta.offsets.output)
       /\ TextUpto(c, num_tokens[c])' = TextUpto(c, num_tokens[c])
  BY <1>2, <1>6 DEF TextUpto, Stream
<1>15. ReadInv(c)'
  <2>1. answers'[c] # <<"OK">>
    BY <1>2, <1>5
  <2>2. told[Stream(c)]' = finish_reason[c]
    BY <1>6 DEF Stream
  <2> QED
    BY <1>2, <1>7, <1>12, <1>13, <1>14, <2>1, <2>2 DEF ReadInv
<1> QED
  BY <1>3, <1>4, <1>8, <1>15 DEF TextInv, Stream

LEMMA FinishText ==
  ASSUME HandlersInv, MessagesSoFar, TextInv, NEW c \in Calls, OnFinish(c)
  PROVE  TextInv'
<1>1. PICK m : m.text = Delta(c).text /\
        responses' = IF request[c].stream THEN responses ELSE [responses EXCEPT ![c] = Append(@, m)]
  <2>1. PICK m : m = [role |-> args[c].kind = "chat", text |-> Delta(c).text, reason |-> finish_reason[c]]
    OBVIOUS
  <2>2. responses' = IF request[c].stream THEN responses ELSE [responses EXCEPT ![c] = Append(@, m)]
    BY <2>1 DEF OnFinish
  <2>3. m.text = Delta(c).text
    BY <2>1
  <2> QED
    BY <2>2, <2>3
<1>2. /\ status[c] = "accepted" /\ (request[c].stream => told[Stream(c)] = finish_reason[c])
      /\ UNCHANGED <<args, request, num_tokens, finish_reason, prefix_offset, told, sent>>
      /\ answers' = [answers EXCEPT ![c] = Append(@, "OK")]
  BY DEF OnFinish, Service!Finish, seqVars
<1>3. ASSUME NEW d \in Calls, d # c, request'[d] # NotConverted PROVE OffsetsInv(d)' /\ ReadInv(d)'
  <2>1. responses'[d] = responses[d] /\ answers'[d] = answers[d]
    BY <1>1, <1>2, <1>3 DEF HandlersInv, HandlersType
  <2>2. OffsetsInv(d) /\ ReadInv(d)
    BY <1>2, <1>3 DEF TextInv
  <2> QED
    BY <1>2, <2>1, <2>2, KeepsText
<1>4. /\ OffsetsInv(c) /\ ReadInv(c) /\ request[c] # NotConverted /\ request[c].stream \in BOOLEAN
      /\ args[c].tokens \in Seq(Tokens)
  BY <1>2, AcceptedFacts
<1>5. OffsetsInv(c)'
  BY <1>2, <1>4 DEF OffsetsInv, OffsetsOf, Stream
<1>6. /\ TextUpto(c, sent[Stream(c)])' = TextUpto(c, sent[Stream(c)])
      /\ TextUpto(c, num_tokens[c])' = TextUpto(c, num_tokens[c])
  BY <1>2 DEF TextUpto, Stream
<1>7. CASE request[c].stream
  <2>1. responses' = responses
    BY <1>1, <1>7
  <2>2. ReadBy(c)' = ReadBy(c)
    BY <2>1 DEF ReadBy
  <2>3. ReadInv(c)'
    BY <1>2, <1>4, <1>6, <1>7, <2>1, <2>2 DEF ReadInv, Stream
  <2> QED
    BY <1>2, <1>3, <1>5, <2>3 DEF TextInv
<1>8. CASE ~request[c].stream
  <2>1. responses[c] = <<>>
    BY <1>2, <1>8 DEF MessagesSoFar, MessagesOf
  <2>2. responses'[c] = Append(<<>>, m)
    BY <1>1, <1>8, <2>1 DEF HandlersInv, HandlersType
  <2>3. Delta(c).text \in Texts
        /\ (~Unfinished(TextUpto(c, num_tokens[c])) =>
               TextUpto(c, num_tokens[c]) = TextUpto(c, sent[Stream(c)]) \o Delta(c).text)
    BY <1>2, DeltaFacts
  <2>4. TextUpto(c, sent[Stream(c)]) = <<>>
    <3>1. sent[Stream(c)] = request[c].first_output /\ request[c].first_output \in Nat
          /\ request[c].first_output <= Len(args[c].tokens)
      <4>1. num_tokens[c] \in Nat /\ Len(args[c].tokens) \in Nat
        BY <1>2, <1>4, AcceptedFacts
      <4> QED
        BY <1>4, <1>8, <4>1 DEF OffsetsInv
    <3> QED
      BY <1>4, <3>1, NothingDecoded DEF TextUpto
  <2>5. PICK t \in Texts : t = Delta(c).text /\ <<>> \o t = t
    BY <2>3, ConcatFacts
  <2>6. ReadBy(c)' = t /\ Messages(responses'[c])
    <3>1. Messages(<<>>)
      BY NothingRead
    <3>2. m.text \in Texts /\ m.text = t
      BY <1>1, <2>5
    <3>3. Messages(Append(<<>>, m)) /\ Joined(TextsIn(Append(<<>>, m))) = Joined(TextsIn(<<>>)) \o m.text
      BY <3>1, <3>2, ReadingOn
    <3>4. Joined(TextsIn(<<>>)) = <<>>
      BY NothingRead
    <3> QED
      BY <2>2, <2>5, <3>2, <3>3, <3>4 DEF ReadBy
  <2>7. ReadInv(c)'
    BY <1>2, <1>6, <1>8, <2>3, <2>4, <2>5, <2>6 DEF ReadInv, Stream
  <2> QED
    BY <1>2, <1>3, <1>5, <2>7 DEF TextInv
<1> QED
  BY <1>4, <1>7, <1>8

\* A request is made.
LEMMA ConvertText ==
  ASSUME HandlersInv, MessagesSoFar, TextInv, NEW k \in Kinds, Convert(k)
  PROVE  TextInv'
<1>1. PICK c \in NextTask(k) :
        /\ request[c] = NotConverted
        /\ request' = [request EXCEPT ![c] = MakeRequest(args[c])]
        /\ num_tokens' = [num_tokens EXCEPT ![c] = args[c].prompt_tokens]
        /\ sent' = [sent EXCEPT ![Stream(c)] = request'[c].first_output]
        /\ prefix_offset' = [prefix_offset EXCEPT ![c] = request'[c].first_output]
        /\ UNCHANGED <<args, told, finish_reason, responses, answers>>
  BY DEF Convert, callVars
<1>2. /\ c \in Calls /\ args[c] \in Args /\ status[c] = "new" /\ answers[c] = <<>>
      /\ responses[c] = <<>> /\ told[Stream(c)] = "NONE"
  <2>1. c \in Calls /\ 1 \in DOMAIN converter[k] /\ c = converter[k][1]
    BY NextTaskIsHead DEF HandlersInv
  <2>2. args[c] \in Args /\ status[c] = "new" /\ answers[c] = <<>>
    BY <2>1, WaitingFacts DEF HandlersInv, CallsInv, WaitingCalls
  <2> QED
    BY <2>1, <2>2 DEF MessagesSoFar, MessagesOf
<1>3. /\ DOMAIN sent = {Stream(b) : b \in Calls} /\ DOMAIN prefix_offset = Calls
      /\ DOMAIN sent' = {Stream(b) : b \in Calls} /\ DOMAIN prefix_offset' = Calls
  BY <1>1 DEF TextInv
<1>4. ASSUME NEW d \in Calls, d # c, request'[d] # NotConverted PROVE OffsetsInv(d)' /\ ReadInv(d)'
  <2>1. request'[d] = request[d] /\ num_tokens'[d] = num_tokens[d]
    BY <1>1, <1>4 DEF HandlersInv, HandlersType
  <2>2. sent'[Stream(d)] = sent[Stream(d)]
    BY <1>1, <1>2, <1>3, <1>4, StreamsDiffer
  <2>3. prefix_offset'[d] = prefix_offset[d]
    BY <1>1, <1>3, <1>4
  <2>4. OffsetsInv(d) /\ ReadInv(d)
    BY <1>4, <2>1 DEF TextInv
  <2> QED
    BY <1>1, <2>1, <2>2, <2>3, <2>4, KeepsText
<1>5. PICK a \in Args, f \in Nat, p \in Nat, ids \in Seq(Tokens) :
        /\ a = args[c] /\ p = a.prompt_tokens /\ ids = a.tokens /\ f = MakeRequest(a).first_output
        /\ f <= p /\ p <= Len(ids) /\ MakeRequest(a).stream = a.stream
  BY <1>2, TokensFacts
<1>6. /\ request'[c] = MakeRequest(a) /\ request'[c].first_output = f /\ num_tokens'[c] = p
      /\ sent'[Stream(c)] = f /\ prefix_offset'[c] = f /\ args'[c] = a
  BY <1>1, <1>2, <1>3, <1>5, StreamsDiffer DEF HandlersInv, HandlersType
<1>7. f <= Len(ids) /\ decode(sub_token_ids(ids, f, f)) = <<>> /\ OffsetsOK(ids, f, [prefix |-> f, output |-> f])
  <2>1. f <= Len(ids)
    BY <1>5
  <2> QED
    BY <2>1, NothingDecoded
<1>8. OffsetsInv(c)'
  <2>1. OffsetsOf(c)' = [prefix |-> f, output |-> f]
    BY <1>6 DEF OffsetsOf, Stream
  <2> QED
    BY <1>5, <1>6, <1>7, <2>1 DEF OffsetsInv, Stream
<1>9. ReadInv(c)'
  <2>1. responses'[c] = <<>> /\ answers'[c] = <<>> /\ told[Stream(c)]' = "NONE" /\ <<>> # <<"OK">>
    BY <1>1, <1>2 DEF Stream
  <2>2. Messages(responses'[c]) /\ ReadBy(c)' = <<>>
    BY <2>1, NothingRead DEF ReadBy
  <2>3. TextUpto(c, sent[Stream(c)])' = <<>>
    BY <1>5, <1>6, <1>7 DEF TextUpto, Stream
  <2> QED
    BY <2>1, <2>2, <2>3 DEF ReadInv
<1> QED
  BY <1>3, <1>4, <1>8, <1>9 DEF TextInv, Stream

\* A sequence grows before its client is told that it stopped.
LEMMA GenerateText ==
  ASSUME HandlersInv, TextInv, NEW c \in Calls, Generate(c)
  PROVE  TextInv'
<1>1. /\ status[c] = "accepted" /\ finish_reason[c] = "NONE" /\ num_tokens[c] < Len(args[c].tokens)
      /\ num_tokens' = [num_tokens EXCEPT ![c] = @ + 1]
      /\ UNCHANGED <<args, request, sent, told, prefix_offset, responses, answers>>
      /\ \A d \in Calls : d # c => finish_reason'[d] = finish_reason[d]
  BY DEF Generate, serviceVars, callVars, HandlersInv, HandlersType
<1>2. ASSUME NEW d \in Calls, d # c, request'[d] # NotConverted PROVE OffsetsInv(d)' /\ ReadInv(d)'
  <2>1. num_tokens'[d] = num_tokens[d]
    BY <1>1, <1>2 DEF HandlersInv, HandlersType
  <2>2. OffsetsInv(d) /\ ReadInv(d)
    BY <1>1, <1>2 DEF TextInv
  <2> QED
    BY <1>1, <1>2, <2>1, <2>2, KeepsText
<1>3. /\ answers[c] = <<>> /\ OffsetsInv(c) /\ ReadInv(c) /\ args[c] \in Args /\ args[c].tokens \in Seq(Tokens)
      /\ num_tokens[c] \in Nat
  BY <1>1, AcceptedFacts
<1>4. PICK n \in Nat, L \in Nat, p \in Nat, f \in Nat, o \in Nat :
        /\ n = num_tokens[c] /\ L = Len(args[c].tokens) /\ p = args[c].prompt_tokens
        /\ f = request[c].first_output /\ o = sent[Stream(c)]
        /\ f <= n /\ p <= n /\ o <= n /\ n < L
  <2>1. args[c].prompt_tokens \in Nat /\ Len(args[c].tokens) \in Nat
    BY <1>3, TokensFacts
  <2>2. sent[Stream(c)] \in Nat
    BY <1>3 DEF OffsetsInv, OffsetsOK, OffsetsOf
  <2> QED
    BY <1>1, <1>3, <2>1, <2>2 DEF OffsetsInv
<1>5. num_tokens'[c] = n + 1
  BY <1>1, <1>4 DEF HandlersInv, HandlersType
<1>6. OffsetsInv(c)'
  <2>1. OffsetsOf(c)' = OffsetsOf(c)
    BY <1>1 DEF OffsetsOf, Stream
  <2>2. f <= n + 1 /\ p <= n + 1 /\ o <= n + 1 /\ n + 1 <= L
    BY <1>4
  <2> QED
    BY <1>1, <1>3, <1>4, <1>5, <2>1, <2>2 DEF OffsetsInv, Stream
<1>7. ReadInv(c)'
  <2>1. answers'[c] # <<"OK">>
    BY <1>1, <1>3
  <2>2. request[c].stream => told[Stream(c)] = "NONE"
    BY <1>1, <1>3 DEF ReadInv
  <2>3. ReadBy(c)' = ReadBy(c) /\ TextUpto(c, sent[Stream(c)])' = TextUpto(c, sent[Stream(c)])
    BY <1>1 DEF ReadBy, TextUpto, Stream
  <2> QED
    BY <1>1, <1>3, <2>1, <2>2, <2>3 DEF ReadInv, Stream
<1> QED
  BY <1>1, <1>2, <1>6, <1>7 DEF TextInv

LEMMA NextText ==
  ASSUME HandlersInv, MessagesSoFar, TextInv, [Next]_vars
  PROVE  TextInv'
<1>1. ASSUME UNCHANGED <<request, sent, told, seqVars, responses>>,
             \A d \in Calls : request[d] # NotConverted =>
                 args'[d] = args[d] /\ (answers'[d] = answers[d] \/ answers'[d] # <<"OK">>)
      PROVE  TextInv'
  <2>1. ASSUME NEW d \in Calls, request'[d] # NotConverted PROVE OffsetsInv(d)' /\ ReadInv(d)'
    <3>1. OffsetsInv(d) /\ ReadInv(d)
      BY <1>1, <2>1 DEF TextInv
    <3> QED
      BY <1>1, <2>1, <3>1, KeepsText DEF seqVars
  <2> QED
    BY <1>1, <2>1 DEF TextInv, seqVars
<1>2. ASSUME NEW c \in Calls, NEW a \in Args, Arrive(c, a) PROVE TextInv'
  <2>1. /\ args[c] = NotConverted /\ args' = [args EXCEPT ![c] = a]
        /\ UNCHANGED <<request, sent, told, seqVars, responses, answers>>
    BY <1>2 DEF Arrive, serviceVars, callVars
  <2>2. request[c] = NotConverted /\ \A d \in Calls : d # c => args'[d] = args[d]
    BY <2>1 DEF HandlersInv, CallsInv, RequestMade, HandlersType
  <2> QED
    BY <1>1, <2>1, <2>2
<1>3. ASSUME NEW k \in Kinds, Converter(k) PROVE TextInv'
  <2>1. CASE Reject(k) \/ Submit(k)
    <3>1. PICK c \in NextTask(k) :
            /\ UNCHANGED <<args, request, sent, told, seqVars, responses>>
            /\ \A d \in Calls : d # c => answers'[d] = answers[d]
            /\ answers'[c] # <<"OK">>
      BY <2>1, HandlersAnswer
    <3> QED
      BY <1>1, <3>1
  <2> QED
    BY <1>3, <2>1, ConvertText DEF Converter
<1>4. CASE Tick \/ Drain \/ UNCHANGED vars
  <2>1. UNCHANGED <<args, request, sent, told, seqVars, responses, answers>>
    BY <1>4 DEF Tick, Drain, vars, serviceVars, callVars
  <2> QED
    BY <1>1, <2>1
<1> QED
  BY <1>2, <1>3, <1>4, GenerateText, StreamText, FinishText DEF Next, SchedulerOn

\* TextDelivered: what a client reads is the text of its tokens, each character once
\* and whole, however decode_delta_text cuts it into deltas; at the end of the call the
\* client has all of it unless it ends in the middle of a character.
THEOREM TextIsDelivered == Spec => []TextDelivered
<1>1. Init => TextInv
  BY DEF Init, TextInv
<1>2. HandlersInv /\ MessagesSoFar /\ TextInv /\ [Next]_vars => TextInv'
  BY NextText
<1>3. TextInv => TextDelivered
  <2> SUFFICES ASSUME TextInv, NEW c \in Calls, request[c] # NotConverted
               PROVE  /\ request[c].stream => ReadBy(c) = TextUpto(c, sent[Stream(c)])
                      /\ answers[c] = <<"OK">> /\ finish_reason[c] # "NONE"
                           /\ ~Unfinished(TextUpto(c, num_tokens[c])) =>
                         ReadBy(c) = TextUpto(c, num_tokens[c])
    BY DEF TextDelivered, ReadBy, TextsIn, TextUpto
  <2> QED
    BY DEF TextInv, ReadInv
<1> QED
  BY <1>1, <1>2, <1>3, HandlersHold, MessagesHold, PTL DEF Spec

-----------------------------------------------------------------------------
(* The prompt of a chat *)

\* What the recursive function in DialogOf is, for the first m messages.
Talks(F, messages, m) ==
    F = [n \in 0..m |-> IF n = 0 THEN NewDialog ELSE add_message(F[n - 1], messages[n])]

LEMMA DialogsExist ==
  ASSUME NEW p, NEW m \in Nat
  PROVE  \E F : Talks(F, p, m)
<1> DEFINE G == {n \in 0..m : \E F : Talks(F, p, n)}
<1>1. 0 \in G
  <2> DEFINE F == [n \in 0..0 |-> NewDialog]
  <2>1. F = [n \in 0..0 |-> IF n = 0 THEN NewDialog ELSE add_message(F[n - 1], p[n])]
    OBVIOUS
  <2> HIDE DEF F
  <2>2. Talks(F, p, 0)
    BY <2>1 DEF Talks
  <2>3. 0 \in 0..m
    OBVIOUS
  <2> QED
    BY <2>2, <2>3
<1>2. ASSUME NEW n \in 0..m - 1, n \in G PROVE n + 1 \in G
  <2>1. PICK F : Talks(F, p, n)
    BY <1>2
  <2> DEFINE H == [k \in 0..n + 1 |-> IF k <= n THEN F[k] ELSE add_message(F[n], p[n + 1])]
  <2>2. ASSUME NEW k \in 0..n + 1
        PROVE  H[k] = IF k = 0 THEN NewDialog ELSE add_message(H[k - 1], p[k])
    <3>1. CASE k = 0
      BY <2>1, <3>1 DEF Talks
    <3>2. CASE k \in 1..n
      <4>1. k \in 0..n /\ k - 1 \in 0..n /\ k - 1 \in 0..n + 1 /\ k <= n /\ k - 1 <= n /\ k # 0
        BY <3>2
      <4>2. F[k] = add_message(F[k - 1], p[k])
        BY <2>1, <4>1 DEF Talks
      <4> QED
        BY <4>1, <4>2
    <3>3. CASE k = n + 1
      <4>1. ~(n + 1 <= n) /\ k - 1 = n /\ n <= n /\ n \in 0..n + 1 /\ k # 0
        BY <3>3
      <4> QED
        BY <3>3, <4>1
    <3> QED
      BY <3>1, <3>2, <3>3
  <2>3. H = [k \in 0..n + 1 |-> H[k]]
    OBVIOUS
  <2> HIDE DEF H
  <2>4. H = [k \in 0..n + 1 |-> IF k = 0 THEN NewDialog ELSE add_message(H[k - 1], p[k])]
    BY <2>2, <2>3
  <2>5. Talks(H, p, n + 1)
    BY <2>4 DEF Talks
  <2>6. n + 1 \in 0..m
    OBVIOUS
  <2> QED
    BY <2>5, <2>6
<1> HIDE DEF G
<1>3. m \in G
  BY <1>1, <1>2, LengthInduction
<1> QED
  BY <1>3 DEF G

LEMMA DialogOfTalks ==
  ASSUME NEW p, Len(p) \in Nat
  PROVE  \E F : Talks(F, p, Len(p)) /\ DialogOf(p) = F[Len(p)]
<1> DEFINE F == CHOOSE dialog : dialog = [n \in 0..Len(p) |->
                  IF n = 0 THEN NewDialog ELSE add_message(dialog[n - 1], p[n])]
<1>1. F = [n \in 0..Len(p) |-> IF n = 0 THEN NewDialog ELSE add_message(F[n - 1], p[n])]
  BY DialogsExist DEF Talks
<1>2. DialogOf(p) = F[Len(p)]
  BY DEF DialogOf
<1> QED
  BY <1>1, <1>2 DEF Talks

\* The turns in which something is said, for the messages of a dialog, and one turn
\* more.
TurnOf(text, i) == [role |-> IF i % 2 = 1 THEN "user" ELSE "assistant", text |-> text]
SaidIn(text, i) == IF text = NoText THEN <<>> ELSE <<TurnOf(text, i)>>
SaidBy(texts) == Joined([i \in 1..Len(texts) |-> SaidIn(texts[i], i)])

LEMMA ToldOfPrompt ==
  ASSUME NEW Y, NEW d, d.messages \in Seq(Y)
  PROVE  /\ Told(get_prompt(d).turns) = SaidBy(d.messages)
         /\ get_prompt(d).turns = [i \in 1..Len(d.messages) |-> TurnOf(d.messages[i], i)]
<1>1. PICK texts \in Seq(Y) : texts = d.messages
  OBVIOUS
<1>2. get_prompt(d).turns = [i \in 1..Len(texts) |-> TurnOf(texts[i], i)]
  BY <1>1 DEF get_prompt, TurnOf
<1> DEFINE turns == [i \in 1..Len(texts) |-> TurnOf(texts[i], i)]
<1>3. [i \in DOMAIN turns |-> IF turns[i].text = NoText THEN <<>> ELSE <<turns[i]>>]
        = [i \in 1..Len(texts) |-> SaidIn(texts[i], i)]
  <2>1. DOMAIN turns = 1..Len(texts)
    OBVIOUS
  <2>2. ASSUME NEW i \in 1..Len(texts)
        PROVE  (IF turns[i].text = NoText THEN <<>> ELSE <<turns[i]>>) = SaidIn(texts[i], i)
    <3>1. turns[i] = TurnOf(texts[i], i)
      OBVIOUS
    <3>2. TurnOf(texts[i], i).text = texts[i]
      BY DEF TurnOf
    <3> QED
      BY <3>1, <3>2 DEF SaidIn
  <2> HIDE DEF turns
  <2> QED
    BY <2>1, <2>2
<1>4. Told(turns) = SaidBy(texts)
  BY <1>3 DEF Told, SaidBy
<1> QED
  BY <1>1, <1>2, <1>4

LEMMA OneMoreTurn ==
  ASSUME NEW Y, NEW texts \in Seq(Y), NEW x \in Y
  PROVE  SaidBy(Append(texts, x)) = SaidBy(texts) \o SaidIn(x, Len(texts) + 1)
<1>0. /\ Len(texts) \in Nat /\ Append(texts, x) \in Seq(Y) /\ Len(Append(texts, x)) = Len(texts) + 1
      /\ Append(texts, x)[Len(texts) + 1] = x /\ \A i \in 1..Len(texts) : Append(texts, x)[i] = texts[i]
  OBVIOUS
<1>1. PICK n \in Nat, more \in Seq(Y) :
        /\ n = Len(texts) /\ more = Append(texts, x) /\ Len(more) = n + 1
        /\ more[n + 1] = x /\ \A i \in 1..n : more[i] = texts[i]
  BY <1>0
<1> DEFINE p == [i \in 1..n + 1 |-> SaidIn(more[i], i)]
           q == [i \in 1..n |-> SaidIn(texts[i], i)]
<1>2. Len(p) = n + 1 /\ Len(q) = n
  OBVIOUS
<1>3. \A i \in 1..n : p[i] = q[i]
  <2>1. \A i \in 1..n : i \in 1..n + 1
    OBVIOUS
  <2> QED
    BY <1>1, <2>1
<1>4. p[n + 1] = SaidIn(x, n + 1)
  <2>1. n + 1 \in 1..n + 1
    OBVIOUS
  <2> QED
    BY <1>1, <2>1
<1>5. SaidBy(more) = Joined(p) /\ SaidBy(texts) = Joined(q)
  BY <1>1 DEF SaidBy
<1> HIDE DEF p, q
<1>6. Joined(p) = Joined(q) \o p[n + 1]
  <2>1. SameUpto(p, q, n)
    BY <1>3 DEF SameUpto
  <2> QED
    BY <1>2, <2>1, JoinedStep
<1> QED
  BY <1>1, <1>4, <1>5, <1>6

\* A dialog d to which messages with texts in X were added, of which s are not the
\* system's, when the user spoke first.
Attributed(d, s, X) ==
    /\ d \in [last : Roles, messages : Seq(X \cup {NoText}), system : X \cup {NoText}]
    /\ s \in Seq([role : {"user", "assistant"}, text : X])
    /\ SaidBy(d.messages) = s
    /\ d.last = "system" => d.messages = <<>>
    /\ d.last # "system" =>
         /\ d.messages # <<>> /\ (Len(d.messages) % 2 = 1 <=> d.last = "user")
         /\ s # <<>> /\ s[Len(s)] = [role |-> d.last, text |-> d.messages[Len(d.messages)]]

LEMMA AddAttributed ==
  ASSUME NEW X, NoText \notin X, NEW d, NEW s, Attributed(d, s, X),
         NEW m \in [role : Roles, text : X], d.last = "system" => m.role # "assistant"
  PROVE  /\ Attributed(add_message(d, m), s \o (IF m.role = "system" THEN <<>> ELSE <<m>>), X)
         /\ add_message(d, m).last = "system" <=> d.last = "system" /\ m.role = "system"
<1> DEFINE Y == X \cup {NoText}
           E == [role : {"user", "assistant"}, text : X]
<1>1. /\ d \in [last : Roles, messages : Seq(Y), system : Y] /\ s \in Seq(E) /\ SaidBy(d.messages) = s
      /\ m.role \in Roles /\ m.text \in X /\ m.text \in Y /\ m.text # NoText /\ NoText \in Y
  BY DEF Attributed
<1>2. CASE m.role = "system"
  <2>1. add_message(d, m) = [d EXCEPT !.system = m.text]
    BY <1>2 DEF add_message
  <2>2. PICK e \in [last : Roles, messages : Seq(Y), system : Y] :
          e = add_message(d, m) /\ e.last = d.last /\ e.messages = d.messages
    BY <1>1, <2>1
  <2>3. s \o <<>> = s
    BY <1>1
  <2>4. Attributed(e, s, X)
    BY <1>1, <2>2 DEF Attributed
  <2> QED
    BY <1>2, <2>2, <2>3, <2>4
<1>3. CASE m.role # "system"
  <2>1. PICK T \in Seq(Y), L \in Nat : T = d.messages /\ L = Len(T) /\ SaidBy(T) = s
    BY <1>1
  <2>2. PICK N \in Seq(Y), k \in Nat :
          /\ add_message(d, m) = [d EXCEPT !.last = m.role, !.messages = N]
          /\ Len(N) = k /\ k > 0 /\ N[k] = m.text /\ (k % 2 = 1 <=> m.role = "user")
          /\ SaidBy(N) = s \o SaidIn(m.text, k)
    <3>1. CASE d.last = m.role
      <4> DEFINE T1 == Append(T, NoText)
                 T2 == Append(T1, m.text)
      <4>1. T1 \in Seq(Y) /\ Len(T1) = L + 1
        BY <1>1, <2>1
      <4> HIDE DEF T1
      <4>2. T2 \in Seq(Y) /\ Len(T2) = L + 2 /\ T2[L + 2] = m.text
        BY <1>1, <4>1
      <4>3. SaidBy(T1) = s \o SaidIn(NoText, L + 1)
        BY <1>1, <2>1, OneMoreTurn DEF T1
      <4>4. s \o SaidIn(NoText, L + 1) = s
        BY <1>1 DEF SaidIn
      <4>5. SaidBy(T2) = s \o SaidIn(m.text, L + 2)
        <5>1. (L + 1) + 1 = L + 2
          OBVIOUS
        <5>2. SaidBy(T2) = SaidBy(T1) \o SaidIn(m.text, Len(T1) + 1)
          BY <1>1, <4>1, OneMoreTurn
        <5> QED
          BY <4>1, <4>3, <4>4, <5>1, <5>2
      <4>6. T \o <<NoText, m.text>> = T2
        BY <1>1, <2>1 DEF T1
      <4>7. add_message(d, m) = [d EXCEPT !.last = m.role, !.messages = T2]
        BY <1>1, <1>3, <2>1, <3>1, <4>6 DEF add_message
      <4>8. L + 2 \in Nat /\ L + 2 > 0 /\ ((L + 2) % 2 = 1 <=> m.role = "user")
        <5>1. L % 2 = 1 <=> d.last = "user"
          BY <1>3, <2>1, <3>1 DEF Attributed
        <5>2. (L + 2) % 2 = L % 2
          OBVIOUS
        <5> QED
          BY <3>1, <5>1, <5>2
      <4> HIDE DEF T2
      <4> QED
        BY <4>2, <4>5, <4>7, <4>8
    <3>2. CASE d.last # m.role
      <4> DEFINE T1 == Append(T, m.text)
      <4>1. T1 \in Seq(Y) /\ Len(T1) = L + 1 /\ T1[L + 1] = m.text
        BY <1>1, <2>1
      <4>2. SaidBy(T1) = s \o SaidIn(m.text, L + 1)
        BY <1>1, <2>1, OneMoreTurn
      <4>3. T \o <<m.text>> = T1
        BY <1>1, <2>1
      <4>4. add_message(d, m) = [d EXCEPT !.last = m.role, !.messages = T1]
        BY <1>1, <1>3, <2>1, <3>2, <4>3 DEF add_message
      <4>5. L + 1 \in Nat /\ L + 1 > 0 /\ ((L + 1) % 2 = 1 <=> m.role = "user")
        <5>1. L % 2 = 1 <=> ~((L + 1) % 2 = 1)
          OBVIOUS
        <5>2. CASE d.last = "system"
          <6>1. L = 0 /\ m.role = "user" /\ 1 % 2 = 1 /\ 0 + 1 = 1
            BY <1>1, <1>3, <2>1, <5>2 DEF Attributed, Roles
          <6> QED
            BY <6>1
        <5>3. CASE d.last # "system"
          <6>1. L % 2 = 1 <=> d.last = "user"
            BY <2>1, <5>3 DEF Attributed
          <6>2. d.last = "user" <=> ~(m.role = "user")
            BY <1>1, <1>3, <3>2, <5>3 DEF Roles
          <6> QED
            BY <5>1, <6>1, <6>2
        <5> QED
          BY <5>2, <5>3
      <4> HIDE DEF T1
      <4> QED
        BY <4>1, <4>2, <4>4, <4>5
    <3> QED
      BY <3>1, <3>2
  <2>3. PICK e \in [last : Roles, messages : Seq(Y), system : Y] :
          e = add_message(d, m) /\ e.last = m.role /\ e.messages = N
    BY <1>1, <2>2
  <2>4. m.role \in {"user", "assistant"} /\ m \in E /\ m = [role |-> m.role, text |-> m.text]
    BY <1>1, <1>3 DEF Roles
  <2>5. SaidIn(m.text, k) = <<m>>
    <3>1. TurnOf(m.text, k) = [role |-> m.role, text |-> m.text]
      BY <2>2, <2>4 DEF TurnOf
    <3> QED
      BY <1>1, <2>4, <3>1 DEF SaidIn
  <2>6. PICK u \in Seq(E) : u = s \o <<m>> /\ u # <<>> /\ u[Len(u)] = m
    <3>1. s \o <<m>> \in Seq(E) /\ Len(s \o <<m>>) = Len(s) + 1 /\ (s \o <<m>>)[Len(s) + 1] = m
          /\ Len(s) \in Nat
      BY <1>1, <2>4
    <3>2. s \o <<m>> # <<>>
      BY <3>1
    <3> QED
      BY <3>1, <3>2
  <2>7. Attributed(e, u, X)
    <3>1. SaidBy(e.messages) = u
      BY <2>2, <2>3, <2>5, <2>6
    <3>2. e.messages # <<>> /\ e.messages[Len(e.messages)] = m.text
      BY <2>2, <2>3
    <3> QED
      BY <1>3, <2>2, <2>3, <2>4, <2>6, <3>1, <3>2 DEF Attributed
  <2> QED
    BY <1>3, <2>3, <2>6, <2>7
<1> QED
  BY <1>2, <1>3

\* A chat that the user began, and that has a prompt.
LEMMA ChatAttributed ==
  ASSUME NEW M \in Seq(Message), \A i \in DOMAIN M : M[i].role \in Roles,
         UserFirst(M), HasPrompt(DialogOf(M))
  PROVE  /\ Told(get_prompt(DialogOf(M)).turns) = Spoken(M)
         /\ Last(Spoken(M)).role = "user"
         /\ Last(get_prompt(DialogOf(M)).turns) = Last(Spoken(M))
<1>1. PICK L \in Nat : L = Len(M) /\ DOMAIN M = 1..L
  OBVIOUS
<1> DEFINE X == {M[i].text : i \in 1..L}
           Y == X \cup {NoText}
           E == [role : {"user", "assistant"}, text : X]
           piece(m) == IF m.role = "system" THEN <<>> ELSE <<m>>
           p == [i \in 1..L |-> piece(M[i])]
<1>2. NoText \notin X /\ \A i \in 1..L : M[i] \in [role : Roles, text : X]
  <2>1. ASSUME NEW i \in 1..L PROVE M[i].text # NoText /\ M[i] = [role |-> M[i].role, text |-> M[i].text]
    <3>1. M[i] \in Message
      BY <1>1
    <3> QED
      BY <3>1 DEF Message
  <2>2. NoText \notin X
    BY <2>1
  <2>3. ASSUME NEW i \in 1..L PROVE M[i] \in [role : Roles, text : X]
    <3>1. M[i].role \in Roles /\ M[i].text \in X
      BY <1>1
    <3>2. [role |-> M[i].role, text |-> M[i].text] \in [role : Roles, text : X]
      BY <3>1
    <3> QED
      BY <2>1, <3>2
  <2> QED
    BY <2>2, <2>3
<1>3. PICK F : Talks(F, M, L) /\ DialogOf(M) = F[L]
  BY <1>1, DialogOfTalks
<1>4. PICK S : Accumulates(S, p, L) /\ Spoken(M) = S[L]
  <2>1. Spoken(M) = Joined(p)
    BY <1>1 DEF Spoken
  <2>2. Len(p) = L
    OBVIOUS
  <2> HIDE DEF p
  <2> QED
    BY <2>1, <2>2, JoinedAccumulates
<1>5. PICK f \in 1..L : M[f].role = "user" /\ \A j \in 1..f - 1 : M[j].role = "system"
  BY <1>1 DEF UserFirst
<1> HIDE DEF X
<1> DEFINE G == {n \in 0..L : /\ Attributed(F[n], S[n], X)
                              /\ F[n].last = "system" <=> \A j \in 1..n : M[j].role = "system"}
<1>6. 0 \in G
  <2>1. F[0] = NewDialog /\ S[0] = <<>>
    BY <1>3, <1>4 DEF Talks, Accumulates
  <2>2. SaidBy(<<>>) = <<>>
    <3>1. Len([i \in 1..Len(<<>>) |-> SaidIn(<<>>[i], i)]) = 0
      OBVIOUS
    <3> QED
      BY <3>1, JoinedEmpty DEF SaidBy
  <2>3. NewDialog \in [last : Roles, messages : Seq(Y), system : Y]
        /\ NewDialog.messages = <<>> /\ NewDialog.last = "system"
    BY DEF NewDialog, Roles
  <2>4. Attributed(NewDialog, <<>>, X)
    BY <2>2, <2>3 DEF Attributed
  <2> QED
    BY <2>1, <2>3, <2>4
<1>7. ASSUME NEW n \in 0..L - 1, n \in G PROVE n + 1 \in G
  <2>1. n + 1 \in 0..L /\ n + 1 \in 1..L /\ n + 1 # 0 /\ (n + 1) - 1 = n /\ n \in Nat
    OBVIOUS
  <2>2. F[n + 1] = add_message(F[n], M[n + 1])
    BY <1>3, <2>1 DEF Talks
  <2>3. S[n + 1] = S[n] \o piece(M[n + 1])
    BY <1>4, <2>1 DEF Accumulates
  <2>4. Attributed(F[n], S[n], X) /\ (F[n].last = "system" <=> \A j \in 1..n : M[j].role = "system")
    BY <1>7
  <2>5. F[n].last = "system" => M[n + 1].role # "assistant"
    <3> SUFFICES ASSUME \A j \in 1..n : M[j].role = "system" PROVE M[n + 1].role # "assistant"
      BY <2>4
    <3>1. f \notin 1..n
      BY <1>5
    <3>2. f = n + 1 \/ n + 1 \in 1..f - 1
      BY <2>1, <3>1
    <3> QED
      BY <1>5, <3>2
  <2>6. PICK d, s, m : d = F[n] /\ s = S[n] /\ m = M[n + 1] /\ m \in [role : Roles, text : X]
    BY <1>2, <2>1
  <2>7. /\ Attributed(add_message(d, m), s \o (IF m.role = "system" THEN <<>> ELSE <<m>>), X)
        /\ add_message(d, m).last = "system" <=> d.last = "system" /\ m.role = "system"
    BY <1>2, <2>4, <2>5, <2>6, AddAttributed
  <2>8. (\A j \in 1..n + 1 : M[j].role = "system") <=> (\A j \in 1..n : M[j].role = "system") /\ M[n + 1].role = "system"
    <3>1. \A j : j \in 1..n + 1 <=> j \in 1..n \/ j = n + 1
      BY <2>1
    <3> QED
      BY <3>1
  <2>9. Attributed(F[n + 1], S[n + 1], X)
    BY <2>2, <2>3, <2>6, <2>7
  <2>10. F[n + 1].last = "system" <=> \A j \in 1..n + 1 : M[j].role = "system"
    BY <2>2, <2>4, <2>6, <2>7, <2>8
  <2> QED
    BY <2>1, <2>9, <2>10
<1> HIDE DEF G
<1>8. L \in G
  <2>1. \A n \in 0..L : n \in G
    BY <1>6, <1>7, LengthInduction, Zenon
  <2> QED
    BY <2>1
<1>9. PICK d, s : /\ d = DialogOf(M) /\ s = Spoken(M) /\ Attributed(d, s, X)
                  /\ d.last = "system" <=> \A j \in 1..L : M[j].role = "system"
  BY <1>3, <1>4, <1>8 DEF G
<1>10. d.last # "system"
  BY <1>5, <1>9
<1>11. d.messages \in Seq(Y) /\ Len(d.messages) % 2 = 1 /\ d.messages # <<>>
  BY <1>9, <1>10 DEF Attributed, HasPrompt
<1>12. d.last = "user" /\ s # <<>> /\ s \in Seq(E)
       /\ s[Len(s)] = [role |-> "user", text |-> d.messages[Len(d.messages)]]
  BY <1>9, <1>10, <1>11 DEF Attributed
<1>13. Told(get_prompt(d).turns) = s
       /\ get_prompt(d).turns = [i \in 1..Len(d.messages) |-> TurnOf(d.messages[i], i)]
  <2>1. SaidBy(d.messages) = s
    BY <1>9 DEF Attributed
  <2> QED
    BY <1>11, <2>1, ToldOfPrompt
<1>14. Last(get_prompt(d).turns) = s[Len(s)]
  <2>1. PICK k \in Nat : k = Len(d.messages) /\ k > 0
    <3>1. Len(d.messages) \in Nat /\ Len(d.messages) > 0
      BY <1>11
    <3> QED
      BY <3>1
  <2> DEFINE turns == [i \in 1..k |-> TurnOf(d.messages[i], i)]
  <2>2. Len(turns) = k
    OBVIOUS
  <2>3. turns[k] = [role |-> "user", text |-> d.messages[k]]
    <3>1. k % 2 = 1
      BY <1>11, <2>1, Zenon
    <3>2. k \in 1..k
      BY <2>1
    <3> QED
      BY <3>1, <3>2 DEF TurnOf
  <2>4. Last(turns) = turns[k]
    BY <2>2 DEF Last
  <2> QED
    BY <1>12, <1>13, <2>1, <2>3, <2>4
<1>15. Last(s) = s[Len(s)] /\ s[Len(s)].role = "user"
  BY <1>12 DEF Last
<1> QED
  BY <1>9, <1>13, <1>14, <1>15

\* The prompt of a request.
PromptMade ==
    \A c \in Calls : request[c] # NotConverted /\ args[c].kind = "chat" =>
        request[c].prompt = get_prompt(DialogOf(args[c].messages))

LEMMA NextPrompt ==
  ASSUME HandlersInv, PromptMade, [Next]_vars
  PROVE  PromptMade'
<1>1. ASSUME UNCHANGED request, \A d \in Calls : request[d] # NotConverted => args'[d] = args[d]
      PROVE  PromptMade'
  BY <1>1 DEF PromptMade
<1>2. ASSUME NEW c \in Calls, NEW a \in Args, Arrive(c, a) PROVE PromptMade'
  <2>1. args[c] = NotConverted /\ args' = [args EXCEPT ![c] = a] /\ UNCHANGED request
    BY <1>2 DEF Arrive
  <2>2. request[c] = NotConverted /\ \A d \in Calls : d # c => args'[d] = args[d]
    BY <2>1 DEF HandlersInv, CallsInv, RequestMade, HandlersType
  <2> QED
    BY <1>1, <2>1, <2>2
<1>3. ASSUME NEW k \in Kinds, Converter(k) PROVE PromptMade'
  <2>1. CASE Reject(k) \/ Submit(k)
    BY <1>1, <2>1 DEF Reject, Submit
  <2>2. CASE Convert(k)
    <3>1. PICK c \in NextTask(k) : request' = [request EXCEPT ![c] = MakeRequest(args[c])] /\ args' = args
      BY <2>2 DEF Convert
    <3>2. (\A d \in Calls : d # c => request'[d] = request[d]) /\ (c \in Calls => request'[c] = MakeRequest(args[c]))
      BY <3>1 DEF HandlersInv, HandlersType
    <3>3. args[c].kind = "chat" => MakeRequest(args[c]).prompt = get_prompt(DialogOf(args[c].messages))
      BY DEF MakeRequest
    <3> QED
      BY <3>1, <3>2, <3>3 DEF PromptMade
  <2> QED
    BY <1>3, <2>1, <2>2 DEF Converter
<1>4. ASSUME NEW c \in Calls, SchedulerOn(c) PROVE PromptMade'
  BY <1>1, <1>4 DEF SchedulerOn, Generate, OnFinish, OnStream
<1>5. CASE Tick \/ Drain \/ UNCHANGED vars
  BY <1>1, <1>5 DEF Tick, Drain, vars
<1> QED
  BY <1>2, <1>3, <1>4, <1>5 DEF Next

\* PromptAttributed: in a chat the user begins, the model reads every message once, in
\* order and under the role of its author (Dialog::add_message, get_prompt), for chats
\* of any length.
THEOREM PromptIsAttributed == Spec => []PromptAttributed
<1>1. Init => PromptMade
  BY DEF Init, PromptMade
<1>2. HandlersInv /\ PromptMade /\ [Next]_vars => PromptMade'
  BY NextPrompt
<1>3. HandlersInv /\ PromptMade => PromptAttributed
  <2> SUFFICES ASSUME HandlersInv, PromptMade, NEW c \in Calls, request[c] # NotConverted,
                      args[c].kind = "chat", UserFirst(args[c].messages)
               PROVE  /\ Told(request[c].prompt.turns) = Spoken(args[c].messages)
                      /\ Last(Spoken(args[c].messages)).role = "user"
                      /\ Last(request[c].prompt.turns) = Last(Spoken(args[c].messages))
    BY DEF PromptAttributed
  <2>1. args[c] \in Args /\ ErrorOf(args[c]) = "OK"
    BY DEF HandlersInv, HandlersType, CallsInv, RequestMade
  <2>2. ~PromptFails(args[c])
    <3>1. ChatError(args[c]) = "OK" /\ ~ConversionFails(args[c])
      BY <2>1 DEF ErrorOf
    <3> QED
      BY <3>1 DEF ConversionFails
  <2>3. PICK M \in Seq(Message) : M = args[c].messages
    BY <2>1, HandlersAssumption DEF ArgsType
  <2>4. (\A i \in DOMAIN M : M[i].role \in Roles) /\ HasPrompt(DialogOf(M)) /\ UserFirst(M)
    BY <2>2, <2>3 DEF PromptFails
  <2>5. request[c].prompt = get_prompt(DialogOf(M))
    BY <2>3 DEF PromptMade
  <2> QED
    BY <2>3, <2>4, <2>5, ChatAttributed
<1> QED
  BY <1>1, <1>2, <1>3, HandlersHold, PTL DEF Spec
=============================================================================
