--------------------------- MODULE RequestHandlers ---------------------------
(***************************************************************************)
(* CompletionHandler and ChatHandler (src/src/server/handlers): each has a *)
(* thread of its own (converter_executor_) that verifies a call's          *)
(* arguments, converts it to a Request with one Sequence, and submits it to *)
(* the scheduler; the request carries the callbacks that answer the call.  *)
(* The scheduler is the abstract one of CompletionService, which Scheduler *)
(* implements, together with the growth of a sequence and its stopping     *)
(* criteria.  Which tokens the model will generate is known in advance.    *)
(***************************************************************************)
EXTENDS Dialog, SequenceText, Functions

CONSTANTS
    Calls,             \* the calls clients make
    Args,              \* the arguments they may have
    MaxContextLen,     \* model_args.max_position_embeddings()
    DefaultMaxTokens,  \* kDefaultMaxTokens
    QueueSize,         \* kRequestQueueSize
    HasDialog,         \* a dialog is registered for the type of the model
    MaxLen,            \* bound: tokens of a sequence
    MaxClock,          \* bound: seconds that pass
    Absent             \* an optional field that is not set

Kinds == {"completion", "chat"}

\* A message of a chat; a client may send a role that does not exist.
Message == [role : Roles \cup {"other"}, text : STRING \ {NoText}]

\* The fields of a call the handlers look at; in_range sums up the checks of
\* temperature, top_p, logprobs and the penalties, prompt_tokens is the number
\* of tokens the prompt, given or made of the messages, is encoded to.  tokens
\* has them and the ones the model will generate.
ArgsType ==
    [kind : Kinds, n : {0, 1, 2, Absent}, best_of : {0, 1, 2, Absent},
     empty : BOOLEAN, in_range : BOOLEAN, messages : Seq(Message), encodes : BOOLEAN,
     prompt_tokens : Nat \ {0}, tokens : Seq(Tokens), max_tokens : Nat \cup {Absent},
     stream : BOOLEAN, echo : BOOLEAN]

ASSUME HandlersAssumption ==
    /\ Args \subseteq ArgsType
    /\ \A a \in Args : a.prompt_tokens <= Len(a.tokens)
    /\ MaxContextLen \in Nat \ {0} /\ DefaultMaxTokens \in Nat \ {0}
    /\ HasDialog \in BOOLEAN
    /\ QueueSize \in Nat /\ MaxLen \in Nat /\ MaxClock \in Nat
    /\ Absent \notin Nat

NotConverted == <<>>

VARIABLES
    clock,          \* absl::Now(), in seconds
    args,           \* args[c]: what call c asks for, once it has arrived
    arrived,        \* history: the calls in the order of their arrival
    converter,      \* converter[k]: the queue of converter_executor_
    request,        \* request[c]: the Request made of c
    request_queue,  \* request_queue_ of the scheduler
    status, sent, told,   \* see CompletionService
    num_tokens,     \* token_ids_.size() of c's sequence
    finish_reason,
    prefix_offset,  \* prefix_offset_; sent is output_offset_
    responses,      \* responses[c]: the messages written to c's client
    answers         \* answers[c]: the codes finish() and finish_with_error() got

serviceVars == <<status, sent, told>>
seqVars == <<num_tokens, finish_reason, prefix_offset>>
callVars == <<responses, answers>>
vars == <<clock, args, arrived, converter, request, request_queue, serviceVars,
          seqVars, callVars>>

Stream(c) == <<c, 1>>

Service == INSTANCE CompletionService WITH
    Requests <- Calls, Streams <- {Stream(c) : c \in Calls}

Init ==
    /\ clock = 0
    /\ args = [c \in Calls |-> NotConverted]
    /\ arrived = <<>>
    /\ converter = [k \in Kinds |-> <<>>]
    /\ request = [c \in Calls |-> NotConverted]
    /\ request_queue = <<>>
    /\ status = [c \in Calls |-> "new"]
    /\ sent = [s \in {Stream(c) : c \in Calls} |-> 0]
    /\ told = [s \in {Stream(c) : c \in Calls} |-> "NONE"]
    /\ num_tokens = [c \in Calls |-> 0]
    /\ finish_reason = [c \in Calls |-> "NONE"]
    /\ prefix_offset = [c \in Calls |-> 0]
    /\ responses = [c \in Calls |-> <<>>]
    /\ answers = [c \in Calls |-> <<>>]

-----------------------------------------------------------------------------
(* Conversion *)

MoreThanOne(field) == field # Absent /\ field > 1

\* verify_request_arguments of each handler: the code of the first check that
\* fails.
CompletionError(a) ==
    IF MoreThanOne(a.n) \/ MoreThanOne(a.best_of) THEN "UNIMPLEMENTED"
    ELSE IF \/ a.empty \/ ~a.in_range
            \/ a.best_of # Absent /\ a.n # Absent /\ a.best_of < a.n
         THEN "INVALID_ARGUMENT" ELSE "OK"

ChatError(a) ==
    IF a.messages = <<>> THEN "INVALID_ARGUMENT"
    ELSE IF MoreThanOne(a.n) THEN "UNIMPLEMENTED"
    ELSE IF ~a.in_range THEN "INVALID_ARGUMENT" ELSE "OK"

\* A chat becomes a prompt: there is a dialog for the model, every role is one
\* of the three, and the dialog has a prompt.
PromptFails(a) ==
    \/ ~HasDialog
    \/ \E i \in DOMAIN a.messages : a.messages[i].role \notin Roles
    \/ ~HasPrompt(DialogOf(a.messages))

\* When grpc_request_to_request returns a null pointer.
ConversionFails(a) ==
    \/ a.kind = "chat" /\ PromptFails(a)
    \/ ~a.encodes
    \/ a.prompt_tokens > MaxContextLen

\* The code of the error the call is finished with, or "OK".
ErrorOf(a) ==
    LET verified == IF a.kind = "chat" THEN ChatError(a) ELSE CompletionError(a) IN
    IF verified = "OK" /\ ConversionFails(a) THEN "UNKNOWN" ELSE verified

\* Faulty variant: what the client asks for is not cut to the context.
MaxTokensUncut(a) == IF a.max_tokens = Absent THEN DefaultMaxTokens ELSE a.max_tokens

\* stopping_criteria.max_tokens
MaxTokens(a) ==
    Min({MaxContextLen - a.prompt_tokens,
         IF a.max_tokens = Absent THEN DefaultMaxTokens ELSE a.max_tokens})

\* request->echo
EchoOf(a) == a.echo /\ a.kind # "chat"

\* The request and its sequence: add_sequence copies echo and reserves space for
\* the tokens, so it comes after both are set.
MakeRequest(a) ==
    [max_tokens |-> MaxTokens(a), stream |-> a.stream, created_time |-> clock,
     first_output |-> IF EchoOf(a) THEN 0 ELSE a.prompt_tokens,
     capacity |-> a.prompt_tokens + MaxTokens(a),
     prompt |-> IF a.kind = "chat" THEN get_prompt(DialogOf(a.messages))
                ELSE get_prompt(NewDialog)]

-----------------------------------------------------------------------------
(* The calls and the converter threads *)

Arrive(c, a) ==
    /\ args[c] = NotConverted
    /\ args' = [args EXCEPT ![c] = a]
    /\ arrived' = Append(arrived, c)
    /\ converter' = [converter EXCEPT ![a.kind] = Append(@, c)]
    /\ UNCHANGED <<clock, request, request_queue, serviceVars, seqVars, callVars>>

\* Faulty variant: the executor has a second thread.
NextTasks(k) == {converter[k][i] : i \in 1..Len(converter[k])}

\* The call a converter thread works on: one thread takes them in order.
NextTask(k) == IF converter[k] = <<>> THEN {} ELSE {Head(converter[k])}

\* The thread goes on to the next task in the queue.
Done(k) == converter' = [converter EXCEPT ![k] = Tail(@)]

\* Faulty variant: the result of verify_request_arguments is ignored.
RejectAndGoOn(k) ==
    \E c \in NextTask(k) :
        /\ request[c] = NotConverted /\ ErrorOf(args[c]) # "OK"
        /\ answers' = [answers EXCEPT ![c] = Append(@, ErrorOf(args[c]))]
        /\ IF ConversionFails(args[c])
           THEN Done(k) /\ UNCHANGED request
           ELSE request' = [request EXCEPT ![c] = MakeRequest(args[c])] /\ UNCHANGED converter
        /\ UNCHANGED <<clock, args, arrived, request_queue, serviceVars, seqVars, responses>>

\* The arguments are wrong or cannot be converted: finish_with_error.
Reject(k) ==
    \E c \in NextTask(k) :
        /\ request[c] = NotConverted /\ ErrorOf(args[c]) # "OK"
        /\ answers' = [answers EXCEPT ![c] = Append(@, ErrorOf(args[c]))]
        /\ Done(k)
        /\ UNCHANGED <<clock, args, arrived, request, request_queue, serviceVars,
                       seqVars, responses>>

\* grpc_request_to_request.
Convert(k) ==
    \E c \in NextTask(k) :
        /\ request[c] = NotConverted /\ ErrorOf(args[c]) = "OK"
        /\ request' = [request EXCEPT ![c] = MakeRequest(args[c])]
        /\ num_tokens' = [num_tokens EXCEPT ![c] = args[c].prompt_tokens]
        /\ sent' = [sent EXCEPT ![Stream(c)] = request'[c].first_output]
        /\ prefix_offset' = [prefix_offset EXCEPT ![c] = request'[c].first_output]
        /\ UNCHANGED <<clock, args, arrived, converter, request_queue, status, told,
                       finish_reason, callVars>>

\* Faulty variant: a refused request ends without an answer to the call.
SubmitSilently(k) ==
    \E c \in NextTask(k) :
        /\ request[c] # NotConverted
        /\ IF Len(request_queue) < QueueSize
           THEN /\ request_queue' = Append(request_queue, c)
                /\ status' = [status EXCEPT ![c] = "accepted"]
           ELSE status' = [status EXCEPT ![c] = "refused"] /\ UNCHANGED request_queue
        /\ Done(k)
        /\ UNCHANGED <<clock, args, arrived, request, sent, told, seqVars, callVars>>

\* scheduler_->schedule(request), and the error when it is refused.
Submit(k) ==
    \E c \in NextTask(k) :
        /\ request[c] # NotConverted
        /\ IF Len(request_queue) < QueueSize
           THEN /\ request_queue' = Append(request_queue, c)
                /\ status' = [status EXCEPT ![c] = "accepted"]
                /\ UNCHANGED answers
           ELSE /\ status' = [status EXCEPT ![c] = "refused"]
                /\ answers' = [answers EXCEPT ![c] = Append(@, "RESOURCE_EXHAUSTED")]
                /\ UNCHANGED request_queue
        /\ Done(k)
        /\ UNCHANGED <<clock, args, arrived, request, sent, told, seqVars, responses>>

Tick ==
    /\ clock < MaxClock
    /\ clock' = clock + 1
    /\ UNCHANGED <<args, arrived, converter, request, request_queue, serviceVars,
                   seqVars, callVars>>

-----------------------------------------------------------------------------
(* The scheduler *)

Drain ==
    /\ request_queue # <<>>
    /\ request_queue' = <<>>
    /\ UNCHANGED <<clock, args, arrived, converter, request, serviceVars, seqVars,
                   callVars>>

\* Sequence::check_stopping_creteria after the n-th token.
StoppingReason(c, n, eos) ==
    IF request[c].max_tokens > 0 /\ n - args[c].prompt_tokens >= request[c].max_tokens
    THEN "LENGTH" ELSE IF eos THEN "STOP" ELSE "NONE"

\* A new token of c's sequence.
Generate(c) ==
    /\ status[c] = "accepted" /\ c \notin ToSet(request_queue)
    /\ finish_reason[c] = "NONE"
    /\ num_tokens[c] < MaxLen /\ num_tokens[c] < Len(args[c].tokens)
    /\ num_tokens' = [num_tokens EXCEPT ![c] = @ + 1]
    /\ finish_reason' = [finish_reason EXCEPT ![c] =
         StoppingReason(c, num_tokens'[c], args[c].tokens[num_tokens'[c]] = "eos")]
    /\ UNCHANGED <<clock, args, arrived, converter, request, request_queue,
                   serviceVars, prefix_offset, callVars>>

\* Faulty variant: every chunk of a chat names the role.
ChunkWithRole(c, text, reason) ==
    [role |-> args[c].kind = "chat", text |-> text, reason |-> reason]

\* The message on_stream writes: the role only in the first one of a chat.
Chunk(c, text, reason) ==
    [role |-> args[c].kind = "chat" /\ responses[c] = <<>>, text |-> text,
     reason |-> reason]

\* decode_delta_text up to the last token
Delta(c) ==
    decode_delta_text(args[c].tokens,
        [prefix |-> prefix_offset[c], output |-> sent[Stream(c)]], num_tokens[c])

\* The response thread streams the text up to the last token, if there is any,
\* once the sequence has got a new token.
OnStream(c) ==
    /\ status[c] = "accepted" /\ request[c].stream
    /\ num_tokens[c] > args[c].prompt_tokens
    /\ told[Stream(c)] = "NONE"
    /\ \E delta \in {Delta(c)} :
         /\ delta.text # <<>> \/ finish_reason[c] # "NONE"
         /\ sent' = [sent EXCEPT ![Stream(c)] = delta.offsets.output]
         /\ prefix_offset' = [prefix_offset EXCEPT ![c] = delta.offsets.prefix]
         /\ responses' = [responses EXCEPT ![c] =
                            Append(@, Chunk(c, delta.text, finish_reason[c]))]
    /\ told' = [told EXCEPT ![Stream(c)] = finish_reason[c]]
    /\ Service!Send(Stream(c))
    /\ UNCHANGED <<clock, args, arrived, converter, request, request_queue, num_tokens,
                   finish_reason, answers>>

\* on_finish: a call that does not stream gets its one message first.  Without a
\* finish reason the request was cancelled or there was no memory for it.
OnFinish(c) ==
    /\ status[c] = "accepted" /\ c \notin ToSet(request_queue)
    /\ request[c].stream => told[Stream(c)] = finish_reason[c]
    /\ Service!Finish(c)
    /\ responses' =
         IF request[c].stream THEN responses
         ELSE [responses EXCEPT ![c] =
                 Append(@, [role |-> args[c].kind = "chat", text |-> Delta(c).text,
                            reason |-> finish_reason[c]])]
    /\ answers' = [answers EXCEPT ![c] = Append(@, "OK")]
    /\ UNCHANGED <<clock, args, arrived, converter, request, request_queue, seqVars>>

Converter(k) == Reject(k) \/ Convert(k) \/ Submit(k)
SchedulerOn(c) == Generate(c) \/ OnFinish(c) \/ OnStream(c)

Next ==
    \/ \E c \in Calls, a \in Args : Arrive(c, a)
    \/ \E k \in Kinds : Converter(k)
    \/ \E c \in Calls : SchedulerOn(c)
    \/ Tick \/ Drain

Spec == Init /\ [][Next]_vars

\* The converter threads run until they are joined, and the scheduler finishes
\* every request it accepted (EveryRequestAnswered of Scheduler).
FairSpec ==
    /\ Spec /\ WF_vars(Drain)
    /\ \A k \in Kinds : WF_vars(Converter(k))
    /\ \A c \in Calls : WF_vars(SchedulerOn(c))

-----------------------------------------------------------------------------
(* Properties *)

\* A call is answered at most once, by the handler's error or by on_finish, and
\* nothing is written to it afterwards: CallData is deleted after its finish, and
\* the callbacks hold a bare pointer to it.
AnswerIsFinal ==
    [][\A c \in Calls : answers[c] # <<>> =>
          answers'[c] = answers[c] /\ responses'[c] = responses[c]]_vars

\* A request with a limit stays inside the model's context, the client's
\* max_tokens and the space reserved for its tokens.
LimitHonoured ==
    \A c \in Calls : request[c] # NotConverted /\ request[c].max_tokens > 0 =>
        /\ num_tokens[c] <= MaxContextLen
        /\ num_tokens[c] <= request[c].capacity
        /\ args[c].max_tokens # Absent =>
              num_tokens[c] - args[c].prompt_tokens <= args[c].max_tokens

\* The messages of a chat that are not the system's, and the turns of a prompt in
\* which something is said.
Spoken(messages) ==
    Joined([i \in DOMAIN messages |->
              IF messages[i].role = "system" THEN <<>> ELSE <<messages[i]>>])
Told(turns) ==
    Joined([i \in DOMAIN turns |-> IF turns[i].text = NoText THEN <<>> ELSE <<turns[i]>>])

\* The user spoke first.
UserFirst(messages) ==
    \E i \in DOMAIN messages :
        messages[i].role = "user" /\ \A j \in 1..i - 1 : messages[j].role = "system"

\* In a chat the user begins, the model reads every message once, in order and
\* under the role of the one who wrote it, however often one of them speaks
\* twice in a row, and it is the assistant's turn to answer the user
\* (Dialog::add_message, get_prompt).
PromptAttributed ==
    \A c \in Calls :
        /\ request[c] # NotConverted /\ args[c].kind = "chat"
        /\ UserFirst(args[c].messages)
        => LET said == Spoken(args[c].messages)
               turns == request[c].prompt.turns
           IN Told(turns) = said /\ Last(said).role = "user" /\ Last(turns) = Last(said)

\* The calls of one handler get their created_time, by which the scheduler
\* orders them, in the order of their arrival ("First-Come-First-Served"), although
\* it is taken by another thread than the one that received them.
ArrivalOrder ==
    \A i, j \in DOMAIN arrived :
        LET c == arrived[i]  d == arrived[j] IN
        /\ i < j /\ args[c].kind = args[d].kind
        /\ request[c] # NotConverted /\ request[d] # NotConverted
        => request[c].created_time <= request[d].created_time

\* What a client reads: the role only in the first message of a chat, the finish
\* reason only in the last message, and by the time the call ends it has been told
\* the reason of a sequence that stopped.
WellFormedAnswer ==
    \A c \in Calls :
        /\ \A i \in DOMAIN responses[c] :
             /\ responses[c][i].role <=> i = 1 /\ args[c].kind = "chat"
             /\ responses[c][i].reason # "NONE" => i = Len(responses[c])
        /\ answers[c] = <<"OK">> /\ finish_reason[c] # "NONE" =>
             responses[c] # <<>> /\ Last(responses[c]).reason = finish_reason[c]

\* What a client reads is the text of its tokens, each character once and whole,
\* with the spaces it has when all is decoded together, however the deltas are
\* cut.  If the text does not end in the middle of a character, the client has
\* all of it when the call ends (Sequence::decode_delta_text).
TextDelivered ==
    \A c \in Calls : request[c] # NotConverted =>
        LET read == Joined([i \in DOMAIN responses[c] |-> responses[c][i].text])
            Whole(end) == decode(sub_token_ids(args[c].tokens, request[c].first_output, end))
        IN /\ request[c].stream => read = Whole(sent[Stream(c)])
           /\ answers[c] = <<"OK">> /\ finish_reason[c] # "NONE"
                 /\ ~Unfinished(Whole(num_tokens[c])) => read = Whole(num_tokens[c])

\* Every call is answered, whichever check fails or whatever becomes of its
\* request.
EveryCallAnswered ==
    \A c \in Calls : args[c] # NotConverted ~> answers[c] # <<>>

\* What the API says: the prompt and the tokens generated for it fit into the
\* model's context.
ContextRespected ==
    \A c \in Calls : status[c] = "accepted" => num_tokens[c] <= MaxContextLen
=============================================================================
