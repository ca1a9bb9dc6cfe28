------------------------- MODULE MCRequestHandlers -------------------------
(* Instances of RequestHandlers for TLC. *)
EXTENDS RequestHandlers

User(text)      == [role |-> "user", text |-> text]
Assistant(text) == [role |-> "assistant", text |-> text]
System(text)    == [role |-> "system", text |-> text]

\* A prompt of one token, or of several, and more words than fit
Plenty == [i \in 1..MaxLen |-> "word"]

Plain(kind, prompt, limit, stream) ==
    [kind |-> kind, n |-> Absent, best_of |-> Absent, empty |-> FALSE,
     in_range |-> TRUE, messages |-> <<User("u1")>>, encodes |-> TRUE,
     prompt_tokens |-> prompt, tokens |-> Plenty, max_tokens |-> limit,
     stream |-> stream, echo |-> TRUE]

\* Chats that are served
Served == {[Plain("chat", 1, 3, TRUE) EXCEPT !.messages =
               <<System("s1"), User("u1"), Assistant("a1"), Assistant("a2"), User("u2")>>],
           [Plain("chat", 1, 1, FALSE) EXCEPT !.messages =
               <<User("u1"), System("s1"), User("u2"), User("u3")>>]}

\* A completion the model answers with text
Answered(text, limit, stream, echo) ==
    [Plain("completion", 1, limit, stream) EXCEPT !.tokens = <<"word">> \o text, !.echo = echo]

\* Words and letters, characters of two bytes, one that is cut short; echoed or
\* not, streamed or in one message, with and without a limit
Written == {Answered(<<"word", "byte1", "byte2">>, Absent, TRUE, FALSE),
            Answered(<<"byte1", "byte2", "word">>, Absent, TRUE, TRUE),
            Answered(<<"byte2", "letter", "eos">>, Absent, TRUE, FALSE),
            Answered(<<"word", "byte1", "eos">>, Absent, TRUE, TRUE),
            Answered(<<"byte1", "byte2">>, 2, FALSE, FALSE)}

\* Calls that fail a check, and a prompt that is too long.
Faulty ==
    {[Plain("completion", 1, 1, FALSE) EXCEPT !.n = 2],
     [Plain("completion", 1, 1, FALSE) EXCEPT !.best_of = 0, !.n = 1],
     [Plain("chat", 1, 1, FALSE) EXCEPT !.in_range = FALSE],
     [Plain("chat", 1, 1, FALSE) EXCEPT !.messages = <<User("u1"), Assistant("a1")>>],
     [Plain("chat", 1, 1, FALSE) EXCEPT !.messages = <<[role |-> "other", text |-> "t"]>>],
     Plain("completion", MaxContextLen + 1, Absent, FALSE)}

\* The prompt fills the context.
Full == {Plain("completion", MaxContextLen, Absent, TRUE)}

SomeCalls == Served \cup Written \cup Faulty \cup Full
=============================================================================
