------------------------------- MODULE Dialog -------------------------------
(***************************************************************************)
(* From the messages of a chat to the prompt of the model                  *)
(* (models/dialog.cpp).  The prompt is the system message and the turns of *)
(* user and assistant, each under the role the template prints it with;    *)
(* how a template words the roles is left out.                             *)
(***************************************************************************)
EXTENDS Integers, Sequences

Roles == {"system", "user", "assistant"}

NoText == ""

\* Dialog: last_message_role_, messages_ and system_message_
NewDialog == [last |-> "system", messages |-> <<>>, system |-> NoText]

\* Faulty variant: two messages of one role in a row are not separated.
AddUnseparated(d, m) ==
    IF m.role = "system" THEN [d EXCEPT !.system = m.text]
    ELSE [d EXCEPT !.last = m.role, !.messages = Append(@, m.text)]

\* The second of two messages of one role follows an empty one of the other
\* role; of the system messages the last one counts.
add_message(d, m) ==
    IF m.role = "system" THEN [d EXCEPT !.system = m.text]
    ELSE [d EXCEPT !.last = m.role,
                   !.messages = @ \o (IF d.last = m.role THEN <<NoText, m.text>>
                                      ELSE <<m.text>>)]

\* The dialog when all messages have been added to it
DialogOf(messages) ==
    LET dialog[n \in 0..Len(messages)] ==
            IF n = 0 THEN NewDialog ELSE add_message(dialog[n - 1], messages[n])
    IN dialog[Len(messages)]

\* get_prompt returns nothing unless the last turn is an odd one.
HasPrompt(d) == Len(d.messages) % 2 = 1

\* Odd turns are printed as the user's, even ones as the assistant's.
get_prompt(d) ==
    [system |-> d.system,
     turns  |-> [i \in DOMAIN d.messages |->
                    [role |-> IF i % 2 = 1 THEN "user" ELSE "assistant",
                     text |-> d.messages[i]]]]
=============================================================================
