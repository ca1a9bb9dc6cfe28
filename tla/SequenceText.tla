---------------------------- MODULE SequenceText ----------------------------
(***************************************************************************)
(* Sequence::decode_delta_text (request/sequence.cpp): which part of a     *)
(* sequence's text is sent next.                                           *)
(*                                                                         *)
(* The tokenizers' libraries are external.  What the code is written for   *)
(* is kept of them: a character may be made of the bytes of two tokens, of *)
(* which one alone is decoded to the replacement character; the space      *)
(* before the first word of a text is dropped; the end token has no text.  *)
(***************************************************************************)
EXTENDS Integers, Sequences, SequencesExt

\* A word with a space before it, a letter, the two bytes of a character
Tokens == {"word", "letter", "byte1", "byte2", "eos"}

Space == " "
Replacement == "?"

\* What the i-th token adds to the text of ids
TextOf(ids, i) ==
    CASE ids[i] = "word"   -> <<Space, "word">>
      [] ids[i] = "letter" -> <<"letter">>
      [] ids[i] = "byte1"  -> IF i < Len(ids) /\ ids[i + 1] = "byte2"
                              THEN <<"char">> ELSE <<Replacement>>
      [] ids[i] = "byte2"  -> IF i > 1 /\ ids[i - 1] = "byte1"
                              THEN <<>> ELSE <<Replacement>>
      [] ids[i] = "eos"    -> <<>>

\* The pieces one after the other
Joined(pieces) ==
    LET First[n \in 0..Len(pieces)] == IF n = 0 THEN <<>> ELSE First[n - 1] \o pieces[n]
    IN First[Len(pieces)]

\* Tokenizer::decode
decode(ids) ==
    LET text == Joined([i \in DOMAIN ids |-> TextOf(ids, i)])
    IN IF text # <<>> /\ Head(text) = Space THEN Tail(text) ELSE text

\* The tokens from start up to end, counted from 0, end not included
sub_token_ids(ids, start, end) == SubSeq(ids, start + 1, end)

Unfinished(text) == text # <<>> /\ Last(text) = Replacement

\* Faulty variant: forgets the tokens before the new ones.
DeltaWithoutPrefix(ids, offsets, end) ==
    LET new_text == decode(sub_token_ids(ids, offsets.output, end))
    IN IF new_text # <<>> /\ ~Unfinished(new_text)
       THEN [text |-> new_text, offsets |-> [prefix |-> offsets.output, output |-> end]]
       ELSE [text |-> <<>>, offsets |-> offsets]

\* The text of the tokens up to end that was not sent before, and the offsets
\* after it: none while the last character is unfinished.  The tokens sent last
\* are decoded with the new ones, so that these are not the first of a text.
decode_delta_text(ids, offsets, end) ==
    LET prefix_text == decode(sub_token_ids(ids, offsets.prefix, offsets.output))
        new_text == decode(sub_token_ids(ids, offsets.prefix, end))
    IN IF Len(new_text) > Len(prefix_text) /\ ~Unfinished(new_text)
       THEN [text    |-> SubSeq(new_text, Len(prefix_text) + 1, Len(new_text)),
             offsets |-> [prefix |-> offsets.output, output |-> end]]
       ELSE [text |-> <<>>, offsets |-> offsets]
=============================================================================
