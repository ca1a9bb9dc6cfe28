---------------------------- MODULE MCScheduler ----------------------------
(* Instances of Scheduler for TLC. *)
EXTENDS Scheduler

CONSTANTS A, B, C

\* The block manager never looks at which block it hands out.
BlockSymmetry == Permutations(BlockIds)

OneSequence == [r \in Requests |-> 1]
TwoSequencesOfA == [r \in Requests |-> IF r = A THEN 2 ELSE 1]

\* A's prompt leaves room in its first block, the others fill it.
Prompts == [r \in Requests |-> IF r = A THEN 1 ELSE 2]
FullBlock == [r \in Requests |-> 2]
TwoTokens == [r \in Requests |-> 2]
\* A and B outgrow the memory, C comes and goes.
LongUnlessC == [r \in Requests |-> IF r = C THEN 2 ELSE 4]
ThreeTokens == [r \in Requests |-> 3]

AllStream == [r \in Requests |-> TRUE]
OnlyAStreams == [r \in Requests |-> r = A]
NoEcho == [r \in Requests |-> FALSE]
EchoA == [r \in Requests |-> r = A]

SamePriority == [r \in Requests |-> 1]
CHigh == [r \in Requests |-> IF r = C THEN 0 ELSE 1]
\* A was created before B, and B before C.
InOrder == [r \in Requests |-> IF r = A THEN 1 ELSE IF r = B THEN 2 ELSE 3]
\* All requests arrive in one second.
SameSecond == [r \in Requests |-> 1]
=============================================================================
