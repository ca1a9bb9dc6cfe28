------------------------- MODULE CompletionService -------------------------
(***************************************************************************)
(* What a client of the server may observe, without scheduling, memory or  *)
(* threads: a request is refused or accepted; the sequences of an accepted *)
(* request send text that only grows, each tells its finish reason at most *)
(* once, as its last word; then the request is finished, once, and nothing *)
(* follows.                                                                *)
(***************************************************************************)
EXTENDS Naturals

CONSTANTS Requests,   \* the requests
          Streams     \* their sequences; s[1] is the request of s

VARIABLES status,     \* status[r]
          sent,       \* sent[s]: how many tokens of s are covered by the text sent
          told        \* told[s]: the finish reason sent for s, or "NONE"

ServiceInit ==
    /\ status = [r \in Requests |-> "new"]
    /\ sent \in [Streams -> Nat]
    /\ told = [s \in Streams |-> "NONE"]

Answer(r) ==
    /\ status[r] = "new"
    /\ \E answer \in {"accepted", "refused"} : status' = [status EXCEPT ![r] = answer]
    /\ UNCHANGED <<sent, told>>

Send(s) ==
    /\ status[s[1]] = "accepted"
    /\ told[s] = "NONE"
    /\ sent'[s] >= sent[s]
    /\ sent' = [sent EXCEPT ![s] = sent'[s]]
    /\ told' = [told EXCEPT ![s] = told'[s]]
    /\ UNCHANGED status

Finish(r) ==
    /\ status[r] = "accepted"
    /\ status' = [status EXCEPT ![r] = "finished"]
    /\ UNCHANGED <<sent, told>>

ServiceNext ==
    \/ \E r \in Requests : Answer(r) \/ Finish(r)
    \/ \E s \in Streams : Send(s)

ServiceSpec == ServiceInit /\ [][ServiceNext]_<<status, sent, told>>
=============================================================================
