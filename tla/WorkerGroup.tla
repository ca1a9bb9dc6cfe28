---------------------------- MODULE WorkerGroup ----------------------------
(***************************************************************************)
(* How the engine's thread and the workers wait for each other             *)
(* (engine/engine.cpp, engine/worker.cpp, common/process_group.cpp),       *)
(* without what they compute.                                              *)
(*                                                                         *)
(* The engine works in rounds.  In a round it calls every worker, then     *)
(* waits for all of them.  A worker's task is a plan: steps it takes by    *)
(* itself and collectives, in which it waits until every rank has come.    *)
(* Constructing the model, loading a file and allocating the cache are     *)
(* empty plans; a forward pass has one entry per instruction of the model. *)
(***************************************************************************)
EXTENDS Integers, Sequences

CONSTANTS N,          \* largest number of workers
          Schedules   \* the engines tried: [ws |-> workers, plans |-> rounds]

Kinds == {"none", "allreduce", "allgather"}

ASSUME NAssumption == N \in Nat \ {0}
ASSUME SchedulesAssumption ==
    Schedules \subseteq [ws : 1..N, plans : Seq(Seq(Kinds))]

VARIABLES ws,       \* number of workers, fixed at the start
          plans,    \* plans of this round and the ones to come
          todo,     \* number of workers the engine has called in this round
          called,   \* ranks that have a task
          done,     \* ranks that have finished it
          ip,       \* rank -> entries of the plan behind it
          waiting,  \* ranks waiting in a collective
          dead      \* a CHECK failed: the process is gone

gvars == <<ws, plans, todo, called, done, ip, waiting, dead>>

Ranks == 0..(ws - 1)

Plan == Head(plans)

GInit ==
    /\ \E s \in Schedules : ws = s.ws /\ plans = s.plans
    /\ todo = 0
    /\ called = {} /\ done = {} /\ waiting = {}
    /\ ip = [r \in Ranks |-> 0]
    /\ dead = FALSE

Busy == ~dead /\ plans # <<>>

\* Faulty variant: waits for each worker before it calls the next.
CallOneByOne ==
    /\ Busy /\ todo < ws /\ done = 0..(todo - 1)
    /\ called' = called \cup {todo}
    /\ todo' = todo + 1
    /\ UNCHANGED <<ws, plans, done, ip, waiting, dead>>

\* The engine calls the workers one after the other, without waiting.
Call ==
    /\ Busy /\ todo < ws
    /\ called' = called \cup {todo}
    /\ todo' = todo + 1
    /\ UNCHANGED <<ws, plans, done, ip, waiting, dead>>

\* collectAll
Collected ==
    /\ Busy /\ todo = ws /\ done = Ranks
    /\ plans' = Tail(plans)
    /\ todo' = 0 /\ done' = {}
    /\ ip' = [r \in Ranks |-> 0]
    /\ UNCHANGED <<ws, called, waiting, dead>>

\* A step of the plan: done by itself, or posted to the other ranks
Advance(r) ==
    /\ Busy /\ r \in called \ waiting /\ ip[r] < Len(Plan)
    /\ IF Plan[ip[r] + 1] = "none"
       THEN ip' = [ip EXCEPT ![r] = @ + 1] /\ UNCHANGED waiting
       ELSE waiting' = waiting \cup {r} /\ UNCHANGED ip
    /\ UNCHANGED <<ws, plans, todo, called, done, dead>>

\* Faulty variant: completes for the ranks that are there.
MeetSome ==
    /\ Busy /\ waiting # {}
    /\ waiting' = {}
    /\ ip' = [r \in Ranks |-> IF r \in waiting THEN ip[r] + 1 ELSE ip[r]]
    /\ UNCHANGED <<ws, plans, todo, called, done, dead>>

\* The collectives of one communicator are matched in the order they are
\* issued: this one completes if it is the same for everybody.
Meet ==
    /\ Busy /\ waiting = Ranks
    /\ \A r \in Ranks : Plan[ip[r] + 1] = Plan[ip[0] + 1]
    /\ waiting' = {}
    /\ ip' = [r \in Ranks |-> ip[r] + 1]
    /\ UNCHANGED <<ws, plans, todo, called, done, dead>>

\* The task ends and its future is fulfilled.
Finish(r) ==
    /\ Busy /\ r \in called \ waiting /\ ip[r] = Len(Plan)
    /\ called' = called \ {r}
    /\ done' = done \cup {r}
    /\ UNCHANGED <<ws, plans, todo, ip, waiting, dead>>

\* A task, or the engine between two rounds, fails a CHECK.
Abort == /\ Busy /\ dead' = TRUE
         /\ UNCHANGED <<ws, plans, todo, called, done, ip, waiting>>

Stopped == ~Busy /\ UNCHANGED gvars

GNext == Call \/ Collected \/ Meet \/ Abort \/ Stopped
            \/ (\E r \in Ranks : Advance(r) \/ Finish(r))

GSafety == GInit /\ [][GNext]_gvars

\* The engine's thread and every executor get to run; NCCL completes.
GFairness == /\ WF_gvars(Call \/ Collected) /\ WF_gvars(Meet)
             /\ \A r \in 0..(N - 1) : WF_gvars(Advance(r) \/ Finish(r))

GSpec == GSafety /\ GFairness

\* Types, and which ranks may wait, run or be finished.
GTypeOK ==
    /\ ws \in 1..N
    /\ plans \in Seq(Seq(Kinds))
    /\ todo \in 0..ws
    /\ called \subseteq Ranks /\ done \subseteq Ranks /\ waiting \subseteq called
    /\ ip \in [Ranks -> Nat]
    /\ dead \in BOOLEAN

\* Ranks that wait in a collective at the same time wait in the same one, so
\* nobody's sum or gather is made of another instruction's data, and nobody
\* is gone whom the waiting ones still need (ProcessGroupNCCL::allreduce,
\* allgather).
SameCollective ==
    /\ \A r, s \in waiting : ip[r] = ip[s]
    /\ waiting # {} => done = {}

\* Nobody waits for ever for a rank that was not called or is already gone:
\* every collective completes and every round ends (Engine::execute_model,
\* collectAll).
RoundsEnd == <>(plans = <<>> \/ dead)
=============================================================================
