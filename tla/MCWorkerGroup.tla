--------------------------- MODULE MCWorkerGroup ---------------------------
(* Two or three workers, one setup round and two forward passes.           *)
EXTENDS WorkerGroup

\* Embedding, column and row parallel layers and a gathered head, and the
\* same with two collectives in a row
ForwardPlans == {<<"allgather", "none", "none", "allreduce", "none", "allreduce", "allgather">>,
                 <<"allgather", "allgather", "none", "allreduce", "allreduce", "none">>}

SmallSchedules ==
    {[ws |-> n, plans |-> << <<>>, p, p >>] : n \in {2, 3}, p \in ForwardPlans}
=============================================================================
