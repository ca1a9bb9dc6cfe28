----------------------------- MODULE StateDict -----------------------------
(***************************************************************************)
(* One file of a checkpoint as the loader hands it to the model           *)
(* (model_loader/state_dict.cpp).                                          *)
(*                                                                         *)
(* A tensor is the tuple of its axes and an axis is the sequence of the    *)
(* labels of its rows or columns: entry (i, j) of the tensor <<R, C>> is   *)
(* the checkpoint's entry for output R[i] and input C[j].  Slicing,        *)
(* transposing, permuting and concatenating act on the axes alone, so this *)
(* keeps everything the code does to a weight except its numbers.          *)
(***************************************************************************)
EXTENDS Integers, Sequences

\* torch::Tensor{nullptr}: the file has nothing under that name
Undefined == <<>>

Sizes(t) == [i \in DOMAIN t |-> Len(t[i])]

\* The r-th (from 0) of the n equal pieces of an axis: tensor.chunk(n)[r].
Piece(axis, n, r) ==
    LET w == Len(axis) \div n IN SubSeq(axis, r * w + 1, (r + 1) * w)

Chunk(t, dim, n, r) == [t EXCEPT ![dim + 1] = Piece(@, n, r)]

\* The rows of an axis viewed as [a, b, d], permuted to [b, a, d].
Permuted(axis, a, b, d) ==
    [i \in DOMAIN axis |->
        LET q == (i - 1) \div d
            x == (i - 1) % d
        IN axis[((q % a) * b + q \div a) * d + x + 1]]

PermuteRows(t, a, b, d) == [t EXCEPT ![1] = Permuted(@, a, b, d)]

\* tensor.t(): a tensor of one axis is its own transpose
Transposed(t) == IF Len(t) = 2 THEN <<t[2], t[1]>> ELSE t

(***************************************************************************)
(* A view of a file: the tensors whose names start with prefix, seen       *)
(* through a transform.  A name is the sequence of its dotted parts.       *)
(***************************************************************************)
NoTransform   == [kind |-> "none", dim |-> 0]
Transpose     == [kind |-> "t", dim |-> 0]
\* rows [3, n_heads, d] to [n_heads, 3, d], and back
HeadsFirst(d) == [kind |-> "heads", dim |-> d]
PartsFirst(d) == [kind |-> "parts", dim |-> d]

View(dict, shard_id, num_shards) ==
    [dict |-> dict, prefix |-> <<>>, transform |-> NoTransform,
     shard_id |-> shard_id, num_shards |-> num_shards]

\* A view of a view starts again without a transform.
select(sd, prefix) ==
    [sd EXCEPT !.prefix = @ \o prefix, !.transform = NoTransform]

select_with_transform(sd, prefix, tf) ==
    [select(sd, prefix) EXCEPT !.transform = tf]

Apply(tf, t) ==
    LET n == Len(t[1]) \div (3 * tf.dim)
    IN CASE tf.kind = "none"  -> t
         [] tf.kind = "t"     -> Transposed(t)
         [] tf.kind = "heads" -> PermuteRows(t, 3, n, tf.dim)
         [] tf.kind = "parts" -> PermuteRows(t, n, 3, tf.dim)

get_tensor(sd, name) ==
    LET full == sd.prefix \o name
    IN IF full \in DOMAIN sd.dict
       THEN Apply(sd.transform, sd.dict[full]) ELSE Undefined

RanksPerShard(sd, ws) == ws \div sd.num_shards

\* The file holds data of this rank.
Holds(sd, rank, ws) ==
    rank \div RanksPerShard(sd, ws) = sd.shard_id

\* The CHECKs of get_sharded_tensor, each of which ends the process.
ShardCheckFails(sd, name, dim, rank, ws) ==
    \/ ws < sd.num_shards
    \/ ws % sd.num_shards # 0
    \/ /\ Holds(sd, rank, ws)
       /\ LET t == get_tensor(sd, name)
              n == RanksPerShard(sd, ws)
          IN /\ t # Undefined
             /\ Len(t[dim + 1]) > n
             /\ Len(t[dim + 1]) % n # 0

\* A dimension no larger than the number of ranks is "too small to shard"
\* and is returned whole.
get_sharded_tensor(sd, name, dim, rank, ws) ==
    LET t == get_tensor(sd, name)
        n == RanksPerShard(sd, ws)
    IN IF ~Holds(sd, rank, ws) \/ t = Undefined THEN Undefined
       ELSE IF Len(t[dim + 1]) <= n THEN t
       ELSE Chunk(t, dim, n, rank - sd.shard_id * n)
=============================================================================
