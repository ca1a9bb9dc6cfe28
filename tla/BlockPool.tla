----------------------------- MODULE BlockPool -----------------------------
(***************************************************************************)
(* What the KV-cache memory manager promises, stated without the free      *)
(* list: a fixed set of physical blocks, each either free or at exactly    *)
(* one place of the block table of one sequence.  Blocks are handed out to *)
(* the end of a table and come back table by table.  The scheduler        *)
(* (Scheduler.tla) and the block manager with its free-list vector         *)
(* (BlockManager.tla) are both shown to implement this specification.      *)
(***************************************************************************)
EXTENDS Integers, Sequences, FiniteSets, Functions,
        FiniteSetTheorems, TLAPS

CONSTANTS BlockIds,   \* ids handed out by BlockAllocator
          Owners      \* the sequences that may hold blocks

VARIABLES free,       \* blocks the allocator may hand out
          blocks      \* blocks[s]: the block table of sequence s, in order

poolVars == <<free, blocks>>

PoolInit ==
    /\ free = BlockIds
    /\ blocks = [s \in Owners |-> <<>>]

\* Sequence s gets n blocks, whichever of the free ones, at the end of its table.
Allocate(s, n) ==
    \E new \in Injection(1..n, free) :
        /\ free' = free \ Range(new)
        /\ blocks' = [blocks EXCEPT ![s] = @ \o new]

\* Every sequence of S gives back its whole table.
Release(S) ==
    /\ free' = free \cup UNION {Range(blocks[s]) : s \in S}
    /\ blocks' = [s \in Owners |-> IF s \in S THEN <<>> ELSE blocks[s]]

PoolNext ==
    \/ \E s \in Owners, n \in 0..Cardinality(free) : Allocate(s, n)
    \/ \E S \in SUBSET Owners : Release(S)

PoolSpec == PoolInit /\ [][PoolNext]_poolVars

\* A block is at one place of one table, or free, and none is ever lost:
\* two sequences that shared a block would overwrite each other's keys and
\* values, and a lost block would shrink the cache until the server restarts
\* (BlockAllocator's free list, Sequence::blocks_).
BlocksPartition ==
    /\ \A s \in Owners : IsInjective(blocks[s]) /\ Range(blocks[s]) \cap free = {}
    /\ \A s, t \in Owners : s # t => Range(blocks[s]) \cap Range(blocks[t]) = {}
    /\ free \cup UNION {Range(blocks[s]) : s \in Owners} = BlockIds

PoolType ==
    /\ free \in SUBSET BlockIds
    /\ blocks \in [Owners -> Seq(BlockIds)]

-----------------------------------------------------------------------------
(* Proofs *)

\* What a table gains by an allocation: the old entries, then the new ones, all
\* different when the new ones were free.
LEMMA TableGrows ==
  ASSUME NEW old \in Seq(BlockIds), NEW n \in Nat, NEW F \in SUBSET BlockIds,
         NEW new \in Injection(1..n, F)
  PROVE  /\ old \o new \in Seq(BlockIds)
         /\ Range(old \o new) = Range(old) \cup Range(new)
         /\ Range(new) \subseteq F
         /\ IsInjective(old) /\ Range(old) \cap F = {} => IsInjective(old \o new)
<1>1. new \in [1..n -> F] /\ new \in Seq(BlockIds) /\ Len(new) = n
  BY DEF Injection
<1>2. old \o new \in Seq(BlockIds) /\ Len(old \o new) = Len(old) + n
  BY <1>1
<1>3. /\ \A i \in 1..Len(old) : (old \o new)[i] = old[i]
      /\ \A i \in 1..n : (old \o new)[Len(old) + i] = new[i]
  BY <1>1
<1>4. \A i \in 1..Len(old) + n :
        i \in 1..Len(old) \/ \E j \in 1..n : i = Len(old) + j
  <2> TAKE i \in 1..Len(old) + n
  <2>1. CASE i <= Len(old)
    BY <2>1
  <2>2. CASE i > Len(old)
    <3>1. i - Len(old) \in 1..n /\ i = Len(old) + (i - Len(old))
      BY <2>2
    <3> QED
      BY <3>1
  <2> QED
    BY <2>1, <2>2
<1>5. Range(old \o new) = Range(old) \cup Range(new)
  <2>1. Range(old \o new) \subseteq Range(old) \cup Range(new)
    BY <1>1, <1>2, <1>3, <1>4 DEF Range
  <2>2. Range(old) \subseteq Range(old \o new)
    BY <1>2, <1>3 DEF Range
  <2>3. Range(new) \subseteq Range(old \o new)
    <3> SUFFICES ASSUME NEW b \in Range(new) PROVE b \in Range(old \o new)
      OBVIOUS
    <3>1. PICK j \in 1..n : new[j] = b
      BY <1>1 DEF Range
    <3>2. Len(old) + j \in DOMAIN (old \o new)
      BY <1>2
    <3> QED
      BY <1>3, <3>1, <3>2 DEF Range
  <2> QED
    BY <2>1, <2>2, <2>3
<1>6. Range(new) \subseteq F
  BY <1>1 DEF Range
<1>7. ASSUME IsInjective(old), Range(old) \cap F = {}
      PROVE  IsInjective(old \o new)
  <2>1. \A i, j \in 1..n : new[i] = new[j] => i = j
    BY <1>1 DEF Injection, IsInjective
  <2>2. \A i, j \in 1..Len(old) : old[i] = old[j] => i = j
    BY <1>7 DEF IsInjective
  <2>3. \A i \in 1..Len(old), j \in 1..n : old[i] # new[j]
    BY <1>1, <1>7 DEF Range
  <2>4. SUFFICES ASSUME NEW i \in 1..Len(old) + n, NEW j \in 1..Len(old) + n,
                        (old \o new)[i] = (old \o new)[j]
                 PROVE  i = j
    BY <1>2 DEF IsInjective
  <2> QED
    <3>1. CASE i \in 1..Len(old) /\ j \in 1..Len(old)
      BY <1>3, <2>2, <2>4, <3>1
    <3>2. ASSUME NEW k \in 1..n, i = Len(old) + k, j \in 1..Len(old) PROVE FALSE
      BY <1>3, <2>3, <2>4, <3>2
    <3>3. ASSUME NEW k \in 1..n, j = Len(old) + k, i \in 1..Len(old) PROVE FALSE
      BY <1>3, <2>3, <2>4, <3>3
    <3>4. ASSUME NEW k \in 1..n, NEW m \in 1..n, i = Len(old) + k, j = Len(old) + m
          PROVE  i = j
      <4>1. (old \o new)[i] = new[k] /\ (old \o new)[j] = new[m]
        BY <1>3, <3>4
      <4>2. k = m
        BY <2>1, <2>4, <4>1
      <4> QED
        BY <3>4, <4>2
    <3>5. i \in 1..Len(old) \/ \E k \in 1..n : i = Len(old) + k
      BY <1>4
    <3>6. j \in 1..Len(old) \/ \E k \in 1..n : j = Len(old) + k
      BY <1>4
    <3> QED
      BY <3>1, <3>2, <3>3, <3>4, <3>5, <3>6
<1> QED
  BY <1>2, <1>5, <1>6, <1>7

\* Handing out free blocks keeps every block at one place.
LEMMA AllocateKeepsPartition ==
  ASSUME PoolType, BlocksPartition, NEW s \in Owners, NEW n \in Nat, Allocate(s, n)
  PROVE  PoolType' /\ BlocksPartition'
<1>1. PICK new \in Injection(1..n, free) :
        free' = free \ Range(new) /\ blocks' = [blocks EXCEPT ![s] = @ \o new]
  BY DEF Allocate
<1>2. /\ blocks[s] \o new \in Seq(BlockIds)
      /\ Range(blocks[s] \o new) = Range(blocks[s]) \cup Range(new)
      /\ Range(new) \subseteq free
      /\ IsInjective(blocks[s] \o new)
  BY TableGrows DEF PoolType, BlocksPartition
<1>3. blocks'[s] = blocks[s] \o new /\ \A t \in Owners \ {s} : blocks'[t] = blocks[t]
  BY <1>1 DEF PoolType
<1>4. PoolType'
  BY <1>1, <1>2 DEF PoolType
<1>5. \A t \in Owners : IsInjective(blocks'[t]) /\ Range(blocks'[t]) \cap free' = {}
  BY <1>1, <1>2, <1>3 DEF BlocksPartition
<1>6. \A t, u \in Owners : t # u => Range(blocks'[t]) \cap Range(blocks'[u]) = {}
  <2> SUFFICES ASSUME NEW t \in Owners, NEW u \in Owners, t # u
               PROVE  Range(blocks'[t]) \cap Range(blocks'[u]) = {}
    OBVIOUS
  <2>1. Range(blocks[t]) \cap Range(blocks[u]) = {}
    BY DEF BlocksPartition
  <2>2. CASE t # s /\ u # s
    BY <1>3, <2>1, <2>2
  <2>3. CASE t = s
    BY <1>2, <1>3, <2>1, <2>3 DEF BlocksPartition
  <2>4. CASE u = s
    BY <1>2, <1>3, <2>1, <2>4 DEF BlocksPartition
  <2> QED
    BY <2>2, <2>3, <2>4
<1>7. free' \cup UNION {Range(blocks'[t]) : t \in Owners} = BlockIds
  <2>1. \A t \in Owners : Range(blocks'[t]) \subseteq BlockIds
    <3> TAKE t \in Owners
    <3>1. Range(blocks[t]) \subseteq BlockIds /\ free \subseteq BlockIds
      BY DEF BlocksPartition, PoolType
    <3>2. CASE t = s
      BY <1>2, <1>3, <3>1, <3>2
    <3>3. CASE t # s
      BY <1>3, <3>1, <3>3
    <3> QED
      BY <3>2, <3>3
  <2>2. \A b \in BlockIds : b \in free \/ \E t \in Owners : b \in Range(blocks[t])
    BY DEF BlocksPartition
  <2>3. \A t \in Owners : Range(blocks[t]) \subseteq Range(blocks'[t])
    BY <1>2, <1>3
  <2>4. \A b \in BlockIds : b \in free' \/ \E t \in Owners : b \in Range(blocks'[t])
    BY <1>1, <1>2, <1>3, <2>2, <2>3
  <2> QED
    BY <1>4, <2>1, <2>4 DEF PoolType
<1> QED
  BY <1>4, <1>5, <1>6, <1>7 DEF BlocksPartition

\* Giving back whole tables keeps every block at one place.
LEMMA ReleaseKeepsPartition ==
  ASSUME PoolType, BlocksPartition, NEW S \in SUBSET Owners, Release(S)
  PROVE  PoolType' /\ BlocksPartition'
<1>1. /\ \A s \in S : blocks'[s] = <<>>
      /\ \A s \in Owners \ S : blocks'[s] = blocks[s]
  BY DEF Release
<1>2. Range(<<>>) = {} /\ IsInjective(<<>>)
  BY DEF Range, IsInjective
<1>3. \A s \in Owners : Range(blocks[s]) \subseteq BlockIds
  BY DEF BlocksPartition
<1>4. \A b : b \in free' <=> b \in free \/ \E s \in S : b \in Range(blocks[s])
  BY DEF Release
<1>5. PoolType'
  BY <1>3, <1>4 DEF PoolType, Release
<1>6. \A s \in Owners : IsInjective(blocks'[s]) /\ Range(blocks'[s]) \cap free' = {}
  BY <1>1, <1>2, <1>4 DEF BlocksPartition
<1>7. \A s, t \in Owners : s # t => Range(blocks'[s]) \cap Range(blocks'[t]) = {}
  BY <1>1, <1>2 DEF BlocksPartition
<1>8. free' \cup UNION {Range(blocks'[s]) : s \in Owners} = BlockIds
  <2>1. \A b \in BlockIds : b \in free \/ \E s \in Owners : b \in Range(blocks[s])
    BY DEF BlocksPartition
  <2>2. \A b \in BlockIds : b \in free' \/ \E s \in Owners : b \in Range(blocks'[s])
    BY <1>1, <1>4, <2>1
  <2>3. \A s \in Owners : Range(blocks'[s]) \subseteq BlockIds
    BY <1>1, <1>2, <1>3
  <2> QED
    BY <1>5, <2>2, <2>3 DEF PoolType
<1> QED
  BY <1>5, <1>6, <1>7, <1>8 DEF BlocksPartition

\* Initially all blocks are free.
LEMMA InitPartition == PoolInit => PoolType /\ BlocksPartition
<1>1. Range(<<>>) = {} /\ IsInjective(<<>>)
  BY DEF Range, IsInjective
<1>2. ASSUME PoolInit PROVE PoolType
  BY <1>2 DEF PoolInit, PoolType
<1>3. ASSUME PoolInit PROVE BlocksPartition
  BY <1>1, <1>3 DEF PoolInit, BlocksPartition
<1> QED
  BY <1>2, <1>3

\* No block is ever lost or at two places, for any number of blocks and
\* sequences: what BlockAllocator and Sequence::blocks_ have to guarantee.
THEOREM PoolPartition == ASSUME IsFiniteSet(BlockIds) PROVE PoolSpec => []BlocksPartition
<1>1. PoolInit => PoolType /\ BlocksPartition
  BY InitPartition
<1>2. PoolType /\ BlocksPartition /\ [PoolNext]_poolVars => PoolType' /\ BlocksPartition'
  <2> SUFFICES ASSUME PoolType, BlocksPartition, [PoolNext]_poolVars
               PROVE  PoolType' /\ BlocksPartition'
    OBVIOUS
  <2>1. ASSUME NEW s \in Owners, NEW n \in 0..Cardinality(free), Allocate(s, n)
        PROVE  PoolType' /\ BlocksPartition'
    <3>1. Cardinality(free) \in Nat
      BY FS_CardinalityType, FS_Subset DEF PoolType
    <3>2. n \in Nat
      BY <3>1
    <3> QED
      BY <2>1, <3>2, AllocateKeepsPartition
  <2>2. ASSUME NEW S \in SUBSET Owners, Release(S)
        PROVE  PoolType' /\ BlocksPartition'
    BY <2>2, ReleaseKeepsPartition
  <2>3. CASE UNCHANGED poolVars
    BY <2>3 DEF poolVars, PoolType, BlocksPartition
  <2> QED
    BY <2>1, <2>2, <2>3 DEF PoolNext
<1> QED
  BY <1>1, <1>2, PTL DEF PoolSpec
=============================================================================
