------------------------- MODULE BlockManagerProofs -------------------------
(***************************************************************************)
(* Proofs about BlockManager, for every number of blocks, block size and   *)
(* set of requests, and every sequence of calls with cancellations between *)
(* their steps.                                                            *)
(***************************************************************************)
EXTENDS BlockManager, FiniteSetTheorems, TLAPS

\* The free part without repetition and the partition of the blocks need each
\* other: ids that come back were in no table and not in the free part, so they
\* are new to it; ids that go out are different, because the free part has none
\* twice.
BlockManagerInv == TypeOK /\ FreeListDistinct /\ Pool!BlocksPartition

LEMMA SequenceFacts ==
  \A r \in Requests : \A i \in 1..NumSeqs[r] : <<r, i>> \in AllSequences
  BY DEF AllSequences, SequencesOf

LEMMA BlockIdsFinite == IsFiniteSet(BlockIds) /\ Cardinality(BlockIds) = NumBlocks
<1>1. NumBlocks \in Nat
  BY BlockManagerAssumption
<1> QED
  BY <1>1, FS_Interval DEF BlockIds

LEMMA UpTo == \A n \in Nat : IsFiniteSet(1..n) /\ Cardinality(1..n) = n
<1> SUFFICES ASSUME NEW n \in Nat PROVE IsFiniteSet(1..n) /\ Cardinality(1..n) = n
  OBVIOUS
<1>1. /\ IsFiniteSet(1..n)
      /\ Cardinality(1..n) = IF 1 > n THEN 0 ELSE n - 1 + 1
  BY FS_Interval
<1> QED
  BY <1>1

\* free_block_count_ is the number of free blocks.
LEMMA FreeCount ==
  ASSUME TypeOK, FreeListDistinct
  PROVE  /\ FreeBlocks \subseteq BlockIds /\ IsFiniteSet(FreeBlocks)
         /\ Cardinality(FreeBlocks) = free_block_count
<1> DEFINE f == [i \in 1..free_block_count |-> free_blocks[i]]
<1>1. /\ free_block_count \in Nat /\ free_block_count <= NumBlocks
      /\ NumBlocks \in Nat
      /\ free_blocks \in [1..NumBlocks -> BlockIds]
  BY BlockManagerAssumption DEF TypeOK, VariableTypes
<1>2. FreeBlocks \subseteq BlockIds
  BY <1>1 DEF FreeBlocks
<1>3. f \in Bijection(1..free_block_count, FreeBlocks)
  <2>1. f \in [1..free_block_count -> FreeBlocks]
    BY DEF FreeBlocks
  <2>2. \A i, j \in 1..free_block_count : f[i] = f[j] => i = j
    BY DEF FreeListDistinct
  <2>3. \A b \in FreeBlocks : \E i \in 1..free_block_count : f[i] = b
    BY DEF FreeBlocks
  <2> HIDE DEF f
  <2> QED
    BY <2>1, <2>2, <2>3 DEF Bijection, Injection, Surjection, IsInjective
<1>4. IsFiniteSet(1..free_block_count) /\ Cardinality(1..free_block_count) = free_block_count
  BY <1>1, UpTo
<1>5. ExistsBijection(1..free_block_count, FreeBlocks)
  BY <1>3 DEF ExistsBijection
<1> QED
  BY <1>2, <1>4, <1>5, FS_Bijection

\* A table without repetition has as many blocks as entries.
LEMMA TableCount ==
  ASSUME NEW t \in Seq(BlockIds), IsInjective(t)
  PROVE  IsFiniteSet(Range(t)) /\ Cardinality(Range(t)) = Len(t)
<1>1. t \in [1..Len(t) -> BlockIds] /\ Len(t) \in Nat
  OBVIOUS
<1>2. t \in Bijection(1..Len(t), Range(t))
  <2>1. t \in [1..Len(t) -> Range(t)]
    BY <1>1 DEF Range
  <2>2. \A i, j \in 1..Len(t) : t[i] = t[j] => i = j
    BY <1>1 DEF IsInjective
  <2>3. \A b \in Range(t) : \E i \in 1..Len(t) : t[i] = b
    BY <1>1 DEF Range
  <2> QED
    BY <2>1, <2>2, <2>3 DEF Bijection, Injection, Surjection, IsInjective
<1>3. IsFiniteSet(1..Len(t)) /\ Cardinality(1..Len(t)) = Len(t)
  BY <1>1, UpTo
<1>4. ExistsBijection(1..Len(t), Range(t))
  BY <1>2 DEF ExistsBijection
<1> QED
  BY <1>3, <1>4, FS_Bijection

\* What comes back fits behind the free part.
LEMMA ReturnFits ==
  ASSUME BlockManagerInv, NEW s \in AllSequences
  PROVE  free_block_count + Len(blocks[s]) <= NumBlocks
<1>1. blocks[s] \in Seq(BlockIds) /\ free_block_count \in Nat
  BY BlockManagerAssumption DEF BlockManagerInv, TypeOK, VariableTypes
<1>2. /\ IsInjective(blocks[s]) /\ Range(blocks[s]) \cap FreeBlocks = {}
      /\ Range(blocks[s]) \subseteq BlockIds
  <2>1. Pool!IsInjective(blocks[s]) /\ Pool!Range(blocks[s]) \cap FreeBlocks = {}
    BY DEF BlockManagerInv, Pool!BlocksPartition
  <2> QED
    BY <1>1, <2>1 DEF Pool!IsInjective, IsInjective, Pool!Range, Range
<1>3. IsFiniteSet(FreeBlocks) /\ Cardinality(FreeBlocks) = free_block_count
      /\ FreeBlocks \subseteq BlockIds
  BY FreeCount DEF BlockManagerInv
<1>4. IsFiniteSet(Range(blocks[s])) /\ Cardinality(Range(blocks[s])) = Len(blocks[s])
  BY <1>1, <1>2, TableCount
<1>5. Cardinality(FreeBlocks \cup Range(blocks[s])) =
        free_block_count + Len(blocks[s])
  <2>1. FreeBlocks \cap Range(blocks[s]) = {} /\ Len(blocks[s]) \in Nat
    BY <1>1, <1>2
  <2>2. Cardinality(FreeBlocks \cup Range(blocks[s])) =
          Cardinality(FreeBlocks) + Cardinality(Range(blocks[s]))
            - Cardinality(FreeBlocks \cap Range(blocks[s]))
    BY <1>3, <1>4, FS_Union
  <2>3. Cardinality(FreeBlocks \cap Range(blocks[s])) = 0
    BY <2>1, FS_EmptySet
  <2> QED
    BY <1>1, <1>3, <1>4, <2>1, <2>2, <2>3
<1>6. FreeBlocks \cup Range(blocks[s]) \in SUBSET BlockIds
  BY <1>2, <1>3
<1>7. Cardinality(FreeBlocks \cup Range(blocks[s])) <= Cardinality(BlockIds)
  BY <1>6, BlockIdsFinite, FS_Subset
<1> QED
  BY <1>5, <1>7, BlockIdsFinite

\* Handing out the last n entries of the free part is an allocation of the pool.
LEMMA AllocateStep ==
  ASSUME BlockManagerInv, NEW s \in AllSequences, NEW n \in Nat, NEW next,
         n <= free_block_count, Allocate(s, n, next)
  PROVE  /\ Pool!Allocate(s, n)
         /\ free_blocks' = free_blocks /\ free_block_count' = free_block_count - n
         /\ FreeListDistinct'
<1>1. /\ free_block_count \in Nat /\ free_block_count <= NumBlocks
      /\ NumBlocks \in Nat
      /\ free_blocks \in [1..NumBlocks -> BlockIds]
  BY BlockManagerAssumption DEF BlockManagerInv, TypeOK, VariableTypes
<1>2. /\ blocks' = [blocks EXCEPT ![s] = @ \o Take(n)]
      /\ free_block_count' = free_block_count - n
      /\ free_blocks' = free_blocks
  BY DEF Allocate
<1>3. \A i, j \in 1..free_block_count : free_blocks[i] = free_blocks[j] => i = j
  BY DEF BlockManagerInv, FreeListDistinct
<1>4. FreeListDistinct'
  BY <1>1, <1>2, <1>3 DEF FreeListDistinct
<1>5. \A i \in 1..n : free_block_count - i + 1 \in 1..free_block_count
  BY <1>1
<1>6. Take(n) \in [1..n -> FreeBlocks]
  BY <1>5 DEF Take, FreeBlocks
<1>7. \A i, j \in 1..n : Take(n)[i] = Take(n)[j] => i = j
  <2> TAKE i, j \in 1..n
  <2>1. free_block_count - i + 1 = free_block_count - j + 1 => i = j
    BY <1>1
  <2> QED
    BY <1>3, <1>5, <2>1 DEF Take
<1>8. Take(n) \in Pool!Injection(1..n, FreeBlocks)
  BY <1>6, <1>7 DEF Pool!Injection, Pool!IsInjective
<1>9. FreeBlocks' = FreeBlocks \ Pool!Range(Take(n))
  <2>1. FreeBlocks' = {free_blocks[i] : i \in 1..free_block_count - n}
    BY <1>2 DEF FreeBlocks
  <2>2. Pool!Range(Take(n)) = {free_blocks[free_block_count - i + 1] : i \in 1..n}
    BY DEF Pool!Range, Take
  <2>3. ASSUME NEW i \in 1..free_block_count - n
        PROVE  free_blocks[i] \in FreeBlocks /\ free_blocks[i] \notin Pool!Range(Take(n))
    <3>1. i \in 1..free_block_count
      BY <1>1
    <3>2. \A j \in 1..n : i # free_block_count - j + 1
      BY <1>1
    <3> QED
      BY <1>3, <1>5, <2>2, <3>1, <3>2 DEF FreeBlocks
  <2>4. ASSUME NEW i \in 1..free_block_count, i \notin 1..free_block_count - n
        PROVE  free_blocks[i] \in Pool!Range(Take(n))
    <3>1. free_block_count - i + 1 \in 1..n
          /\ i = free_block_count - (free_block_count - i + 1) + 1
      BY <1>1, <2>4
    <3> QED
      BY <2>2, <3>1
  <2> QED
    BY <2>1, <2>3, <2>4 DEF FreeBlocks
<1> QED
  BY <1>2, <1>4, <1>8, <1>9 DEF Pool!Allocate

\* Writing a table behind the free part is a release of the pool.
LEMMA ReleaseStep ==
  ASSUME BlockManagerInv, NEW s \in AllSequences, NEW next, Release(s, next)
  PROVE  /\ Pool!Release({s}) /\ pc' = next
         /\ free_blocks' \in [1..NumBlocks -> BlockIds]
         /\ free_block_count' \in 0..NumBlocks
         /\ FreeListDistinct'
<1> DEFINE c == free_block_count
           t == blocks[s]
<1>1. /\ c \in Nat /\ NumBlocks \in Nat /\ t \in Seq(BlockIds) /\ Len(t) \in Nat
      /\ free_blocks \in [1..NumBlocks -> BlockIds]
      /\ blocks \in [AllSequences -> Seq(BlockIds)]
  BY BlockManagerAssumption DEF BlockManagerInv, TypeOK, VariableTypes
<1>2. c + Len(t) <= NumBlocks
  BY ReturnFits
<1>3. /\ blocks' = [blocks EXCEPT ![s] = <<>>]
      /\ free_blocks' = PutBack(t)
      /\ free_block_count' = c + Len(t)
      /\ pc' = next
  BY <1>2 DEF Release
<1>4. /\ \A i \in 1..c : free_blocks'[i] = free_blocks[i]
      /\ \A i \in 1..Len(t) : free_blocks'[c + i] = t[i]
  <2>1. ASSUME NEW i \in 1..c PROVE free_blocks'[i] = free_blocks[i]
    BY <1>1, <1>2, <1>3 DEF PutBack
  <2>2. ASSUME NEW i \in 1..Len(t) PROVE free_blocks'[c + i] = t[i]
    <3>1. c + i \in 1..NumBlocks /\ c + i > c /\ c + i <= c + Len(t) /\ (c + i) - c = i
      BY <1>1, <1>2
    <3> QED
      BY <1>3, <3>1 DEF PutBack
  <2> QED
    BY <2>1, <2>2
<1>5. free_blocks' \in [1..NumBlocks -> BlockIds]
  <2> SUFFICES ASSUME NEW i \in 1..NumBlocks, i > c, i <= c + Len(t)
               PROVE  t[i - c] \in BlockIds
    BY <1>1, <1>3 DEF PutBack
  <2>1. i - c \in 1..Len(t)
    BY <1>1
  <2> QED
    BY <1>1, <2>1
<1>6. \A i \in 1..c + Len(t) : i \in 1..c \/ \E j \in 1..Len(t) : i = c + j
  <2> TAKE i \in 1..c + Len(t)
  <2>1. CASE i <= c
    BY <1>1, <2>1
  <2>2. CASE i > c
    <3>1. i - c \in 1..Len(t) /\ i = c + (i - c)
      BY <1>1, <2>2
    <3> QED
      BY <3>1
  <2> QED
    BY <1>1, <2>1, <2>2
<1>7. /\ \A i, j \in 1..Len(t) : t[i] = t[j] => i = j
      /\ \A i \in 1..c, j \in 1..Len(t) : free_blocks[i] # t[j]
  <2>1. Pool!IsInjective(t) /\ Pool!Range(t) \cap FreeBlocks = {}
    BY DEF BlockManagerInv, Pool!BlocksPartition
  <2>2. DOMAIN t = 1..Len(t)
    BY <1>1
  <2>3. \A i, j \in 1..Len(t) : t[i] = t[j] => i = j
    BY <2>1, <2>2 DEF Pool!IsInjective
  <2>4. \A j \in 1..Len(t) : t[j] \in Pool!Range(t)
    BY <2>2 DEF Pool!Range
  <2>5. \A i \in 1..c : free_blocks[i] \in FreeBlocks
    BY DEF FreeBlocks
  <2> HIDE DEF c, t
  <2> QED
    BY <2>1, <2>3, <2>4, <2>5
<1>8. FreeListDistinct'
  <2>1. \A i, j \in 1..c : free_blocks[i] = free_blocks[j] => i = j
    BY DEF BlockManagerInv, FreeListDistinct
  <2> SUFFICES ASSUME NEW i \in 1..c + Len(t), NEW j \in 1..c + Len(t),
                      free_blocks'[i] = free_blocks'[j]
               PROVE  i = j
    BY <1>3 DEF FreeListDistinct
  <2>2. CASE i \in 1..c /\ j \in 1..c
    BY <1>4, <2>1, <2>2
  <2>3. ASSUME NEW k \in 1..Len(t), i = c + k, j \in 1..c PROVE FALSE
    BY <1>4, <1>7, <2>3
  <2>4. ASSUME NEW k \in 1..Len(t), j = c + k, i \in 1..c PROVE FALSE
    BY <1>4, <1>7, <2>4
  <2>5. ASSUME NEW k \in 1..Len(t), NEW l \in 1..Len(t), i = c + k, j = c + l
        PROVE  i = j
    <3>1. t[k] = t[l]
      BY <1>4, <2>5
    <3> QED
      BY <1>7, <2>5, <3>1
  <2> HIDE DEF c, t
  <2> QED
    BY <1>6, <2>2, <2>3, <2>4, <2>5
<1>9. FreeBlocks' = FreeBlocks \cup Pool!Range(t)
  <2>1. FreeBlocks' = {free_blocks'[i] : i \in 1..c + Len(t)}
    BY <1>3 DEF FreeBlocks
  <2>2. Pool!Range(t) = {t[i] : i \in 1..Len(t)}
    BY <1>1 DEF Pool!Range
  <2>3. FreeBlocks = {free_blocks[i] : i \in 1..c}
    BY DEF FreeBlocks
  <2>4. /\ \A i \in 1..c : i \in 1..c + Len(t)
        /\ \A i \in 1..Len(t) : c + i \in 1..c + Len(t)
    BY <1>1
  <2> HIDE DEF c, t
  <2> QED
    BY <1>4, <1>6, <2>1, <2>2, <2>3, <2>4
<1>10. Pool!Release({s})
  <2>1. UNION {Pool!Range(blocks[u]) : u \in {s}} = Pool!Range(t)
    OBVIOUS
  <2>2. blocks' = [u \in AllSequences |-> IF u \in {s} THEN <<>> ELSE blocks[u]]
    BY <1>1, <1>3
  <2> QED
    BY <1>9, <2>1, <2>2 DEF Pool!Release
<1>11. free_block_count' \in 0..NumBlocks
  BY <1>1, <1>2, <1>3
<1> QED
  BY <1>3, <1>5, <1>8, <1>10, <1>11
\* Division by a positive number, for SMT: it stays in Nat and is monotone.
LEMMA Division ==
  \A x, y \in Nat : y > 0 => x \div y \in Nat /\ x \div y <= (x + 1) \div y
<1> TAKE x, y \in Nat
<1> HAVE y > 0
<1>1. x \div y \in Int /\ x % y \in 0..y - 1 /\ x = y * (x \div y) + (x % y)
  OBVIOUS
<1>2. /\ (x + 1) \div y \in Int /\ (x + 1) % y \in 0..y - 1
      /\ x + 1 = y * ((x + 1) \div y) + ((x + 1) % y)
  OBVIOUS
<1>3. CASE x \div y < 0
  <2>1. y * (x \div y) <= -y
    BY <1>1, <1>3
  <2> QED
    BY <1>1, <2>1
<1>4. ASSUME NEW p \in Int, NEW q \in Int, p < q PROVE y * p <= y * q - y
  <2>1. q = p + 1 + (q - p - 1) /\ q - p - 1 \in Nat
    BY <1>4
  <2>2. y * q = y * p + y + y * (q - p - 1)
    BY <1>4
  <2>3. y * (q - p - 1) >= 0
    BY <2>1
  <2> QED
    BY <2>2, <2>3
<1>5. CASE (x + 1) \div y < x \div y
  <2>1. y * ((x + 1) \div y) <= y * (x \div y) - y
    BY <1>1, <1>2, <1>4, <1>5
  <2>2. y * ((x + 1) \div y) \in Int /\ y * (x \div y) \in Int
    BY <1>1, <1>2
  <2> QED
    BY <1>1, <1>2, <2>1, <2>2
<1> QED
  BY <1>1, <1>2, <1>3, <1>5

\* The blocks a sequence lacks.
LEMMA NeedIsNat ==
  ASSUME TypeOK, NEW s \in AllSequences
  PROVE  /\ NumBlocksToAllocate(s) \in Nat
         /\ BlocksNeeded(num_tokens[s]) \in Nat
<1>1. num_tokens[s] \in Nat /\ BlockSize \in Nat \ {0} /\ Len(blocks[s]) \in Nat
  BY BlockManagerAssumption DEF TypeOK, VariableTypes
<1>2. num_tokens[s] + BlockSize - 1 \in Nat
  BY <1>1
<1>4. (num_tokens[s] + BlockSize - 1) \div BlockSize \in Nat
  BY <1>1, <1>2, Division
<1> QED
  BY <1>1, <1>4 DEF NumBlocksToAllocate, BlocksNeeded

\* What a step does to the pool: an allocation, a release, or nothing.
LEMMA PoolStep ==
  ASSUME BlockManagerInv, [Next]_vars
  PROVE  /\ \/ UNCHANGED allocator
            \/ \E s \in AllSequences, n \in Nat :
                 n <= free_block_count /\ Pool!Allocate(s, n)
            \/ \E s \in AllSequences : Pool!Release({s})
         /\ FreeListDistinct'
         /\ free_blocks' \in [1..NumBlocks -> BlockIds]
         /\ free_block_count' \in 0..NumBlocks
<1> DEFINE Goal == /\ \/ UNCHANGED allocator
                      \/ \E s \in AllSequences, n \in Nat :
                           n <= free_block_count /\ Pool!Allocate(s, n)
                      \/ \E s \in AllSequences : Pool!Release({s})
                   /\ FreeListDistinct'
                   /\ free_blocks' \in [1..NumBlocks -> BlockIds]
                   /\ free_block_count' \in 0..NumBlocks
<1> SUFFICES Goal
  OBVIOUS
<1>1. TypeOK /\ FreeListDistinct
  BY DEF BlockManagerInv
<1>2. ASSUME UNCHANGED allocator PROVE Goal
  BY <1>1, <1>2 DEF allocator, TypeOK, VariableTypes, FreeListDistinct
<1>3. ASSUME NEW s \in AllSequences, NEW n \in Nat, NEW next, Allocate(s, n, next)
      PROVE  Goal
  <2>1. CASE n <= free_block_count
    <3>1. /\ Pool!Allocate(s, n) /\ FreeListDistinct'
          /\ free_blocks' = free_blocks /\ free_block_count' = free_block_count - n
      BY <1>3, <2>1, AllocateStep
    <3>2. free_blocks' \in [1..NumBlocks -> BlockIds] /\ free_block_count' \in 0..NumBlocks
      BY <1>1, <2>1, <3>1, BlockManagerAssumption DEF TypeOK, VariableTypes
    <3> QED
      BY <2>1, <3>1, <3>2
  <2>2. CASE ~(n <= free_block_count)
    BY <1>2, <1>3, <2>2 DEF Allocate
  <2> QED
    BY <2>1, <2>2
<1>4. ASSUME NEW s \in AllSequences, NEW next, Release(s, next) PROVE Goal
  BY <1>4, ReleaseStep
<1> HIDE DEF Goal
<1>5. ASSUME NEW s \in AllSequences, AllocateSlotsForSequence(s) PROVE Goal
  BY <1>1, <1>2, <1>3, <1>5, NeedIsNat DEF AllocateSlotsForSequence
<1>6. ASSUME NEW s \in AllSequences, ReleaseSlotsForSequence(s) PROVE Goal
  BY <1>4, <1>6 DEF ReleaseSlotsForSequence
<1>7. ASSUME pc \in {"allocate", "release"} PROVE <<request, idx>> \in AllSequences
  <2>1. request \in Requests /\ idx \in 1..NumSeqs[request]
    BY <1>1, <1>7, BlockManagerAssumption DEF TypeOK, VariableTypes
  <2> QED
    BY <2>1, SequenceFacts
<1>8. CASE AllocateNext
  BY <1>1, <1>3, <1>7, <1>8, NeedIsNat DEF AllocateNext
<1>9. CASE ReleaseNext
  BY <1>4, <1>7, <1>9 DEF ReleaseNext
<1>10. ASSUME \/ \E s \in AllSequences : AppendNewTokenId(s) \/ SetCancelled(s)
              \/ \E r \in Requests : Call(r, "count") \/ Call(r, "release")
              \/ CountBlocks \/ AllCounted \/ UNCHANGED vars
       PROVE  Goal
  <2>1. UNCHANGED allocator
    BY <1>10 DEF AppendNewTokenId, SetCancelled, Call, CountBlocks, AllCounted,
       allocator, vars
  <2> QED
    BY <1>2, <2>1
<1> QED
  BY <1>5, <1>6, <1>8, <1>9, <1>10 DEF Next

\* The types without those of the allocator.
LEMMA ControlStep ==
  ASSUME BlockManagerInv, [Next]_vars
  PROVE  /\ num_tokens' \in [AllSequences -> Nat]
         /\ finished' \in [AllSequences -> BOOLEAN]
         /\ pc' \in {"idle", "count", "allocate", "release", "crashed"}
         /\ request' \in Requests \cup {NoRequest}
         /\ idx' \in Nat /\ num_additional_blocks' \in Nat
         /\ pc' \in {"count", "allocate", "release"} => request' \in Requests /\ idx' >= 1
         /\ pc' \in {"allocate", "release"} => idx' <= NumSeqs[request]'
<1> DEFINE Goal == /\ num_tokens' \in [AllSequences -> Nat]
                   /\ finished' \in [AllSequences -> BOOLEAN]
                   /\ pc' \in {"idle", "count", "allocate", "release", "crashed"}
                   /\ request' \in Requests \cup {NoRequest}
                   /\ idx' \in Nat /\ num_additional_blocks' \in Nat
                   /\ pc' \in {"count", "allocate", "release"} =>
                        request' \in Requests /\ idx' >= 1
                   /\ pc' \in {"allocate", "release"} => idx' <= NumSeqs[request]'
<1> SUFFICES Goal
  OBVIOUS
<1> USE DEF TypeOK, VariableTypes
<1>1. TypeOK /\ NumSeqs \in [Requests -> Nat \ {0}]
  BY BlockManagerAssumption DEF BlockManagerInv
<1>2. ASSUME NEW s \in AllSequences, AllocateSlotsForSequence(s) PROVE Goal
  <2>1. pc' \in {"idle", "crashed"}
        /\ UNCHANGED <<num_tokens, finished, request, idx, num_additional_blocks>>
    BY <1>2 DEF AllocateSlotsForSequence, Allocate
  <2> QED
    BY <1>1, <2>1
<1>3. ASSUME NEW s \in AllSequences, ReleaseSlotsForSequence(s) PROVE Goal
  <2>1. pc' \in {"idle", "crashed"}
        /\ UNCHANGED <<num_tokens, finished, request, idx, num_additional_blocks>>
    BY <1>3 DEF ReleaseSlotsForSequence, Release
  <2> QED
    BY <1>1, <2>1
<1>4. ASSUME NEW s \in AllSequences, AppendNewTokenId(s) PROVE Goal
  BY <1>1, <1>4 DEF AppendNewTokenId, locals
<1>5. ASSUME NEW s \in AllSequences, SetCancelled(s) PROVE Goal
  BY <1>1, <1>5 DEF SetCancelled, locals
<1>6. ASSUME NEW r \in Requests, NEW operation \in {"count", "release"}, Call(r, operation)
      PROVE  Goal
  BY <1>1, <1>6 DEF Call
<1>7. CASE CountBlocks
  <2>1. idx \in 1..NumSeqs[request] /\ request \in Requests
    BY <1>1, <1>7 DEF CountBlocks
  <2>2. NumBlocksToAllocate(<<request, idx>>) \in Nat
    BY <1>1, <2>1, SequenceFacts, NeedIsNat
  <2> QED
    BY <1>1, <1>7, <2>2 DEF CountBlocks
<1>8. CASE AllCounted
  <2>1. CASE pc' = "idle" /\ UNCHANGED idx
    BY <1>1, <1>8, <2>1 DEF AllCounted
  <2>2. CASE pc' = "allocate" /\ idx' = 1
    BY <1>1, <1>8, <2>2 DEF AllCounted
  <2> QED
    BY <1>8, <2>1, <2>2 DEF AllCounted
<1>9. CASE AllocateNext
  <2>1. /\ pc' \in {"crashed", IF idx = NumSeqs[request] THEN "idle" ELSE "allocate"}
        /\ idx' = idx + 1 /\ pc = "allocate"
        /\ UNCHANGED <<num_tokens, finished, request, num_additional_blocks>>
    BY <1>9 DEF AllocateNext, Allocate
  <2>2. CASE idx = NumSeqs[request]
    BY <1>1, <2>1, <2>2
  <2>3. CASE idx # NumSeqs[request]
    BY <1>1, <2>1, <2>3
  <2> QED
    BY <2>2, <2>3
<1>10. CASE ReleaseNext
  <2>1. /\ pc' \in {"crashed", IF idx = NumSeqs[request] THEN "idle" ELSE "release"}
        /\ idx' = idx + 1 /\ pc = "release"
        /\ UNCHANGED <<num_tokens, finished, request, num_additional_blocks>>
    BY <1>10 DEF ReleaseNext, Release
  <2>2. CASE idx = NumSeqs[request]
    BY <1>1, <2>1, <2>2
  <2>3. CASE idx # NumSeqs[request]
    BY <1>1, <2>1, <2>3
  <2> QED
    BY <2>2, <2>3
<1>11. CASE UNCHANGED vars
  BY <1>1, <1>11 DEF vars
<1> HIDE DEF Goal
<1> QED
  BY <1>2, <1>3, <1>4, <1>5, <1>6, <1>7, <1>8, <1>9, <1>10, <1>11 DEF Next

LEMMA InitInv == Init => BlockManagerInv /\ Pool!PoolInit
<1> SUFFICES ASSUME Init PROVE BlockManagerInv /\ Pool!PoolInit
  OBVIOUS
<1>1. NumBlocks \in Nat
  BY BlockManagerAssumption
<1>2. TypeOK
  BY <1>1 DEF Init, TypeOK, VariableTypes, BlockIds
<1>3. FreeListDistinct
  BY <1>1 DEF Init, FreeListDistinct
<1>4. FreeBlocks = BlockIds
  <2>1. \A i \in 1..NumBlocks : free_blocks[i] = NumBlocks - i
    BY DEF Init
  <2>2. FreeBlocks = {NumBlocks - i : i \in 1..NumBlocks}
    BY <2>1 DEF Init, FreeBlocks
  <2>3. \A b \in BlockIds : NumBlocks - b \in 1..NumBlocks /\ b = NumBlocks - (NumBlocks - b)
    BY <1>1 DEF BlockIds
  <2> QED
    BY <1>1, <2>2, <2>3 DEF BlockIds
<1>5. Pool!PoolInit
  BY <1>4 DEF Init, Pool!PoolInit
<1> QED
  BY <1>2, <1>3, <1>5, Pool!InitPartition DEF BlockManagerInv

LEMMA PoolTyped == BlockManagerInv => Pool!PoolType
  BY FreeCount DEF BlockManagerInv, Pool!PoolType, TypeOK, VariableTypes

LEMMA NextInv == BlockManagerInv /\ [Next]_vars => BlockManagerInv'
<1> SUFFICES ASSUME BlockManagerInv, [Next]_vars PROVE BlockManagerInv'
  OBVIOUS
<1>1. Pool!PoolType /\ Pool!BlocksPartition
  BY PoolTyped DEF BlockManagerInv
<1>2. Pool!PoolType' /\ Pool!BlocksPartition'
  <2>1. CASE UNCHANGED allocator
    <3>1. FreeBlocks' = FreeBlocks /\ blocks' = blocks
      BY <2>1 DEF FreeBlocks, allocator
    <3> QED
      BY <1>1, <3>1 DEF Pool!PoolType, Pool!BlocksPartition
  <2>2. ASSUME NEW s \in AllSequences, NEW n \in Nat, Pool!Allocate(s, n)
        PROVE  Pool!PoolType' /\ Pool!BlocksPartition'
    BY <1>1, <2>2, Pool!AllocateKeepsPartition
  <2>3. ASSUME NEW s \in AllSequences, Pool!Release({s})
        PROVE  Pool!PoolType' /\ Pool!BlocksPartition'
    BY <1>1, <2>3, Pool!ReleaseKeepsPartition
  <2> QED
    BY <2>1, <2>2, <2>3, PoolStep
<1>3. blocks' \in [AllSequences -> Seq(BlockIds)]
  BY <1>2 DEF Pool!PoolType
<1>4. TypeOK'
  BY <1>3, PoolStep, ControlStep DEF TypeOK, VariableTypes
<1> QED
  BY <1>2, <1>4, PoolStep DEF BlockManagerInv

\* The types hold and the free part of the vector never lists a block twice,
\* whatever is allocated, released and cancelled (BlockAllocator::free_blocks_).
THEOREM FreeListSound == Spec => [](TypeOK /\ FreeListDistinct)
<1>1. BlockManagerInv => TypeOK /\ FreeListDistinct
  BY DEF BlockManagerInv
<1> QED
  BY <1>1, InitInv, NextInv, PTL DEF Spec

\* The free-list vector implements the abstract pool: what allocate() pops was
\* free, and what free() pushes was held (BlockManager's four operations).
THEOREM BlockManagerImplementsPool == Spec => ImplementsPool
<1>1. BlockManagerInv /\ [Next]_vars => [Pool!PoolNext]_(Pool!poolVars)
  <2> SUFFICES ASSUME BlockManagerInv, [Next]_vars
               PROVE  [Pool!PoolNext]_(Pool!poolVars)
    OBVIOUS
  <2>1. CASE UNCHANGED allocator
    BY <2>1 DEF FreeBlocks, allocator, Pool!poolVars
  <2>2. ASSUME NEW s \in AllSequences, NEW n \in Nat,
               n <= free_block_count, Pool!Allocate(s, n)
        PROVE  Pool!PoolNext
    <3>1. Cardinality(FreeBlocks) = free_block_count /\ free_block_count \in Nat
      BY FreeCount, BlockManagerAssumption DEF BlockManagerInv, TypeOK, VariableTypes
    <3>2. n \in 0..Pool!Cardinality(FreeBlocks)
      BY <2>2, <3>1 DEF Pool!Cardinality, Cardinality
    <3> QED
      BY <2>2, <3>2 DEF Pool!PoolNext
  <2>3. ASSUME NEW s \in AllSequences, Pool!Release({s}) PROVE Pool!PoolNext
    BY <2>3 DEF Pool!PoolNext
  <2> QED
    BY <2>1, <2>2, <2>3, PoolStep
<1> QED
  BY <1>1, InitInv, NextInv, PTL DEF Spec, ImplementsPool, Pool!PoolSpec

\* The GCHECK of free() holds for every table that may come back: the free part
\* and one table together never have more entries than there are blocks.
THEOREM FreeNeverOverflows ==
  Spec => [](\A s \in AllSequences : free_block_count + Len(blocks[s]) <= NumBlocks)
<1>1. BlockManagerInv =>
        \A s \in AllSequences : free_block_count + Len(blocks[s]) <= NumBlocks
  BY ReturnFits
<1> QED
  BY <1>1, InitInv, NextInv, PTL DEF Spec

\* A table grows by exactly the blocks its sequence lacks, and tokens are never
\* taken away: no table is ever longer than the tokens need, so that the last
\* entry is the block of the last token (last_slot_id).
THEOREM TablesNeverTooLong == Spec => []NoSurplusBlocks
<1>1. Init => NoSurplusBlocks
  <2> SUFFICES ASSUME Init, NEW s \in AllSequences
               PROVE  Len(blocks[s]) <= BlocksNeeded(num_tokens[s])
    BY DEF NoSurplusBlocks
  <2>1. BlocksNeeded(num_tokens[s]) \in Nat /\ blocks[s] = <<>>
    BY InitInv, NeedIsNat DEF BlockManagerInv, Init
  <2> QED
    BY <2>1
<1>2. BlockManagerInv /\ NoSurplusBlocks /\ [Next]_vars => NoSurplusBlocks'
  <2> SUFFICES ASSUME BlockManagerInv, NoSurplusBlocks, [Next]_vars,
                      NEW s \in AllSequences
               PROVE  Len(blocks'[s]) <= BlocksNeeded(num_tokens'[s])
    BY DEF NoSurplusBlocks
  <2> DEFINE Goal == Len(blocks'[s]) <= BlocksNeeded(num_tokens'[s])
  <2> SUFFICES Goal
    OBVIOUS
  <2>1. TypeOK /\ Len(blocks[s]) <= BlocksNeeded(num_tokens[s])
    BY DEF BlockManagerInv, NoSurplusBlocks
  <2>2. ASSUME blocks' = blocks, num_tokens' = num_tokens PROVE Goal
    BY <2>1, <2>2
  <2>3. ASSUME NEW t \in AllSequences, NEW next, num_tokens' = num_tokens,
               Allocate(t, NumBlocksToAllocate(t), next)
        PROVE  Goal
    <3> DEFINE n == NumBlocksToAllocate(t)
    <3>1. n \in Nat /\ BlocksNeeded(num_tokens[t]) \in Nat
      BY <2>1, NeedIsNat
    <3>2. CASE n <= free_block_count
      <4>1. blocks' = [blocks EXCEPT ![t] = @ \o Take(n)]
        BY <2>3, <3>2 DEF Allocate
      <4>2. blocks \in [AllSequences -> Seq(BlockIds)]
        BY <2>1 DEF TypeOK, VariableTypes
      <4>3. CASE s # t
        BY <2>1, <2>3, <4>1, <4>2, <4>3
      <4>4. CASE s = t
        <5>1. Take(n) \in Seq(BlockIds) /\ Len(Take(n)) = n
          <6>1. \A i \in 1..n : free_block_count - i + 1 \in 1..NumBlocks
            BY <2>1, <3>1, <3>2, BlockManagerAssumption DEF TypeOK, VariableTypes
          <6>2. Take(n) \in [1..n -> BlockIds]
            BY <2>1, <6>1 DEF Take, TypeOK, VariableTypes
          <6> HIDE DEF n
          <6> QED
            BY <3>1, <6>2
        <5>2. blocks'[s] = blocks[s] \o Take(n) /\ blocks[s] \in Seq(BlockIds)
          BY <4>1, <4>2, <4>4
        <5>3. Len(blocks'[s]) = Len(blocks[s]) + n /\ Len(blocks[s]) \in Nat
          BY <5>1, <5>2
        <5>4. Len(blocks[s]) + n <= BlocksNeeded(num_tokens[s])
          BY <2>1, <3>1, <4>4, <5>3 DEF NumBlocksToAllocate
        <5> QED
          BY <2>3, <5>3, <5>4
      <4> QED
        BY <4>3, <4>4
    <3>3. CASE ~(n <= free_block_count)
      BY <2>2, <2>3, <3>3 DEF Allocate, allocator
    <3> QED
      BY <3>2, <3>3
  <2>4. ASSUME NEW t \in AllSequences, NEW next, num_tokens' = num_tokens,
               Release(t, next)
        PROVE  Goal
    <3>1. CASE blocks' = blocks
      BY <2>2, <2>4, <3>1
    <3>2. CASE blocks' = [blocks EXCEPT ![t] = <<>>]
      <4>1. blocks'[s] = <<>> \/ blocks'[s] = blocks[s]
        BY <2>1, <3>2 DEF TypeOK, VariableTypes
      <4>2. BlocksNeeded(num_tokens[s]) \in Nat
        BY <2>1, NeedIsNat
      <4> QED
        BY <2>1, <2>4, <4>1, <4>2
    <3> QED
      BY <2>4, <3>1, <3>2 DEF Release, allocator
  <2>5. ASSUME NEW t \in AllSequences, AppendNewTokenId(t) PROVE Goal
    <3>1. blocks' = blocks /\ num_tokens' = [num_tokens EXCEPT ![t] = @ + 1]
          /\ num_tokens \in [AllSequences -> Nat]
      BY <2>1, <2>5 DEF AppendNewTokenId, allocator, TypeOK, VariableTypes
    <3>2. CASE s # t
      BY <2>1, <3>1, <3>2
    <3>3. CASE s = t
      <4>1. BlockSize \in Nat /\ BlockSize > 0 /\ num_tokens[s] \in Nat
            /\ num_tokens[s] + BlockSize - 1 \in Nat
        BY <3>1, BlockManagerAssumption
      <4>2. num_tokens'[s] + BlockSize - 1 = (num_tokens[s] + BlockSize - 1) + 1
        BY <3>1, <3>3, <4>1
      <4>3. BlocksNeeded(num_tokens[s]) <= BlocksNeeded(num_tokens'[s])
        BY <4>1, <4>2, Division DEF BlocksNeeded
      <4>4. Len(blocks[s]) \in Nat /\ BlocksNeeded(num_tokens[s]) \in Nat
        BY <2>1, NeedIsNat DEF TypeOK, VariableTypes
      <4>5. BlocksNeeded(num_tokens'[s]) \in Int
        BY <4>1, <4>2 DEF BlocksNeeded
      <4> QED
        BY <2>1, <3>1, <4>3, <4>4, <4>5
    <3> QED
      BY <3>2, <3>3
  <2> HIDE DEF Goal
  <2>6. ASSUME pc \in {"allocate", "release"} PROVE <<request, idx>> \in AllSequences
    <3>1. request \in Requests /\ idx \in 1..NumSeqs[request]
      BY <2>1, <2>6, BlockManagerAssumption DEF TypeOK, VariableTypes
    <3> QED
      BY <3>1, SequenceFacts
  <2>7. ASSUME NEW t \in AllSequences, AllocateSlotsForSequence(t) PROVE Goal
    BY <2>2, <2>3, <2>7 DEF AllocateSlotsForSequence, allocator
  <2>8. ASSUME NEW t \in AllSequences, ReleaseSlotsForSequence(t) PROVE Goal
    BY <2>4, <2>8 DEF ReleaseSlotsForSequence
  <2>9. CASE AllocateNext
    BY <2>3, <2>6, <2>9 DEF AllocateNext
  <2>10. CASE ReleaseNext
    BY <2>4, <2>6, <2>10 DEF ReleaseNext
  <2>11. ASSUME \/ \E t \in AllSequences : SetCancelled(t)
                \/ \E r \in Requests : Call(r, "count") \/ Call(r, "release")
                \/ CountBlocks \/ AllCounted \/ UNCHANGED vars
         PROVE  Goal
    <3>1. blocks' = blocks /\ num_tokens' = num_tokens
      BY <2>11 DEF SetCancelled, Call, CountBlocks, AllCounted, allocator, vars
    <3> QED
      BY <2>2, <3>1
  <2> QED
    BY <2>5, <2>7, <2>8, <2>9, <2>10, <2>11 DEF Next
<1> QED
  BY <1>1, <1>2, InitInv, NextInv, PTL DEF Spec

\* What lies between the two loops of allocate_slots_for_request: the count at
\* its different moments bounds what the sequences lack now.  Needs may only
\* shrink in between, since sequences are cancelled and no token is appended.
Bounds(sums, first, last) ==
    \A j \in first..last :
       sums[j - 1] + NumBlocksToAllocate(<<request, j>>) <= sums[j]

\* Invariant of the first loop: num_additional_blocks is the last of growing
\* counts that cover the sequences before idx.
Counting ==
    pc = "count" =>
       /\ idx <= NumSeqs[request] + 1
       /\ \E sums \in [0..NumSeqs[request] -> 0..num_additional_blocks] :
            Bounds(sums, 1, idx - 1)

\* Invariant of the second loop: what was counted for the sequences from idx on
\* is still free.
Reserved ==
    pc = "allocate" =>
       \E sums \in [0..NumSeqs[request] -> 0..num_additional_blocks] :
          /\ Bounds(sums, idx, NumSeqs[request])
          /\ num_additional_blocks - sums[idx - 1] <= free_block_count

\* The sequences before idx have a slot for each token.
Served ==
    pc = "allocate" =>
       \A j \in 1..idx - 1 :
          \/ finished[<<request, j>>]
          \/ num_tokens[<<request, j>>] <= Len(blocks[<<request, j>>]) * BlockSize

AllocationInv == BlockManagerInv /\ AllocatorChecksHold /\ Counting /\ Reserved /\ Served

\* A table with the blocks that n tokens need has a slot for each of them.
LEMMA EnoughSlots ==
  ASSUME NEW n \in Nat, NEW k \in Nat, BlocksNeeded(n) <= k
  PROVE  n <= k * BlockSize
<1> DEFINE x == n + BlockSize - 1
           q == BlocksNeeded(n)
<1>1. BlockSize \in Nat /\ BlockSize > 0 /\ x \in Nat
  BY BlockManagerAssumption
<1>2. q \in Int /\ x % BlockSize \in 0..BlockSize - 1 /\ x = BlockSize * q + (x % BlockSize)
  BY <1>1 DEF BlocksNeeded
<1>3. BlockSize * q \in Int /\ n <= BlockSize * q
  BY <1>1, <1>2
<1>4. k - q \in Nat /\ k = q + (k - q)
  BY <1>2
<1> HIDE DEF q
<1>5. k * BlockSize = BlockSize * q + BlockSize * (k - q) /\ BlockSize * (k - q) \in Nat
  BY <1>1, <1>2, <1>4
<1> QED
  BY <1>3, <1>5

\* A sequence whose tokens and table stay lacks no more than before: at most it
\* is cancelled, and then lacks nothing.
LEMMA NeedShrinks ==
  ASSUME TypeOK, NEW s \in AllSequences,
         blocks'[s] = blocks[s], num_tokens'[s] = num_tokens[s], finished[s] => finished'[s]
  PROVE  NumBlocksToAllocate(s)' <= NumBlocksToAllocate(s) /\ NumBlocksToAllocate(s)' \in Nat
<1>1. NumBlocksToAllocate(s) \in Nat /\ BlocksNeeded(num_tokens[s]) \in Nat /\ Len(blocks[s]) \in Nat
  BY NeedIsNat DEF TypeOK, VariableTypes
<1>2. NumBlocksToAllocate(s)' \in {0, NumBlocksToAllocate(s)}
  BY DEF NumBlocksToAllocate
<1> QED
  BY <1>1, <1>2

\* So counts that bounded the needs still do.
LEMMA BoundsStay ==
  ASSUME TypeOK, request \in Requests, request' = request,
         NEW first \in Nat, first >= 1, NEW last \in Nat, last <= NumSeqs[request],
         NEW limit \in Nat, NEW sums \in [0..NumSeqs[request] -> 0..limit],
         \A j \in first..last :
            /\ blocks'[<<request, j>>] = blocks[<<request, j>>]
            /\ num_tokens'[<<request, j>>] = num_tokens[<<request, j>>]
            /\ finished[<<request, j>>] => finished'[<<request, j>>],
         Bounds(sums, first, last)
  PROVE  Bounds(sums, first, last)'
<1> SUFFICES ASSUME NEW j \in first..last
             PROVE  sums[j - 1] + NumBlocksToAllocate(<<request, j>>)' <= sums[j]
  BY DEF Bounds
<1>1. NumSeqs[request] \in Nat /\ j \in 1..NumSeqs[request]
  BY BlockManagerAssumption
<1>2. <<request, j>> \in AllSequences
  BY <1>1, SequenceFacts
<1>3. sums[j] \in Nat /\ sums[j - 1] \in Nat
  BY <1>1
<1>4. sums[j - 1] + NumBlocksToAllocate(<<request, j>>) <= sums[j]
  BY DEF Bounds
<1>5. NumBlocksToAllocate(<<request, j>>) \in Nat
  BY <1>2, NeedIsNat
<1>6. ASSUME NEW s \in AllSequences, s = <<request, j>>
      PROVE  NumBlocksToAllocate(s)' <= NumBlocksToAllocate(s) /\ NumBlocksToAllocate(s)' \in Nat
  BY <1>6, NeedShrinks
<1>7. /\ NumBlocksToAllocate(<<request, j>>)' <= NumBlocksToAllocate(<<request, j>>)
      /\ NumBlocksToAllocate(<<request, j>>)' \in Nat
  BY <1>2, <1>6
<1> QED
  BY <1>3, <1>4, <1>5, <1>7

\* The operations on one sequence and the loop that releases fail no check and
\* are not inside allocate_slots_for_request.
LEMMA OtherOperations ==
  ASSUME BlockManagerInv,
         \/ \E s \in AllSequences : \/ AllocateSlotsForSequence(s) \/ ReleaseSlotsForSequence(s)
                                    \/ AppendNewTokenId(s)
         \/ \E r \in Requests : Call(r, "release")
         \/ ReleaseNext
  PROVE  pc' \in {"idle", "release"}
<1>1. TypeOK
  BY DEF BlockManagerInv
<1>2. ASSUME NEW s \in AllSequences, AllocateSlotsForSequence(s) PROVE pc' = "idle"
  BY <1>2 DEF AllocateSlotsForSequence, Allocate
<1>3. ASSUME NEW s \in AllSequences, ReleaseSlotsForSequence(s) PROVE pc' = "idle"
  BY <1>3, ReleaseStep DEF ReleaseSlotsForSequence
<1>4. ASSUME NEW s \in AllSequences, AppendNewTokenId(s) PROVE pc' = "idle"
  BY <1>4 DEF AppendNewTokenId, locals
<1>5. CASE ReleaseNext
  <2>1. request \in Requests /\ idx \in 1..NumSeqs[request]
    BY <1>1, <1>5, BlockManagerAssumption DEF ReleaseNext, TypeOK, VariableTypes
  <2>2. <<request, idx>> \in AllSequences
    BY <2>1, SequenceFacts
  <2>3. pc' = IF idx = NumSeqs[request] THEN "idle" ELSE "release"
    BY <1>5, <2>2, ReleaseStep DEF ReleaseNext
  <2> QED
    BY <2>3
<1> QED
  BY <1>2, <1>3, <1>4, <1>5 DEF Call

\* A cancellation may come between any two steps of both loops.
LEMMA CancelStep ==
  ASSUME AllocationInv, (\E s \in AllSequences : SetCancelled(s)) \/ UNCHANGED vars
  PROVE  AllocatorChecksHold' /\ Counting' /\ Reserved' /\ Served'
<1>1. TypeOK /\ AllocatorChecksHold /\ Counting /\ Reserved /\ Served
  BY DEF AllocationInv, BlockManagerInv
<1>2. /\ UNCHANGED <<allocator, num_tokens, locals>>
      /\ \A s \in AllSequences : finished[s] => finished'[s]
  BY <1>1 DEF SetCancelled, vars, allocator, locals, TypeOK, VariableTypes
<1>3. /\ blocks' = blocks /\ free_block_count' = free_block_count
      /\ num_tokens' = num_tokens /\ pc' = pc /\ request' = request /\ idx' = idx
      /\ num_additional_blocks' = num_additional_blocks
  BY <1>2 DEF allocator, locals
<1>4. ASSUME pc \in {"count", "allocate"}
      PROVE  /\ request \in Requests /\ idx \in Nat /\ idx >= 1 /\ NumSeqs[request] \in Nat
             /\ num_additional_blocks \in Nat
             /\ \A j \in 1..NumSeqs[request] : <<request, j>> \in AllSequences
  BY <1>1, <1>4, BlockManagerAssumption, SequenceFacts DEF TypeOK, VariableTypes
<1>5. ASSUME pc \in {"count", "allocate"}, NEW first \in Nat, first >= 1,
             NEW last \in Nat, last <= NumSeqs[request],
             NEW sums \in [0..NumSeqs[request] -> 0..num_additional_blocks],
             Bounds(sums, first, last)
      PROVE  Bounds(sums, first, last)'
  <2>1. \A j \in first..last : <<request, j>> \in AllSequences
    BY <1>4, <1>5
  <2> QED
    BY <1>1, <1>2, <1>3, <1>4, <1>5, <2>1, BoundsStay
<1>6. Counting'
  <2> SUFFICES ASSUME pc = "count"
               PROVE  /\ idx <= NumSeqs[request] + 1
                      /\ \E sums \in [0..NumSeqs[request] -> 0..num_additional_blocks] :
                           Bounds(sums, 1, idx - 1)'
    BY <1>3 DEF Counting, Bounds
  <2>1. PICK sums \in [0..NumSeqs[request] -> 0..num_additional_blocks] : Bounds(sums, 1, idx - 1)
    BY <1>1 DEF Counting
  <2>2. idx <= NumSeqs[request] + 1 /\ idx - 1 \in Nat /\ idx - 1 <= NumSeqs[request]
    BY <1>1, <1>4 DEF Counting
  <2>3. ASSUME NEW last \in Nat, last = idx - 1 PROVE Bounds(sums, 1, last)'
    BY <1>5, <2>1, <2>2, <2>3
  <2>4. Bounds(sums, 1, idx - 1)'
    BY <1>3, <2>2, <2>3 DEF Bounds
  <2> QED
    BY <2>2, <2>4
<1>7. Reserved'
  <2> SUFFICES ASSUME pc = "allocate"
               PROVE  \E sums \in [0..NumSeqs[request] -> 0..num_additional_blocks] :
                        /\ Bounds(sums, idx, NumSeqs[request])'
                        /\ num_additional_blocks - sums[idx - 1] <= free_block_count
    BY <1>3 DEF Reserved, Bounds
  <2>1. PICK sums \in [0..NumSeqs[request] -> 0..num_additional_blocks] :
               /\ Bounds(sums, idx, NumSeqs[request])
               /\ num_additional_blocks - sums[idx - 1] <= free_block_count
    BY <1>1 DEF Reserved
  <2>2. ASSUME NEW first \in Nat, first = idx, NEW last \in Nat, last = NumSeqs[request]
        PROVE  Bounds(sums, first, last)'
    BY <1>4, <1>5, <2>1, <2>2
  <2>3. Bounds(sums, idx, NumSeqs[request])'
    BY <1>3, <1>4, <2>2 DEF Bounds
  <2> QED
    BY <2>1, <2>3
<1>8. Served'
  <2> SUFFICES ASSUME pc = "allocate", NEW j \in 1..idx - 1, ~finished'[<<request, j>>]
               PROVE  num_tokens[<<request, j>>] <= Len(blocks[<<request, j>>]) * BlockSize
    BY <1>3 DEF Served
  <2>1. <<request, j>> \in AllSequences
    <3>1. idx <= NumSeqs[request]
      BY <1>1 DEF TypeOK
    <3> QED
      BY <1>4, <3>1
  <2> QED
    BY <1>1, <1>2, <2>1 DEF Served
<1> QED
  BY <1>1, <1>3, <1>6, <1>7, <1>8 DEF AllocatorChecksHold

\* One more sequence is counted: the new count is the next of the bounds.
LEMMA CountStep ==
  ASSUME AllocationInv, CountBlocks
  PROVE  AllocatorChecksHold' /\ Counting' /\ Reserved' /\ Served'
<1> DEFINE n == NumSeqs[request]
           need == NumBlocksToAllocate(<<request, idx>>)
<1>1. /\ TypeOK /\ Counting /\ pc = "count" /\ pc' = "count"
      /\ blocks' = blocks /\ num_tokens' = num_tokens /\ finished' = finished
      /\ request' = request /\ idx' = idx + 1
      /\ num_additional_blocks' = num_additional_blocks + need
  BY DEF AllocationInv, BlockManagerInv, CountBlocks, allocator
<1>2. /\ request \in Requests /\ n \in Nat /\ idx \in 1..n
      /\ num_additional_blocks \in Nat
  BY <1>1, BlockManagerAssumption DEF TypeOK, VariableTypes, CountBlocks
<1>3. need \in Nat
  BY <1>1, <1>2, SequenceFacts, NeedIsNat
<1>4. PICK sums \in [0..n -> 0..num_additional_blocks] : Bounds(sums, 1, idx - 1)
  BY <1>1 DEF Counting
<1> DEFINE more == [sums EXCEPT ![idx] = num_additional_blocks + need]
<1> HIDE DEF need
<1>5. more \in [0..n -> 0..num_additional_blocks + need]
  BY <1>2, <1>3
<1>6. ASSUME NEW j \in 1..idx
      PROVE  more[j - 1] + NumBlocksToAllocate(<<request, j>>) <= more[j]
  <2>1. j \in 0..n /\ j - 1 \in 0..n /\ j - 1 # idx
    BY <1>2
  <2>2. sums[j - 1] \in 0..num_additional_blocks /\ more[j - 1] = sums[j - 1]
    BY <2>1
  <2>3. CASE j = idx
    BY <1>2, <1>3, <2>1, <2>2, <2>3 DEF need
  <2>4. CASE j # idx
    <3>1. j \in 1..idx - 1 /\ more[j] = sums[j]
      BY <1>2, <2>1, <2>4
    <3> QED
      BY <1>4, <2>2, <3>1 DEF Bounds
  <2> QED
    BY <2>3, <2>4
<1> HIDE DEF more
<1>7. PICK counts \in [0..n -> 0..num_additional_blocks + need] : counts = more
  BY <1>5
<1>8. Bounds(counts, 1, idx - 1)'
  <2>1. idx' - 1 = idx
    BY <1>1, <1>2
  <2> SUFFICES ASSUME NEW j \in 1..idx
               PROVE  counts[j - 1] + NumBlocksToAllocate(<<request, j>>)' <= counts[j]
    BY <2>1 DEF Bounds
  <2>2. NumBlocksToAllocate(<<request, j>>)' = NumBlocksToAllocate(<<request, j>>)
    BY <1>1 DEF NumBlocksToAllocate
  <2> QED
    BY <1>6, <1>7, <2>2
<1>9. Counting'
  <2>1. idx' <= NumSeqs[request]' + 1
    BY <1>1, <1>2
  <2>2. counts \in [0..NumSeqs[request]' -> 0..num_additional_blocks']
    BY <1>1, <1>7
  <2> QED
    BY <1>8, <2>1, <2>2 DEF Counting
<1> QED
  BY <1>1, <1>9 DEF AllocatorChecksHold, Reserved, Served

\* The second loop begins: all sequences are covered and the count is free.
LEMMA AllCountedStep ==
  ASSUME AllocationInv, AllCounted
  PROVE  AllocatorChecksHold' /\ Counting' /\ Reserved' /\ Served'
<1>1. /\ TypeOK /\ Counting /\ pc = "count"
      /\ blocks' = blocks /\ num_tokens' = num_tokens /\ finished' = finished
      /\ request' = request /\ num_additional_blocks' = num_additional_blocks
      /\ free_block_count' = free_block_count
  BY DEF AllocationInv, BlockManagerInv, AllCounted, allocator
<1>2. CASE pc' = "idle"
  BY <1>2 DEF AllocatorChecksHold, Counting, Reserved, Served
<1>3. CASE pc' # "idle"
  <2>1. /\ pc' = "allocate" /\ idx' = 1 /\ idx > NumSeqs[request]
        /\ ~(num_additional_blocks > free_block_count)
    BY <1>3 DEF AllCounted
  <2>2. /\ request \in Requests /\ NumSeqs[request] \in Nat /\ idx \in Nat
        /\ num_additional_blocks \in Nat /\ free_block_count \in Nat
    BY <1>1, BlockManagerAssumption DEF TypeOK, VariableTypes
  <2>3. idx - 1 = NumSeqs[request]
    BY <1>1, <2>1, <2>2 DEF Counting
  <2>4. PICK sums \in [0..NumSeqs[request] -> 0..num_additional_blocks] : Bounds(sums, 1, idx - 1)
    BY <1>1 DEF Counting
  <2>5. Bounds(sums, idx, NumSeqs[request])'
    BY <1>1, <2>1, <2>3, <2>4 DEF Bounds, NumBlocksToAllocate
  <2>6. sums[0] \in 0..num_additional_blocks
    BY <2>2
  <2>7. num_additional_blocks' - sums[idx' - 1] <= free_block_count'
    <3>1. idx' - 1 = 0
      BY <2>1
    <3> QED
      BY <1>1, <2>1, <2>2, <2>6, <3>1
  <2>8. sums \in [0..NumSeqs[request]' -> 0..num_additional_blocks']
    BY <1>1
  <2>9. Reserved'
    BY <2>5, <2>7, <2>8 DEF Reserved
  <2> QED
    BY <2>1, <2>9 DEF AllocatorChecksHold, Counting, Served
<1> QED
  BY <1>2, <1>3

\* One sequence gets what it lacks: no more than was counted for it, so that
\* allocate() finds enough and the others find theirs.
LEMMA AllocateNextStep ==
  ASSUME AllocationInv, AllocateNext
  PROVE  /\ AllocatorChecksHold' /\ Counting' /\ Reserved' /\ Served'
         /\ pc' = "idle" => \A s \in SequencesOf(request) :
                               finished'[s] \/ num_tokens'[s] <= Len(blocks'[s]) * BlockSize
<1> DEFINE n == NumSeqs[request]
           s == <<request, idx>>
           need == NumBlocksToAllocate(s)
           next == IF idx = n THEN "idle" ELSE "allocate"
           limit == num_additional_blocks
           Slots(j) == \/ finished[<<request, j>>]
                       \/ num_tokens[<<request, j>>] <= Len(blocks[<<request, j>>]) * BlockSize
<1>1. /\ BlockManagerInv /\ TypeOK /\ Reserved /\ Served /\ pc = "allocate"
      /\ Allocate(s, need, next)
      /\ num_tokens' = num_tokens /\ finished' = finished
      /\ request' = request /\ idx' = idx + 1
      /\ num_additional_blocks' = limit
  BY DEF AllocationInv, BlockManagerInv, AllocateNext
<1>2. /\ request \in Requests /\ n \in Nat /\ idx \in 1..n
      /\ limit \in Nat /\ free_block_count \in Nat
      /\ blocks \in [AllSequences -> Seq(BlockIds)] /\ num_tokens \in [AllSequences -> Nat]
  BY <1>1, BlockManagerAssumption DEF TypeOK, VariableTypes
<1>3. /\ s \in AllSequences
      /\ \A j \in 1..n : <<request, j>> \in AllSequences
  BY <1>2, SequenceFacts
<1>4. need \in Nat /\ BlocksNeeded(num_tokens[s]) \in Nat /\ Len(blocks[s]) \in Nat
  BY <1>1, <1>2, <1>3, NeedIsNat
<1>5. PICK sums \in [0..n -> 0..limit] :
             Bounds(sums, idx, n) /\ limit - sums[idx - 1] <= free_block_count
  BY <1>1 DEF Reserved
<1>6. /\ sums[idx - 1] \in 0..limit /\ sums[idx] \in 0..limit
      /\ sums[idx - 1] + need <= sums[idx]
  <2>1. idx - 1 \in 0..n /\ idx \in 0..n /\ idx \in idx..n
    BY <1>2
  <2> QED
    BY <1>5, <2>1 DEF Bounds
<1> HIDE DEF need
<1>7. need <= free_block_count
  BY <1>2, <1>4, <1>5, <1>6
<1>8. /\ blocks' = [blocks EXCEPT ![s] = @ \o Take(need)]
      /\ free_block_count' = free_block_count - need
      /\ pc' = next
  BY <1>1, <1>7 DEF Allocate
<1>9. Take(need) \in Seq(BlockIds) /\ Len(Take(need)) = need
  <2>1. \A i \in 1..need : free_block_count - i + 1 \in 1..NumBlocks
    BY <1>1, <1>4, <1>7, BlockManagerAssumption DEF TypeOK, VariableTypes
  <2>2. Take(need) \in [1..need -> BlockIds]
    BY <1>1, <2>1 DEF Take, TypeOK, VariableTypes
  <2> QED
    BY <1>4, <2>2
<1>10. \A j \in 1..n : j # idx => blocks'[<<request, j>>] = blocks[<<request, j>>]
  BY <1>2, <1>3, <1>8
<1>11. Len(blocks'[s]) = Len(blocks[s]) + need
  <2>1. blocks'[s] = blocks[s] \o Take(need) /\ blocks[s] \in Seq(BlockIds)
    BY <1>2, <1>3, <1>8
  <2>2. \A a, b \in Seq(BlockIds) : Len(a \o b) = Len(a) + Len(b)
    OBVIOUS
  <2> QED
    BY <1>9, <2>1, <2>2
<1>12. finished'[s] \/ num_tokens'[s] <= Len(blocks'[s]) * BlockSize
  <2>1. finished[s] \/ BlocksNeeded(num_tokens[s]) <= Len(blocks[s]) + need
    BY <1>4 DEF need, NumBlocksToAllocate
  <2>2. num_tokens[s] \in Nat /\ Len(blocks[s]) + need \in Nat
    BY <1>2, <1>3, <1>4
  <2>3. finished[s] \/ num_tokens[s] <= (Len(blocks[s]) + need) * BlockSize
    BY <2>1, <2>2, EnoughSlots
  <2> QED
    BY <1>1, <1>11, <2>3
<1>13. \A j \in 1..idx : \/ finished'[<<request, j>>]
                         \/ num_tokens'[<<request, j>>] <= Len(blocks'[<<request, j>>]) * BlockSize
  <2> TAKE j \in 1..idx
  <2>1. CASE j = idx
    BY <1>12, <2>1
  <2>2. CASE j # idx
    <3>1. j \in 1..idx - 1 /\ j \in 1..n
      BY <1>2, <2>2
    <3> QED
      BY <1>1, <1>10, <2>2, <3>1 DEF Served
  <2> QED
    BY <2>1, <2>2
<1>14. CASE idx = n
  <2>1. pc' = "idle"
    BY <1>8, <1>14
  <2>2. \A t \in SequencesOf(request) :
           finished'[t] \/ num_tokens'[t] <= Len(blocks'[t]) * BlockSize
    BY <1>13, <1>14 DEF SequencesOf
  <2> QED
    BY <2>1, <2>2 DEF AllocatorChecksHold, Counting, Reserved, Served
<1>15. CASE idx # n
  <2>1. pc' = "allocate" /\ idx' \in 2..n /\ idx' - 1 = idx
    BY <1>1, <1>2, <1>8, <1>15
  <2>2. ASSUME NEW first \in Nat, first = idx + 1, NEW last \in Nat, last = n
        PROVE  Bounds(sums, first, last)'
    <3>1. \A j \in first..last :
             /\ j \in 1..n /\ j # idx /\ j \in idx..n
             /\ blocks'[<<request, j>>] = blocks[<<request, j>>]
      BY <1>2, <1>10, <2>2
    <3>2. Bounds(sums, first, last)
      BY <1>5, <3>1 DEF Bounds
    <3> QED
      BY <1>1, <1>2, <2>2, <3>1, <3>2, BoundsStay
  <2>3. Bounds(sums, idx, NumSeqs[request])'
    BY <1>1, <1>2, <2>2 DEF Bounds
  <2>4. limit - sums[idx] <= free_block_count'
    BY <1>2, <1>4, <1>5, <1>6, <1>8
  <2>5. Reserved'
    BY <1>1, <2>1, <2>3, <2>4 DEF Reserved
  <2>6. Served'
    BY <1>1, <1>13, <2>1 DEF Served
  <2> QED
    BY <2>1, <2>5, <2>6 DEF AllocatorChecksHold, Counting
<1> QED
  BY <1>14, <1>15

LEMMA NextAllocation == AllocationInv /\ [Next]_vars => AllocationInv'
<1> SUFFICES ASSUME AllocationInv, [Next]_vars PROVE AllocationInv'
  OBVIOUS
<1> DEFINE Goal == AllocatorChecksHold' /\ Counting' /\ Reserved' /\ Served'
<1>1. BlockManagerInv'
  BY NextInv DEF AllocationInv
<1>2. ASSUME (\E s \in AllSequences : SetCancelled(s)) \/ UNCHANGED vars PROVE Goal
  BY <1>2, CancelStep
<1>3. ASSUME pc' \in {"idle", "release"} PROVE Goal
  BY <1>3 DEF AllocatorChecksHold, Counting, Reserved, Served
<1>4. ASSUME NEW r \in Requests, Call(r, "count") PROVE Goal
  <2>1. pc' = "count" /\ request' = r /\ idx' = 1 /\ num_additional_blocks' = 0
    BY <1>4 DEF Call
  <2>2. PICK sums \in [0..NumSeqs[r] -> 0..0] : sums = [j \in 0..NumSeqs[r] |-> 0]
    <3>1. 0 \in 0..0
      OBVIOUS
    <3>2. [j \in 0..NumSeqs[r] |-> 0] \in [0..NumSeqs[r] -> 0..0]
      BY <3>1
    <3> QED
      BY <3>2
  <2>3. NumSeqs[r] \in Nat
    BY BlockManagerAssumption
  <2>4. Bounds(sums, 1, idx - 1)'
    BY <2>1 DEF Bounds
  <2>5. Counting'
    BY <2>1, <2>2, <2>3, <2>4 DEF Counting
  <2> QED
    BY <2>1, <2>5 DEF AllocatorChecksHold, Reserved, Served
<1>5. Goal
  <2>1. BlockManagerInv
    BY DEF AllocationInv
  <2> HIDE DEF Goal
  <2>2. CASE CountBlocks \/ AllCounted \/ AllocateNext
    BY <2>2, CountStep, AllCountedStep, AllocateNextStep DEF Goal
  <2> QED
    BY <1>2, <1>3, <1>4, <2>1, <2>2, OtherOperations DEF Next
<1> QED
  BY <1>1, <1>5 DEF AllocationInv

LEMMA InitAllocation == Init => AllocationInv
<1>1. Init => AllocatorChecksHold /\ Counting /\ Reserved /\ Served
  BY DEF Init, AllocatorChecksHold, Counting, Reserved, Served
<1> QED
  BY <1>1, InitInv DEF AllocationInv

\* Neither GCHECK of the allocator ever fails, for any number of sequences and
\* with cancellations between counting and allocating: what was counted stays
\* free, because needs only shrink and each sequence takes no more than was
\* counted for it; what comes back fits (BlockAllocator::allocate and free).
THEOREM AllocatorNeverAborts == Spec => []AllocatorChecksHold
<1>1. AllocationInv => AllocatorChecksHold
  BY DEF AllocationInv
<1> QED
  BY <1>1, InitAllocation, NextAllocation, PTL DEF Spec

\* allocate_slots_for_request serves every sequence of the request that is not
\* finished, or none: no loop ends with a token without a slot.
THEOREM WholeRequestServed == Spec => RequestFullyServed
<1> DEFINE Done == pc = "allocate" /\ pc' = "idle" =>
                      \A s \in SequencesOf(request) :
                         finished'[s] \/ num_tokens'[s] <= Len(blocks'[s]) * BlockSize
<1>1. AllocationInv /\ [Next]_vars => [Done]_vars
  <2> SUFFICES ASSUME AllocationInv, Next, pc = "allocate", pc' = "idle" PROVE Done
    OBVIOUS
  <2>1. AllocateNext
    <3>1. ~ \E s \in AllSequences : \/ AllocateSlotsForSequence(s) \/ ReleaseSlotsForSequence(s)
                                    \/ AppendNewTokenId(s) \/ SetCancelled(s)
      BY DEF AllocateSlotsForSequence, ReleaseSlotsForSequence, AppendNewTokenId, SetCancelled,
         locals
    <3>2. ~(CountBlocks \/ AllCounted \/ ReleaseNext \/ \E r \in Requests :
                                                           Call(r, "count") \/ Call(r, "release"))
      BY DEF CountBlocks, AllCounted, ReleaseNext, Call
    <3> QED
      BY <3>1, <3>2 DEF Next
  <2> QED
    BY <2>1, AllocateNextStep
<1> QED
  BY <1>1, InitAllocation, NextAllocation, PTL DEF Spec, RequestFullyServed

\* The types, and the loops over the sequences of a request stay inside them.
THEOREM TypeCorrect == Spec => []TypeOK
<1>1. BlockManagerInv => TypeOK
  BY DEF BlockManagerInv
<1> QED
  BY <1>1, InitInv, NextInv, PTL DEF Spec
=============================================================================
