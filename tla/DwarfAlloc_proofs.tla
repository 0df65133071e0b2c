------------------------- MODULE DwarfAlloc_proofs --------------------------
(***************************************************************************)
(* Theorems about the chunk allocator, for any heap, any types and any     *)
(* number of structs in a chunk: its types, its inductive invariant and    *)
(* what follows from it, and that it implements the pool of structs.       *)
(***************************************************************************)
EXTENDS DwarfAllocPool, FiniteSetTheorems, TLAPS

-------------------------------------------------------------------------------
(* Types.                                                                  *)

(* A function stays in its type when one value, or the values on a set, are  *)
(* replaced by values of the type: every pointer and count update.         *)
LEMMA UpdateOne ==
  ASSUME NEW S, NEW T, NEW f \in [S -> T], NEW x, NEW v, x \in S => v \in T
  PROVE  [f EXCEPT ![x] = v] \in [S -> T]
  OBVIOUS

LEMMA UpdateSet ==
  ASSUME NEW S, NEW T, NEW U, NEW f \in [S -> T], NEW v \in T
  PROVE  [x \in S |-> IF x \in U THEN v ELSE f[x]] \in [S -> T]
  OBVIOUS

LEMMA Decrement ==
  ASSUME NEW S, NEW f \in [S -> Int], NEW x
  PROVE  [f EXCEPT ![x] = @ - 1] \in [S -> Int]
<1> DEFINE v == f[x] - 1
<1>1. x \in S => v \in Int
  OBVIOUS
<1> HIDE DEF v
<1>2. [f EXCEPT ![x] = v] \in [S -> Int]
  BY <1>1, UpdateOne, Zenon
<1> QED
  BY <1>2 DEF v

(* An empty free list is a free list.                                      *)
LEMMA EmptyIsFreeList == <<>> \in Seq(Slots)
  BY DEF Slots

(* The types after dwarf_init().                                            *)
LEMMA TypeInit ==
  ASSUME Init
  PROVE  TypeOK
<1> USE AllocAssumption DEF Owners, Slots, Structs, headers, areas, users
<1> USE DEF Init, NoPointer, NoCount
<1>1. HeaderTypes BY DEF HeaderTypes
<1>2. LinkTypes BY DEF LinkTypes
<1>3. SpaceTypes BY DEF SpaceTypes
<1>4. UserTypes BY DEF UserTypes
<1> QED BY <1>1, <1>2, <1>3, <1>4 DEF TypeOK

(* No operation writes a link, a count or a free list entry of the wrong    *)
(* kind.                                                                   *)
LEMMA TypeStep ==
  ASSUME TypeOK, [Next]_vars
  PROVE  TypeOK'
<1> USE AllocAssumption DEF Owners, Slots, Structs, headers, areas, users
<1>1. HeaderTypes /\ LinkTypes /\ SpaceTypes /\ UserTypes
  BY DEF TypeOK
<1>2. CASE Open
  <2> USE <1>1, <1>2 DEF Open, ZeroHeaders, NoPointer, NoCount
  <2>1. HeaderTypes' BY DEF HeaderTypes, LinkTypes, SpaceTypes, UserTypes
  <2>2. LinkTypes' BY DEF HeaderTypes, LinkTypes, SpaceTypes, UserTypes
  <2>3. SpaceTypes' BY DEF HeaderTypes, LinkTypes, SpaceTypes, UserTypes
  <2>4. UserTypes' BY DEF HeaderTypes, LinkTypes, SpaceTypes, UserTypes
  <2> QED BY <2>1, <2>2, <2>3, <2>4 DEF TypeOK
<1>3. CASE Finish
  <2> DEFINE freed == UNION {Chain(ah_alloc_area_head[t]) : t \in Types}
             Reset(f, v) == [b \in Blocks |-> IF b \in freed THEN v ELSE f[b]]
  <2>1. HeaderTypes'
    BY <1>3 DEF Finish, ZeroHeaders, NoPointer, NoCount, HeaderTypes
  <2>2. LinkTypes'
    <3>1. aa_next' = Reset(aa_next, Null) /\ aa_prev' = Reset(aa_prev, Null)
      BY <1>3 DEF Finish
    <3> QED BY <1>1, <3>1 DEF LinkTypes
  <2>3. SpaceTypes'
    <3>1. /\ aa_free_structs_in_chunk' = Reset(aa_free_structs_in_chunk, 0)
          /\ aa_free_list' = Reset(aa_free_list, <<>>)
          /\ aa_blob_start' = Reset(aa_blob_start, 1)
      BY <1>3 DEF Finish
    <3> HIDE DEF freed
    <3>2. aa_free_structs_in_chunk' \in [Blocks -> Int]
      BY <1>1, <3>1 DEF SpaceTypes
    <3>3. aa_free_list' \in [Blocks -> Seq(Slots)]
      BY <1>1, <3>1, EmptyIsFreeList, UpdateSet, Zenon DEF SpaceTypes
    <3>4. aa_blob_start' \in [Blocks -> Slots]
      BY <1>1, <3>1 DEF SpaceTypes
    <3> QED BY <3>2, <3>3, <3>4 DEF SpaceTypes
  <2>4. UserTypes'
    BY <1>1, <1>3 DEF Finish, UserTypes
  <2> QED BY <2>1, <2>2, <2>3, <2>4 DEF TypeOK
<1>4. ASSUME NEW t \in Types, GetFromFreeList(t) PROVE TypeOK'
  <2>1. PICK a \in Blocks :
          /\ aa_free_list[a] # <<>>
          /\ HandOut(t, <<a, Head(aa_free_list[a])>>)
          /\ aa_free_list' = [aa_free_list EXCEPT ![a] = RestOfFreeList(a)]
          /\ aa_free_structs_in_chunk' =
               [aa_free_structs_in_chunk EXCEPT ![a] = @ - 1]
          /\ Count(t, a)
    <3>1. Found(t) \subseteq Blocks
      BY <1>1 DEF Found, LastHasFree, FirstFit, Chain, HeaderTypes
    <3> QED BY <1>4, <3>1 DEF GetFromFreeList
  <2>2. /\ RestOfFreeList(a) \in Seq(Slots)
        /\ Head(aa_free_list[a]) \in Slots
    BY <1>1, <2>1 DEF SpaceTypes, RestOfFreeList
  <2>3. UNCHANGED <<status, heap, ah_alloc_area_head, ah_chunks_allocated,
                    aa_next, aa_prev, aa_blob_start>>
    BY <1>4 DEF GetFromFreeList
  <2>4. HeaderTypes'
    BY <1>1, <2>1, <2>3 DEF HeaderTypes, Count
  <2>5. SpaceTypes'
    BY <1>1, <2>1, <2>2, <2>3 DEF SpaceTypes
  <2>6. LinkTypes' /\ UserTypes'
    BY <1>1, <2>1, <2>2, <2>3 DEF LinkTypes, UserTypes, HandOut
  <2> QED BY <2>4, <2>5, <2>6 DEF TypeOK
<1>5. ASSUME NEW t \in Types, GetFromBlob(t) PROVE TypeOK'
  <2> USE <1>1, <1>5 DEF GetFromBlob, Found, LastHasFree, FirstFit, Chain, HandOut, Count
  <2>1. HeaderTypes' BY DEF HeaderTypes, LinkTypes, SpaceTypes, UserTypes
  <2>2. LinkTypes' BY DEF HeaderTypes, LinkTypes, SpaceTypes, UserTypes
  <2>3. SpaceTypes' BY DEF HeaderTypes, LinkTypes, SpaceTypes, UserTypes
  <2>4. UserTypes' BY DEF HeaderTypes, LinkTypes, SpaceTypes, UserTypes
  <2> QED BY <2>1, <2>2, <2>3, <2>4 DEF TypeOK
<1>6. ASSUME NEW t \in Types, GetFromNewChunk(t) PROVE TypeOK'
  <2> USE <1>1, <1>6 DEF GetFromNewChunk, PushHead, HandOut, Count, FreeInNewChunk
  <2>1. HeaderTypes' BY DEF HeaderTypes, LinkTypes, SpaceTypes, UserTypes
  <2>2. LinkTypes' BY DEF HeaderTypes, LinkTypes, SpaceTypes, UserTypes
  <2>3. SpaceTypes' BY DEF HeaderTypes, LinkTypes, SpaceTypes, UserTypes
  <2>4. UserTypes' BY DEF HeaderTypes, LinkTypes, SpaceTypes, UserTypes
  <2> QED BY <2>1, <2>2, <2>3, <2>4 DEF TypeOK
<1>7. ASSUME NEW t \in Types, GetFails(t) PROVE TypeOK'
  <2> USE <1>1, <1>7 DEF GetFails
  <2>1. HeaderTypes' BY DEF HeaderTypes, LinkTypes, SpaceTypes, UserTypes
  <2>2. LinkTypes' BY DEF HeaderTypes, LinkTypes, SpaceTypes, UserTypes
  <2>3. SpaceTypes' BY DEF HeaderTypes, LinkTypes, SpaceTypes, UserTypes
  <2>4. UserTypes' BY DEF HeaderTypes, LinkTypes, SpaceTypes, UserTypes
  <2> QED BY <2>1, <2>2, <2>3, <2>4 DEF TypeOK
<1>8. ASSUME NEW s \in live, DeallocToFreeList(s) PROVE TypeOK'
  <2>1. /\ s[1] \in Blocks /\ s[2] \in Slots
        /\ s \in Structs
    BY <1>1, <1>8 DEF UserTypes
  <2>2. <<s[2]>> \o aa_free_list[s[1]] \in Seq(Slots)
    BY <1>1, <2>1 DEF SpaceTypes
  <2>3. HeaderTypes'
    <3>1. ah_struct_user_holds' =
            [ah_struct_user_holds EXCEPT ![heap[s[1]]] = @ - 1]
      BY <1>8 DEF DeallocToFreeList, Dealloc
    <3>2. UNCHANGED <<ah_alloc_area_head, ah_last_alloc_area, ah_chunks_allocated>>
      BY <1>8 DEF DeallocToFreeList
    <3>3. ah_struct_user_holds' \in [Types -> Int]
      BY <1>1, <3>1, Decrement DEF HeaderTypes
    <3> QED BY <1>1, <3>2, <3>3 DEF HeaderTypes
  <2>4. SpaceTypes'
    <3>1. /\ aa_free_structs_in_chunk' =
               [aa_free_structs_in_chunk EXCEPT ![s[1]] = @ + 1]
          /\ aa_free_list' = [aa_free_list EXCEPT ![s[1]] = <<s[2]>> \o @]
          /\ UNCHANGED aa_blob_start
      BY <1>8 DEF DeallocToFreeList
    <3>2. aa_free_list' =
            [aa_free_list EXCEPT ![s[1]] = <<s[2]>> \o aa_free_list[s[1]]]
      BY <3>1
    <3>3. aa_free_structs_in_chunk' \in [Blocks -> Int]
      BY <1>1, <2>1, <3>1 DEF SpaceTypes
    <3>4. aa_free_list' \in [Blocks -> Seq(Slots)]
      BY <1>1, <2>1, <2>2, <3>2 DEF SpaceTypes
    <3> QED BY <1>1, <3>1, <3>3, <3>4 DEF SpaceTypes
  <2>5. LinkTypes' /\ UserTypes'
    BY <1>1, <1>8 DEF DeallocToFreeList, Dealloc, LinkTypes, UserTypes
  <2> QED BY <2>3, <2>4, <2>5 DEF TypeOK
<1>9. ASSUME NEW s \in live, DeallocChunk(s) PROVE TypeOK'
  <2> DEFINE a == s[1]
             u == heap[a]
  <2>1. a \in Blocks /\ u \in Owners /\ s \in Structs
    BY <1>1, <1>9 DEF UserTypes
  <2>2. aa_next[a] \in Blocks \cup {Null} /\ aa_prev[a] \in Blocks \cup {Null}
    BY <1>1, <2>1 DEF LinkTypes
  <2>3. /\ Dealloc(s) /\ Unlink(u, a)
        /\ ah_chunks_allocated' = [ah_chunks_allocated EXCEPT ![u] = @ - 1]
        /\ ah_last_alloc_area' =
             [ah_last_alloc_area EXCEPT ![u] = LastWithout(u, a)]
        /\ heap' = [heap EXCEPT ![a] = Unused]
        /\ aa_free_structs_in_chunk' = [aa_free_structs_in_chunk EXCEPT ![a] = 0]
        /\ aa_free_list' = [aa_free_list EXCEPT ![a] = <<>>]
        /\ aa_blob_start' = [aa_blob_start EXCEPT ![a] = 1]
    BY <1>9 DEF DeallocChunk
  <2> HIDE DEF a, u
  <2>4. HeaderTypes'
    <3>1. ah_struct_user_holds' \in [Types -> Int]
      <4>1. ah_struct_user_holds' =
              [ah_struct_user_holds EXCEPT ![u] = @ - 1]
        BY <2>3 DEF Dealloc, u, a
      <4> QED BY <1>1, <4>1, Decrement DEF HeaderTypes
    <3>2. ah_chunks_allocated' \in [Types -> Int]
      BY <1>1, <2>3, Decrement DEF HeaderTypes
    <3>3. ah_last_alloc_area' \in [Types -> Blocks \cup {Null}]
      BY <1>1, <2>3 DEF HeaderTypes, LastWithout
    <3>4. ah_alloc_area_head' \in [Types -> Blocks \cup {Null}]
      BY <1>1, <2>2, <2>3 DEF HeaderTypes, Unlink
    <3> QED BY <3>1, <3>2, <3>3, <3>4 DEF HeaderTypes
  <2>5. LinkTypes'
    BY <1>1, <2>2, <2>3 DEF LinkTypes, Unlink
  <2>6. SpaceTypes'
    <3> 1 \in Slots /\ 0 \in Int
      OBVIOUS
    <3>1. aa_free_structs_in_chunk' \in [Blocks -> Int]
      BY <1>1, <2>3, UpdateOne, Zenon DEF SpaceTypes
    <3>2. aa_free_list' \in [Blocks -> Seq(Slots)]
      BY <1>1, <2>3, EmptyIsFreeList, UpdateOne, Zenon DEF SpaceTypes
    <3>3. aa_blob_start' \in [Blocks -> Slots]
      BY <1>1, <2>3, UpdateOne, Zenon DEF SpaceTypes
    <3> QED BY <3>1, <3>2, <3>3 DEF SpaceTypes
  <2>7. UserTypes'
    BY <1>1, <2>1, <2>3 DEF UserTypes, Dealloc
  <2> QED BY <2>4, <2>5, <2>6, <2>7 DEF TypeOK
<1>10. ASSUME NEW s \in live, NEW t \in Types, DeallocWrongType(s, t)
      PROVE TypeOK'
  <2> USE <1>1, <1>10 DEF DeallocWrongType
  <2>1. HeaderTypes' BY DEF HeaderTypes, LinkTypes, SpaceTypes, UserTypes
  <2>2. LinkTypes' BY DEF HeaderTypes, LinkTypes, SpaceTypes, UserTypes
  <2>3. SpaceTypes' BY DEF HeaderTypes, LinkTypes, SpaceTypes, UserTypes
  <2>4. UserTypes' BY DEF HeaderTypes, LinkTypes, SpaceTypes, UserTypes
  <2> QED BY <2>1, <2>2, <2>3, <2>4 DEF TypeOK
<1>11. ASSUME NEW b \in Blocks,
              GetDirect(b) \/ GetSpecialError(b) \/ DeallocDirect(b)
       PROVE TypeOK'
  <2> USE <1>1, <1>11 DEF GetDirect, GetSpecialError, DeallocDirect
  <2>1. HeaderTypes' BY DEF HeaderTypes, LinkTypes, SpaceTypes, UserTypes
  <2>2. LinkTypes' BY DEF HeaderTypes, LinkTypes, SpaceTypes, UserTypes
  <2>3. SpaceTypes' BY DEF HeaderTypes, LinkTypes, SpaceTypes, UserTypes
  <2>4. UserTypes' BY DEF HeaderTypes, LinkTypes, SpaceTypes, UserTypes
  <2> QED BY <2>1, <2>2, <2>3, <2>4 DEF TypeOK
<1>12. CASE UNCHANGED vars
  BY <1>1, <1>12 DEF vars, TypeOK, HeaderTypes, LinkTypes, SpaceTypes, UserTypes
<1> QED
  BY <1>2, <1>3, <1>4, <1>5, <1>6, <1>7, <1>8, <1>9, <1>10, <1>11,
     <1>12 DEF Next

(* The allocator's variables keep their types: no operation writes a link,   *)
(* a count or a free list entry of the wrong kind.                         *)
THEOREM TypeCorrect == Spec => []TypeOK
<1> QED
  BY TypeInit, TypeStep, PTL DEF Spec

-------------------------------------------------------------------------------
(* The invariant.                                                          *)

(* Who has each slot of a block, slot by slot: Partition says it of sets.   *)
IsFree(b, k) == \E i \in DOMAIN aa_free_list[b] : aa_free_list[b][i] = k

SlotInv ==
  /\ \A b \in Blocks : \A i, j \in DOMAIN aa_free_list[b] :
       aa_free_list[b][i] = aa_free_list[b][j] => i = j
  /\ \A b \in Blocks : \A k \in Slots : IsFree(b, k) => k < aa_blob_start[b]
  /\ \A b \in Blocks : \A k \in Slots :
       <<b, k>> \in live \cup lost <=> k < aa_blob_start[b] /\ ~IsFree(b, k)
  /\ live \cap lost = {}

(* The counter of a chunk, and what it is for a block that is no chunk.     *)
ChunkInv ==
  \A b \in Blocks :
    IF heap[b] \in Types
    THEN /\ aa_free_structs_in_chunk[b] =
              Len(aa_free_list[b]) + (BlobEnd(b) + 1 - aa_blob_start[b])
         /\ aa_blob_start[b] <= BlobEnd(b) + 1
    ELSE aa_blob_start[b] = 1 /\ aa_free_structs_in_chunk[b] = 0

(* The links of a list are inverse to each other and stay in one type.      *)
LinkInv ==
  /\ \A t \in Types : ah_alloc_area_head[t] # Null =>
       /\ heap[ah_alloc_area_head[t]] = t
       /\ aa_prev[ah_alloc_area_head[t]] = Null
  /\ \A b \in Blocks : aa_next[b] # Null =>
       heap[b] \in Types /\ heap[aa_next[b]] = heap[b] /\ aa_prev[aa_next[b]] = b
  /\ \A b \in Blocks : aa_prev[b] # Null =>
       heap[b] \in Types /\ heap[aa_prev[b]] = heap[b] /\ aa_next[aa_prev[b]] = b
  /\ \A b \in Blocks : heap[b] \in Types /\ aa_prev[b] = Null =>
       ah_alloc_area_head[heap[b]] = b

(* Every chunk is reached from the head of its type.                        *)
OnList == \A b \in Blocks : heap[b] \in Types => b \in Chain(ah_alloc_area_head[heap[b]])

IInv == /\ TypeOK /\ SlotInv /\ ChunkInv /\ LinkInv /\ OnList
        /\ LastNotDangling /\ FinishFreesChunks

-------------------------------------------------------------------------------
(* Sequences and counting.                                                 *)

(* A free list of k - 2 distinct slots below k, none of them x, has all the  *)
(* slots below k but x: then the struct at x is the last one out.           *)
LEMMA AllButOne ==
  ASSUME NEW q \in Seq(Slots), NEW k \in Slots, NEW x \in Slots,
         \A i, j \in DOMAIN q : q[i] = q[j] => i = j,
         \A i \in DOMAIN q : q[i] < k /\ q[i] # x,
         x < k, Len(q) = k - 2
  PROVE  \A y \in Slots : y < k /\ y # x => \E i \in DOMAIN q : q[i] = y
<1> DEFINE R == {q[i] : i \in 1..Len(q)}
           D == (1..(k - 1)) \ {x}
<1>1. /\ k \in Nat /\ x \in Nat /\ k - 1 \in Int /\ 1 \in Int /\ k >= 2
      /\ Len(q) \in Nat /\ DOMAIN q = 1..Len(q)
      /\ \A i \in 1..Len(q) : q[i] \in Nat /\ q[i] >= 1 /\ q[i] <= k - 1 /\ q[i] # x
  BY DEF Slots
<1>2. IsFiniteSet(R) /\ Cardinality(R) = k - 2
  <2>1. q \in Bijection(1..Len(q), R)
    BY <1>1 DEF Bijection, Injection, Surjection, IsInjective
  <2>2. ExistsBijection(1..Len(q), R)
    BY <2>1 DEF ExistsBijection
  <2>3. /\ IsFiniteSet(1..Len(q))
        /\ Cardinality(1..Len(q)) = IF 1 > Len(q) THEN 0 ELSE Len(q) - 1 + 1
    <3>1. Len(q) \in Int BY <1>1
    <3> QED BY <1>1, <3>1, FS_Interval, Zenon
  <2>4. Cardinality(1..Len(q)) = k - 2
    BY <1>1, <2>3
  <2> QED BY <2>2, <2>3, <2>4, FS_Bijection, Zenon
<1>3. IsFiniteSet(D) /\ Cardinality(D) = k - 2
  <2>1. /\ IsFiniteSet(1..(k - 1))
        /\ Cardinality(1..(k - 1)) = IF 1 > k - 1 THEN 0 ELSE (k - 1) - 1 + 1
    BY <1>1, FS_Interval, Zenon
  <2>2. Cardinality(1..(k - 1)) = k - 1 /\ x \in 1..(k - 1)
    BY <1>1, <2>1 DEF Slots
  <2>3. IsFiniteSet(D) /\ Cardinality(D) = Cardinality(1..(k - 1)) - 1
    BY <2>1, <2>2, FS_RemoveElement, Zenon
  <2> QED BY <1>1, <2>2, <2>3
<1>4. R \in SUBSET D
  <2> SUFFICES ASSUME NEW i \in 1..Len(q) PROVE q[i] \in D
    BY Zenon
  <2> QED BY <1>1
<1>5. D = R
  BY <1>2, <1>3, <1>4, FS_Subset, Zenon
<1>6. ASSUME NEW y \in Slots, y < k, y # x
      PROVE  \E i \in DOMAIN q : q[i] = y
  <2>1. y \in D
    BY <1>1, <1>6 DEF Slots
  <2>2. y \in R
    BY <1>5, <2>1
  <2> QED BY <1>1, <2>2, Zenon
<1> QED
  BY <1>6

(* What a pop and a push do to a free list.                                *)
LEMMA PopFront ==
  ASSUME NEW q \in Seq(Slots), q # <<>>
  PROVE  /\ Tail(q) \in Seq(Slots) /\ Head(q) \in Slots
         /\ Len(Tail(q)) = Len(q) - 1 /\ Len(q) \in Nat
         /\ DOMAIN q = 1..Len(q) /\ DOMAIN Tail(q) = 1..(Len(q) - 1)
         /\ 1 \in DOMAIN q /\ Head(q) = q[1]
         /\ \A i \in DOMAIN Tail(q) : i + 1 \in DOMAIN q /\ Tail(q)[i] = q[i + 1]
  OBVIOUS

LEMMA PushFront ==
  ASSUME NEW q \in Seq(Slots), NEW x \in Slots
  PROVE  LET r == <<x>> \o q
         IN /\ r \in Seq(Slots)
            /\ Len(r) = Len(q) + 1 /\ Len(q) \in Nat
            /\ DOMAIN q = 1..Len(q) /\ DOMAIN r = 1..(Len(q) + 1)
            /\ r[1] = x
            /\ \A i \in DOMAIN q : r[i + 1] = q[i]
  OBVIOUS

-------------------------------------------------------------------------------
(* Slots and counters: one lemma per operation.                            *)

(* The chunk a search finds is a chunk, and has a free struct.              *)
LEMMA FoundIsChunk ==
  ASSUME TypeOK, ChunkInv, NEW t \in Types, NEW a \in Found(t)
  PROVE  a \in Blocks /\ heap[a] \in Types /\ aa_free_structs_in_chunk[a] # 0
<1>1. a \in Blocks /\ HasFree(a)
  BY DEF Found, LastHasFree, FirstFit, Chain, TypeOK, HeaderTypes
<1> QED
  BY <1>1 DEF HasFree, ChunkInv

(* An operation that changes one block leaves the invariant to be shown for  *)
(* that block only.                                                        *)
LEMMA SlotFrame ==
  ASSUME SlotInv, NEW a \in Blocks,
         \A b \in Blocks : b # a =>
           /\ aa_free_list'[b] = aa_free_list[b]
           /\ aa_blob_start'[b] = aa_blob_start[b]
           /\ \A k \in Slots : <<b, k>> \in (live \cup lost)' <=> <<b, k>> \in live \cup lost,
         \A i, j \in DOMAIN aa_free_list'[a] :
           aa_free_list'[a][i] = aa_free_list'[a][j] => i = j,
         \A k \in Slots : IsFree(a, k)' => k < aa_blob_start'[a],
         \A k \in Slots :
           <<a, k>> \in (live \cup lost)' <=> k < aa_blob_start'[a] /\ ~IsFree(a, k)',
         (live \cap lost)' = {}
  PROVE  SlotInv'
<1>1. \A b \in Blocks : b # a => \A k \in Slots : IsFree(b, k)' <=> IsFree(b, k)
  BY DEF IsFree
<1>2. \A b \in Blocks : \A i, j \in DOMAIN aa_free_list'[b] :
         aa_free_list'[b][i] = aa_free_list'[b][j] => i = j
  BY DEF SlotInv
<1>3. \A b \in Blocks : \A k \in Slots : IsFree(b, k)' => k < aa_blob_start'[b]
  BY <1>1 DEF SlotInv
<1>4. ASSUME NEW b \in Blocks, NEW k \in Slots
      PROVE  <<b, k>> \in (live \cup lost)' <=> k < aa_blob_start'[b] /\ ~IsFree(b, k)'
  <2>1. CASE b = a
    BY <2>1
  <2>2. CASE b # a
    <3>1. <<b, k>> \in live \cup lost <=> k < aa_blob_start[b] /\ ~IsFree(b, k)
      BY Zenon DEF SlotInv
    <3>2. /\ aa_blob_start'[b] = aa_blob_start[b]
          /\ <<b, k>> \in (live \cup lost)' <=> <<b, k>> \in live \cup lost
          /\ IsFree(b, k)' <=> IsFree(b, k)
      BY <1>1, <2>2, Zenon
    <3> QED BY <3>1, <3>2, Zenon
  <2> QED BY <2>1, <2>2
<1> QED
  BY <1>2, <1>3, <1>4 DEF SlotInv

LEMMA ChunkFrame ==
  ASSUME ChunkInv, NEW a \in Blocks,
         \A b \in Blocks : b # a =>
           /\ heap'[b] = heap[b] /\ aa_free_list'[b] = aa_free_list[b]
           /\ aa_blob_start'[b] = aa_blob_start[b]
           /\ aa_free_structs_in_chunk'[b] = aa_free_structs_in_chunk[b],
         IF heap'[a] \in Types
         THEN /\ aa_free_structs_in_chunk'[a] =
                   Len(aa_free_list'[a])
                   + (ah_structs_per_chunk[heap'[a]] + 1 - aa_blob_start'[a])
              /\ aa_blob_start'[a] <= ah_structs_per_chunk[heap'[a]] + 1
         ELSE aa_blob_start'[a] = 1 /\ aa_free_structs_in_chunk'[a] = 0
  PROVE  ChunkInv'
<1> SUFFICES ASSUME NEW b \in Blocks
             PROVE  IF heap'[b] \in Types
                    THEN /\ aa_free_structs_in_chunk'[b] =
                              Len(aa_free_list'[b]) + (BlobEnd(b)' + 1 - aa_blob_start'[b])
                         /\ aa_blob_start'[b] <= BlobEnd(b)' + 1
                    ELSE aa_blob_start'[b] = 1 /\ aa_free_structs_in_chunk'[b] = 0
  BY DEF ChunkInv
<1>1. CASE b = a
  BY <1>1 DEF BlobEnd
<1>2. CASE b # a
  BY <1>2 DEF BlobEnd, ChunkInv
<1> QED
  BY <1>1, <1>2

LEMMA PopSlots ==
  ASSUME TypeOK, SlotInv, ChunkInv, NEW t \in Types, GetFromFreeList(t)
  PROVE  SlotInv' /\ ChunkInv'
<1>1. PICK a \in Found(t) :
        /\ aa_free_list[a] # <<>>
        /\ HandOut(t, <<a, Head(aa_free_list[a])>>)
        /\ aa_free_list' = [aa_free_list EXCEPT ![a] = RestOfFreeList(a)]
        /\ aa_free_structs_in_chunk' =
             [aa_free_structs_in_chunk EXCEPT ![a] = @ - 1]
  BY DEF GetFromFreeList
<1>2. UNCHANGED <<heap, aa_blob_start>>
  BY DEF GetFromFreeList
<1>3. a \in Blocks /\ heap[a] \in Types
  BY <1>1, FoundIsChunk
<1> DEFINE q == aa_free_list[a]
           h == Head(q)
<1>4. /\ q \in Seq(Slots) /\ q # <<>>
      /\ aa_free_list'[a] = Tail(q)
      /\ \A b \in Blocks : b # a => aa_free_list'[b] = aa_free_list[b]
      /\ aa_free_structs_in_chunk'[a] = aa_free_structs_in_chunk[a] - 1
      /\ \A b \in Blocks : b # a =>
           aa_free_structs_in_chunk'[b] = aa_free_structs_in_chunk[b]
  BY <1>1, <1>3 DEF TypeOK, SpaceTypes, RestOfFreeList
<1>5. (live \cup lost)' = (live \cup lost) \cup {<<a, h>>}
      /\ (<<a, h>> \notin live \cup lost => (live \cap lost)' = live \cap lost)
  BY <1>1 DEF HandOut
<1>6. /\ Tail(q) \in Seq(Slots) /\ h \in Slots
      /\ Len(Tail(q)) = Len(q) - 1 /\ Len(q) \in Nat
      /\ DOMAIN q = 1..Len(q) /\ DOMAIN Tail(q) = 1..(Len(q) - 1)
      /\ 1 \in DOMAIN q /\ h = q[1]
      /\ \A i \in DOMAIN Tail(q) : i + 1 \in DOMAIN q /\ Tail(q)[i] = q[i + 1]
  BY <1>4, PopFront
<1> HIDE DEF q, h
<1>7. q = aa_free_list[a] BY DEF q
<1>8. ASSUME NEW i \in DOMAIN Tail(q) PROVE i \in Nat /\ i >= 1 /\ Tail(q)[i] # h
  BY <1>3, <1>6, <1>7 DEF SlotInv
<1>9. \A k \in Slots : IsFree(a, k)' <=> IsFree(a, k) /\ k # h
  <2>1. ASSUME NEW k \in Slots, NEW i \in DOMAIN q, q[i] = k, k # h
        PROVE  \E j \in DOMAIN Tail(q) : Tail(q)[j] = k
    <3>1. i # 1 /\ i - 1 \in DOMAIN Tail(q)
      BY <1>6, <2>1
    <3>2. Tail(q)[i - 1] = q[i]
      BY <1>6, <3>1
    <3> QED BY <2>1, <3>1, <3>2
  <2> QED BY <1>4, <1>6, <1>7, <1>8, <2>1 DEF IsFree
<1>10. IsFree(a, h)
  BY <1>6, <1>7 DEF IsFree
<1>11. <<a, h>> \notin live \cup lost
  BY <1>3, <1>6, <1>10 DEF SlotInv
<1>12. \A i, j \in DOMAIN aa_free_list'[a] :
         aa_free_list'[a][i] = aa_free_list'[a][j] => i = j
  <2>1. ASSUME NEW i \in DOMAIN Tail(q), NEW j \in DOMAIN Tail(q),
               Tail(q)[i] = Tail(q)[j]
        PROVE  i = j
    <3>1. i + 1 = j + 1
      BY <1>3, <1>6, <1>7, <2>1 DEF SlotInv
    <3> QED BY <1>6, <3>1
  <2> QED BY <1>4, <2>1
<1>13. \A k \in Slots : IsFree(a, k)' => k < aa_blob_start'[a]
  BY <1>2, <1>3, <1>9 DEF SlotInv
<1>14. \A k \in Slots :
         <<a, k>> \in (live \cup lost)' <=> k < aa_blob_start'[a] /\ ~IsFree(a, k)'
  <2> SUFFICES ASSUME NEW k \in Slots
               PROVE  <<a, k>> \in (live \cup lost)' <=>
                        k < aa_blob_start'[a] /\ ~IsFree(a, k)'
    OBVIOUS
  <2>1. <<a, k>> \in live \cup lost <=> k < aa_blob_start[a] /\ ~IsFree(a, k)
    BY <1>3 DEF SlotInv
  <2>2. <<a, k>> \in (live \cup lost)' <=> <<a, k>> \in live \cup lost \/ k = h
    BY <1>5
  <2>3. k = h => k < aa_blob_start[a]
    BY <1>3, <1>10 DEF SlotInv
  <2>4. aa_blob_start'[a] = aa_blob_start[a] /\ (IsFree(a, k)' <=> IsFree(a, k) /\ k # h)
    BY <1>2, <1>9
  <2> QED BY <2>1, <2>2, <2>3, <2>4
<1>15. \A b \in Blocks : b # a =>
         /\ aa_free_list'[b] = aa_free_list[b]
         /\ aa_blob_start'[b] = aa_blob_start[b]
         /\ \A k \in Slots : <<b, k>> \in (live \cup lost)' <=> <<b, k>> \in live \cup lost
  BY <1>2, <1>4, <1>5
<1>16. (live \cap lost)' = {}
  BY <1>5, <1>11 DEF SlotInv
<1>17. SlotInv'
  BY <1>3, <1>12, <1>13, <1>14, <1>15, <1>16, SlotFrame
<1>18. ChunkInv'
  <2>1. aa_blob_start[a] \in Int /\ BlobEnd(a) \in Int
    BY <1>3, AllocAssumption DEF TypeOK, SpaceTypes, BlobEnd, Slots
  <2>2. /\ aa_free_structs_in_chunk[a] = Len(q) + (BlobEnd(a) + 1 - aa_blob_start[a])
        /\ aa_blob_start[a] <= BlobEnd(a) + 1
    BY <1>3, <1>7 DEF ChunkInv
  <2>3. aa_free_structs_in_chunk'[a] = Len(Tail(q)) + (BlobEnd(a) + 1 - aa_blob_start[a])
    BY <1>4, <1>6, <2>1, <2>2
  <2> QED
    BY <1>2, <1>3, <1>4, <2>2, <2>3, ChunkFrame DEF BlobEnd
<1> QED
  BY <1>17, <1>18

LEMMA BlobSlots ==
  ASSUME TypeOK, SlotInv, ChunkInv, NEW t \in Types, GetFromBlob(t)
  PROVE  SlotInv' /\ ChunkInv'
<1>1. PICK a \in Found(t) :
        /\ aa_free_list[a] = <<>>
        /\ aa_blob_start[a] <= BlobEnd(a)
        /\ HandOut(t, <<a, aa_blob_start[a]>>)
        /\ aa_blob_start' = [aa_blob_start EXCEPT ![a] = @ + 1]
        /\ aa_free_structs_in_chunk' =
             [aa_free_structs_in_chunk EXCEPT ![a] = @ - 1]
  BY DEF GetFromBlob
<1>2. UNCHANGED <<heap, aa_free_list>>
  BY DEF GetFromBlob
<1>3. a \in Blocks /\ heap[a] \in Types
  BY <1>1, FoundIsChunk
<1> DEFINE n == aa_blob_start[a]
<1>4. /\ n \in Nat /\ n >= 1 /\ n \in Slots
      /\ aa_blob_start'[a] = n + 1
      /\ aa_free_structs_in_chunk'[a] = aa_free_structs_in_chunk[a] - 1
      /\ BlobEnd(a) \in Int
  BY <1>1, <1>3, AllocAssumption DEF TypeOK, SpaceTypes, Slots, BlobEnd
<1>5. /\ (live \cup lost)' = (live \cup lost) \cup {<<a, n>>}
      /\ <<a, n>> \notin live \cup lost => (live \cap lost)' = live \cap lost
  BY <1>1 DEF HandOut
<1>6. \A b \in Blocks : b # a =>
        /\ heap'[b] = heap[b] /\ aa_free_list'[b] = aa_free_list[b]
        /\ aa_blob_start'[b] = aa_blob_start[b]
        /\ aa_free_structs_in_chunk'[b] = aa_free_structs_in_chunk[b]
        /\ \A k \in Slots : <<b, k>> \in (live \cup lost)' <=> <<b, k>> \in live \cup lost
  BY <1>1, <1>2, <1>5 DEF TypeOK, SpaceTypes
<1>7. \A k \in Slots : ~IsFree(a, k) /\ ~IsFree(a, k)'
  BY <1>1, <1>2 DEF IsFree
<1> HIDE DEF n
<1>8. n = aa_blob_start[a] BY DEF n
<1>9. <<a, n>> \notin live \cup lost
  BY <1>3, <1>4, <1>8 DEF SlotInv
<1>10. \A k \in Slots :
         <<a, k>> \in (live \cup lost)' <=> k < aa_blob_start'[a] /\ ~IsFree(a, k)'
  <2> SUFFICES ASSUME NEW k \in Slots
               PROVE  <<a, k>> \in (live \cup lost)' <=> k < n + 1
    BY <1>4, <1>7
  <2>1. <<a, k>> \in live \cup lost <=> k < n
    BY <1>3, <1>7, <1>8 DEF SlotInv
  <2>2. <<a, k>> \in (live \cup lost)' <=> <<a, k>> \in live \cup lost \/ k = n
    BY <1>5
  <2> QED BY <1>4, <2>1, <2>2 DEF Slots
<1>11. SlotInv'
  <2>1. (live \cap lost)' = {}
    BY <1>5, <1>9 DEF SlotInv
  <2>2. \A i, j \in DOMAIN aa_free_list'[a] :
          aa_free_list'[a][i] = aa_free_list'[a][j] => i = j
    BY <1>2, <1>3 DEF SlotInv
  <2>3. \A k \in Slots : IsFree(a, k)' => k < aa_blob_start'[a]
    BY <1>7
  <2> QED BY <1>3, <1>6, <1>10, <2>1, <2>2, <2>3, SlotFrame
<1>12. ChunkInv'
  <2>1. /\ aa_free_structs_in_chunk[a] = BlobEnd(a) + 1 - n
        /\ Len(aa_free_list'[a]) = 0
    BY <1>1, <1>2, <1>3, <1>4, <1>8 DEF ChunkInv
  <2>2. aa_free_structs_in_chunk'[a] = 0 + (BlobEnd(a) + 1 - aa_blob_start'[a])
    BY <1>4, <2>1
  <2>3. aa_blob_start'[a] <= BlobEnd(a) + 1
    BY <1>1, <1>4, <1>8
  <2> QED
    BY <1>2, <1>3, <1>6, <2>1, <2>2, <2>3, ChunkFrame DEF BlobEnd
<1> QED
  BY <1>11, <1>12

(* A block that is no chunk has no struct out.                             *)
LEMMA NothingOut ==
  ASSUME TypeOK, SlotInv, ChunkInv, NEW b \in Blocks, heap[b] \notin Types
  PROVE  /\ \A k \in Slots : <<b, k>> \notin live \cup lost /\ ~IsFree(b, k)
         /\ \A s \in live \cup lost : s[1] # b
<1>1. aa_blob_start[b] = 1
  BY DEF ChunkInv
<1>2. \A k \in Slots : ~(k < 1)
  BY DEF Slots
<1>3. \A k \in Slots : <<b, k>> \notin live \cup lost /\ ~IsFree(b, k)
  BY <1>1, <1>2 DEF SlotInv
<1>4. ASSUME NEW s \in live \cup lost PROVE s[1] # b
  <2>1. s = <<s[1], s[2]>> /\ s[2] \in Slots
    BY DEF TypeOK, UserTypes, Structs
  <2> QED BY <1>3, <2>1
<1> QED
  BY <1>3, <1>4

LEMMA NewChunkSlots ==
  ASSUME TypeOK, SlotInv, ChunkInv, NEW t \in Types, GetFromNewChunk(t)
  PROVE  SlotInv' /\ ChunkInv'
<1>1. PICK a \in Blocks :
        /\ heap[a] = Unused
        /\ heap' = [heap EXCEPT ![a] = t]
        /\ aa_free_list' = [aa_free_list EXCEPT ![a] = <<>>]
        /\ aa_free_structs_in_chunk' =
             [aa_free_structs_in_chunk EXCEPT ![a] = FreeInNewChunk(t)]
        /\ aa_blob_start' = [aa_blob_start EXCEPT ![a] = 2]
        /\ HandOut(t, <<a, 1>>)
  BY DEF GetFromNewChunk
<1>2. heap[a] \notin Types
  BY <1>1, AllocAssumption
<1>3. \A k \in Slots : <<a, k>> \notin live \cup lost
  BY <1>2, NothingOut
<1>4. /\ heap'[a] = t /\ aa_free_list'[a] = <<>> /\ aa_blob_start'[a] = 2
      /\ aa_free_structs_in_chunk'[a] = ah_structs_per_chunk[t] - 1
      /\ ah_structs_per_chunk[t] \in Nat /\ ah_structs_per_chunk[t] >= 2
  BY <1>1, AllocAssumption DEF TypeOK, SpaceTypes, UserTypes, FreeInNewChunk
<1>5. (live \cup lost)' = (live \cup lost) \cup {<<a, 1>>} /\ (live \cap lost)' = {}
  <2>1. <<a, 1>> \notin live \cup lost
    BY <1>3 DEF Slots
  <2> QED BY <1>1, <2>1 DEF HandOut, SlotInv
<1>6. \A b \in Blocks : b # a =>
        /\ heap'[b] = heap[b] /\ aa_free_list'[b] = aa_free_list[b]
        /\ aa_blob_start'[b] = aa_blob_start[b]
        /\ aa_free_structs_in_chunk'[b] = aa_free_structs_in_chunk[b]
        /\ \A k \in Slots : <<b, k>> \in (live \cup lost)' <=> <<b, k>> \in live \cup lost
  BY <1>1, <1>5 DEF TypeOK, SpaceTypes, UserTypes
<1>7. \A k \in Slots : ~IsFree(a, k)'
  BY <1>4 DEF IsFree
<1>8. \A k \in Slots : <<a, k>> \in (live \cup lost)' <=> k < 2
  <2>1. \A k \in Slots : k < 2 <=> k = 1
    BY DEF Slots
  <2> QED BY <1>3, <1>5, <2>1
<1>9. SlotInv'
  BY <1>4, <1>5, <1>6, <1>7, <1>8, SlotFrame
<1>10. ChunkInv'
  BY <1>4, <1>6, ChunkFrame
<1> QED
  BY <1>9, <1>10

LEMMA PushSlots ==
  ASSUME TypeOK, SlotInv, ChunkInv, NEW s \in live, DeallocToFreeList(s)
  PROVE  SlotInv' /\ ChunkInv'
<1> DEFINE a == s[1]
           x == s[2]
           q == aa_free_list[a]
           r == <<x>> \o q
<1>1. a \in Blocks /\ x \in Slots /\ s = <<a, x>> /\ q \in Seq(Slots)
  BY DEF TypeOK, UserTypes, Structs, SpaceTypes
<1>2. UNCHANGED <<heap, aa_blob_start, lost>> /\ live' = live \ {s}
  BY DEF DeallocToFreeList, Dealloc
<1>3. /\ aa_free_list'[a] = r
      /\ aa_free_structs_in_chunk'[a] = aa_free_structs_in_chunk[a] + 1
      /\ \A b \in Blocks : b # a =>
           /\ aa_free_list'[b] = aa_free_list[b]
           /\ aa_free_structs_in_chunk'[b] = aa_free_structs_in_chunk[b]
  BY <1>1 DEF DeallocToFreeList, TypeOK, SpaceTypes
<1>4. /\ r \in Seq(Slots)
      /\ Len(r) = Len(q) + 1 /\ Len(q) \in Nat
      /\ DOMAIN q = 1..Len(q) /\ DOMAIN r = 1..(Len(q) + 1)
      /\ r[1] = x
      /\ \A i \in DOMAIN q : r[i + 1] = q[i]
  BY <1>1, PushFront
<1>5. s \notin lost
  BY DEF SlotInv
<1>6. /\ x < aa_blob_start[a] /\ ~IsFree(a, x)
      /\ <<a, x>> \in live \cup lost
  BY <1>1 DEF SlotInv
<1>7. heap[a] \in Types
  <2>1. aa_blob_start[a] # 1
    BY <1>1, <1>6 DEF Slots
  <2> QED BY <1>1, <2>1 DEF ChunkInv
<1> HIDE DEF a, x, q, r
<1>8. q = aa_free_list[a] BY DEF q, a
<1>9. \A i \in DOMAIN r : i # 1 => i - 1 \in DOMAIN q /\ r[i] = q[i - 1]
  <2> SUFFICES ASSUME NEW i \in DOMAIN r, i # 1 PROVE i - 1 \in DOMAIN q /\ r[i] = q[i - 1]
    OBVIOUS
  <2>1. i - 1 \in DOMAIN q /\ (i - 1) + 1 = i
    BY <1>4
  <2> QED BY <1>4, <2>1
<1>10. \A k \in Slots : IsFree(a, k)' <=> IsFree(a, k) \/ k = x
  <2>1. ASSUME NEW k \in Slots, IsFree(a, k)' PROVE IsFree(a, k) \/ k = x
    BY <1>3, <1>4, <1>8, <1>9, <2>1 DEF IsFree
  <2>2. ASSUME NEW k \in Slots, IsFree(a, k) PROVE IsFree(a, k)'
    <3>1. PICK i \in DOMAIN q : q[i] = k
      BY <1>8, <2>2 DEF IsFree
    <3>2. i + 1 \in DOMAIN r /\ r[i + 1] = k
      BY <1>4, <3>1
    <3> QED BY <1>3, <3>2 DEF IsFree
  <2>3. IsFree(a, x)'
    BY <1>3, <1>4 DEF IsFree
  <2> QED BY <2>1, <2>2, <2>3
<1>11. \A i, j \in DOMAIN aa_free_list'[a] :
         aa_free_list'[a][i] = aa_free_list'[a][j] => i = j
  <2> SUFFICES ASSUME NEW i \in DOMAIN r, NEW j \in DOMAIN r, r[i] = r[j] PROVE i = j
    BY <1>3
  <2>1. \A m \in DOMAIN q : q[m] # x
    BY <1>6, <1>8 DEF IsFree
  <2>2. CASE i = 1 \/ j = 1
    BY <1>4, <1>9, <2>1, <2>2
  <2>3. CASE i # 1 /\ j # 1
    <3>1. i - 1 = j - 1
      BY <1>1, <1>8, <1>9, <2>3 DEF SlotInv
    <3> QED BY <1>4, <3>1
  <2> QED BY <2>2, <2>3
<1>12. \A k \in Slots : IsFree(a, k)' => k < aa_blob_start'[a]
  BY <1>1, <1>2, <1>6, <1>10 DEF SlotInv
<1>13. \A k \in Slots :
         <<a, k>> \in (live \cup lost)' <=> k < aa_blob_start'[a] /\ ~IsFree(a, k)'
  <2> SUFFICES ASSUME NEW k \in Slots
               PROVE  <<a, k>> \in (live \cup lost)' <=>
                        k < aa_blob_start[a] /\ ~IsFree(a, k) /\ k # x
    BY <1>2, <1>10
  <2>1. <<a, k>> \in live \cup lost <=> k < aa_blob_start[a] /\ ~IsFree(a, k)
    BY <1>1 DEF SlotInv
  <2>2. <<a, k>> \in (live \cup lost)' <=> <<a, k>> \in live \cup lost /\ k # x
    BY <1>1, <1>2, <1>5
  <2> QED BY <2>1, <2>2
<1>14. SlotInv'
  <2>1. \A b \in Blocks : b # a => \A k \in Slots :
          <<b, k>> \in (live \cup lost)' <=> <<b, k>> \in live \cup lost
    BY <1>1, <1>2
  <2>2. (live \cap lost)' = {}
    BY <1>2 DEF SlotInv
  <2> QED BY <1>1, <1>2, <1>3, <1>11, <1>12, <1>13, <2>1, <2>2, SlotFrame
<1>15. ChunkInv'
  <2>1. aa_blob_start[a] \in Int /\ BlobEnd(a) \in Int
    BY <1>1, <1>7, AllocAssumption DEF TypeOK, SpaceTypes, BlobEnd, Slots
  <2>2. /\ aa_free_structs_in_chunk[a] = Len(q) + (BlobEnd(a) + 1 - aa_blob_start[a])
        /\ aa_blob_start[a] <= BlobEnd(a) + 1
    BY <1>1, <1>7, <1>8 DEF ChunkInv
  <2>3. aa_free_structs_in_chunk'[a] = Len(r) + (BlobEnd(a) + 1 - aa_blob_start[a])
    <3> DEFINE end  == BlobEnd(a)
               from == aa_blob_start[a]
               was  == aa_free_structs_in_chunk[a]
               is   == aa_free_structs_in_chunk'[a]
    <3>1. /\ is = was + 1 /\ was = Len(q) + (end + 1 - from)
          /\ Len(r) = Len(q) + 1 /\ Len(q) \in Nat /\ from \in Int /\ end \in Int
      BY <1>3, <1>4, <2>1, <2>2
    <3> HIDE DEF end, from, was, is
    <3>2. is = Len(r) + (end + 1 - from)
      BY <3>1
    <3> QED BY <3>2 DEF end, from, is
  <2> QED
    BY <1>1, <1>2, <1>3, <1>7, <2>2, <2>3, ChunkFrame DEF BlobEnd
<1> QED
  BY <1>14, <1>15

(* A chunk goes back to malloc with the only struct that is out of it.      *)
LEMMA OnlyOneOut ==
  ASSUME TypeOK, SlotInv, ChunkInv, NEW s \in live, IsLastOut(s[1])
  PROVE  /\ heap[s[1]] \in Types
         /\ \A u \in live \cup lost : u[1] = s[1] => u = s
<1> DEFINE a == s[1]
           x == s[2]
           q == aa_free_list[a]
           n == aa_blob_start[a]
<1>1. /\ a \in Blocks /\ x \in Slots /\ s = <<a, x>> /\ n \in Slots
      /\ q \in Seq(Slots) /\ Len(q) \in Nat
  BY DEF TypeOK, UserTypes, Structs, SpaceTypes
<1>2. x < n /\ ~IsFree(a, x)
  BY <1>1 DEF SlotInv
<1>3. heap[a] \in Types
  <2>1. n # 1
    BY <1>1, <1>2 DEF Slots
  <2> QED BY <1>1, <2>1 DEF ChunkInv
<1>4. Len(q) = n - 2
  <2>1. BlobEnd(a) \in Int
    BY <1>1, <1>3, AllocAssumption DEF BlobEnd
  <2>2. aa_free_structs_in_chunk[a] = Len(q) + (BlobEnd(a) + 1 - n)
    BY <1>1, <1>3 DEF ChunkInv
  <2>3. aa_free_structs_in_chunk[a] + 1 = BlobEnd(a)
    BY DEF IsLastOut
  <2> DEFINE end == BlobEnd(a)
             len == Len(q)
  <2>4. n \in Nat /\ len \in Nat /\ end \in Int
    BY <1>1, <2>1 DEF Slots
  <2>5. (len + (end + 1 - n)) + 1 = end
    BY <2>2, <2>3
  <2> HIDE DEF end, len, n
  <2>6. len = n - 2
    BY <2>4, <2>5
  <2> QED BY <2>6 DEF len
<1>5. \A i, j \in DOMAIN q : q[i] = q[j] => i = j
  BY <1>1 DEF SlotInv
<1>6. \A i \in DOMAIN q : q[i] < n /\ q[i] # x
  <2> SUFFICES ASSUME NEW i \in DOMAIN q PROVE q[i] < n /\ q[i] # x
    OBVIOUS
  <2>1. q[i] \in Slots /\ IsFree(a, q[i])
    BY <1>1 DEF IsFree
  <2> QED BY <1>1, <1>2, <2>1 DEF SlotInv
<1>7. \A y \in Slots : y < n /\ y # x => \E i \in DOMAIN q : q[i] = y
  BY <1>1, <1>2, <1>4, <1>5, <1>6, AllButOne
<1>8. ASSUME NEW u \in live \cup lost, u[1] = a PROVE u = s
  <2>1. u = <<a, u[2]>> /\ u[2] \in Slots
    BY <1>8 DEF TypeOK, UserTypes, Structs
  <2>2. u[2] < n /\ ~IsFree(a, u[2])
    BY <1>1, <2>1 DEF SlotInv
  <2> QED BY <1>1, <1>7, <2>1, <2>2 DEF IsFree
<1> QED
  BY <1>3, <1>8

LEMMA FreeChunkSlots ==
  ASSUME TypeOK, SlotInv, ChunkInv, NEW s \in live, DeallocChunk(s)
  PROVE  SlotInv' /\ ChunkInv'
<1> DEFINE a == s[1]
<1>1. /\ IsLastOut(a)
      /\ live' = live \ {s} /\ lost' = lost
      /\ heap' = [heap EXCEPT ![a] = Unused]
      /\ aa_free_structs_in_chunk' = [aa_free_structs_in_chunk EXCEPT ![a] = 0]
      /\ aa_free_list' = [aa_free_list EXCEPT ![a] = <<>>]
      /\ aa_blob_start' = [aa_blob_start EXCEPT ![a] = 1]
  BY DEF DeallocChunk, Dealloc
<1>2. a \in Blocks /\ s = <<a, s[2]>>
  BY DEF TypeOK, UserTypes, Structs
<1>3. \A u \in live \cup lost : u[1] = a => u = s
  BY <1>1, OnlyOneOut
<1>4. s \notin lost
  BY DEF SlotInv
<1>5. (live \cup lost)' = (live \cup lost) \ {s} /\ (live \cap lost)' = {}
  BY <1>1, <1>4 DEF SlotInv
<1> HIDE DEF a
<1>6. /\ heap'[a] = Unused /\ aa_free_list'[a] = <<>> /\ aa_blob_start'[a] = 1
      /\ aa_free_structs_in_chunk'[a] = 0
      /\ \A b \in Blocks : b # a =>
           /\ heap'[b] = heap[b] /\ aa_free_list'[b] = aa_free_list[b]
           /\ aa_blob_start'[b] = aa_blob_start[b]
           /\ aa_free_structs_in_chunk'[b] = aa_free_structs_in_chunk[b]
  BY <1>1, <1>2 DEF TypeOK, SpaceTypes, UserTypes
<1>7. \A k \in Slots : ~IsFree(a, k)'
  BY <1>6 DEF IsFree
<1>8. \A k \in Slots : <<a, k>> \notin (live \cup lost)' /\ ~(k < 1)
  BY <1>3, <1>5 DEF Slots
<1>9. \A b \in Blocks : b # a => \A k \in Slots :
        <<b, k>> \in (live \cup lost)' <=> <<b, k>> \in live \cup lost
  BY <1>2, <1>5
<1>10. SlotInv'
  BY <1>2, <1>5, <1>6, <1>7, <1>8, <1>9, SlotFrame
<1>11. ChunkInv'
  BY <1>2, <1>6, ChunkFrame, AllocAssumption
<1> QED
  BY <1>10, <1>11

(* dwarf_finish() takes back every chunk, since every chunk is on a list.   *)
LEMMA FinishSlots ==
  ASSUME TypeOK, SlotInv, ChunkInv, OnList, Finish
  PROVE  /\ SlotInv' /\ ChunkInv'
         /\ \A b \in Blocks : heap'[b] \notin Types
<1> DEFINE freed == UNION {Chain(ah_alloc_area_head[t]) : t \in Types}
           Reset(f, v) == [b \in Blocks |-> IF b \in freed THEN v ELSE f[b]]
<1>1. /\ heap' = Reset(heap, Unused)
      /\ aa_free_structs_in_chunk' = Reset(aa_free_structs_in_chunk, 0)
      /\ aa_free_list' = Reset(aa_free_list, <<>>)
      /\ aa_blob_start' = Reset(aa_blob_start, 1)
      /\ live' = {} /\ lost' = {}
  BY DEF Finish
<1>2. \A b \in Blocks : heap[b] \in Types => b \in freed
  BY DEF OnList
<1> HIDE DEF freed
<1>3. \A b \in Blocks : b \notin freed =>
        /\ heap[b] \notin Types
        /\ aa_blob_start[b] = 1 /\ aa_free_structs_in_chunk[b] = 0
        /\ DOMAIN aa_free_list[b] = {}
  <2> SUFFICES ASSUME NEW b \in Blocks, heap[b] \notin Types
               PROVE  /\ aa_blob_start[b] = 1 /\ aa_free_structs_in_chunk[b] = 0
                      /\ DOMAIN aa_free_list[b] = {}
    BY <1>2
  <2>1. \A k \in Slots : ~IsFree(b, k)
    BY NothingOut
  <2>2. \A i \in DOMAIN aa_free_list[b] : aa_free_list[b][i] \in Slots
    BY DEF TypeOK, SpaceTypes
  <2> QED BY <2>1, <2>2 DEF IsFree, ChunkInv
<1>4. \A b \in Blocks :
        /\ heap'[b] \notin Types /\ aa_blob_start'[b] = 1
        /\ aa_free_structs_in_chunk'[b] = 0 /\ DOMAIN aa_free_list'[b] = {}
  <2> SUFFICES ASSUME NEW b \in Blocks
               PROVE  /\ heap'[b] \notin Types /\ aa_blob_start'[b] = 1
                      /\ aa_free_structs_in_chunk'[b] = 0
                      /\ DOMAIN aa_free_list'[b] = {}
    OBVIOUS
  <2>1. CASE b \in freed
    BY <1>1, <2>1, AllocAssumption
  <2>2. CASE b \notin freed
    BY <1>1, <1>3, <2>2
  <2> QED BY <2>1, <2>2
<1>5. \A b \in Blocks, k \in Slots : ~IsFree(b, k)' /\ ~(k < 1)
  BY <1>4 DEF IsFree, Slots
<1>6. SlotInv'
  BY <1>1, <1>4, <1>5 DEF SlotInv
<1>7. ChunkInv'
  BY <1>4 DEF ChunkInv
<1> QED
  BY <1>4, <1>6, <1>7

(* The other operations move no slot.                                      *)
LEMMA OtherSlots ==
  ASSUME TypeOK, SlotInv, ChunkInv,
         \/ Open \/ UNCHANGED vars
         \/ \E t \in Types : GetFails(t)
         \/ \E s \in live, t \in Types : DeallocWrongType(s, t)
         \/ \E b \in Blocks : GetDirect(b) \/ GetSpecialError(b) \/ DeallocDirect(b)
  PROVE  SlotInv' /\ ChunkInv'
<1>1. /\ UNCHANGED <<aa_free_list, aa_blob_start, aa_free_structs_in_chunk>>
      /\ (live \cup lost)' = live \cup lost
      /\ (live \cap lost)' = {}
  BY DEF Open, vars, GetFails, DeallocWrongType, GetDirect, GetSpecialError,
         DeallocDirect, areas, users, SlotInv
<1>2. \A b \in Blocks : heap'[b] = heap[b] \/ {heap[b], heap'[b]} \cap Types = {}
  BY AllocAssumption
     DEF Open, vars, GetFails, DeallocWrongType, GetDirect, GetSpecialError,
         DeallocDirect, TypeOK, UserTypes
<1>3. SlotInv'
  BY <1>1 DEF SlotInv, IsFree
<1>4. ChunkInv'
  BY <1>1, <1>2 DEF ChunkInv, BlobEnd
<1> QED
  BY <1>3, <1>4

-------------------------------------------------------------------------------
(* Chunk lists.                                                            *)

(* The list of a type holds chunks of that type only.                      *)
LEMMA ChainHasType ==
  ASSUME TypeOK, LinkInv, NEW t \in Types
  PROVE  \A b \in Chain(ah_alloc_area_head[t]) : b \in Blocks /\ heap[b] = t
<1> DEFINE S == {b \in Blocks : heap[b] = t}
           h == ah_alloc_area_head[t]
<1>1. S \in SUBSET Blocks
  OBVIOUS
<1>2. h \in S \cup {Null}
  BY DEF TypeOK, HeaderTypes, LinkInv
<1>3. \A d \in S : aa_next[d] \in S \cup {Null}
  BY DEF TypeOK, LinkTypes, LinkInv
<1> HIDE DEF S
<1>4. \A b \in Chain(h) : b \in S
  BY <1>1, <1>2, <1>3 DEF Chain
<1> QED
  BY <1>4 DEF S

LEMMA PushLinks ==
  ASSUME TypeOK, LinkInv, NEW t \in Types, GetFromNewChunk(t)
  PROVE  LinkInv'
<1>1. PICK b \in Blocks :
        /\ heap[b] = Unused
        /\ heap' = [heap EXCEPT ![b] = t]
        /\ PushHead(t, b)
  BY DEF GetFromNewChunk
<1> DEFINE h == ah_alloc_area_head[t]
<1>2. heap[b] \notin Types /\ aa_next[b] = Null /\ aa_prev[b] = Null /\ b # Null
  BY <1>1, AllocAssumption DEF LinkInv
<1>3. h # Null => h \in Blocks /\ heap[h] = t /\ aa_prev[h] = Null /\ h # b
  BY <1>1, AllocAssumption DEF LinkInv, TypeOK, HeaderTypes
<1>4. /\ heap'[b] = t /\ \A c \in Blocks : c # b => heap'[c] = heap[c]
      /\ ah_alloc_area_head'[t] = b
      /\ \A u \in Types : u # t => ah_alloc_area_head'[u] = ah_alloc_area_head[u]
      /\ aa_next'[b] = h /\ \A c \in Blocks : c # b => aa_next'[c] = aa_next[c]
      /\ aa_prev'[b] = Null /\ (h # Null => aa_prev'[h] = b)
      /\ \A c \in Blocks : c # b /\ c # h => aa_prev'[c] = aa_prev[c]
  BY <1>1, <1>3 DEF PushHead, TypeOK, HeaderTypes, LinkTypes, UserTypes
<1> HIDE DEF h
<1>5. h = ah_alloc_area_head[t] BY DEF h
<1>6. ASSUME NEW u \in Types, ah_alloc_area_head'[u] # Null
      PROVE  /\ heap'[ah_alloc_area_head'[u]] = u
             /\ aa_prev'[ah_alloc_area_head'[u]] = Null
  <2>1. CASE u = t
    BY <1>4, <2>1
  <2>2. CASE u # t
    <3> DEFINE g == ah_alloc_area_head[u]
    <3>1. g \in Blocks /\ heap[g] = u /\ aa_prev[g] = Null
      BY <1>4, <1>6, <2>2 DEF LinkInv, TypeOK, HeaderTypes
    <3>2. g # b /\ g # h
      BY <1>2, <1>3, <2>2, <3>1, AllocAssumption
    <3> QED BY <1>4, <2>2, <3>1, <3>2
  <2> QED BY <2>1, <2>2
<1>7. ASSUME NEW c \in Blocks, aa_next'[c] # Null
      PROVE  /\ heap'[c] \in Types /\ heap'[aa_next'[c]] = heap'[c]
             /\ aa_prev'[aa_next'[c]] = c
  <2>1. CASE c = b
    BY <1>3, <1>4, <1>7, <2>1
  <2>2. CASE c # b
    <3> DEFINE n == aa_next[c]
    <3>1. n \in Blocks /\ heap[c] \in Types /\ heap[n] = heap[c] /\ aa_prev[n] = c
      BY <1>4, <1>7, <2>2 DEF LinkInv, TypeOK, LinkTypes
    <3>2. n # b /\ n # h
      BY <1>2, <1>3, <3>1, AllocAssumption
    <3> QED BY <1>4, <2>2, <3>1, <3>2
  <2> QED BY <2>1, <2>2
<1>8. ASSUME NEW c \in Blocks, aa_prev'[c] # Null
      PROVE  /\ heap'[c] \in Types /\ heap'[aa_prev'[c]] = heap'[c]
             /\ aa_next'[aa_prev'[c]] = c
  <2>1. CASE c = h
    BY <1>3, <1>4, <1>8, <2>1, AllocAssumption
  <2>2. CASE c # h
    <3> DEFINE p == aa_prev[c]
    <3>1. c # b
      BY <1>4, <1>8
    <3>2. p \in Blocks /\ heap[c] \in Types /\ heap[p] = heap[c] /\ aa_next[p] = c
      BY <1>4, <1>8, <2>2, <3>1 DEF LinkInv, TypeOK, LinkTypes
    <3>3. p # b
      BY <1>2, <3>2
    <3> QED BY <1>4, <2>2, <3>1, <3>2, <3>3
  <2> QED BY <2>1, <2>2
<1>9. ASSUME NEW c \in Blocks, heap'[c] \in Types, aa_prev'[c] = Null
      PROVE  ah_alloc_area_head'[heap'[c]] = c
  <2>1. CASE c = b
    BY <1>4, <2>1
  <2>2. CASE c # b
    <3>1. c # h
      BY <1>2, <1>4, <1>9, AllocAssumption
    <3>2. ah_alloc_area_head[heap[c]] = c
      BY <1>4, <1>9, <2>2, <3>1 DEF LinkInv
    <3>3. heap[c] # t
      BY <1>5, <3>1, <3>2
    <3> QED BY <1>4, <1>9, <2>2, <3>2, <3>3
  <2> QED BY <2>1, <2>2
<1> QED
  BY <1>6, <1>7, <1>8, <1>9 DEF LinkInv

LEMMA PushOnList ==
  ASSUME TypeOK, LinkInv, OnList, NEW t \in Types, GetFromNewChunk(t)
  PROVE  OnList'
<1>1. PICK b \in Blocks :
        /\ heap[b] = Unused
        /\ heap' = [heap EXCEPT ![b] = t]
        /\ PushHead(t, b)
  BY DEF GetFromNewChunk
<1> DEFINE h == ah_alloc_area_head[t]
<1>2. aa_next[b] = Null
  BY <1>1, AllocAssumption DEF LinkInv
<1>3. /\ heap'[b] = t /\ \A c \in Blocks : c # b => heap'[c] = heap[c]
      /\ ah_alloc_area_head'[t] = b
      /\ \A u \in Types : u # t => ah_alloc_area_head'[u] = ah_alloc_area_head[u]
      /\ aa_next'[b] = h /\ \A c \in Blocks : c # b => aa_next'[c] = aa_next[c]
  BY <1>1 DEF PushHead, TypeOK, HeaderTypes, LinkTypes, UserTypes
<1> SUFFICES ASSUME NEW c \in Blocks, heap'[c] \in Types,
                    NEW S \in SUBSET Blocks,
                    ah_alloc_area_head'[heap'[c]] \in S \cup {Null},
                    \A d \in S : aa_next'[d] \in S \cup {Null}
             PROVE  c \in S
  BY DEF OnList, Chain
<1>4. \A d \in S : aa_next[d] \in S \cup {Null}
  BY <1>2, <1>3
<1>5. CASE c = b
  BY <1>3, <1>5, AllocAssumption
<1>6. CASE c # b
  <2>1. heap[c] \in Types /\ c \in Chain(ah_alloc_area_head[heap[c]])
    BY <1>3, <1>6 DEF OnList
  <2>2. ah_alloc_area_head[heap[c]] \in S \cup {Null}
    <3>1. CASE heap[c] = t
      <4>1. b \in S
        BY <1>3, <1>6, <3>1, AllocAssumption
      <4> QED BY <1>3, <3>1, <4>1
    <3>2. CASE heap[c] # t
      BY <1>3, <1>6, <2>1, <3>2
    <3> QED BY <3>1, <3>2
  <2> QED BY <1>4, <2>1, <2>2 DEF Chain
<1> QED
  BY <1>5, <1>6

(* A chunk that is reached from the head of its list is not its own next.   *)
LEMMA NoSelfLink ==
  ASSUME TypeOK, LinkInv, OnList, NEW a \in Blocks, heap[a] \in Types
  PROVE  aa_next[a] # a
<1> SUFFICES ASSUME aa_next[a] = a PROVE FALSE
  OBVIOUS
<1> DEFINE S == Blocks \ {a}
           h == ah_alloc_area_head[heap[a]]
<1>1. a # Null /\ aa_prev[a] = a
  BY AllocAssumption DEF LinkInv
<1>2. h \in S \cup {Null}
  BY <1>1 DEF LinkInv, TypeOK, HeaderTypes
<1>3. \A d \in S : aa_next[d] \in S \cup {Null}
  BY <1>1 DEF LinkInv, TypeOK, LinkTypes
<1>4. a \in Chain(h) /\ S \in SUBSET Blocks /\ a \notin S
  BY DEF OnList
<1> HIDE DEF S, h
<1> QED
  BY <1>2, <1>3, <1>4 DEF Chain

(* What taking a chunk out of its list changes.                            *)
LEMMA UnlinkStep ==
  ASSUME TypeOK, SlotInv, ChunkInv, LinkInv, OnList,
         NEW s \in live, DeallocChunk(s)
  PROVE  LET a == s[1]
             t == heap[a]
             p == aa_prev[a]
             n == aa_next[a]
         IN /\ a \in Blocks /\ a # Null /\ t \in Types /\ p # a /\ n # a
            /\ p # Null => p \in Blocks /\ heap[p] = t /\ aa_next[p] = a
            /\ n # Null => n \in Blocks /\ heap[n] = t /\ aa_prev[n] = a
            /\ p = Null => ah_alloc_area_head[t] = a
            /\ heap'[a] = Unused
            /\ \A c \in Blocks : c # a => heap'[c] = heap[c]
            /\ ah_alloc_area_head'[t] = IF p = Null THEN n ELSE ah_alloc_area_head[t]
            /\ \A u \in Types : u # t => ah_alloc_area_head'[u] = ah_alloc_area_head[u]
            /\ aa_next'[a] = Null /\ aa_prev'[a] = Null
            /\ p # Null => aa_next'[p] = n
            /\ n # Null => aa_prev'[n] = p
            /\ \A c \in Blocks : c # a /\ c # p => aa_next'[c] = aa_next[c]
            /\ \A c \in Blocks : c # a /\ c # n => aa_prev'[c] = aa_prev[c]
<1> DEFINE a == s[1]
           t == heap[a]
           p == aa_prev[a]
           n == aa_next[a]
<1>1. IsLastOut(a) /\ Unlink(t, a) /\ heap' = [heap EXCEPT ![a] = Unused]
  BY DEF DeallocChunk
<1>2. a \in Blocks /\ t \in Types /\ a # Null
  BY <1>1, OnlyOneOut, AllocAssumption DEF TypeOK, UserTypes, Structs
<1>3. n # a
  BY <1>2, NoSelfLink
<1>4. /\ p # Null => p \in Blocks /\ heap[p] = t /\ aa_next[p] = a
      /\ n # Null => n \in Blocks /\ heap[n] = t /\ aa_prev[n] = a
      /\ p = Null => ah_alloc_area_head[t] = a
  BY <1>2 DEF LinkInv, TypeOK, LinkTypes
<1>5. p # a
  BY <1>2, <1>3, <1>4
<1> HIDE DEF t, p, n, a
<1>6. a = s[1] /\ t = heap[a] /\ p = aa_prev[a] /\ n = aa_next[a]
  BY DEF a, t, p, n
<1>7. /\ heap'[a] = Unused
      /\ \A c \in Blocks : c # a => heap'[c] = heap[c]
  BY <1>1, <1>2 DEF TypeOK, UserTypes
<1>8. /\ ah_alloc_area_head'[t] = IF p = Null THEN n ELSE ah_alloc_area_head[t]
      /\ \A u \in Types : u # t => ah_alloc_area_head'[u] = ah_alloc_area_head[u]
  BY <1>1, <1>2, <1>6 DEF Unlink, TypeOK, HeaderTypes
<1>9. /\ aa_next'[a] = Null /\ aa_prev'[a] = Null
      /\ p # Null => aa_next'[p] = n
      /\ n # Null => aa_prev'[n] = p
      /\ \A c \in Blocks : c # a /\ c # p => aa_next'[c] = aa_next[c]
      /\ \A c \in Blocks : c # a /\ c # n => aa_prev'[c] = aa_prev[c]
  BY <1>1, <1>2, <1>3, <1>4, <1>5, <1>6 DEF Unlink
<1> QED
  BY <1>2, <1>3, <1>4, <1>5, <1>6, <1>7, <1>8, <1>9

LEMMA UnlinkLinks ==
  ASSUME TypeOK, SlotInv, ChunkInv, LinkInv, OnList,
         NEW s \in live, DeallocChunk(s)
  PROVE  LinkInv'
<1> DEFINE a == s[1]
           t == heap[a]
           p == aa_prev[a]
           n == aa_next[a]
<1>1. /\ a \in Blocks /\ a # Null /\ t \in Types /\ p # a /\ n # a
      /\ p # Null => p \in Blocks /\ heap[p] = t /\ aa_next[p] = a
      /\ n # Null => n \in Blocks /\ heap[n] = t /\ aa_prev[n] = a
      /\ p = Null => ah_alloc_area_head[t] = a
      /\ heap'[a] = Unused
      /\ \A c \in Blocks : c # a => heap'[c] = heap[c]
      /\ ah_alloc_area_head'[t] = IF p = Null THEN n ELSE ah_alloc_area_head[t]
      /\ \A u \in Types : u # t => ah_alloc_area_head'[u] = ah_alloc_area_head[u]
      /\ aa_next'[a] = Null /\ aa_prev'[a] = Null
      /\ p # Null => aa_next'[p] = n
      /\ n # Null => aa_prev'[n] = p
      /\ \A c \in Blocks : c # a /\ c # p => aa_next'[c] = aa_next[c]
      /\ \A c \in Blocks : c # a /\ c # n => aa_prev'[c] = aa_prev[c]
  BY UnlinkStep, Zenon
<1>2. t = heap[a] /\ p = aa_prev[a] /\ n = aa_next[a] /\ Unused \notin Types
  BY AllocAssumption
<1> HIDE DEF t, p, n, a
<1>3. ASSUME NEW u \in Types, ah_alloc_area_head'[u] # Null
      PROVE  /\ heap'[ah_alloc_area_head'[u]] = u
             /\ aa_prev'[ah_alloc_area_head'[u]] = Null
  <2>1. CASE u = t /\ p = Null
    BY <1>1, <1>3, <2>1
  <2>2. CASE u # t \/ p # Null
    <3> DEFINE g == ah_alloc_area_head[u]
    <3>1. g \in Blocks /\ heap[g] = u /\ aa_prev[g] = Null /\ ah_alloc_area_head'[u] = g
      BY <1>1, <1>3, <2>2 DEF LinkInv, TypeOK, HeaderTypes
    <3>2. g # a /\ g # n
      BY <1>1, <1>2, <2>2, <3>1, AllocAssumption
    <3> QED BY <1>1, <3>1, <3>2
  <2> QED BY <2>1, <2>2
<1>4. ASSUME NEW c \in Blocks, aa_next'[c] # Null
      PROVE  /\ heap'[c] \in Types /\ heap'[aa_next'[c]] = heap'[c]
             /\ aa_prev'[aa_next'[c]] = c
  <2>1. c # a
    BY <1>1, <1>4
  <2>2. CASE c = p
    BY <1>1, <1>4, <2>1, <2>2, AllocAssumption
  <2>3. CASE c # p
    <3> DEFINE m == aa_next[c]
    <3>1. m \in Blocks /\ heap[c] \in Types /\ heap[m] = heap[c] /\ aa_prev[m] = c
      BY <1>1, <1>4, <2>1, <2>3 DEF LinkInv, TypeOK, LinkTypes
    <3>2. m # a /\ m # n
      BY <1>1, <1>2, <2>1, <2>3, <3>1, AllocAssumption
    <3> QED BY <1>1, <2>1, <2>3, <3>1, <3>2
  <2> QED BY <2>2, <2>3
<1>5. ASSUME NEW c \in Blocks, aa_prev'[c] # Null
      PROVE  /\ heap'[c] \in Types /\ heap'[aa_prev'[c]] = heap'[c]
             /\ aa_next'[aa_prev'[c]] = c
  <2>1. c # a
    BY <1>1, <1>5
  <2>2. CASE c = n
    BY <1>1, <1>5, <2>1, <2>2, AllocAssumption
  <2>3. CASE c # n
    <3> DEFINE m == aa_prev[c]
    <3>1. m \in Blocks /\ heap[c] \in Types /\ heap[m] = heap[c] /\ aa_next[m] = c
      BY <1>1, <1>5, <2>1, <2>3 DEF LinkInv, TypeOK, LinkTypes
    <3>2. m # a /\ m # p
      BY <1>1, <1>2, <2>1, <2>3, <3>1, AllocAssumption
    <3> QED BY <1>1, <2>1, <2>3, <3>1, <3>2
  <2> QED BY <2>2, <2>3
<1>6. ASSUME NEW c \in Blocks, heap'[c] \in Types, aa_prev'[c] = Null
      PROVE  ah_alloc_area_head'[heap'[c]] = c
  <2>1. c # a
    BY <1>1, <1>2, <1>6
  <2>2. CASE c = n
    BY <1>1, <1>6, <2>1, <2>2, AllocAssumption
  <2>3. CASE c # n
    <3>1. ah_alloc_area_head[heap[c]] = c
      BY <1>1, <1>6, <2>1, <2>3 DEF LinkInv
    <3>2. heap[c] = t => p # Null
      BY <1>1, <2>1, <3>1
    <3> QED BY <1>1, <1>6, <2>1, <3>1, <3>2
  <2> QED BY <2>2, <2>3
<1> QED
  BY <1>3, <1>4, <1>5, <1>6 DEF LinkInv

LEMMA UnlinkOnList ==
  ASSUME TypeOK, SlotInv, ChunkInv, LinkInv, OnList,
         NEW s \in live, DeallocChunk(s)
  PROVE  OnList'
<1> DEFINE a == s[1]
           t == heap[a]
           p == aa_prev[a]
           n == aa_next[a]
<1>1. /\ a \in Blocks /\ a # Null /\ t \in Types /\ p # a /\ n # a
      /\ p # Null => p \in Blocks /\ heap[p] = t /\ aa_next[p] = a
      /\ n # Null => n \in Blocks /\ heap[n] = t /\ aa_prev[n] = a
      /\ p = Null => ah_alloc_area_head[t] = a
      /\ heap'[a] = Unused
      /\ \A c \in Blocks : c # a => heap'[c] = heap[c]
      /\ ah_alloc_area_head'[t] = IF p = Null THEN n ELSE ah_alloc_area_head[t]
      /\ \A u \in Types : u # t => ah_alloc_area_head'[u] = ah_alloc_area_head[u]
      /\ aa_next'[a] = Null /\ aa_prev'[a] = Null
      /\ p # Null => aa_next'[p] = n
      /\ n # Null => aa_prev'[n] = p
      /\ \A c \in Blocks : c # a /\ c # p => aa_next'[c] = aa_next[c]
      /\ \A c \in Blocks : c # a /\ c # n => aa_prev'[c] = aa_prev[c]
  BY UnlinkStep, Zenon
<1>2. t = heap[a] /\ p = aa_prev[a] /\ n = aa_next[a] /\ Unused \notin Types
  BY AllocAssumption
<1> HIDE DEF t, p, n, a
<1> SUFFICES ASSUME NEW c \in Blocks, heap'[c] \in Types,
                    NEW S \in SUBSET Blocks,
                    ah_alloc_area_head'[heap'[c]] \in S \cup {Null},
                    \A d \in S : aa_next'[d] \in S \cup {Null}
             PROVE  c \in S
  BY DEF OnList, Chain
<1>3. c # a /\ heap'[c] = heap[c] /\ heap[c] \in Types
      /\ c \in Chain(ah_alloc_area_head[heap[c]])
  BY <1>1, <1>2 DEF OnList
<1>4. CASE heap[c] # t
  <2> DEFINE R == {d \in S : heap[d] = heap[c]}
             h == ah_alloc_area_head[heap[c]]
  <2>1. h \in R \cup {Null}
    BY <1>1, <1>3, <1>4 DEF LinkInv
  <2>2. ASSUME NEW d \in R PROVE aa_next[d] \in R \cup {Null}
    <3>1. d \in Blocks /\ d # a /\ d # p
      BY <1>1, <1>2, <1>4, <2>2, AllocAssumption
    <3>2. aa_next[d] \in S \cup {Null}
      BY <1>1, <2>2, <3>1
    <3> QED BY <2>2, <3>1, <3>2 DEF LinkInv
  <2>3. R \in SUBSET Blocks
    OBVIOUS
  <2> HIDE DEF R, h
  <2>4. c \in R
    BY <1>3, <2>1, <2>2, <2>3 DEF Chain, h
  <2> QED BY <2>4 DEF R
<1>5. CASE heap[c] = t
  <2> DEFINE h == ah_alloc_area_head[t]
  <2>1. p # Null => p \in S
    <3> SUFFICES ASSUME p # Null, p \notin S PROVE FALSE
      OBVIOUS
    <3> DEFINE R == S \ {a}
    <3>1. h \in R \cup {Null}
      <4>1. h # a
        BY <1>1, <1>2 DEF LinkInv
      <4> QED BY <1>1, <1>3, <1>5, <4>1
    <3>2. ASSUME NEW d \in R PROVE aa_next[d] \in R \cup {Null}
      <4>1. d \in Blocks /\ d # a /\ d # p /\ aa_next[d] \in S \cup {Null}
        BY <1>1, <3>2
      <4>2. aa_next[d] # a
        BY <1>1, <1>2, <4>1 DEF LinkInv
      <4> QED BY <4>1, <4>2
    <3>3. p \in Chain(h) /\ R \in SUBSET Blocks
      BY <1>1 DEF OnList
    <3> HIDE DEF R, h
    <3>4. p \in R
      BY <1>1, <3>1, <3>2, <3>3 DEF Chain
    <3> QED BY <3>4 DEF R
  <2> DEFINE R == S \cup {a}
  <2>2. n \in S \cup {Null}
    BY <1>1, <1>3, <1>5, <2>1
  <2>3. h \in R \cup {Null}
    BY <1>1, <1>3, <1>5
  <2>4. ASSUME NEW d \in R PROVE aa_next[d] \in R \cup {Null}
    <3>1. CASE d = a \/ d = p
      BY <1>1, <1>2, <2>2, <3>1, AllocAssumption
    <3>2. CASE d # a /\ d # p
      BY <1>1, <2>4, <3>2
    <3> QED BY <3>1, <3>2
  <2>5. R \in SUBSET Blocks
    BY <1>1
  <2> HIDE DEF R, h
  <2>6. c \in R
    BY <1>3, <1>5, <2>3, <2>4, <2>5 DEF Chain, h
  <2> QED BY <1>3, <2>6 DEF R
<1> QED
  BY <1>4, <1>5

(* dwarf_finish() leaves no list.                                          *)
LEMMA FinishLinks ==
  ASSUME TypeOK, SlotInv, ChunkInv, LinkInv, OnList, Finish
  PROVE  LinkInv' /\ OnList'
<1> DEFINE freed == UNION {Chain(ah_alloc_area_head[t]) : t \in Types}
           Reset(f, v) == [b \in Blocks |-> IF b \in freed THEN v ELSE f[b]]
<1>1. /\ aa_next' = Reset(aa_next, Null) /\ aa_prev' = Reset(aa_prev, Null)
      /\ ah_alloc_area_head' = NoPointer
  BY DEF Finish, ZeroHeaders
<1>2. \A b \in Blocks : heap[b] \in Types => b \in freed
  BY DEF OnList
<1> HIDE DEF freed
<1>3. \A b \in Blocks : aa_next'[b] = Null /\ aa_prev'[b] = Null
  BY <1>1, <1>2 DEF LinkInv
<1>4. \A b \in Blocks : heap'[b] \notin Types
  BY FinishSlots
<1>5. \A t \in Types : ah_alloc_area_head'[t] = Null
  BY <1>1 DEF NoPointer
<1> QED
  BY <1>3, <1>4, <1>5 DEF LinkInv, OnList

(* The other operations move no link.                                      *)
LEMMA OtherLinks ==
  ASSUME TypeOK, LinkInv, OnList,
         UNCHANGED <<ah_alloc_area_head, aa_next, aa_prev>>,
         \A b \in Blocks : heap'[b] = heap[b] \/ {heap[b], heap'[b]} \cap Types = {}
  PROVE  LinkInv' /\ OnList'
<1>1. ASSUME NEW b \in Blocks, heap[b] \in Types PROVE heap'[b] = heap[b]
  BY <1>1
<1>2. \A b \in Blocks : heap'[b] \in Types => heap'[b] = heap[b]
  OBVIOUS
<1>3. ASSUME NEW t \in Types, ah_alloc_area_head[t] # Null
      PROVE  /\ heap'[ah_alloc_area_head[t]] = t
             /\ aa_prev[ah_alloc_area_head[t]] = Null
  BY <1>1, <1>3 DEF LinkInv, TypeOK, HeaderTypes
<1>4. ASSUME NEW b \in Blocks, aa_next[b] # Null
      PROVE  /\ heap'[b] \in Types /\ heap'[aa_next[b]] = heap'[b]
             /\ aa_prev[aa_next[b]] = b
  BY <1>1, <1>4 DEF LinkInv, TypeOK, LinkTypes
<1>5. ASSUME NEW b \in Blocks, aa_prev[b] # Null
      PROVE  /\ heap'[b] \in Types /\ heap'[aa_prev[b]] = heap'[b]
             /\ aa_next[aa_prev[b]] = b
  BY <1>1, <1>5 DEF LinkInv, TypeOK, LinkTypes
<1>6. ASSUME NEW b \in Blocks, heap'[b] \in Types
      PROVE  /\ aa_prev[b] = Null => ah_alloc_area_head[heap'[b]] = b
             /\ b \in Chain(ah_alloc_area_head[heap'[b]])
  BY <1>2, <1>6 DEF LinkInv, OnList
<1>7. LinkInv'
  BY <1>3, <1>4, <1>5, <1>6 DEF LinkInv
<1>8. OnList'
  BY <1>6 DEF OnList, Chain
<1> QED
  BY <1>7, <1>8

-------------------------------------------------------------------------------
(* The cache of the last chunk, and the whole invariant.                   *)

(* The chunk a search finds has the type that was asked for.               *)
LEMMA FoundHasType ==
  ASSUME TypeOK, LinkInv, LastNotDangling, NEW t \in Types, NEW a \in Found(t)
  PROVE  a \in Blocks /\ heap[a] = t
<1>1. CASE LastHasFree(t)
  BY <1>1 DEF Found, LastHasFree, LastNotDangling, TypeOK, HeaderTypes
<1>2. CASE ~LastHasFree(t)
  <2>1. a \in Chain(ah_alloc_area_head[t])
    BY <1>2 DEF Found, FirstFit
  <2> QED BY <2>1, ChainHasType
<1> QED
  BY <1>1, <1>2

LEMMA LastStep ==
  ASSUME IInv, [Next]_vars
  PROVE  LastNotDangling'
<1>1. TypeOK /\ LinkInv /\ LastNotDangling /\ SlotInv /\ ChunkInv
  BY DEF IInv
<1>2. CASE Open \/ Finish
  BY <1>2, AllocAssumption DEF Open, Finish, ZeroHeaders, NoPointer, LastNotDangling
<1>3. ASSUME NEW t \in Types, NEW a \in Blocks, heap'[a] = t, status = "open",
             UNCHANGED status, Count(t, a),
             \A b \in Blocks : heap[b] \in Types => heap'[b] = heap[b]
      PROVE  LastNotDangling'
  <2> SUFFICES ASSUME NEW u \in Types, ah_last_alloc_area'[u] # Null
               PROVE  heap'[ah_last_alloc_area'[u]] = u
    BY <1>3 DEF LastNotDangling
  <2>1. CASE u = t
    BY <1>1, <1>3, <2>1 DEF Count, TypeOK, HeaderTypes
  <2>2. CASE u # t
    BY <1>1, <1>3, <2>2 DEF Count, TypeOK, HeaderTypes, LastNotDangling
  <2> QED BY <2>1, <2>2
<1>4. ASSUME NEW t \in Types, GetFromFreeList(t) \/ GetFromBlob(t)
      PROVE  LastNotDangling'
  <2>1. PICK a \in Found(t) : Count(t, a)
    BY <1>4 DEF GetFromFreeList, GetFromBlob
  <2>2. a \in Blocks /\ heap[a] = t
    BY <1>1, FoundHasType
  <2>3. status = "open" /\ UNCHANGED <<status, heap>>
    BY <1>4 DEF GetFromFreeList, GetFromBlob
  <2> QED BY <1>3, <2>1, <2>2, <2>3
<1>5. ASSUME NEW t \in Types, GetFromNewChunk(t) PROVE LastNotDangling'
  <2>1. PICK b \in Blocks :
          heap[b] = Unused /\ heap' = [heap EXCEPT ![b] = t] /\ Count(t, b)
    BY <1>5 DEF GetFromNewChunk
  <2>2. status = "open" /\ UNCHANGED status
    BY <1>5 DEF GetFromNewChunk
  <2>3. heap'[b] = t /\ \A c \in Blocks : heap[c] \in Types => heap'[c] = heap[c]
    BY <1>1, <2>1, AllocAssumption DEF TypeOK, UserTypes
  <2> QED BY <1>3, <2>1, <2>2, <2>3
<1>6. ASSUME NEW s \in live, DeallocChunk(s) PROVE LastNotDangling'
  <2> DEFINE a == s[1]
  <2>1. /\ status = "open" /\ UNCHANGED status /\ IsLastOut(a)
        /\ heap' = [heap EXCEPT ![a] = Unused]
        /\ ah_last_alloc_area' =
             [ah_last_alloc_area EXCEPT ![heap[a]] = LastWithout(heap[a], a)]
    BY <1>6 DEF DeallocChunk, Dealloc
  <2>2. a \in Blocks /\ heap[a] \in Types
    BY <1>1, <2>1, OnlyOneOut DEF TypeOK, UserTypes, Structs
  <2> SUFFICES ASSUME NEW u \in Types, ah_last_alloc_area'[u] # Null
               PROVE  heap'[ah_last_alloc_area'[u]] = u
    BY <2>1 DEF LastNotDangling
  <2>3. /\ ah_last_alloc_area'[u] = ah_last_alloc_area[u]
        /\ ah_last_alloc_area[u] # a
        /\ ah_last_alloc_area[u] \in Blocks /\ heap[ah_last_alloc_area[u]] = u
    BY <1>1, <2>1, <2>2 DEF LastWithout, LastNotDangling, TypeOK, HeaderTypes
  <2> QED BY <1>1, <2>1, <2>2, <2>3 DEF TypeOK, UserTypes
<1>7. CASE \/ UNCHANGED vars
           \/ \E t \in Types : GetFails(t)
           \/ \E s \in live : DeallocToFreeList(s) \/ \E t \in Types : DeallocWrongType(s, t)
           \/ \E b \in Blocks : GetDirect(b) \/ GetSpecialError(b) \/ DeallocDirect(b)
  <2>1. /\ ah_last_alloc_area' = ah_last_alloc_area
        /\ status' = status \/ (status = "open" /\ status' = "crashed")
        /\ \A b \in Blocks : heap[b] \in Types => heap'[b] = heap[b]
    BY <1>1, <1>7, AllocAssumption
       DEF vars, headers, GetFails, DeallocToFreeList, Dealloc, DeallocWrongType,
           GetDirect, GetSpecialError, DeallocDirect, TypeOK, UserTypes
  <2> QED BY <1>1, <2>1 DEF LastNotDangling, TypeOK, HeaderTypes
<1> QED
  BY <1>2, <1>4, <1>5, <1>6, <1>7 DEF Next

LEMMA IInit ==
  ASSUME Init
  PROVE  IInv
<1>1. TypeOK
  BY TypeInit
<1>2. \A b \in Blocks : heap[b] \notin Types /\ aa_blob_start[b] = 1
                        /\ aa_free_list[b] = <<>>
                        /\ aa_free_structs_in_chunk[b] = 0
                        /\ aa_next[b] = Null /\ aa_prev[b] = Null
  BY AllocAssumption DEF Init
<1>3. SlotInv
  BY <1>2 DEF Init, SlotInv, IsFree, Slots
<1>4. ChunkInv
  BY <1>2 DEF ChunkInv
<1>5. LinkInv /\ OnList /\ LastNotDangling /\ FinishFreesChunks
  BY <1>2 DEF Init, NoPointer, LinkInv, OnList, LastNotDangling, FinishFreesChunks
<1> QED
  BY <1>1, <1>3, <1>4, <1>5 DEF IInv

LEMMA IStep ==
  ASSUME IInv, [Next]_vars
  PROVE  IInv'
<1>1. /\ TypeOK /\ SlotInv /\ ChunkInv /\ LinkInv /\ OnList
      /\ LastNotDangling /\ FinishFreesChunks
  BY DEF IInv
<1>2. TypeOK'
  BY <1>1, TypeStep
<1>3. LastNotDangling'
  BY LastStep
<1>4. ASSUME NEW t \in Types, GetFromFreeList(t) \/ GetFromBlob(t)
      PROVE  SlotInv' /\ ChunkInv' /\ LinkInv' /\ OnList' /\ FinishFreesChunks'
  <2>1. SlotInv' /\ ChunkInv'
    BY <1>1, <1>4, PopSlots, BlobSlots
  <2>2. /\ UNCHANGED <<ah_alloc_area_head, aa_next, aa_prev, heap, status>>
        /\ status = "open"
    BY <1>4 DEF GetFromFreeList, GetFromBlob
  <2> QED BY <1>1, <2>1, <2>2, OtherLinks DEF FinishFreesChunks
<1>5. ASSUME NEW t \in Types, GetFromNewChunk(t)
      PROVE  SlotInv' /\ ChunkInv' /\ LinkInv' /\ OnList' /\ FinishFreesChunks'
  <2>1. status' = "open"
    BY <1>5 DEF GetFromNewChunk
  <2> QED BY <1>1, <1>5, <2>1, NewChunkSlots, PushLinks, PushOnList
          DEF FinishFreesChunks
<1>6. ASSUME NEW s \in live, DeallocToFreeList(s)
      PROVE  SlotInv' /\ ChunkInv' /\ LinkInv' /\ OnList' /\ FinishFreesChunks'
  <2>1. /\ UNCHANGED <<ah_alloc_area_head, aa_next, aa_prev, heap, status>>
        /\ status = "open"
    BY <1>6 DEF DeallocToFreeList, Dealloc
  <2> QED BY <1>1, <1>6, <2>1, PushSlots, OtherLinks DEF FinishFreesChunks
<1>7. ASSUME NEW s \in live, DeallocChunk(s)
      PROVE  SlotInv' /\ ChunkInv' /\ LinkInv' /\ OnList' /\ FinishFreesChunks'
  <2>1. status' = "open"
    BY <1>7 DEF DeallocChunk, Dealloc
  <2> QED BY <1>1, <1>7, <2>1, FreeChunkSlots, UnlinkLinks, UnlinkOnList
          DEF FinishFreesChunks
<1>8. ASSUME Finish
      PROVE  SlotInv' /\ ChunkInv' /\ LinkInv' /\ OnList' /\ FinishFreesChunks'
  BY <1>1, <1>8, FinishSlots, FinishLinks DEF FinishFreesChunks
<1>9. ASSUME \/ Open \/ UNCHANGED vars
             \/ \E t \in Types : GetFails(t)
             \/ \E s \in live, t \in Types : DeallocWrongType(s, t)
             \/ \E b \in Blocks : GetDirect(b) \/ GetSpecialError(b) \/ DeallocDirect(b)
      PROVE  SlotInv' /\ ChunkInv' /\ LinkInv' /\ OnList' /\ FinishFreesChunks'
  <2>1. \A b \in Blocks : heap'[b] = heap[b] \/ {heap[b], heap'[b]} \cap Types = {}
    BY <1>1, <1>9, AllocAssumption
       DEF Open, vars, GetFails, DeallocWrongType, GetDirect, GetSpecialError,
           DeallocDirect, TypeOK, UserTypes
  <2>2. status' = "closed" => status = "closed"
    BY <1>9 DEF Open, vars, GetFails, DeallocWrongType, GetDirect,
                GetSpecialError, DeallocDirect
  <2>3. UNCHANGED <<aa_next, aa_prev>>
    BY <1>9 DEF Open, vars, areas, GetFails, DeallocWrongType, GetDirect,
                GetSpecialError, DeallocDirect
  <2>4. CASE Open
    <3>1. \A b \in Blocks : heap[b] \notin Types
      BY <1>1, <2>4 DEF Open, FinishFreesChunks
    <3>2. \A t \in Types : ah_alloc_area_head'[t] = Null
      BY <2>4 DEF Open, ZeroHeaders, NoPointer
    <3>3. heap' = heap
      BY <2>4 DEF Open
    <3> QED
      BY <1>1, <1>9, <2>2, <2>3, <3>1, <3>2, <3>3, OtherSlots
         DEF LinkInv, OnList, FinishFreesChunks
  <2>5. CASE ~Open
    <3>1. UNCHANGED ah_alloc_area_head
      BY <1>9, <2>5 DEF vars, headers, GetFails, DeallocWrongType, GetDirect,
                        GetSpecialError, DeallocDirect
    <3> QED
      BY <1>1, <1>9, <2>1, <2>2, <2>3, <3>1, OtherSlots, OtherLinks
         DEF FinishFreesChunks
  <2> QED BY <2>4, <2>5
<1> QED
  BY <1>2, <1>3, <1>4, <1>5, <1>6, <1>7, <1>8, <1>9 DEF Next, IInv

(* Every reachable state of the allocator satisfies the invariant.          *)
THEOREM InvariantHolds == Spec => []IInv
<1> QED
  BY IInit, IStep, PTL DEF Spec

-------------------------------------------------------------------------------
(* What follows.                                                           *)

(* No struct of a chunk is ever out twice, or out and on the free list.     *)
THEOREM NoSharedStruct == Spec => []Partition
<1>1. IInv => Partition
  <2> SUFFICES ASSUME IInv PROVE Partition OBVIOUS
  <2>1. TypeOK /\ SlotInv /\ ChunkInv
    BY DEF IInv
  <2> SUFFICES ASSUME NEW b \in Blocks
               PROVE  /\ FreeSlots(b) \subseteq 1..(aa_blob_start[b] - 1)
                      /\ {s[2] : s \in OutOf(b)} =
                           1..(aa_blob_start[b] - 1) \ FreeSlots(b)
    BY <2>1 DEF Partition, SlotInv, ChunkInv
  <2> DEFINE n == aa_blob_start[b]
  <2>2. n \in Nat /\ \A k \in Slots : k < n <=> k \in 1..(n - 1)
    BY <2>1 DEF TypeOK, SpaceTypes, Slots
  <2>3. \A k : k \in FreeSlots(b) <=> k \in Slots /\ IsFree(b, k)
    BY <2>1 DEF FreeSlots, IsFree, TypeOK, SpaceTypes
  <2>4. ASSUME NEW k
        PROVE  k \in {s[2] : s \in OutOf(b)} <=> k \in Slots /\ <<b, k>> \in live \cup lost
    <3>1. ASSUME NEW s \in OutOf(b) PROVE s = <<b, s[2]>> /\ s[2] \in Slots
      BY <2>1 DEF OutOf, TypeOK, UserTypes, Structs
    <3>2. ASSUME <<b, k>> \in live \cup lost PROVE <<b, k>> \in OutOf(b)
      BY <3>2 DEF OutOf
    <3> QED BY <3>1, <3>2 DEF OutOf
  <2>5. \A k \in 1..(n - 1) : k \in Slots
    BY <2>2 DEF Slots
  <2> HIDE DEF n
  <2>6. \A k \in Slots : /\ IsFree(b, k) => k < n
                         /\ <<b, k>> \in live \cup lost <=> k < n /\ ~IsFree(b, k)
    BY <2>1 DEF SlotInv, n
  <2>7. FreeSlots(b) \subseteq 1..(n - 1)
    BY <2>2, <2>3, <2>6
  <2>8. {s[2] : s \in OutOf(b)} = 1..(n - 1) \ FreeSlots(b)
    <3> SUFFICES ASSUME NEW k
                 PROVE  k \in {s[2] : s \in OutOf(b)} <=>
                          k \in 1..(n - 1) /\ k \notin FreeSlots(b)
      BY Zenon
    <3> QED BY <2>2, <2>3, <2>4, <2>5, <2>6
  <2> QED BY <2>7, <2>8 DEF n
<1> QED
  BY <1>1, InvariantHolds, PTL

(* aa_free_structs_in_chunk counts the free structs of each chunk.          *)
THEOREM CountExact == Spec => []FreeCountExact
<1>1. IInv => FreeCountExact
  BY DEF IInv, ChunkInv, FreeCountExact
<1> QED
  BY <1>1, InvariantHolds, PTL

(* ah_last_alloc_area never dangles.                                       *)
THEOREM CacheIsRight == Spec => []LastNotDangling
<1>1. IInv => LastNotDangling
  BY DEF IInv
<1> QED
  BY <1>1, InvariantHolds, PTL

(* The list of a type holds its chunks, all of them, and its links agree.   *)
THEOREM ListsComplete == Spec => []ListComplete
<1>1. IInv => ListComplete
  <2> SUFFICES ASSUME IInv PROVE ListComplete OBVIOUS
  <2>1. TypeOK /\ LinkInv /\ OnList
    BY DEF IInv
  <2> SUFFICES ASSUME NEW t \in Types
               PROVE  /\ Chain(ah_alloc_area_head[t]) = {b \in Blocks : heap[b] = t}
                      /\ \A b \in Chain(ah_alloc_area_head[t]) :
                           aa_next[b] # Null => aa_prev[aa_next[b]] = b
    BY DEF ListComplete
  <2>2. \A b \in Chain(ah_alloc_area_head[t]) : b \in Blocks /\ heap[b] = t
    BY <2>1, ChainHasType
  <2>3. \A b \in Blocks : heap[b] = t => b \in Chain(ah_alloc_area_head[t])
    BY <2>1 DEF OnList
  <2> QED BY <2>1, <2>2, <2>3 DEF LinkInv
<1> QED
  BY <1>1, InvariantHolds, PTL

(* dwarf_finish() frees every chunk.                                       *)
THEOREM FinishIsComplete == Spec => []FinishFreesChunks
<1>1. IInv => FinishFreesChunks
  BY DEF IInv
<1> QED
  BY <1>1, InvariantHolds, PTL

-------------------------------------------------------------------------------
(* What the invariant says of the steps: when malloc is asked for a chunk,  *)
(* and when one is given back.                                             *)

(* The steps by what they do to the blocks.                                *)
LEMMA HeapSteps ==
  ASSUME TypeOK, [Next]_vars, status' # "closed"
  PROVE  \/ heap' = heap
         \/ \E t \in Types : GetFromNewChunk(t)
         \/ \E s \in live : DeallocChunk(s)
         \/ \E b \in Blocks : /\ heap[b] \notin Types
                              /\ \E v : v \notin Types /\ heap' = [heap EXCEPT ![b] = v]
                              /\ UNCHANGED users
<1>1. CASE Open \/ UNCHANGED vars
  BY <1>1 DEF Open, vars
<1>2. CASE Finish
  BY <1>2 DEF Finish
<1>3. ASSUME NEW t \in Types,
             GetFromFreeList(t) \/ GetFromBlob(t) \/ GetFails(t)
      PROVE  heap' = heap
  BY <1>3 DEF GetFromFreeList, GetFromBlob, GetFails
<1>4. ASSUME NEW s \in live,
             DeallocToFreeList(s) \/ \E t \in Types : DeallocWrongType(s, t)
      PROVE  heap' = heap
  BY <1>4 DEF DeallocToFreeList, DeallocWrongType
<1>5. ASSUME NEW b \in Blocks,
             GetDirect(b) \/ GetSpecialError(b) \/ DeallocDirect(b)
      PROVE  /\ heap[b] \notin Types
             /\ \E v : v \notin Types /\ heap' = [heap EXCEPT ![b] = v]
             /\ UNCHANGED users
  BY <1>5, AllocAssumption DEF GetDirect, GetSpecialError, DeallocDirect
<1> QED
  BY <1>1, <1>2, <1>3, <1>4, <1>5 DEF Next

(* With no free struct in any chunk of type t, all of each chunk is out.    *)
LEMMA FullChunk ==
  ASSUME IInv, NEW t \in Types, NoneFree(t), NEW c \in Blocks, heap[c] = t
  PROVE  OutOf(c) = {c} \X (1..BlobEnd(c))
<1>1. TypeOK /\ SlotInv /\ ChunkInv /\ OnList
  BY DEF IInv
<1> DEFINE n == aa_blob_start[c]
           q == aa_free_list[c]
           e == BlobEnd(c)
<1>2. aa_free_structs_in_chunk[c] = 0
  BY <1>1 DEF OnList, NoneFree, HasFree
<1>3. n \in Slots /\ q \in Seq(Slots) /\ Len(q) \in Nat /\ e \in Nat
  BY <1>1, AllocAssumption DEF TypeOK, SpaceTypes, BlobEnd
<1>4. 0 = Len(q) + (e + 1 - n) /\ n <= e + 1
  BY <1>1, <1>2 DEF ChunkInv
<1> HIDE DEF n, q, e
<1>5. Len(q) = 0 /\ n = e + 1
  BY <1>3, <1>4 DEF Slots
<1>6. \A k \in Slots : ~IsFree(c, k)
  BY <1>3, <1>5 DEF IsFree, q
<1>7. \A k \in Slots : <<c, k>> \in live \cup lost <=> k < n
  BY <1>1, <1>6 DEF SlotInv, n
<1>8. \A k : k \in 1..e <=> k \in Slots /\ k < n
  BY <1>3, <1>5 DEF Slots
<1>9. \A s \in OutOf(c) : s = <<c, s[2]>> /\ s[2] \in Slots /\ s \in live \cup lost
  BY <1>1 DEF OutOf, TypeOK, UserTypes, Structs
<1>10. \A s \in OutOf(c) : s \in {c} \X (1..e)
  BY <1>7, <1>8, <1>9
<1>11. \A s \in {c} \X (1..e) : s \in OutOf(c)
  BY <1>7, <1>8 DEF OutOf
<1> QED
  BY <1>10, <1>11 DEF e

(* _dwarf_get_alloc() asks malloc for a chunk only when every struct of the *)
(* chunks of the type is out: no free struct is ever missed by the search. *)
THEOREM NoEarlyGrowth == Spec => GrowsOnlyWhenFull
<1>1. ASSUME IInv, [Next]_vars,
             NEW t \in Types, NEW b \in Blocks, heap[b] # t, heap'[b] = t,
             NEW c \in Blocks, heap[c] = t
      PROVE  OutOf(c) = {c} \X (1..BlobEnd(c))
  <2>1. TypeOK
    BY <1>1 DEF IInv
  <2>2. status' # "closed"
    <3>1. CASE Finish
      BY <1>1, <2>1, <3>1, AllocAssumption DEF Finish
    <3>2. ASSUME status' = "closed", ~Finish PROVE status = "closed"
      BY <1>1, <3>2 DEF Next, vars, Open, GetFromFreeList, GetFromBlob,
         GetFromNewChunk, GetFails, DeallocToFreeList, DeallocChunk, Dealloc,
         DeallocWrongType, GetDirect, GetSpecialError, DeallocDirect
    <3>3. ASSUME status' = "closed", status = "closed" PROVE heap'[b] = heap[b] \/ heap'[b] \notin Types
      BY <1>1, <2>1, <3>3, AllocAssumption
         DEF Next, vars, Open, GetFromFreeList, GetFromBlob,
         GetFromNewChunk, GetFails, DeallocToFreeList, DeallocChunk, Dealloc, Finish,
         DeallocWrongType, GetDirect, GetSpecialError, DeallocDirect, TypeOK, UserTypes
    <3> QED BY <1>1, <3>1, <3>2, <3>3
  <2>3. ASSUME NEW u \in Types, GetFromNewChunk(u)
        PROVE  NoneFree(t)
    <3>1. u = t
      BY <1>1, <2>1, <2>3 DEF GetFromNewChunk, TypeOK, UserTypes
    <3> QED BY <2>3, <3>1 DEF GetFromNewChunk
  <2>4. ASSUME NEW s \in live, DeallocChunk(s) PROVE FALSE
    BY <1>1, <2>1, <2>4, AllocAssumption DEF DeallocChunk, TypeOK, UserTypes
  <2>5. ASSUME NEW d \in Blocks, NEW v, v \notin Types, heap' = [heap EXCEPT ![d] = v]
        PROVE  FALSE
    BY <1>1, <2>1, <2>5 DEF TypeOK, UserTypes
  <2>6. NoneFree(t)
    BY <1>1, <2>1, <2>2, <2>3, <2>4, <2>5, HeapSteps
  <2> QED BY <1>1, <2>6, FullChunk
<1>2. IInv /\ [Next]_vars =>
        [\A t \in Types, b \in Blocks : heap[b] # t /\ heap'[b] = t =>
           \A c \in Blocks : heap[c] = t => OutOf(c) = {c} \X (1..BlobEnd(c))]_vars
  BY <1>1
<1> QED
  BY <1>2, InvariantHolds, PTL DEF Spec, GrowsOnlyWhenFull

(* dwarf_dealloc() gives a chunk back to malloc only with the last struct   *)
(* that is out of it: no struct the caller still holds loses its memory.   *)
THEOREM NoUseAfterFree == Spec => NeverFreedUnderUser
<1>1. ASSUME IInv, [Next]_vars, status' = "open",
             NEW s \in (live \cup lost) \cap (live' \cup lost')
      PROVE  heap'[s[1]] = heap[s[1]]
  <2>1. TypeOK /\ SlotInv /\ ChunkInv
    BY <1>1 DEF IInv
  <2>2. \A b \in Blocks : heap[b] \notin Types => s[1] # b
    BY <1>1, <2>1, NothingOut
  <2>3. s[1] \in Blocks
    BY <1>1, <2>1 DEF TypeOK, UserTypes, Structs
  <2>4. ASSUME NEW u \in Types, GetFromNewChunk(u)
        PROVE  heap'[s[1]] = heap[s[1]]
    BY <2>1, <2>2, <2>3, <2>4, AllocAssumption DEF GetFromNewChunk, TypeOK, UserTypes
  <2>5. ASSUME NEW u \in live, DeallocChunk(u)
        PROVE  heap'[s[1]] = heap[s[1]]
    <3>1. s # u
      BY <1>1, <2>1, <2>5 DEF DeallocChunk, Dealloc, SlotInv
    <3>2. s[1] # u[1]
      BY <1>1, <2>1, <2>5, <3>1, OnlyOneOut DEF DeallocChunk
    <3> QED BY <2>1, <2>3, <2>5, <3>2 DEF DeallocChunk, TypeOK, UserTypes
  <2>6. ASSUME NEW b \in Blocks, heap[b] \notin Types,
               \E v : heap' = [heap EXCEPT ![b] = v]
        PROVE  heap'[s[1]] = heap[s[1]]
    BY <2>1, <2>2, <2>3, <2>6 DEF TypeOK, UserTypes
  <2> QED
    BY <1>1, <2>1, <2>4, <2>5, <2>6, HeapSteps
<1>2. IInv /\ [Next]_vars =>
        [status' = "open" =>
           \A s \in (live \cup lost) \cap (live' \cup lost') :
             heap'[s[1]] = heap[s[1]]]_vars
  BY <1>1
<1> QED
  BY <1>2, InvariantHolds, PTL DEF Spec, NeverFreedUnderUser

-------------------------------------------------------------------------------
(* The allocator implements the pool of structs.                           *)

Taken == live \cup lost

(* A step that hands out struct s of type t.                               *)
Hands(t, s) ==
  /\ status = "open" /\ status' = "open"
  /\ s \in Addresses /\ s \notin Taken /\ Taken' = Taken \cup {s}
  /\ heap'[s[1]] = t
  /\ \A u \in Taken : heap'[u[1]] = heap[u[1]]

(* A struct that is out is in a chunk.                                     *)
LEMMA TakenHasType ==
  ASSUME IInv
  PROVE  /\ \A s \in Taken : s[1] \in Blocks /\ heap[s[1]] \in Types
         /\ status = "closed" => Taken = {}
<1>1. TypeOK /\ SlotInv /\ ChunkInv /\ FinishFreesChunks
  BY DEF IInv
<1>2. \A s \in Taken : s[1] \in Blocks /\ heap[s[1]] \in Types
  BY <1>1, NothingOut DEF Taken, TypeOK, UserTypes, Structs
<1> QED
  BY <1>1, <1>2 DEF FinishFreesChunks

LEMMA SlotIsAddress ==
  ASSUME TypeOK, NEW a \in Blocks, heap[a] \in Types, NEW k \in 1..BlobEnd(a)
  PROVE  <<a, k>> \in Addresses
BY DEF Addresses, BlobEnd

(* The three ways to find a struct all hand out one that nobody holds.      *)
LEMMA FreeListHands ==
  ASSUME IInv, NEW t \in Types, GetFromFreeList(t)
  PROVE  \E s : Hands(t, s)
<1>1. TypeOK /\ SlotInv /\ ChunkInv /\ LinkInv /\ LastNotDangling
  BY DEF IInv
<1>2. PICK a \in Found(t) : /\ aa_free_list[a] # <<>>
                            /\ HandOut(t, <<a, Head(aa_free_list[a])>>)
  BY DEF GetFromFreeList
<1>3. a \in Blocks /\ heap[a] = t
  BY <1>1, FoundHasType
<1> DEFINE q == aa_free_list[a]
           k == Head(q)
<1>4. q \in Seq(Slots) /\ q # <<>>
  BY <1>1, <1>2, <1>3 DEF TypeOK, SpaceTypes
<1>5. k \in Slots /\ 1 \in DOMAIN q /\ k = q[1]
  BY <1>4
<1>6. IsFree(a, k)
  BY <1>5 DEF IsFree
<1>7. k < aa_blob_start[a] /\ <<a, k>> \notin Taken
  BY <1>1, <1>3, <1>5, <1>6 DEF SlotInv, Taken
<1>8. aa_blob_start[a] <= BlobEnd(a) + 1
  BY <1>1, <1>3 DEF ChunkInv
<1>9. BlobEnd(a) \in Nat /\ aa_blob_start[a] \in Slots
  BY <1>1, <1>3, AllocAssumption DEF BlobEnd, TypeOK, SpaceTypes
<1>10. k \in 1..BlobEnd(a)
  BY <1>5, <1>7, <1>8, <1>9 DEF Slots
<1>11. <<a, k>> \in Addresses
  BY <1>1, <1>3, <1>10, SlotIsAddress
<1>12. Taken' = Taken \cup {<<a, k>>}
  BY <1>2 DEF HandOut, Taken
<1>13. status = "open" /\ status' = status /\ heap' = heap
  BY DEF GetFromFreeList
<1> QED
  BY <1>3, <1>7, <1>11, <1>12, <1>13 DEF Hands

LEMMA BlobHands ==
  ASSUME IInv, NEW t \in Types, GetFromBlob(t)
  PROVE  \E s : Hands(t, s)
<1>1. TypeOK /\ SlotInv /\ LinkInv /\ LastNotDangling
  BY DEF IInv
<1>2. PICK a \in Found(t) : /\ aa_blob_start[a] <= BlobEnd(a)
                            /\ HandOut(t, <<a, aa_blob_start[a]>>)
  BY DEF GetFromBlob
<1>3. a \in Blocks /\ heap[a] = t
  BY <1>1, FoundHasType
<1> DEFINE k == aa_blob_start[a]
<1>4. k \in Slots /\ BlobEnd(a) \in Nat
  BY <1>1, <1>3, AllocAssumption DEF BlobEnd, TypeOK, SpaceTypes
<1>5. <<a, k>> \notin Taken
  <2>1. ~(k < k)
    BY <1>4 DEF Slots
  <2> QED BY <1>1, <1>3, <1>4, <2>1 DEF SlotInv, Taken
<1>6. k \in 1..BlobEnd(a)
  BY <1>2, <1>4 DEF Slots
<1>7. <<a, k>> \in Addresses
  BY <1>1, <1>3, <1>6, SlotIsAddress
<1>8. Taken' = Taken \cup {<<a, k>>}
  BY <1>2 DEF HandOut, Taken
<1>9. status = "open" /\ status' = status /\ heap' = heap
  BY DEF GetFromBlob
<1> QED
  BY <1>3, <1>5, <1>7, <1>8, <1>9 DEF Hands

LEMMA NewChunkHands ==
  ASSUME IInv, NEW t \in Types, GetFromNewChunk(t)
  PROVE  \E s : Hands(t, s)
<1>1. TypeOK /\ SlotInv /\ ChunkInv
  BY DEF IInv
<1>2. PICK b \in Blocks : /\ heap[b] = Unused
                          /\ heap' = [heap EXCEPT ![b] = t]
                          /\ HandOut(t, <<b, 1>>)
  BY DEF GetFromNewChunk
<1>3. heap[b] \notin Types
  BY <1>2, AllocAssumption
<1>4. \A s \in Taken : s[1] # b /\ s[1] \in Blocks
  BY <1>1, <1>3, NothingOut, TakenHasType DEF Taken
<1>5. <<b, 1>> \notin Taken
  BY <1>4
<1>6. <<b, 1>> \in Addresses
  <2>1. 1 \in 1..ah_structs_per_chunk[t]
    <3>1. ah_structs_per_chunk[t] \in Nat \ {0, 1}
      BY AllocAssumption
    <3> QED BY <3>1
  <2> QED BY <2>1 DEF Addresses
<1>7. heap'[b] = t /\ \A s \in Taken : heap'[s[1]] = heap[s[1]]
  BY <1>1, <1>2, <1>4 DEF TypeOK, UserTypes
<1>8. Taken' = Taken \cup {<<b, 1>>}
  BY <1>2 DEF HandOut, Taken
<1>9. status = "open" /\ status' = "open"
  BY DEF GetFromNewChunk
<1> QED
  BY <1>5, <1>6, <1>7, <1>8, <1>9 DEF Hands

(* Handing out a struct is a Take of the pool.                             *)
LEMMA HandsIsTake ==
  ASSUME NEW t \in Types, NEW s, Hands(t, s)
  PROVE  Pool!Take(t)
<1>1. Pool!Free(s)
  BY DEF Pool!Free, Out, Hands, Taken
<1>2. Out' = [Out EXCEPT ![t] = @ \cup {s}]
  <2>1. \A u \in Types : Out'[u] = {x \in Taken' : heap'[x[1]] = u}
    BY DEF Out, Hands, Taken
  <2>2. \A u \in Types : Out[u] = {x \in Taken : heap[x[1]] = u}
    BY DEF Out, Hands, Taken
  <2>3. Out'[t] = Out[t] \cup {s}
    BY <2>1, <2>2 DEF Hands
  <2>4. ASSUME NEW u \in Types, u # t PROVE Out'[u] = Out[u]
    <3>1. \A x : x \in Taken' /\ heap'[x[1]] = u <=> x \in Taken /\ heap[x[1]] = u
      BY <2>4 DEF Hands
    <3>2. {x \in Taken' : heap'[x[1]] = u} = {x \in Taken : heap[x[1]] = u}
      BY <3>1
    <3> QED BY <2>1, <2>2, <3>2, Zenon
  <2>5. Out' = [u \in Types |-> Out'[u]] /\ Out = [u \in Types |-> Out[u]]
    BY DEF Out
  <2> HIDE DEF Out
  <2> QED BY <2>3, <2>4, <2>5
<1> QED
  BY <1>1, <1>2 DEF Pool!Take, Hands

(* Giving back struct s, the last of its chunk or not, is a Give.          *)
LEMMA DeallocIsGive ==
  ASSUME IInv, NEW s \in live, Dealloc(s),
         \A u \in Taken : u # s => heap'[u[1]] = heap[u[1]]
  PROVE  Pool!Give(heap[s[1]])
<1> DEFINE t == heap[s[1]]
<1>1. TypeOK /\ SlotInv
  BY DEF IInv
<1>2. t \in Types
  BY TakenHasType DEF Taken
<1>3. Taken' = Taken \ {s}
  BY <1>1 DEF Dealloc, SlotInv, Taken
<1>4. \A u \in Types : Out'[u] = {x \in Taken' : heap'[x[1]] = u}
  BY DEF Out, Dealloc, Taken
<1>5. \A u \in Types : Out[u] = {x \in Taken : heap[x[1]] = u}
  BY DEF Out, Dealloc, Taken
<1>6. s \in Out[t]
  BY <1>2, <1>5 DEF Taken
<1>7. Out' = [Out EXCEPT ![t] = @ \ {s}]
  <2>1. Out'[t] = Out[t] \ {s}
    BY <1>2, <1>3, <1>4, <1>5
  <2>2. ASSUME NEW u \in Types, u # t PROVE Out'[u] = Out[u]
    <3>1. \A x : x \in Taken' /\ heap'[x[1]] = u <=> x \in Taken /\ heap[x[1]] = u
      BY <1>3, <2>2
    <3>2. {x \in Taken' : heap'[x[1]] = u} = {x \in Taken : heap[x[1]] = u}
      BY <3>1
    <3> QED BY <1>4, <1>5, <3>2, Zenon
  <2>3. Out' = [u \in Types |-> Out'[u]] /\ Out = [u \in Types |-> Out[u]]
    BY DEF Out
  <2> HIDE DEF Out
  <2> QED BY <2>1, <2>2, <2>3
<1> QED
  BY <1>6, <1>7 DEF Pool!Give

(* The other steps change nothing the pool sees.                           *)
LEMMA SameOut ==
  ASSUME Taken' = Taken, \A u \in Taken : heap'[u[1]] = heap[u[1]],
         (status = "closed" \/ status' = "closed") => Taken = {}
  PROVE  Out' = Out
BY DEF Out, Taken

LEMMA PoolStep ==
  ASSUME IInv, [Next]_vars
  PROVE  Pool!Next \/ Out' = Out
<1>1. TypeOK /\ SlotInv /\ ChunkInv
  BY DEF IInv
<1>2. status = "closed" => Taken = {}
  BY TakenHasType
<1>3. \A u \in Taken : u[1] \in Blocks /\ heap[u[1]] \in Types
  BY TakenHasType
<1>4. CASE \E t \in Types : GetFromFreeList(t) \/ GetFromBlob(t) \/ GetFromNewChunk(t)
  BY <1>4, FreeListHands, BlobHands, NewChunkHands, HandsIsTake DEF Pool!Next
<1>5. CASE Finish
  BY <1>5 DEF Finish, Pool!Next, Pool!GiveAll, Out
<1>6. ASSUME NEW s \in live, DeallocToFreeList(s) \/ DeallocChunk(s)
      PROVE  Pool!Next
  <2>1. \A u \in Taken : u # s => heap'[u[1]] = heap[u[1]]
    <3>1. CASE DeallocToFreeList(s)
      BY <3>1 DEF DeallocToFreeList
    <3>2. CASE DeallocChunk(s)
      <4>1. \A u \in Taken : u # s => u[1] # s[1]
        BY <1>1, <3>2, OnlyOneOut DEF DeallocChunk, Taken
      <4> QED BY <1>1, <1>3, <3>2, <4>1 DEF DeallocChunk, TypeOK, UserTypes
    <3> QED BY <1>6, <3>1, <3>2
  <2>2. Dealloc(s)
    BY <1>6 DEF DeallocToFreeList, DeallocChunk
  <2>3. heap[s[1]] \in Types
    BY <1>3 DEF Taken
  <2> QED BY <2>1, <2>2, <2>3, DeallocIsGive DEF Pool!Next
<1>7. ASSUME \/ Open \/ UNCHANGED vars
             \/ \E t \in Types : GetFails(t)
             \/ \E s \in live, t \in Types : DeallocWrongType(s, t)
      PROVE  Out' = Out
  <2>1. Taken' = Taken /\ heap' = heap
    BY <1>7 DEF Open, vars, users, GetFails, DeallocWrongType, Taken
  <2>2. status' = "closed" => status = "closed"
    BY <1>7 DEF Open, vars, GetFails, DeallocWrongType
  <2> QED BY <1>2, <2>1, <2>2, SameOut
<1>8. ASSUME NEW b \in Blocks, GetDirect(b) \/ GetSpecialError(b) \/ DeallocDirect(b)
      PROVE  Out' = Out
  <2>1. heap[b] \notin Types
    BY <1>8, AllocAssumption DEF GetDirect, GetSpecialError, DeallocDirect
  <2>2. Taken' = Taken /\ status' = status
    BY <1>8 DEF GetDirect, GetSpecialError, DeallocDirect, users, Taken
  <2>3. \A c \in Blocks : c # b => heap'[c] = heap[c]
    BY <1>1, <1>8 DEF GetDirect, GetSpecialError, DeallocDirect, TypeOK, UserTypes
  <2>4. \A u \in Taken : heap'[u[1]] = heap[u[1]]
    BY <1>3, <2>1, <2>3
  <2> QED BY <1>2, <2>2, <2>4, SameOut
<1> QED
  BY <1>4, <1>5, <1>6, <1>7, <1>8 DEF Next

(* Every behaviour of the allocator, seen through Out, is one of the pool:  *)
(* with any number of types, blocks and structs to a chunk.                *)
THEOREM AllocatorIsPool == Spec => ImplementsPool
<1>1. Init => Pool!Init
  BY DEF Init, Pool!Init, Out
<1>2. IInv /\ [Next]_vars => [Pool!Next]_Out
  BY PoolStep
<1> QED
  BY <1>1, <1>2, InvariantHolds, PTL DEF Spec, ImplementsPool, Pool!Spec

-------------------------------------------------------------------------------
(* ah_struct_user_holds.                                                   *)

HeldInv == IsFiniteSet(Taken) /\ HoldsExact

Held(t) == {s \in Taken : heap[s[1]] = t}

LEMMA HeldIsFinite ==
  ASSUME HeldInv, NEW t \in Types
  PROVE  IsFiniteSet(Held(t))
<1>1. Held(t) \subseteq Taken /\ IsFiniteSet(Taken)
  BY DEF HeldInv, Held
<1> QED
  BY <1>1, FS_Subset

(* One more struct of type t is held.                                      *)
LEMMA HandsHeld ==
  ASSUME IInv, HeldInv, NEW t \in Types, NEW s, Hands(t, s),
         ah_struct_user_holds' = [ah_struct_user_holds EXCEPT ![t] = @ + 1]
  PROVE  HeldInv'
<1>1. IsFiniteSet(Taken')
  BY FS_AddElement DEF HeldInv, Hands
<1>2. ah_struct_user_holds \in [Types -> Int]
  BY DEF IInv, TypeOK, HeaderTypes
<1>3. \A u \in Types : ah_struct_user_holds[u] = Cardinality(Held(u))
  BY DEF HeldInv, HoldsExact, Hands, Held, Taken
<1>4. Held(t)' = Held(t) \cup {s} /\ s \notin Held(t)
  BY DEF Held, Hands
<1>5. Cardinality(Held(t)') = Cardinality(Held(t)) + 1
  BY <1>4, HeldIsFinite, FS_AddElement
<1>6. ASSUME NEW u \in Types, u # t PROVE Held(u)' = Held(u)
  <2>1. \A x : x \in Taken' /\ heap'[x[1]] = u <=> x \in Taken /\ heap[x[1]] = u
    BY <1>6 DEF Hands
  <2> QED BY <2>1 DEF Held
<1>7. \A u \in Types : ah_struct_user_holds'[u] = Cardinality(Held(u)')
  BY <1>2, <1>3, <1>5, <1>6
<1> QED
  BY <1>1, <1>7 DEF HeldInv, HoldsExact, Held, Taken

(* One struct less.                                                        *)
LEMMA DeallocHeld ==
  ASSUME IInv, HeldInv, NEW s \in live, Dealloc(s),
         NEW t \in Types, heap[s[1]] = t,
         \A u \in Taken : u # s => heap'[u[1]] = heap[u[1]]
  PROVE  HeldInv'
<1>1. Taken' = Taken \ {s} /\ s \in Taken
  BY DEF Dealloc, IInv, SlotInv, Taken
<1>2. IsFiniteSet(Taken')
  BY <1>1, FS_RemoveElement DEF HeldInv
<1>3. ah_struct_user_holds \in [Types -> Int]
  BY DEF IInv, TypeOK, HeaderTypes
<1>4. \A u \in Types : ah_struct_user_holds[u] = Cardinality(Held(u))
  BY DEF HeldInv, HoldsExact, Dealloc, Held, Taken
<1>5. Held(t)' = Held(t) \ {s} /\ s \in Held(t)
  <2>1. \A x : x \in Taken' /\ heap'[x[1]] = t <=> x \in Taken /\ x # s /\ heap[x[1]] = t
    BY <1>1
  <2>2. Held(t)' = {x \in Taken' : heap'[x[1]] = t}
    BY DEF Held
  <2>3. \A x : x \in Held(t) <=> x \in Taken /\ heap[x[1]] = t
    BY DEF Held
  <2>4. \A x : x \in Held(t)' <=> x \in Taken' /\ heap'[x[1]] = t
    BY <2>2
  <2> QED BY <1>1, <2>1, <2>3, <2>4
<1>6. Cardinality(Held(t)') = Cardinality(Held(t)) - 1
  BY <1>5, HeldIsFinite, FS_RemoveElement
<1>7. ASSUME NEW u \in Types, u # t PROVE Held(u)' = Held(u)
  <2>1. \A x : x \in Taken' /\ heap'[x[1]] = u <=> x \in Taken /\ heap[x[1]] = u
    BY <1>1, <1>7
  <2>2. {x \in Taken' : heap'[x[1]] = u} = {x \in Taken : heap[x[1]] = u}
    BY <2>1
  <2> QED BY <2>2 DEF Held
<1>8. ah_struct_user_holds' = [ah_struct_user_holds EXCEPT ![t] = @ - 1]
  BY DEF Dealloc
<1>9. \A u \in Types : ah_struct_user_holds'[u] = Cardinality(Held(u)')
  BY <1>3, <1>4, <1>6, <1>7, <1>8
<1> QED
  BY <1>2, <1>9 DEF HeldInv, HoldsExact, Held, Taken

(* A step that hands out and takes back nothing.                           *)
LEMMA SameHeld ==
  ASSUME HeldInv, Taken' = Taken, \A u \in Taken : heap'[u[1]] = heap[u[1]],
         UNCHANGED ah_struct_user_holds, status' = "open" => status = "open"
  PROVE  HeldInv'
<1>1. \A t \in Types : {s \in Taken' : heap'[s[1]] = t} = {s \in Taken : heap[s[1]] = t}
  OBVIOUS
<1> QED
  BY <1>1 DEF HeldInv, HoldsExact, Taken

LEMMA HeldStep ==
  ASSUME IInv, HeldInv, [Next]_vars
  PROVE  HeldInv'
<1>1. TypeOK /\ SlotInv /\ ChunkInv
  BY DEF IInv
<1>2. \A u \in Taken : u[1] \in Blocks /\ heap[u[1]] \in Types
  BY TakenHasType
<1>3. ASSUME NEW t \in Types,
             GetFromFreeList(t) \/ GetFromBlob(t) \/ GetFromNewChunk(t)
      PROVE  HeldInv'
  <2>1. ah_struct_user_holds' = [ah_struct_user_holds EXCEPT ![t] = @ + 1]
    BY <1>3 DEF GetFromFreeList, GetFromBlob, GetFromNewChunk, Count
  <2> QED BY <1>3, <2>1, FreeListHands, BlobHands, NewChunkHands, HandsHeld
<1>4. ASSUME NEW s \in live, DeallocToFreeList(s) \/ DeallocChunk(s)
      PROVE  HeldInv'
  <2>1. \A u \in Taken : u # s => heap'[u[1]] = heap[u[1]]
    <3>1. CASE DeallocToFreeList(s)
      BY <3>1 DEF DeallocToFreeList
    <3>2. CASE DeallocChunk(s)
      <4>1. \A u \in Taken : u # s => u[1] # s[1]
        BY <1>1, <3>2, OnlyOneOut DEF DeallocChunk, Taken
      <4> QED BY <1>1, <1>2, <3>2, <4>1 DEF DeallocChunk, TypeOK, UserTypes
    <3> QED BY <1>4, <3>1, <3>2
  <2>2. Dealloc(s)
    BY <1>4 DEF DeallocToFreeList, DeallocChunk
  <2>3. PICK t \in Types : heap[s[1]] = t
    BY <1>2 DEF Taken
  <2> QED BY <2>1, <2>2, <2>3, DeallocHeld
<1>5. CASE Finish
  <2>1. Taken' = {} /\ status' # "open"
    BY <1>5 DEF Finish, Taken
  <2> QED BY <2>1, FS_EmptySet DEF HeldInv, HoldsExact
<1>6. CASE Open
  <2>1. Taken' = {} /\ \A t \in Types : ah_struct_user_holds'[t] = 0
    BY <1>6, TakenHasType DEF Open, users, Taken, ZeroHeaders, NoCount
  <2>2. \A t \in Types : {s \in Taken' : heap'[s[1]] = t} = {}
    BY <2>1
  <2> QED BY <2>1, <2>2, FS_EmptySet DEF HeldInv, HoldsExact, Taken
<1>7. ASSUME \/ UNCHANGED vars
             \/ \E t \in Types : GetFails(t)
             \/ \E s \in live, t \in Types : DeallocWrongType(s, t)
      PROVE  HeldInv'
  <2>1. Taken' = Taken /\ heap' = heap /\ UNCHANGED ah_struct_user_holds
    BY <1>7 DEF vars, users, headers, GetFails, DeallocWrongType, Taken
  <2>2. status' = "open" => status = "open"
    BY <1>7 DEF vars, GetFails, DeallocWrongType
  <2> QED BY <2>1, <2>2, SameHeld
<1>8. ASSUME NEW b \in Blocks, GetDirect(b) \/ GetSpecialError(b) \/ DeallocDirect(b)
      PROVE  HeldInv'
  <2>1. heap[b] \notin Types
    BY <1>8, AllocAssumption DEF GetDirect, GetSpecialError, DeallocDirect
  <2>2. Taken' = Taken /\ status' = status /\ UNCHANGED ah_struct_user_holds
    BY <1>8 DEF GetDirect, GetSpecialError, DeallocDirect, users, headers, Taken
  <2>3. \A c \in Blocks : c # b => heap'[c] = heap[c]
    BY <1>1, <1>8 DEF GetDirect, GetSpecialError, DeallocDirect, TypeOK, UserTypes
  <2>4. \A u \in Taken : heap'[u[1]] = heap[u[1]]
    BY <1>2, <2>1, <2>3
  <2> QED BY <2>2, <2>4, SameHeld
<1> QED
  BY <1>3, <1>4, <1>5, <1>6, <1>7, <1>8 DEF Next

(* ah_struct_user_holds is the number of structs of the type that are out,  *)
(* whatever fails and whatever the callers lose.                           *)
THEOREM HoldsIsExact == Spec => []HoldsExact
<1>1. Init => HeldInv
  BY FS_EmptySet DEF Init, HeldInv, HoldsExact, Taken
<1>2. IInv /\ HeldInv /\ [Next]_vars => HeldInv'
  BY HeldStep
<1>3. HeldInv => HoldsExact
  BY DEF HeldInv
<1> QED
  BY <1>1, <1>2, <1>3, InvariantHolds, PTL DEF Spec

(* Both counters count: the free structs of every chunk and the structs of  *)
(* every type that are out, in whatever order dwarf_dealloc() is called.    *)
THEOREM CountsAreExact == Spec => []CountsExact
<1>1. FreeCountExact /\ HoldsExact => CountsExact
  BY DEF CountsExact
<1> QED
  BY <1>1, CountExact, HoldsIsExact, PTL

(* The chunk lists and ah_last_alloc_area lead to the chunks there are, and *)
(* dwarf_finish() leaves none.                                             *)
THEOREM ListsAreRight == Spec => []ListsRight
<1>1. ListComplete /\ LastNotDangling /\ FinishFreesChunks => ListsRight
  BY DEF ListsRight
<1> QED
  BY <1>1, ListsComplete, CacheIsRight, FinishIsComplete, PTL

(* _dwarf_find_memory() makes a chunk only when every struct of the type is *)
(* out, and dwarf_dealloc() frees one only with its last struct.           *)
THEOREM ChunksAreRight == Spec => ChunksComeAndGo
BY NoEarlyGrowth, NoUseAfterFree DEF ChunksComeAndGo
===============================================================================
