---------------------------- MODULE DieReader_proofs ----------------------------
(***************************************************************************)
(* What the proofs of DieTree need to know of the reader: dwarf_siblingof() *)
(* and dwarf_child() find their way in every CU whose lists are ended and   *)
(* whose DW_AT_sibling lead past the children, and the CUs that do not come *)
(* from the producer are such CUs.                                         *)
(*                                                                         *)
(* The tree is in the bytes only as a nesting: how many lists are open      *)
(* before an entry.  The proof is about these numbers.  The loop of         *)
(* dwarf_siblingof() keeps in child_depth how much deeper the pointer is    *)
(* than the DIE it began with, and nothing it has stepped over is as low    *)
(* as that DIE; so where it comes down to 0 is the next entry of the list.  *)
(***************************************************************************)
EXTENDS DieTree, TLAPS, NaturalsInduction, WellFoundedInduction

Level(s) == Reader!Level(s)

(* What an entry does to the number of open lists.                          *)
Step(e) == IF e.null THEN -1 ELSE IF e.children THEN 1 ELSE 0

Entries == [off : Nat, size : Nat \ {0}, null : BOOLEAN, children : BOOLEAN,
            die : Dies \cup {NULL}, sibling : Nat \cup {NoSibling}]

OffAt(s, end, i) == IF i <= Len(s) THEN s[i].off ELSE end

(* One entry after the other, up to the end of the CU.                      *)
Contiguous(s, end) ==
  /\ s \in Seq(Entries) /\ end \in Nat
  /\ \A i \in 1..Len(s) : /\ s[i].off + s[i].size = OffAt(s, end, i + 1)
                          /\ s[i].null => s[i].size = 1

(* Entry j, or the end of the CU, is the first after i that is no deeper.   *)
First(s, i, j) ==
  /\ i \in 1..Len(s) /\ j \in (i + 1)..(Len(s) + 1)
  /\ Level(s)[j] <= Level(s)[i]
  /\ \A m \in (i + 1)..(j - 1) : Level(s)[m] > Level(s)[i]

(* The CUs a reader can make something of: every list is ended, the first   *)
(* of all perhaps by the end of the CU, and each DW_AT_sibling leads past   *)
(* the children.                                                           *)
WellFormed(s, end) ==
  /\ Contiguous(s, end)
  /\ s # <<>> /\ ~s[1].null
  /\ \A i \in 1..Len(s) : Level(s)[i] >= 0
  /\ Level(s)[Len(s) + 1] <= 0
  /\ \A i \in 1..Len(s) : s[i].sibling # NoSibling =>
       \E j \in (i + 1)..(Len(s) + 1) : First(s, i, j) /\ s[i].sibling = OffAt(s, end, j)

(* In the loop: the DIE it began with is entry i, the pointer is at entry x, *)
(* and what is between is below i.                                         *)
Below(s, i, x) == \A m \in (i + 1)..x : Level(s)[m] > Level(s)[i]

Looking(s, i, x, depth) ==
  /\ i \in 1..Len(s) /\ x \in i..Len(s)
  /\ ~s[i].null /\ ~s[x].null
  /\ depth = Level(s)[x] - Level(s)[i] /\ depth >= 0
  /\ Below(s, i, x)

(* A CU from elsewhere so far.                                              *)
Written ==
  /\ Contiguous(written, nwritten)
  /\ written # <<>> => ~written[1].null
  /\ \A i \in 1..Len(written) : Level(written)[i] >= (IF i = 1 THEN 0 ELSE 1)

DieIsAt(i) == i \in 1..Len(section) /\ section[i].off = die /\ ~section[i].null

(* The reader, from where the CU has come to be in a section.                *)
ReaderInv ==
  /\ rpc \in {"closed", "idle", "sibling"}
  /\ rpc = "closed" => result = Reader!NoCall
  /\ rpc # "closed" => WellFormed(section, die_info_end) /\ \E i \in Nat : DieIsAt(i)
  /\ rpc = "sibling" => \E i, x \in Nat : /\ DieIsAt(i) /\ Looking(section, i, x, child_depth)
                                          /\ die_info_ptr = section[x].off
  /\ CallIsRight

ForeignInv == ReaderInv /\ (rpc = "closed" => Written)

BuildInv == written = <<>> /\ rpc = "closed" /\ result = Reader!NoCall

IInv == /\ ppc = "build" => BuildInv
        /\ ppc = "foreign" => ForeignInv
-------------------------------------------------------------------------------
(* The numbers of open lists.                                              *)

LEMMA LeastNatural ==
  ASSUME NEW S \in SUBSET Nat, S # {}
  PROVE  \E m \in S : \A k \in S : m <= k
<1> DEFINE R == OpToRel(<, Nat)
<1>1. IsWellFoundedOn(R, Nat)
  BY NatLessThanWellFounded
<1> HIDE DEF R
<1>2. PICK m \in S : \A k \in S : ~(<<k, m>> \in R)
  BY <1>1, WFMin
<1>3. \A k \in S : k < m => <<k, m>> \in R
  BY DEF R, OpToRel
<1>4. \A k \in S : ~(k < m)
  BY <1>2, <1>3
<1> QED
  BY <1>4

LEMMA StepIs ==
  ASSUME NEW e
  PROVE  Step(e) \in {-1, 0, 1} /\ (e.null => Step(e) = -1) /\ (~e.null => Step(e) \in {0, 1})
         /\ (~e.null /\ e.children => Step(e) = 1) /\ (~e.null /\ ~e.children => Step(e) = 0)
BY DEF Step

LevelOf(L, s, i) == IF i = 1 THEN 0 ELSE L[i - 1] + Step(s[i - 1])

(* There is a function that counts the lists up to any place,               *)
LEMMA LevelExists ==
  ASSUME NEW s, Len(s) \in Nat, NEW n \in 0..Len(s)
  PROVE  \E L : L = [i \in 1..(n + 1) |-> LevelOf(L, s, i)]
<1> DEFINE Has(k) == \E L : L = [i \in 1..(k + 1) |-> LevelOf(L, s, i)]
           Missing == {k \in 0..Len(s) : ~Has(k)}
<1>1. Has(0)
  <2> DEFINE L == [i \in 1..(0 + 1) |-> 0]
  <2>1. L = [i \in 1..(0 + 1) |-> LevelOf(L, s, i)]
    BY DEF LevelOf
  <2> QED BY <2>1
<1>2. ASSUME NEW k \in Nat, Has(k) PROVE Has(k + 1)
  <2>1. PICK L : L = [i \in 1..(k + 1) |-> LevelOf(L, s, i)]
    BY <1>2
  <2> DEFINE g == [i \in 1..(k + 2) |-> IF i <= k + 1 THEN L[i] ELSE LevelOf(L, s, k + 2)]
  <2>2. \A i \in 1..(k + 1) : g[i] = L[i]
    OBVIOUS
  <2>3. ASSUME NEW i \in 1..(k + 2) PROVE g[i] = LevelOf(g, s, i)
    <3>1. CASE i = 1
      BY <3>1, <2>1 DEF LevelOf
    <3>2. CASE i # 1
      <4>1. i - 1 \in 1..(k + 1)
        BY <3>2
      <4>2. g[i - 1] = L[i - 1]
        BY <4>1, <2>2
      <4>3. LevelOf(g, s, i) = LevelOf(L, s, i)
        BY <4>2, <3>2 DEF LevelOf
      <4>4. g[i] = LevelOf(L, s, i)
        <5>1. CASE i <= k + 1
          BY <5>1, <2>1, <2>2
        <5>2. CASE ~(i <= k + 1)
          <6>1. i = k + 2
            BY <5>2
          <6> QED BY <6>1
        <5> QED BY <5>1, <5>2
      <4> QED BY <4>3, <4>4
    <3> QED BY <3>1, <3>2
  <2>4. g = [i \in 1..(k + 2) |-> LevelOf(g, s, i)]
    <3> HIDE DEF g
    <3>1. g = [i \in 1..(k + 2) |-> g[i]]
      BY DEF g
    <3> QED BY <3>1, <2>3
  <2>5. (k + 1) + 1 = k + 2
    OBVIOUS
  <2> HIDE DEF g
  <2> QED BY <2>4, <2>5
<1>3. Missing = {}
  <2>1. SUFFICES ASSUME Missing # {} PROVE FALSE
    OBVIOUS
  <2>2. Missing \in SUBSET Nat
    OBVIOUS
  <2> HIDE DEF Has
  <2>3. PICK k \in Missing : \A i \in Missing : k <= i
    BY <2>1, <2>2, LeastNatural
  <2>4. k # 0
    BY <1>1
  <2>5. k - 1 \in Nat /\ k - 1 \notin Missing /\ k - 1 \in 0..Len(s) /\ (k - 1) + 1 = k
    BY <2>3, <2>4
  <2>6. Has(k - 1)
    BY <2>5
  <2>7. Has((k - 1) + 1)
    BY <2>5, <2>6, <1>2
  <2> QED BY <2>5, <2>7
<1> QED BY <1>3

(* and Level is it.                                                        *)
LEMMA LevelIs ==
  ASSUME NEW s, Len(s) \in Nat
  PROVE  /\ Level(s) \in [1..(Len(s) + 1) -> Int]
         /\ Level(s)[1] = 0
         /\ \A i \in 1..Len(s) : Level(s)[i + 1] = Level(s)[i] + Step(s[i])
<1> DEFINE L == Level(s)
           n == Len(s)
<1>1. L = CHOOSE f : f = [i \in 1..(n + 1) |->
            IF i = 1 THEN 0
            ELSE f[i - 1] + (IF s[i - 1].null THEN -1 ELSE IF s[i - 1].children THEN 1 ELSE 0)]
  BY DEF Level, Reader!Level
<1> HIDE DEF L
<1>2. \E f : f = [i \in 1..(n + 1) |->
            IF i = 1 THEN 0
            ELSE f[i - 1] + (IF s[i - 1].null THEN -1 ELSE IF s[i - 1].children THEN 1 ELSE 0)]
  <2>1. n \in 0..Len(s)
    OBVIOUS
  <2> HIDE DEF n
  <2>2. \E f : f = [i \in 1..(n + 1) |-> LevelOf(f, s, i)]
    BY <2>1, LevelExists
  <2> QED BY <2>2 DEF LevelOf, Step
<1>3. L = [i \in 1..(n + 1) |->
            IF i = 1 THEN 0
            ELSE L[i - 1] + (IF s[i - 1].null THEN -1 ELSE IF s[i - 1].children THEN 1 ELSE 0)]
  BY <1>1, <1>2
<1>4. L[1] = 0
  BY <1>3
<1>5. ASSUME NEW i \in 1..n PROVE L[i + 1] = L[i] + Step(s[i])
  <2>1. i + 1 \in 1..(n + 1) /\ i + 1 # 1 /\ (i + 1) - 1 = i
    OBVIOUS
  <2> QED BY <1>3, <2>1 DEF Step
<1>6. ASSUME NEW i \in 1..(n + 1) PROVE L[i] \in Int
  <2> DEFINE Bad == {k \in 1..(n + 1) : L[k] \notin Int}
  <2>1. SUFFICES ASSUME Bad # {} PROVE FALSE
    OBVIOUS
  <2>2. Bad \in SUBSET Nat
    OBVIOUS
  <2>3. PICK k \in Bad : \A j \in Bad : k <= j
    BY <2>1, <2>2, LeastNatural
  <2>4. k # 1
    BY <2>3, <1>4
  <2>5. k - 1 \in 1..n /\ k - 1 \notin Bad /\ (k - 1) + 1 = k
    BY <2>3, <2>4
  <2>6. L[k - 1] \in Int /\ L[k] = L[k - 1] + Step(s[k - 1])
    <3>1. L[(k - 1) + 1] = L[k - 1] + Step(s[k - 1])
      BY <2>5, <1>5
    <3> QED BY <2>5, <3>1
  <2> QED BY <2>3, <2>6, StepIs
<1>7. L \in [1..(n + 1) -> Int]
  <2>1. L = [i \in 1..(n + 1) |-> L[i]]
    BY <1>3
  <2> QED BY <2>1, <1>6
<1> QED BY <1>4, <1>5, <1>7 DEF L

LEMMA LevelInt ==
  ASSUME NEW s, Len(s) \in Nat, NEW i \in 1..(Len(s) + 1)
  PROVE  Level(s)[i] \in Int
BY LevelIs

(* Entries that open and end the same lists are at the same level.          *)
LEMMA SameLevels ==
  ASSUME NEW s, NEW t, Len(s) \in Nat, Len(t) \in Nat, Len(s) <= Len(t),
         \A i \in 1..Len(s) : Step(s[i]) = Step(t[i])
  PROVE  \A i \in 1..(Len(s) + 1) : Level(s)[i] = Level(t)[i]
<1> DEFINE n == Len(s)
           Bad == {i \in 1..(n + 1) : Level(s)[i] # Level(t)[i]}
<1>1. SUFFICES ASSUME Bad # {} PROVE FALSE
  OBVIOUS
<1>2. Bad \in SUBSET Nat
  OBVIOUS
<1>3. PICK k \in Bad : \A i \in Bad : k <= i
  BY <1>1, <1>2, LeastNatural
<1>4. k # 1
  BY <1>3, LevelIs
<1>5. /\ k - 1 \in 1..n /\ k - 1 \notin Bad /\ (k - 1) + 1 = k
      /\ k - 1 \in 1..Len(s) /\ k - 1 \in 1..Len(t)
  BY <1>3, <1>4
<1>6. /\ Level(s)[(k - 1) + 1] = Level(s)[k - 1] + Step(s[k - 1])
      /\ Level(t)[(k - 1) + 1] = Level(t)[k - 1] + Step(t[k - 1])
  BY <1>5, LevelIs
<1>7. Level(s)[k - 1] = Level(t)[k - 1]
  BY <1>5
<1> QED BY <1>3, <1>5, <1>6, <1>7

(* Before the place where an entry's list goes on the levels are higher, and *)
(* there the level of a DIE is what it was.                                *)
LEMMA FirstIsLevel ==
  ASSUME NEW s, Len(s) \in Nat, NEW i, NEW j, First(s, i, j), ~s[i].null
  PROVE  Level(s)[j] = Level(s)[i]
<1>1. i \in 1..Len(s) /\ j \in (i + 1)..(Len(s) + 1) /\ Level(s)[j] <= Level(s)[i]
  BY DEF First
<1>2. Level(s)[i] \in Int /\ Level(s)[j] \in Int /\ Level(s)[j - 1] \in Int
  <2>1. {i, j, j - 1} \subseteq 1..(Len(s) + 1)
    BY <1>1
  <2> QED BY <2>1, LevelInt
<1>3. j - 1 \in 1..Len(s) /\ (j - 1) + 1 = j
  BY <1>1
<1>4. Level(s)[j] = Level(s)[j - 1] + Step(s[j - 1])
  BY <1>3, LevelIs
<1>5. CASE j - 1 = i
  BY <1>1, <1>2, <1>4, <1>5, StepIs
<1>6. CASE j - 1 # i
  <2>1. Level(s)[j - 1] > Level(s)[i]
    BY <1>1, <1>6 DEF First
  <2> QED BY <1>1, <1>2, <1>4, <2>1, StepIs
<1> QED BY <1>5, <1>6

LEMMA FirstIsOne ==
  ASSUME NEW s, Len(s) \in Nat, NEW i, NEW j, NEW k, First(s, i, j), First(s, i, k)
  PROVE  j = k
<1>1. i \in 1..Len(s) /\ j \in (i + 1)..(Len(s) + 1) /\ k \in (i + 1)..(Len(s) + 1)
  BY DEF First
<1>2. Level(s)[i] \in Int /\ Level(s)[j] \in Int /\ Level(s)[k] \in Int
  <2>1. {i, j, k} \subseteq 1..(Len(s) + 1)
    BY <1>1
  <2> QED BY <2>1, LevelInt
<1>3. ~(j < k) /\ ~(k < j)
  <2>1. ASSUME j < k PROVE FALSE
    <3>1. j \in (i + 1)..(k - 1)
      BY <1>1, <2>1
    <3> QED BY <1>2, <3>1 DEF First
  <2>2. ASSUME k < j PROVE FALSE
    <3>1. k \in (i + 1)..(j - 1)
      BY <1>1, <2>2
    <3> QED BY <1>2, <3>1 DEF First
  <2> QED BY <2>1, <2>2
<1> QED BY <1>1, <1>3

(* NextInList finds that place, if it is an entry.                          *)
LEMMA NextInListIs ==
  ASSUME NEW s, Len(s) \in Nat, NEW i, NEW j, First(s, i, j)
  PROVE  Reader!NextInList(s, i) = IF j <= Len(s) THEN j ELSE 0
<1> DEFINE after == {k \in (i + 1)..Len(s) :
                       /\ Level(s)[k] <= Level(s)[i]
                       /\ \A m \in (i + 1)..(k - 1) : Level(s)[m] > Level(s)[i]}
<1>1. Reader!NextInList(s, i) = IF after = {} THEN 0 ELSE CHOOSE k \in after : TRUE
  BY DEF Reader!NextInList, Level
<1>2. i \in 1..Len(s) /\ j \in (i + 1)..(Len(s) + 1)
  BY DEF First
<1>3. ASSUME NEW k \in after PROVE First(s, i, k)
  BY <1>2, <1>3 DEF First
<1>4. \A k \in after : k = j /\ j <= Len(s)
  <2> TAKE k \in after
  <2>1. First(s, i, k)
    BY <1>3
  <2>2. k = j
    BY <2>1, FirstIsOne
  <2> QED BY <2>2, <1>2
<1>5. j <= Len(s) => j \in after
  BY <1>2 DEF First
<1> HIDE DEF after
<1>6. CASE j <= Len(s)
  BY <1>1, <1>4, <1>5, <1>6
<1>7. CASE ~(j <= Len(s))
  BY <1>1, <1>4, <1>7
<1> QED BY <1>6, <1>7

(* There is such a place if everything is ended at the end.                 *)
LEMMA FirstExists ==
  ASSUME NEW s, Len(s) \in Nat, NEW i \in 1..Len(s), Level(s)[Len(s) + 1] <= Level(s)[i]
  PROVE  \E j \in (i + 1)..(Len(s) + 1) : First(s, i, j)
<1> DEFINE Low == {j \in (i + 1)..(Len(s) + 1) : Level(s)[j] <= Level(s)[i]}
<1>1. Low \in SUBSET Nat /\ Len(s) + 1 \in Low
  OBVIOUS
<1>2. PICK j \in Low : \A k \in Low : j <= k
  BY <1>1, LeastNatural
<1>3. j \in (i + 1)..(Len(s) + 1) /\ Level(s)[j] <= Level(s)[i]
  BY <1>2
<1>4. ASSUME NEW m \in (i + 1)..(j - 1) PROVE Level(s)[m] > Level(s)[i]
  <2>1. m \notin Low /\ m \in (i + 1)..(Len(s) + 1)
    BY <1>2, <1>3, <1>4
  <2>2. Level(s)[m] \in Int /\ Level(s)[i] \in Int
    <3>1. {m, i} \subseteq 1..(Len(s) + 1)
      BY <2>1
    <3> QED BY <3>1, LevelInt
  <2> QED BY <2>1, <2>2
<1> QED BY <1>3, <1>4 DEF First
-------------------------------------------------------------------------------
(* Offsets.                                                                *)

LEMMA EntryFacts ==
  ASSUME NEW s, NEW end, Contiguous(s, end)
  PROVE  /\ Len(s) \in Nat /\ end \in Nat /\ DOMAIN s = 1..Len(s)
         /\ \A i \in 1..Len(s) :
              /\ s[i].off \in Nat /\ s[i].size \in Nat \ {0}
              /\ s[i].null \in BOOLEAN /\ s[i].children \in BOOLEAN
              /\ s[i].sibling \in Nat \cup {NoSibling}
              /\ s[i].off + s[i].size = OffAt(s, end, i + 1)
              /\ s[i].null => s[i].size = 1
         /\ \A i \in 1..(Len(s) + 1) : OffAt(s, end, i) \in Nat
         /\ \A i \in 1..Len(s) : OffAt(s, end, i) = s[i].off
         /\ OffAt(s, end, Len(s) + 1) = end
<1>1. s \in Seq(Entries) /\ Len(s) \in Nat /\ end \in Nat /\ DOMAIN s = 1..Len(s)
  BY DEF Contiguous
<1>2. ASSUME NEW i \in 1..Len(s)
      PROVE  /\ s[i].off \in Nat /\ s[i].size \in Nat \ {0}
             /\ s[i].null \in BOOLEAN /\ s[i].children \in BOOLEAN
             /\ s[i].sibling \in Nat \cup {NoSibling}
  <2>1. s[i] \in Entries
    BY <1>1
  <2> QED BY <2>1 DEF Entries
<1>3. \A i \in 1..Len(s) : OffAt(s, end, i) = s[i].off
  BY DEF OffAt
<1>4. OffAt(s, end, Len(s) + 1) = end
  BY <1>1 DEF OffAt
<1>5. \A i \in 1..(Len(s) + 1) : OffAt(s, end, i) \in Nat
  BY <1>1, <1>2 DEF OffAt
<1> QED BY <1>1, <1>2, <1>3, <1>4, <1>5 DEF Contiguous

LEMMA OffsRise ==
  ASSUME NEW s, NEW end, Contiguous(s, end)
  PROVE  \A i, j \in 1..(Len(s) + 1) : i < j => OffAt(s, end, i) < OffAt(s, end, j)
<1> SUFFICES ASSUME NEW i \in 1..(Len(s) + 1)
             PROVE  \A j \in 1..(Len(s) + 1) : i < j => OffAt(s, end, i) < OffAt(s, end, j)
  OBVIOUS
<1> DEFINE Bad == {j \in 1..(Len(s) + 1) : i < j /\ ~(OffAt(s, end, i) < OffAt(s, end, j))}
<1>1. SUFFICES ASSUME Bad # {} PROVE FALSE
  OBVIOUS
<1>2. Bad \in SUBSET Nat
  BY EntryFacts
<1>3. PICK j \in Bad : \A k \in Bad : j <= k
  BY <1>1, <1>2, LeastNatural
<1>4. j \in 2..(Len(s) + 1) /\ Len(s) \in Nat /\ i < j /\ ~(OffAt(s, end, i) < OffAt(s, end, j))
  BY <1>3, EntryFacts
<1>5. j - 1 \in 1..Len(s) /\ (j - 1) + 1 = j /\ j - 1 \notin Bad
  BY <1>3, <1>4
<1>6. OffAt(s, end, j - 1) < OffAt(s, end, j)
  <2>1. /\ s[j - 1].off + s[j - 1].size = OffAt(s, end, (j - 1) + 1)
        /\ OffAt(s, end, j - 1) = s[j - 1].off
        /\ s[j - 1].off \in Nat /\ s[j - 1].size \in Nat \ {0}
    BY <1>5, EntryFacts
  <2> QED BY <1>5, <2>1
<1>7. OffAt(s, end, i) \in Nat /\ OffAt(s, end, j) \in Nat /\ OffAt(s, end, j - 1) \in Nat
  BY <1>4, <1>5, EntryFacts
<1> QED BY <1>3, <1>4, <1>5, <1>6, <1>7

(* So an offset is that of one place only,                                  *)
LEMMA OffsDiffer ==
  ASSUME NEW s, NEW end, Contiguous(s, end),
         NEW i \in 1..(Len(s) + 1), NEW j \in 1..(Len(s) + 1), OffAt(s, end, i) = OffAt(s, end, j)
  PROVE  i = j
<1>1. OffAt(s, end, i) \in Nat /\ i \in Nat /\ j \in Nat
  BY EntryFacts
<1>2. ~(i < j) /\ ~(j < i)
  BY <1>1, OffsRise
<1> QED BY <1>1, <1>2

(* and the reader finds what is there.                                      *)
LEMMA EntryAtIs ==
  ASSUME NEW i \in 1..Len(section), Contiguous(section, die_info_end)
  PROVE  /\ Reader!EntryAt(section[i].off) = section[i]
         /\ EntryOf(section[i].off) = i
         /\ section[i].off < die_info_end
<1> DEFINE j == CHOOSE j \in DOMAIN section : section[j].off = section[i].off
<1>1. Len(section) \in Nat /\ DOMAIN section = 1..Len(section)
  BY EntryFacts
<1>2. j \in 1..Len(section) /\ section[j].off = section[i].off
  BY <1>1
<1>3. j = i
  <2> HIDE DEF j
  <2>1. /\ OffAt(section, die_info_end, i) = section[i].off
        /\ OffAt(section, die_info_end, j) = section[j].off
    BY <1>2, EntryFacts
  <2>2. i \in 1..(Len(section) + 1) /\ j \in 1..(Len(section) + 1)
    BY <1>1, <1>2
  <2> QED BY <1>2, <2>1, <2>2, OffsDiffer
<1>4. Reader!EntryAt(section[i].off) = section[j]
  BY DEF Reader!EntryAt
<1>5. EntryOf(section[i].off) = j
  BY DEF EntryOf
<1>6. section[i].off < die_info_end
  <2>1. /\ OffAt(section, die_info_end, i) = section[i].off
        /\ OffAt(section, die_info_end, Len(section) + 1) = die_info_end
        /\ i < Len(section) + 1 /\ Len(section) + 1 \in 1..(Len(section) + 1)
        /\ i \in 1..(Len(section) + 1)
    BY <1>1, EntryFacts
  <2> QED BY <2>1, OffsRise
<1> HIDE DEF j
<1> QED BY <1>3, <1>4, <1>5, <1>6

LEMMA IsNullIs ==
  ASSUME NEW i \in 1..(Len(section) + 1), Contiguous(section, die_info_end)
  PROVE  Reader!IsNull(OffAt(section, die_info_end, i)) <=> i <= Len(section) /\ section[i].null
<1>1. Len(section) \in Nat /\ i \in Nat /\ die_info_end \in Nat
  BY EntryFacts
<1>2. CASE i <= Len(section)
  <2>1. i \in 1..Len(section)
    BY <1>1, <1>2
  <2>2. OffAt(section, die_info_end, i) = section[i].off
    BY <2>1, EntryFacts
  <2> QED BY <1>2, <2>1, <2>2, EntryAtIs DEF Reader!IsNull
<1>3. CASE ~(i <= Len(section))
  <2>1. OffAt(section, die_info_end, i) = die_info_end
    BY <1>3 DEF OffAt
  <2> QED BY <1>1, <1>3, <2>1 DEF Reader!IsNull
<1> QED BY <1>2, <1>3
-------------------------------------------------------------------------------
(* The reader in a CU that is well formed.                                  *)

At(i) == OffAt(section, die_info_end, i)
L == Level(section)
N == Len(section)

LEMMA Facts ==
  ASSUME WellFormed(section, die_info_end)
  PROVE  /\ Contiguous(section, die_info_end)
         /\ N \in Nat \ {0} /\ die_info_end \in Nat /\ DOMAIN section = 1..N
         /\ ~section[1].null
         /\ L[N + 1] <= 0
         /\ \A i \in 1..N : /\ section[i].off \in Nat /\ section[i].size \in Nat \ {0}
                            /\ section[i].null \in BOOLEAN /\ section[i].children \in BOOLEAN
                            /\ section[i].null => section[i].size = 1
                            /\ section[i].off + section[i].size = At(i + 1)
                            /\ At(i) = section[i].off
                            /\ L[i] >= 0 /\ L[i + 1] = L[i] + Step(section[i])
         /\ \A i \in 1..(N + 1) : At(i) \in Nat /\ L[i] \in Int
         /\ At(N + 1) = die_info_end
<1>1. Contiguous(section, die_info_end)
  BY DEF WellFormed
<1>2. N \in Nat /\ N # 0 /\ DOMAIN section = 1..N
  <2>1. section \in Seq(Entries) /\ section # <<>>
    BY <1>1 DEF WellFormed, Contiguous
  <2> QED BY <2>1 DEF N
<1>3. \A i \in 1..(N + 1) : L[i] \in Int
  BY <1>2, LevelInt DEF L, N
<1>4. \A i \in 1..N : L[i + 1] = L[i] + Step(section[i])
  BY <1>2, LevelIs DEF L, N
<1>5. L[N + 1] <= 0 /\ ~section[1].null /\ \A i \in 1..N : L[i] >= 0
  BY DEF WellFormed, L, N
<1> QED BY <1>1, <1>2, <1>3, <1>4, <1>5, EntryFacts DEF At, N

LEMMA NullHere ==
  ASSUME WellFormed(section, die_info_end), NEW i \in 1..(N + 1)
  PROVE  Reader!IsNull(At(i)) <=> i <= N /\ section[i].null
BY Facts, IsNullIs DEF At, N

LEMMA EntryHere ==
  ASSUME WellFormed(section, die_info_end), NEW i \in 1..N
  PROVE  Reader!EntryAt(section[i].off) = section[i] /\ EntryOf(section[i].off) = i
BY Facts, EntryAtIs DEF N

(* Each null takes a byte and ends a list.                                  *)
Passed(y, j) == y + j <= N + 1 /\ At(y + j) = At(y) + j /\ L[y + j] = L[y] - j

LEMMA NullsAtIs ==
  ASSUME WellFormed(section, die_info_end), NEW y \in 1..(N + 1), NEW depth \in Nat,
         NEW k, k = Reader!NullsAt(At(y), depth)
  PROVE  /\ k \in 0..depth /\ \A j \in 0..k : Passed(y, j)
         /\ k = depth \/ ~Reader!IsNull(At(y + k))
<1> DEFINE Ends(i) == i = depth \/ ~Reader!IsNull(At(y) + i)
           Is(i) == (\A j \in 0..(i - 1) : Reader!IsNull(At(y) + j)) /\ Ends(i)
           Stops == {i \in 0..depth : Ends(i)}
<1>1. \E i \in 0..depth : Is(i)
  <2>1. Stops \in SUBSET Nat /\ depth \in Stops
    OBVIOUS
  <2>2. PICK i \in Stops : \A j \in Stops : i <= j
    BY <2>1, LeastNatural
  <2>3. \A j \in 0..(i - 1) : j \notin Stops /\ j \in 0..depth
    BY <2>2
  <2> QED BY <2>2, <2>3
<1>2. k = CHOOSE i \in 0..depth : Is(i)
  BY DEF Reader!NullsAt
<1> HIDE DEF Is
<1>3. k \in 0..depth /\ Is(k)
  BY <1>1, <1>2
<1> USE DEF Is
<1>4. \A j \in 0..k : Passed(y, j)
  <2> DEFINE Bad == {j \in 0..k : ~Passed(y, j)}
  <2>1. SUFFICES ASSUME Bad # {} PROVE FALSE
    OBVIOUS
  <2>2. Bad \in SUBSET Nat
    BY <1>3
  <2>3. PICK j \in Bad : \A i \in Bad : j <= i
    BY <2>1, <2>2, LeastNatural
  <2>4. N \in Nat /\ y \in Nat /\ y <= N + 1 /\ At(y) \in Nat /\ L[y] \in Int
    BY Facts
  <2>5. j # 0
    <3>1. y + 0 = y /\ At(y) + 0 = At(y) /\ L[y] - 0 = L[y]
      BY <2>4
    <3>2. Passed(y, 0)
      BY <2>4, <3>1 DEF Passed
    <3> QED BY <2>3, <3>2
  <2>6. /\ j \in Nat /\ j <= k /\ k \in Nat
        /\ j - 1 \in 0..(k - 1) /\ j - 1 \in 0..k /\ j - 1 \notin Bad
    BY <1>3, <2>3, <2>5
  <2>7. Passed(y, j - 1)
    BY <2>6
  <2>8. y + (j - 1) <= N + 1 /\ At(y + (j - 1)) = At(y) + (j - 1) /\ L[y + (j - 1)] = L[y] - (j - 1)
    BY <2>7 DEF Passed
  <2>9. Reader!IsNull(At(y + (j - 1)))
    BY <1>3, <2>6, <2>8
  <2>10. y + (j - 1) \in 1..(N + 1)
    BY <2>4, <2>6, <2>8
  <2>11. y + (j - 1) <= N /\ section[y + (j - 1)].null
    BY <2>9, <2>10, NullHere
  <2>12. y + (j - 1) \in 1..N /\ (y + (j - 1)) + 1 = y + j
    BY <2>10, <2>11, <2>4, <2>6
  <2>13. At(y + j) = At(y + (j - 1)) + 1 /\ L[y + j] = L[y + (j - 1)] - 1
    <3>1. /\ section[y + (j - 1)].off + section[y + (j - 1)].size = At((y + (j - 1)) + 1)
          /\ section[y + (j - 1)].size = 1 /\ At(y + (j - 1)) = section[y + (j - 1)].off
          /\ L[(y + (j - 1)) + 1] = L[y + (j - 1)] + Step(section[y + (j - 1)])
          /\ L[y + (j - 1)] \in Int
      BY <2>11, <2>12, Facts
    <3>2. Step(section[y + (j - 1)]) = -1
      BY <2>11, StepIs
    <3> QED BY <2>12, <3>1, <3>2
  <2>14. Passed(y, j)
    BY <2>4, <2>6, <2>8, <2>12, <2>13 DEF Passed
  <2> QED BY <2>3, <2>14
<1>5. At(y + k) = At(y) + k
  <2>1. k \in 0..k
    BY <1>3
  <2> QED BY <1>4, <2>1 DEF Passed
<1> QED BY <1>3, <1>4, <1>5

(* The entry that comes after a DIE, with its children stepped over when    *)
(* there is a DW_AT_sibling.                                               *)
Nexts(x, n) ==
  \/ ~n.has_die_child /\ \E y \in (x + 1)..(N + 1) : First(section, x, y) /\ n.ptr = At(y)
  \/ n.has_die_child /\ n.ptr = At(x + 1) /\ L[x + 1] = L[x] + 1

LEMMA FirstNext ==
  ASSUME WellFormed(section, die_info_end), NEW x \in 1..N, L[x + 1] = L[x]
  PROVE  First(section, x, x + 1)
<1>1. N \in Nat /\ L[x] \in Int /\ x + 1 \in (x + 1)..(N + 1)
  BY Facts
<1>2. \A m \in (x + 1)..((x + 1) - 1) : FALSE
  BY <1>1
<1> QED BY <1>1, <1>2 DEF First, L, N

NextOf(off) == Reader!next_die_info_ptr(off, TRUE)

LEMMA NextIs ==
  ASSUME WellFormed(section, die_info_end), NEW x \in 1..N, ~section[x].null,
         NEW n, n = NextOf(section[x].off)
  PROVE  n.ptr # NULL /\ n.has_die_child \in BOOLEAN /\ Nexts(x, n)
<1> DEFINE e == section[x]
<1>1. Reader!EntryAt(section[x].off) = e
  BY EntryHere
<1>2. /\ N \in Nat /\ die_info_end \in Nat /\ x + 1 \in (x + 1)..(N + 1)
      /\ \A y \in 1..(N + 1) : At(y) \in Nat /\ At(y) <= die_info_end
  <2>1. ASSUME NEW y \in 1..(N + 1) PROVE At(y) <= die_info_end
    <3>1. /\ N \in Nat /\ y \in Nat /\ At(y) \in Nat /\ die_info_end \in Nat
          /\ At(N + 1) = die_info_end /\ N + 1 \in 1..(N + 1)
      BY Facts
    <3>2. CASE y = N + 1
      BY <3>1, <3>2
    <3>3. CASE y < N + 1
      <4>1. At(y) < At(N + 1)
        BY <3>1, <3>3, Facts, OffsRise DEF At, N
      <4> QED BY <3>1, <4>1
    <3> QED BY <3>1, <3>2, <3>3
  <2> QED BY <2>1, Facts
<1>3. \A p \in Nat : p # NULL
  BY DieAssumption
<1>4. /\ ~e.null /\ e.children \in BOOLEAN /\ e.off + e.size = At(x + 1)
      /\ L[x + 1] = L[x] + Step(e) /\ L[x] \in Int
  BY <1>2, Facts
<1>5. n = IF e.null THEN [ptr |-> NULL, has_die_child |-> FALSE]
          ELSE IF e.sibling # NoSibling
          THEN [ptr |-> IF e.sibling > die_info_end THEN NULL ELSE e.sibling,
                has_die_child |-> FALSE]
          ELSE [ptr |-> IF e.off + e.size > die_info_end THEN NULL ELSE e.off + e.size,
                has_die_child |-> e.children]
  BY <1>1 DEF NextOf, Reader!next_die_info_ptr
<1>6. e.sibling # NoSibling =>
        \E y \in (x + 1)..(N + 1) : First(section, x, y) /\ e.sibling = At(y)
  BY DEF WellFormed, N, At
<1> HIDE DEF e
<1>7. CASE e.sibling # NoSibling
  <2>1. PICK y \in (x + 1)..(N + 1) : First(section, x, y) /\ e.sibling = At(y)
    BY <1>6, <1>7
  <2>2. e.sibling \in Nat /\ e.sibling <= die_info_end
    BY <1>2, <2>1
  <2>3. ~(e.sibling > die_info_end)
    BY <1>2, <2>2
  <2>4. n = [ptr |-> e.sibling, has_die_child |-> FALSE]
    <3>1. n = [ptr |-> IF e.sibling > die_info_end THEN NULL ELSE e.sibling,
               has_die_child |-> FALSE]
      BY <1>4, <1>5, <1>7
    <3>2. (IF e.sibling > die_info_end THEN NULL ELSE e.sibling) = e.sibling
      BY <2>3
    <3> QED BY <3>1, <3>2
  <2> QED BY <1>3, <2>1, <2>2, <2>4 DEF Nexts
<1>8. CASE e.sibling = NoSibling
  <2>1. At(x + 1) \in Nat /\ ~(At(x + 1) > die_info_end)
    BY <1>2
  <2>2. n = [ptr |-> At(x + 1), has_die_child |-> e.children]
    <3>1. n = [ptr |-> IF e.off + e.size > die_info_end THEN NULL ELSE e.off + e.size,
               has_die_child |-> e.children]
      BY <1>4, <1>5, <1>8
    <3>2. (IF e.off + e.size > die_info_end THEN NULL ELSE e.off + e.size) = At(x + 1)
      BY <1>4, <2>1
    <3> QED BY <3>1, <3>2
  <2>3. CASE e.children
    <3>1. L[x + 1] = L[x] + 1
      BY <1>4, <2>3, StepIs
    <3> QED BY <1>3, <2>1, <2>2, <2>3, <3>1 DEF Nexts
  <2>4. CASE ~e.children
    <3>1. First(section, x, x + 1)
      BY <1>4, <2>4, StepIs, FirstNext
    <3>2. n.ptr = At(x + 1) /\ ~n.has_die_child /\ n.has_die_child \in BOOLEAN
      BY <1>4, <2>2, <2>4
    <3>3. x + 1 \in (x + 1)..(N + 1)
      BY <1>2
    <3>4. Nexts(x, n)
      BY <3>1, <3>2, <3>3 DEF Nexts
    <3> QED BY <1>3, <2>1, <3>2, <3>4
  <2> QED BY <1>4, <2>3, <2>4
<1> QED BY <1>7, <1>8

LEMMA SkipIs ==
  ASSUME WellFormed(section, die_info_end), NEW x \in 1..N, ~section[x].null,
         NEW n, n.has_die_child \in BOOLEAN, Nexts(x, n), NEW m, m = Reader!SkipEmptyList(n)
  PROVE  \/ ~m.has_die_child /\ \E y \in (x + 1)..(N + 1) : First(section, x, y) /\ m.ptr = At(y)
         \/ /\ m.has_die_child /\ m.ptr = At(x + 1) /\ L[x + 1] = L[x] + 1
            /\ x + 1 \in 1..N /\ ~section[x + 1].null
<1>1. CASE ~n.has_die_child
  BY <1>1 DEF Nexts, Reader!SkipEmptyList
<1>2. CASE n.has_die_child
  <2>1. n.ptr = At(x + 1) /\ L[x + 1] = L[x] + 1
    BY <1>2 DEF Nexts
  <2>2. x + 1 \in 1..N
    <3>1. N \in Nat /\ x \in Nat /\ L[x] \in Int /\ L[x] >= 0 /\ L[N + 1] <= 0
      BY Facts
    <3>2. x + 1 # N + 1
      BY <2>1, <3>1
    <3> QED BY <3>1, <3>2
  <2>3. Reader!IsNull(At(x + 1)) <=> section[x + 1].null
    <3>1. N \in Nat /\ x + 1 \in 1..(N + 1) /\ x + 1 <= N
      BY <2>2, Facts
    <3> QED BY <3>1, NullHere
  <2>4. CASE ~section[x + 1].null
    BY <1>2, <2>1, <2>2, <2>3, <2>4 DEF Reader!SkipEmptyList
  <2>5. CASE section[x + 1].null
    <3>1. Reader!IsNull(n.ptr) /\ n.ptr < die_info_end
      BY <2>1, <2>3, <2>5 DEF Reader!IsNull
    <3>2. m = [ptr |-> At(x + 1) + 1, has_die_child |-> FALSE]
      BY <1>2, <2>1, <3>1 DEF Reader!SkipEmptyList
    <3>3. /\ section[x + 1].off + section[x + 1].size = At((x + 1) + 1)
          /\ section[x + 1].size = 1 /\ At(x + 1) = section[x + 1].off
          /\ L[(x + 1) + 1] = L[x + 1] + Step(section[x + 1])
          /\ L[x] \in Int /\ N \in Nat
      BY <2>2, <2>5, Facts
    <3>4. At(x + 2) = At(x + 1) + 1 /\ L[x + 2] = L[x]
      <4>1. (x + 1) + 1 = x + 2
        OBVIOUS
      <4> QED BY <2>1, <2>5, <3>3, <4>1, StepIs
    <3>5. x + 2 \in (x + 1)..(N + 1) /\ \A k \in (x + 1)..((x + 2) - 1) : k = x + 1
      BY <2>2, <3>3
    <3>6. First(section, x, x + 2)
      BY <2>1, <3>3, <3>4, <3>5 DEF First, L, N
    <3> QED BY <3>2, <3>4, <3>5, <3>6
  <2> QED BY <2>4, <2>5, Facts, <2>2
<1> QED BY <1>1, <1>2

(* One turn of the loop: the pointer goes on, child_depth stays the          *)
(* difference of the levels, and is 0 first where the list of the DIE goes on. *)
LEMMA TurnIs ==
  ASSUME WellFormed(section, die_info_end), NEW i, NEW x, Looking(section, i, x, child_depth),
         die_info_ptr = section[x].off
  PROVE  /\ NextOf(die_info_ptr).ptr # NULL
         /\ \E z \in (i + 1)..(N + 1) :
              /\ Reader!AfterTurn.ptr = At(z)
              /\ Reader!AfterTurn.depth = L[z] - L[i]
              /\ L[z] = L[i] => First(section, i, z)
              /\ L[z] # L[i] => Looking(section, i, z, L[z] - L[i])
<1> DEFINE n == Reader!SkipEmptyList(NextOf(die_info_ptr))
           k == Reader!NullsAt(n.ptr, child_depth)
<1>1. /\ i \in 1..N /\ x \in i..N /\ x \in 1..N /\ ~section[i].null /\ ~section[x].null
      /\ child_depth = L[x] - L[i] /\ child_depth >= 0
      /\ \A m \in (i + 1)..x : L[m] > L[i]
      /\ N \in Nat /\ i \in Nat /\ x \in Nat
  <2>1. N \in Nat
    BY Facts
  <2> QED BY <2>1 DEF Looking, Below, L, N
<1>2. child_depth \in Nat /\ L[i] \in Int /\ L[x] \in Int /\ L[i] >= 0 /\ L[x] >= L[i]
      /\ L[N + 1] <= 0 /\ \A m \in 1..(N + 1) : L[m] \in Int
  <2>1. {i, x, N + 1} \subseteq 1..(N + 1)
    BY <1>1
  <2>2. L[N + 1] <= 0 /\ L[i] >= 0 /\ \A m \in 1..(N + 1) : L[m] \in Int
    BY <1>1, Facts
  <2> QED BY <1>1, <2>1, <2>2
<1>3. /\ NextOf(die_info_ptr).ptr # NULL
      /\ NextOf(die_info_ptr).has_die_child \in BOOLEAN
      /\ Nexts(x, NextOf(die_info_ptr))
  BY <1>1, NextIs
<1>4. Reader!AfterTurn =
        IF n.ptr = die_info_end \/ Reader!IsNull(n.ptr)
        THEN [ptr |-> n.ptr + k, depth |-> child_depth - k]
        ELSE [ptr |-> n.ptr,
              depth |-> IF n.has_die_child THEN child_depth + 1 ELSE child_depth]
  BY DEF Reader!AfterTurn, NextOf
<1>5. \/ ~n.has_die_child /\ \E y \in (x + 1)..(N + 1) : First(section, x, y) /\ n.ptr = At(y)
      \/ /\ n.has_die_child /\ n.ptr = At(x + 1) /\ L[x + 1] = L[x] + 1
         /\ x + 1 \in 1..N /\ ~section[x + 1].null
  BY <1>1, <1>3, SkipIs
<1> HIDE DEF n
<1>6. CASE n.has_die_child /\ n.ptr = At(x + 1) /\ L[x + 1] = L[x] + 1
           /\ x + 1 \in 1..N /\ ~section[x + 1].null
  <2>1. n.ptr # die_info_end /\ ~Reader!IsNull(n.ptr)
    <3>1. At(x + 1) = section[x + 1].off /\ x + 1 \in 1..(N + 1)
      <4>1. x + 1 \in 1..N
        BY <1>6
      <4>2. x + 1 \in 1..(N + 1)
        BY <1>1, <4>1
      <4> QED BY <4>1, <4>2, Facts
    <3>2. section[x + 1].off < die_info_end /\ die_info_end \in Nat /\ section[x + 1].off \in Nat
      BY <1>6, Facts, EntryAtIs DEF N
    <3> QED BY <1>6, <3>1, <3>2, NullHere
  <2>2. Reader!AfterTurn.ptr = At(x + 1) /\ Reader!AfterTurn.depth = L[x + 1] - L[i]
    <3>1. Reader!AfterTurn = [ptr |-> n.ptr, depth |-> child_depth + 1]
      BY <1>4, <1>6, <2>1
    <3> QED BY <1>1, <1>2, <1>6, <3>1
  <2>3. \A m \in (i + 1)..(x + 1) : L[m] > L[i]
    <3> TAKE m \in (i + 1)..(x + 1)
    <3>1. m \in (i + 1)..x \/ m = x + 1
      BY <1>1
    <3> QED BY <1>1, <1>2, <1>6, <3>1
  <2>4. Looking(section, i, x + 1, L[x + 1] - L[i])
    <3>1. x + 1 \in i..N /\ L[x + 1] - L[i] >= 0
      BY <1>1, <1>2, <1>6
    <3> QED BY <1>1, <1>6, <2>3, <3>1 DEF Looking, Below, L, N
  <2>5. L[x + 1] # L[i] /\ x + 1 \in (i + 1)..(N + 1)
    BY <1>1, <1>2, <1>6
  <2> QED BY <1>3, <2>2, <2>4, <2>5
<1>7. CASE ~n.has_die_child /\ \E y \in (x + 1)..(N + 1) : First(section, x, y) /\ n.ptr = At(y)
  <2>1. PICK y \in (x + 1)..(N + 1) : First(section, x, y) /\ n.ptr = At(y)
    BY <1>7
  <2>2. L[y] = L[x] /\ \A m \in (x + 1)..(y - 1) : L[m] > L[x]
    BY <1>1, <2>1, FirstIsLevel DEF First, L, N
  <2>3. \A m \in (i + 1)..(y - 1) : L[m] > L[i]
    <3> TAKE m \in (i + 1)..(y - 1)
    <3>1. m \in (i + 1)..x \/ m \in (x + 1)..(y - 1)
      BY <1>1, <2>1
    <3>2. m \in 1..(N + 1)
      BY <1>1, <2>1
    <3> QED BY <1>1, <1>2, <2>2, <3>1, <3>2
  <2>4. y \in 1..(N + 1) /\ y \in Nat /\ y > i /\ y <= N + 1
    BY <1>1, <2>1
  (* However many nulls are passed: k, none where there is none.            *)
  <2>5. ASSUME NEW c \in 0..child_depth, \A j \in 0..c : Passed(y, j),
               c = child_depth \/ ~Reader!IsNull(At(y + c)),
               c = child_depth \/ y + c = N + 1 \/ (y + c <= N /\ ~section[y + c].null),
               Reader!AfterTurn.ptr = At(y) + c, Reader!AfterTurn.depth = child_depth - c
        PROVE  \E z \in (i + 1)..(N + 1) :
                 /\ Reader!AfterTurn.ptr = At(z)
                 /\ Reader!AfterTurn.depth = L[z] - L[i]
                 /\ L[z] = L[i] => First(section, i, z)
                 /\ L[z] # L[i] => Looking(section, i, z, L[z] - L[i])
    <3>1. c \in 0..c /\ c \in Nat
      BY <2>5
    <3>2. y + c <= N + 1 /\ At(y + c) = At(y) + c /\ L[y + c] = L[y] - c
      BY <2>5, <3>1 DEF Passed
    <3>3. y + c \in (i + 1)..(N + 1)
      BY <1>1, <2>4, <3>1, <3>2
    <3>4. \A m \in (i + 1)..(y + c - 1) : L[m] > L[i]
      <4> TAKE m \in (i + 1)..(y + c - 1)
      <4>1. CASE m < y
        <5>1. m \in (i + 1)..(y - 1)
          BY <4>1, <2>4, <1>1
        <5> QED BY <5>1, <2>3
      <4>2. CASE ~(m < y)
        <5>1. m - y \in 0..c /\ m - y < c /\ y + (m - y) = m
          BY <4>2, <2>4, <3>1, <1>1
        <5>2. L[m] = L[y] - (m - y)
          BY <2>5, <5>1 DEF Passed
        <5> QED BY <1>1, <1>2, <2>2, <2>4, <3>1, <5>1, <5>2
      <4> QED BY <4>1, <4>2
    <3>5. L[y + c] - L[i] = child_depth - c /\ L[y + c] \in Int /\ L[y + c] >= L[i]
      BY <1>1, <1>2, <2>2, <3>1, <3>2, <3>3
    <3>6. L[y + c] = L[i] => First(section, i, y + c)
      <4>1. (y + c) - 1 = y + c - 1
        OBVIOUS
      <4> QED BY <1>1, <1>2, <3>3, <3>4, <4>1 DEF First, L, N
    <3>7. L[y + c] # L[i] => Looking(section, i, y + c, L[y + c] - L[i])
      <4>1. SUFFICES ASSUME L[y + c] # L[i]
                     PROVE  Looking(section, i, y + c, L[y + c] - L[i])
        OBVIOUS
      <4>2. c # child_depth
        BY <1>2, <3>1, <3>5, <4>1
      <4>3. y + c # N + 1
        BY <1>2, <3>5, <4>1
      <4>4. y + c \in i..N /\ ~section[y + c].null
        BY <1>1, <2>4, <2>5, <3>1, <4>2, <4>3
      <4>5. \A m \in (i + 1)..(y + c) : L[m] > L[i]
        <5> TAKE m \in (i + 1)..(y + c)
        <5>1. m \in (i + 1)..(y + c - 1) \/ m = y + c
          BY <1>1, <2>4, <3>1
        <5> QED BY <1>2, <3>4, <3>5, <4>1, <5>1
      <4> QED BY <1>1, <1>2, <3>5, <4>4, <4>5 DEF Looking, Below, L, N
    <3> QED BY <2>5, <3>2, <3>3, <3>5, <3>6, <3>7
  <2>6. At(y) \in Nat /\ (At(y) = die_info_end => y = N + 1)
    <3>1. At(N + 1) = die_info_end /\ At(y) \in Nat
      BY <2>4, Facts
    <3>2. N + 1 \in 1..(N + 1)
      BY <1>1
    <3> QED BY <2>4, <3>1, <3>2, Facts, OffsDiffer DEF At, N
  <2>7. CASE n.ptr = die_info_end \/ Reader!IsNull(n.ptr)
    <3>1. /\ k \in 0..child_depth /\ \A j \in 0..k : Passed(y, j)
          /\ k = child_depth \/ ~Reader!IsNull(At(y + k))
      BY <1>2, <2>1, <2>4, NullsAtIs
    <3>2. Reader!AfterTurn = [ptr |-> At(y) + k, depth |-> child_depth - k]
      BY <1>4, <2>1, <2>7
    <3> HIDE DEF k
    <3>3. y + k \in 1..(N + 1)
      <4>1. k \in 0..k /\ k \in Nat
        BY <3>1, <1>2
      <4>2. y + k <= N + 1
        BY <3>1, <4>1 DEF Passed
      <4> QED BY <1>1, <2>4, <4>1, <4>2
    <3>4. k = child_depth \/ y + k = N + 1 \/ (y + k <= N /\ ~section[y + k].null)
      <4>1. Reader!IsNull(At(y + k)) <=> y + k <= N /\ section[y + k].null
        BY <3>3, NullHere
      <4>2. y + k = N + 1 \/ y + k <= N
        BY <1>1, <3>3
      <4>3. k = child_depth \/ ~Reader!IsNull(At(y + k))
        BY <3>1
      <4>4. CASE k = child_depth
        BY <4>4
      <4>5. CASE y + k = N + 1
        BY <4>5
      <4>6. CASE ~Reader!IsNull(At(y + k)) /\ y + k <= N
        BY <4>1, <4>6
      <4> QED BY <4>2, <4>3, <4>4, <4>5, <4>6
    <3>5. Reader!AfterTurn.ptr = At(y) + k /\ Reader!AfterTurn.depth = child_depth - k
      BY <3>2
    <3> QED BY <1>3, <2>5, <3>1, <3>4, <3>5
  <2>8. CASE ~(n.ptr = die_info_end \/ Reader!IsNull(n.ptr))
    <3>1. Reader!AfterTurn = [ptr |-> At(y), depth |-> child_depth]
      BY <1>4, <1>7, <2>1, <2>8
    <3>2. 0 \in 0..child_depth /\ y + 0 = y /\ At(y) + 0 = At(y) /\ L[y] - 0 = L[y]
          /\ child_depth - 0 = child_depth
      BY <1>2, <2>4, <2>6
    <3>3. \A j \in 0..0 : Passed(y, j)
      BY <2>4, <3>2 DEF Passed
    <3>4. ~Reader!IsNull(At(y)) /\ y <= N /\ ~section[y].null
      <4>1. y # N + 1
        BY <1>1, <2>1, <2>8, Facts
      <4> QED BY <1>1, <2>1, <2>4, <2>8, <4>1, NullHere
    <3>5. Reader!AfterTurn.ptr = At(y) + 0 /\ Reader!AfterTurn.depth = child_depth - 0
      BY <3>1, <3>2
    <3> QED BY <1>3, <2>5, <3>2, <3>3, <3>4, <3>5
  <2> QED BY <2>7, <2>8
<1> QED BY <1>5, <1>6, <1>7
-------------------------------------------------------------------------------
(* The calls.                                                              *)

LEMMA SiblingOfIs ==
  ASSUME WellFormed(section, die_info_end), NEW i, NEW z, First(section, i, z)
  PROVE  Reader!SiblingOf(section, i) = IF z <= N /\ ~section[z].null THEN z ELSE 0
<1>1. N \in Nat /\ i \in 1..N /\ z \in (i + 1)..(N + 1)
  BY Facts DEF First, N
<1>2. Reader!NextInList(section, i) = IF z <= N THEN z ELSE 0
  BY <1>1, NextInListIs DEF N
<1>3. CASE z <= N
  <2>1. z # 0 /\ ~(z > N)
    BY <1>1, <1>3
  <2>2. Reader!SiblingOf(section, i) = Reader!EntryOrNone(section, z)
    BY <1>2, <1>3 DEF Reader!SiblingOf
  <2> QED BY <1>3, <2>1, <2>2 DEF Reader!EntryOrNone, N
<1>4. CASE ~(z <= N)
  BY <1>2, <1>4 DEF Reader!SiblingOf, Reader!EntryOrNone
<1> QED BY <1>3, <1>4

Right(call, i) ==
  IF call = "sibling" THEN Reader!SiblingOf(section, i) ELSE Reader!ChildOf(section, i)

(* A call that gives the neighbour there is leaves everything as it is to be. *)
LEMMA ReturnIsRight ==
  ASSUME WellFormed(section, die_info_end), section' = section, die_info_end' = die_info_end,
         NEW i \in Nat, DieIsAt(i), NEW call \in {"sibling", "child"},
         NEW outcome \in {"ok", "no_entry", "error"}, NEW off,
         Reader!Return(call, outcome, off),
         outcome = "no_entry" => Right(call, i) = 0,
         outcome = "ok" => /\ Right(call, i) \in 1..N /\ ~section[Right(call, i)].null
                           /\ off = section[Right(call, i)].off
  PROVE  ReaderInv'
<1>1. /\ result' = [call |-> call, of |-> die, outcome |-> outcome, value |-> off]
      /\ die' = (IF outcome = "ok" THEN off ELSE die) /\ rpc' = "idle"
  BY DEF Reader!Return
<1>2. i \in 1..N /\ section[i].off = die /\ N \in Nat
  BY Facts DEF DieIsAt, N
<1>3. EntryOf(die) = i
  BY <1>2, EntryHere
<1>4. WellFormed(section, die_info_end)'
  BY DEF WellFormed, Contiguous, OffAt, First, Level
<1>5. (\E j \in Nat : DieIsAt(j))'
  <2>1. CASE outcome = "ok"
    <3>1. Right(call, i) \in Nat
      BY <1>2, <2>1
    <3> DEFINE r == Right(call, i)
    <3>2. r \in 1..Len(section) /\ die' = section[r].off /\ ~section[r].null
      BY <1>1, <2>1 DEF N
    <3> HIDE DEF r
    <3>3. r \in 1..Len(section') /\ section'[r].off = die' /\ ~section'[r].null
      BY <3>2
    <3>4. \E j \in Nat : j \in 1..Len(section') /\ section'[j].off = die' /\ ~section'[j].null
      BY <1>2, <3>3 DEF N
    <3> QED BY <3>4 DEF DieIsAt
  <2>2. CASE outcome # "ok"
    <3>1. die' = die
      BY <1>1, <2>2
    <3> QED BY <3>1 DEF DieIsAt
  <2> QED BY <2>1, <2>2
<1>6. CallIsRight'
  <2>1. EntryOf(result.of)' = i
    BY <1>1, <1>3 DEF EntryOf
  <2>2. result'.call = call /\ result'.outcome = outcome /\ result'.value = off
    BY <1>1
  <2>3. (LET right == Right(call, i)
         IN outcome # "error" => IF right = 0 THEN outcome = "no_entry"
                                 ELSE outcome = "ok" /\ off = section[right].off)
    BY <1>2
  <2> QED BY <2>1, <2>2, <2>3 DEF CallIsRight, Right
<1> QED BY <1>1, <1>4, <1>5, <1>6 DEF ReaderInv

LEMMA CallRight ==
  ASSUME ReaderInv, Reader!SiblingCall
  PROVE  ReaderInv'
<1>1. /\ rpc = "idle" /\ rpc' = "sibling" /\ die_info_ptr' = die /\ child_depth' = 0
      /\ UNCHANGED <<section, die_info_end, die, result>>
  BY DEF Reader!SiblingCall
<1>2. WellFormed(section, die_info_end) /\ CallIsRight
  BY <1>1 DEF ReaderInv
<1>3. PICK i \in Nat : DieIsAt(i)
  BY <1>1 DEF ReaderInv
<1>4. i \in 1..N /\ section[i].off = die /\ ~section[i].null /\ N \in Nat /\ L[i] \in Int
  BY <1>2, <1>3, Facts DEF DieIsAt, N
<1>5. (WellFormed(section, die_info_end) /\ DieIsAt(i) /\ CallIsRight)'
  BY <1>1, <1>2, <1>3 DEF WellFormed, Contiguous, OffAt, First, Level, DieIsAt, CallIsRight,
    EntryOf
<1>6. Looking(section, i, i, 0)
  <2>1. i \in i..N /\ 0 = L[i] - L[i] /\ 0 >= 0 /\ \A m \in (i + 1)..i : FALSE
    BY <1>4
  <2> QED BY <1>4, <2>1 DEF Looking, Below, L, N
<1>7. Looking(section, i, i, child_depth)'
  BY <1>1, <1>6 DEF Looking, Below, Level
<1>8. die_info_ptr' = section'[i].off
  BY <1>1, <1>4
<1>9. (\E a, x \in Nat : DieIsAt(a) /\ Looking(section, a, x, child_depth)
                         /\ die_info_ptr = section[x].off)'
  BY <1>5, <1>7, <1>8
<1> QED BY <1>1, <1>3, <1>5, <1>9 DEF ReaderInv

LEMMA FailsRight ==
  ASSUME ReaderInv, Reader!SiblingFails
  PROVE  ReaderInv'
<1>1. /\ rpc = "sibling" /\ Reader!Return("sibling", "error", 0)
      /\ section' = section /\ die_info_end' = die_info_end
  BY DEF Reader!SiblingFails
<1>2. WellFormed(section, die_info_end) /\ \E i \in Nat : DieIsAt(i)
  BY <1>1 DEF ReaderInv
<1> QED BY <1>1, <1>2, ReturnIsRight

(* What MakeDie() answers for the place where the neighbour is looked for.   *)
LEMMA MakeDieRight ==
  ASSUME WellFormed(section, die_info_end), section' = section, die_info_end' = die_info_end,
         NEW i \in Nat, DieIsAt(i), NEW call \in {"sibling", "child"}, NEW z \in 1..N,
         Right(call, i) = IF section[z].null THEN 0 ELSE z,
         Reader!MakeDie(call, At(z))
  PROVE  ReaderInv'
<1>1. At(z) = section[z].off /\ N \in Nat /\ z \in 1..(N + 1) /\ z <= N
  BY Facts
<1>2. Reader!IsNull(At(z)) <=> section[z].null
  BY <1>1, NullHere
<1>3. CASE section[z].null
  <2>1. Reader!Return(call, "no_entry", 0)
    BY <1>2, <1>3 DEF Reader!MakeDie
  <2> QED BY <1>3, <2>1, ReturnIsRight
<1>4. CASE ~section[z].null
  <2>1. Reader!Return(call, "ok", At(z)) \/ Reader!Return(call, "error", 0)
    BY <1>2, <1>4 DEF Reader!MakeDie
  <2>2. CASE Reader!Return(call, "ok", At(z))
    BY <1>1, <1>4, <2>2, ReturnIsRight
  <2>3. CASE Reader!Return(call, "error", 0)
    BY <2>3, ReturnIsRight
  <2> QED BY <2>1, <2>2, <2>3
<1> QED BY <1>3, <1>4

LEMMA TurnRight ==
  ASSUME ReaderInv, Reader!SiblingTurn
  PROVE  ReaderInv'
<1>1. rpc = "sibling" /\ section' = section /\ die_info_end' = die_info_end
  BY DEF Reader!SiblingTurn
<1>2. WellFormed(section, die_info_end) /\ CallIsRight
  BY <1>1 DEF ReaderInv
<1>3. PICK i \in Nat, x \in Nat : DieIsAt(i) /\ Looking(section, i, x, child_depth)
                                  /\ die_info_ptr = section[x].off
  BY <1>1 DEF ReaderInv
<1>4. /\ NextOf(die_info_ptr).ptr # NULL
      /\ \E z \in (i + 1)..(N + 1) :
           /\ Reader!AfterTurn.ptr = At(z)
           /\ Reader!AfterTurn.depth = L[z] - L[i]
           /\ L[z] = L[i] => First(section, i, z)
           /\ L[z] # L[i] => Looking(section, i, z, L[z] - L[i])
  BY <1>2, <1>3, TurnIs
<1>5. PICK z \in (i + 1)..(N + 1) :
           /\ Reader!AfterTurn.ptr = At(z)
           /\ Reader!AfterTurn.depth = L[z] - L[i]
           /\ L[z] = L[i] => First(section, i, z)
           /\ L[z] # L[i] => Looking(section, i, z, L[z] - L[i])
  BY <1>4
<1>6. IF Reader!AfterTurn.depth # 0
      THEN /\ die_info_ptr' = Reader!AfterTurn.ptr /\ child_depth' = Reader!AfterTurn.depth
           /\ UNCHANGED <<rpc, die, result>>
      ELSE IF Reader!AfterTurn.ptr >= die_info_end THEN Reader!Return("sibling", "no_entry", 0)
      ELSE Reader!MakeDie("sibling", Reader!AfterTurn.ptr)
  BY <1>4 DEF Reader!SiblingTurn, NextOf
<1>7. /\ i \in 1..N /\ N \in Nat /\ z \in Nat /\ z \in 1..(N + 1) /\ L[i] \in Int /\ L[z] \in Int
  <2>1. i \in 1..N /\ N \in Nat
    BY <1>2, <1>3, Facts DEF DieIsAt, N
  <2>2. z \in 1..(N + 1) /\ i \in 1..(N + 1)
    BY <2>1
  <2> QED BY <1>2, <2>1, <2>2, Facts
<1>8. CASE L[z] # L[i]
  <2>1. /\ die_info_ptr' = At(z) /\ child_depth' = L[z] - L[i]
        /\ UNCHANGED <<rpc, die, result>>
    BY <1>5, <1>6, <1>7, <1>8
  <2>2. Looking(section, i, z, L[z] - L[i])
    BY <1>5, <1>8
  <2>3. At(z) = section[z].off
    <3>1. z \in 1..N
      BY <1>7, <2>2 DEF Looking, N
    <3> QED BY <1>2, <3>1, Facts
  <2>4. Looking(section, i, z, child_depth)'
    BY <1>1, <2>1, <2>2 DEF Looking, Below, Level
  <2>5. (WellFormed(section, die_info_end) /\ DieIsAt(i) /\ CallIsRight)'
    BY <1>1, <1>2, <1>3, <2>1 DEF WellFormed, Contiguous, OffAt, First, Level, DieIsAt,
      CallIsRight, EntryOf
  <2>6. (\E a, b \in Nat : DieIsAt(a) /\ Looking(section, a, b, child_depth)
                           /\ die_info_ptr = section[b].off)'
    BY <1>1, <1>7, <2>1, <2>3, <2>4, <2>5
  <2> QED BY <1>1, <2>1, <2>5, <2>6 DEF ReaderInv
<1>9. CASE L[z] = L[i]
  <2>1. First(section, i, z) /\ Reader!AfterTurn.depth = 0
    BY <1>5, <1>7, <1>9
  <2>2. Right("sibling", i) = IF z <= N /\ ~section[z].null THEN z ELSE 0
    BY <1>2, <2>1, SiblingOfIs DEF Right
  <2>3. CASE z = N + 1
    <3>1. At(z) = die_info_end /\ die_info_end \in Nat
      BY <1>2, <2>3, Facts
    <3>2. Reader!Return("sibling", "no_entry", 0)
      BY <1>5, <1>6, <2>1, <3>1
    <3>3. Right("sibling", i) = 0
      BY <1>7, <2>2, <2>3
    <3> QED BY <1>1, <1>2, <1>3, <3>2, <3>3, ReturnIsRight
  <2>4. CASE z # N + 1
    <3>1. z \in 1..N
      BY <1>7, <2>4
    <3>2. At(z) \in Nat /\ die_info_end \in Nat /\ At(z) < die_info_end
      BY <1>2, <1>7, <3>1, Facts, EntryAtIs DEF N
    <3>3. Reader!MakeDie("sibling", At(z))
      BY <1>5, <1>6, <2>1, <3>2
    <3>4. Right("sibling", i) = IF section[z].null THEN 0 ELSE z
      BY <1>7, <2>2, <3>1
    <3> QED BY <1>1, <1>2, <1>3, <3>1, <3>3, <3>4, MakeDieRight
  <2> QED BY <2>3, <2>4
<1> QED BY <1>8, <1>9

LEMMA ChildRight ==
  ASSUME ReaderInv, Reader!Child
  PROVE  ReaderInv'
<1> DEFINE n == Reader!next_die_info_ptr(die, FALSE)
<1>1. /\ rpc = "idle" /\ section' = section /\ die_info_end' = die_info_end
      /\ \/ Reader!Return("child", "error", 0)
         \/ IF ~n.has_die_child THEN Reader!Return("child", "no_entry", 0)
            ELSE Reader!MakeDie("child", n.ptr)
  BY DEF Reader!Child
<1>2. WellFormed(section, die_info_end)
  BY <1>1 DEF ReaderInv
<1>3. PICK i \in Nat : DieIsAt(i)
  BY <1>1 DEF ReaderInv
<1>4. CASE Reader!Return("child", "error", 0)
  BY <1>1, <1>2, <1>3, <1>4, ReturnIsRight
<1>5. CASE IF ~n.has_die_child THEN Reader!Return("child", "no_entry", 0)
           ELSE Reader!MakeDie("child", n.ptr)
  <2>1. i \in 1..N /\ N \in Nat /\ section[i].off = die /\ ~section[i].null
    BY <1>2, <1>3, Facts DEF DieIsAt, N
  <2> DEFINE e == section[i]
  <2>2. /\ Reader!EntryAt(die) = e /\ e.off + e.size = At(i + 1) /\ e.children \in BOOLEAN
        /\ L[i + 1] = L[i] + Step(e) /\ L[i] >= 0 /\ L[i] \in Int /\ L[N + 1] <= 0
    <3>1. i \in 1..(N + 1)
      BY <2>1
    <3> QED BY <1>2, <2>1, <3>1, Facts, EntryHere
  <2>3. n = [ptr |-> IF e.off + e.size > die_info_end THEN NULL ELSE e.off + e.size,
             has_die_child |-> e.children]
    BY <2>1, <2>2 DEF Reader!next_die_info_ptr
  <2>4. Right("child", i) = IF e.children THEN Reader!EntryOrNone(section, i + 1) ELSE 0
    BY DEF Right, Reader!ChildOf
  <2> HIDE DEF n, e
  <2>5. CASE ~e.children
    <3>1. Reader!Return("child", "no_entry", 0)
      BY <1>5, <2>3, <2>5
    <3>2. Right("child", i) = 0
      BY <2>4, <2>5
    <3> QED BY <1>1, <1>2, <1>3, <3>1, <3>2, ReturnIsRight
  <2>6. CASE e.children
    <3>1. L[i + 1] = L[i] + 1
      BY <2>1, <2>2, <2>6, StepIs DEF e
    <3>2. i + 1 # N + 1
      BY <2>2, <3>1
    <3>3. i + 1 \in 1..N
      BY <2>1, <3>2
    <3>4. At(i + 1) \in Nat /\ die_info_end \in Nat /\ ~(At(i + 1) > die_info_end)
      <4>1. At(i + 1) = section[i + 1].off /\ section[i + 1].off \in Nat /\ die_info_end \in Nat
        BY <1>2, <3>3, Facts
      <4>2. section[i + 1].off < die_info_end
        BY <1>2, <3>3, Facts, EntryAtIs DEF N
      <4> QED BY <4>1, <4>2
    <3>5. n.ptr = At(i + 1) /\ n.has_die_child = e.children
      BY <2>2, <2>3, <3>4
    <3>6. Reader!MakeDie("child", At(i + 1))
      BY <1>5, <2>6, <3>5
    <3>7. Right("child", i) = IF section[i + 1].null THEN 0 ELSE i + 1
      BY <2>1, <2>4, <2>6, <3>3 DEF Reader!EntryOrNone, N
    <3> QED BY <1>1, <1>2, <1>3, <3>3, <3>6, <3>7, MakeDieRight
  <2> QED BY <2>2, <2>5, <2>6
<1> QED BY <1>1, <1>4, <1>5

LEMMA ReaderSteps ==
  ASSUME ReaderInv, Reader!ReaderNext
  PROVE  ReaderInv'
BY CallRight, FailsRight, TurnRight, ChildRight DEF Reader!ReaderNext

(* What holds in the loop is what keeps it in the CU.                       *)
LEMMA ReaderIsIt ==
  ASSUME ReaderInv
  PROVE  ReaderIsRight
<1>1. ASSUME rpc = "sibling" PROVE StaysInCu
  <2>1. WellFormed(section, die_info_end)
    BY <1>1 DEF ReaderInv
  <2>2. PICK i \in Nat, x \in Nat : DieIsAt(i) /\ Looking(section, i, x, child_depth)
                                    /\ die_info_ptr = section[x].off
    BY <1>1 DEF ReaderInv
  <2>3. i \in 1..N /\ x \in i..N /\ N \in Nat /\ ~section[x].null /\ DOMAIN section = 1..N
    BY <2>1, <2>2, Facts DEF Looking, N
  <2>4. x \in 1..N
    BY <2>3
  <2>5. die_info_ptr < die_info_end
    BY <2>1, <2>2, <2>4, Facts, EntryAtIs DEF N
  <2>6. NextOf(die_info_ptr).ptr # NULL
    BY <2>1, <2>2, TurnIs
  <2>7. \E j \in DOMAIN section : section[j].off = die_info_ptr /\ ~section[j].null
    BY <2>2, <2>3, <2>4
  <2> QED BY <2>5, <2>6, <2>7 DEF StaysInCu, NextOf
<1>2. StaysInCu
  BY <1>1 DEF StaysInCu
<1> QED BY <1>2 DEF ReaderIsRight, ReaderInv
-------------------------------------------------------------------------------
(* CUs from elsewhere.                                                      *)

(* An entry at the end of entries leaves what is before it at its level.     *)
LEMMA AppendLevels ==
  ASSUME NEW s \in Seq(Entries), NEW e \in Entries
  PROVE  /\ \A i \in 1..(Len(s) + 1) : Level(Append(s, e))[i] = Level(s)[i]
         /\ Level(Append(s, e))[Len(s) + 2] = Level(s)[Len(s) + 1] + Step(e)
<1> DEFINE t == Append(s, e)
<1>1. Len(s) \in Nat /\ Len(t) = Len(s) + 1 /\ \A i \in 1..Len(s) : t[i] = s[i]
  OBVIOUS
<1>2. t[Len(s) + 1] = e
  OBVIOUS
<1> HIDE DEF t
<1>3. \A i \in 1..(Len(s) + 1) : Level(s)[i] = Level(t)[i]
  <2>1. Len(s) \in Nat /\ Len(t) \in Nat /\ Len(s) <= Len(t)
    BY <1>1
  <2>2. \A i \in 1..Len(s) : Step(s[i]) = Step(t[i])
    BY <1>1
  <2> QED BY <2>1, <2>2, SameLevels, Zenon
<1>4. Level(t)[Len(s) + 2] = Level(s)[Len(s) + 1] + Step(e)
  <2>1. Len(s) + 1 \in 1..Len(t) /\ (Len(s) + 1) + 1 = Len(s) + 2
    BY <1>1
  <2>2. Level(t)[(Len(s) + 1) + 1] = Level(t)[Len(s) + 1] + Step(t[Len(s) + 1])
    BY <1>1, <2>1, LevelIs
  <2>3. Len(s) + 1 \in 1..(Len(s) + 1)
    BY <1>1
  <2> QED BY <1>2, <1>3, <2>1, <2>2, <2>3
<1> QED BY <1>3, <1>4 DEF t

LEMMA AppendContiguous ==
  ASSUME NEW s, NEW end, Contiguous(s, end), NEW e \in Entries, e.off = end, e.null => e.size = 1
  PROVE  Contiguous(Append(s, e), end + e.size)
<1> DEFINE t == Append(s, e)
<1>1. /\ s \in Seq(Entries) /\ end \in Nat /\ Len(s) \in Nat
      /\ \A i \in 1..Len(s) : /\ s[i].off + s[i].size = OffAt(s, end, i + 1)
                              /\ s[i].null => s[i].size = 1
  BY DEF Contiguous
<1>2. t \in Seq(Entries) /\ Len(t) = Len(s) + 1 /\ t[Len(s) + 1] = e
      /\ \A i \in 1..Len(s) : t[i] = s[i]
  BY <1>1
<1>3. e.size \in Nat
  BY DEF Entries
<1> HIDE DEF t
<1>4. ASSUME NEW i \in 1..Len(t)
      PROVE  t[i].off + t[i].size = OffAt(t, end + e.size, i + 1) /\ (t[i].null => t[i].size = 1)
  <2>1. CASE i = Len(s) + 1
    <3>1. OffAt(t, end + e.size, i + 1) = end + e.size
      BY <1>1, <1>2, <2>1 DEF OffAt
    <3> QED BY <1>2, <2>1, <3>1
  <2>2. CASE i # Len(s) + 1
    <3>1. i \in 1..Len(s) /\ i + 1 \in 1..Len(t)
      BY <1>1, <1>2, <2>2
    <3>2. OffAt(t, end + e.size, i + 1) = OffAt(s, end, i + 1)
      <4>1. OffAt(t, end + e.size, i + 1) = t[i + 1].off
        BY <3>1 DEF OffAt
      <4>2. CASE i = Len(s)
        BY <1>1, <1>2, <4>1, <4>2 DEF OffAt
      <4>3. CASE i # Len(s)
        <5>1. i + 1 \in 1..Len(s)
          BY <1>1, <3>1, <4>3
        <5> QED BY <1>2, <4>1, <5>1 DEF OffAt
      <4> QED BY <4>2, <4>3
    <3> QED BY <1>1, <1>2, <3>1, <3>2
  <2> QED BY <2>1, <2>2
<1> QED BY <1>1, <1>2, <1>3, <1>4 DEF Contiguous, t

LEMMA WriteRight ==
  ASSUME Written, NEW e \in Entries, e.off = nwritten, e.null => e.size = 1 /\ written # <<>>,
         WriteForeign(e)
  PROVE  Written'
<1>1. /\ written' = Append(written, e) /\ nwritten' = nwritten + e.size
      /\ written # <<>> => Level(written)[Len(written) + 1] > 0
  BY DEF WriteForeign, Write, OpenLists, Level
<1>2. /\ Contiguous(written, nwritten) /\ written \in Seq(Entries) /\ Len(written) \in Nat
      /\ written # <<>> => ~written[1].null
      /\ \A i \in 1..Len(written) : Level(written)[i] >= (IF i = 1 THEN 0 ELSE 1)
  BY DEF Written, Contiguous
<1>3. Contiguous(written', nwritten')
  BY <1>1, <1>2, AppendContiguous
<1>4. Len(written') = Len(written) + 1 /\ written'[Len(written) + 1] = e
      /\ \A i \in 1..Len(written) : written'[i] = written[i]
  BY <1>1, <1>2
<1>5. written' # <<>> => ~written'[1].null
  <2>1. CASE written = <<>>
    <3>1. Len(written) + 1 = 1
      BY <2>1
    <3> QED BY <1>4, <2>1, <3>1
  <2>2. CASE written # <<>>
    <3>1. 1 \in 1..Len(written)
      BY <1>2, <2>2
    <3> QED BY <1>2, <1>4, <2>2, <3>1
  <2> QED BY <2>1, <2>2
<1>6. \A i \in 1..(Len(written) + 1) : Level(written')[i] = Level(written)[i]
  BY <1>1, <1>2, AppendLevels
<1>7. ASSUME NEW i \in 1..Len(written') PROVE Level(written')[i] >= (IF i = 1 THEN 0 ELSE 1)
  <2>1. i \in 1..(Len(written) + 1)
    BY <1>4
  <2>2. Level(written')[i] = Level(written)[i] /\ Level(written)[i] \in Int
    BY <1>2, <1>6, <2>1, LevelInt
  <2>3. CASE i \in 1..Len(written)
    BY <1>2, <2>2, <2>3
  <2>4. CASE i \notin 1..Len(written)
    <3>1. i = Len(written) + 1
      BY <1>2, <2>1, <2>4
    <3>2. CASE written = <<>>
      <4>1. i = 1
        BY <3>1, <3>2
      <4>2. Level(written)[1] = 0
        BY <1>2, LevelIs
      <4> QED BY <2>2, <4>1, <4>2
    <3>3. CASE written # <<>>
      BY <1>1, <2>2, <3>1, <3>3
    <3> QED BY <3>2, <3>3
  <2> QED BY <2>3, <2>4
<1> QED BY <1>3, <1>5, <1>7 DEF Written, Level

(* The DW_AT_sibling that are filled in at the end lead past the children.   *)
FilledIn == [i \in DOMAIN written |-> [written[i] EXCEPT !.sibling = SiblingAttr(i)]]

LEMMA FilledInRight ==
  ASSUME Written, written # <<>>, OpenLists = 0, NEW s, s = FilledIn
  PROVE  WellFormed(s, nwritten)
<1>1. /\ Contiguous(written, nwritten) /\ written \in Seq(Entries) /\ Len(written) \in Nat
      /\ DOMAIN written = 1..Len(written) /\ nwritten \in Nat
      /\ ~written[1].null /\ Len(written) # 0
      /\ \A i \in 1..Len(written) : Level(written)[i] >= (IF i = 1 THEN 0 ELSE 1)
  BY DEF Written, Contiguous
<1>2. Level(written)[Len(written) + 1] = 0
  BY DEF OpenLists, Level
<1>3. ASSUME NEW i \in 1..Len(written)
      PROVE  /\ Level(written)[i] >= 0 /\ Level(written)[i] \in Int
             /\ \E j \in (i + 1)..(Len(written) + 1) : First(written, i, j)
  <2>1. i \in 1..(Len(written) + 1)
    BY <1>1
  <2>2. Level(written)[i] \in Int /\ Level(written)[i] >= 0
    <3>1. Level(written)[i] \in Int
      BY <1>1, <2>1, LevelInt
    <3> QED BY <1>1, <3>1
  <2>3. Level(written)[Len(written) + 1] <= Level(written)[i]
    BY <1>2, <2>2
  <2> QED BY <1>1, <2>2, <2>3, FirstExists
<1>4. ASSUME NEW i \in 1..Len(written)
      PROVE  /\ SiblingAttr(i) \in Nat \cup {NoSibling}
             /\ SiblingAttr(i) # NoSibling =>
                  \E j \in (i + 1)..(Len(written) + 1) :
                    First(written, i, j) /\ SiblingAttr(i) = OffAt(written, nwritten, j)
  <2>1. PICK j \in (i + 1)..(Len(written) + 1) : First(written, i, j)
    BY <1>3
  <2>2. j \in 1..(Len(written) + 1) /\ j # 0
    BY <1>1
  <2>3. Reader!NextInList(written, i) = IF j <= Len(written) THEN j ELSE 0
    BY <1>1, <2>1, NextInListIs
  <2>4. SiblingAttr(i) = NoSibling \/ SiblingAttr(i) = OffAt(written, nwritten, j)
    BY <2>2, <2>3 DEF SiblingAttr, OffAt
  <2>5. OffAt(written, nwritten, j) \in Nat
    BY <1>1, <2>2, EntryFacts
  <2> QED BY <2>1, <2>4, <2>5
<1>5. ASSUME NEW i \in 1..Len(written)
      PROVE  /\ s[i] \in Entries /\ s[i].off = written[i].off /\ s[i].size = written[i].size
             /\ s[i].null = written[i].null /\ s[i].children = written[i].children
             /\ s[i].sibling = SiblingAttr(i)
  <2>1. written[i] \in Entries
    BY <1>1
  <2>2. s[i] = [written[i] EXCEPT !.sibling = SiblingAttr(i)]
    BY <1>1 DEF FilledIn
  <2> QED BY <1>4, <2>1, <2>2 DEF Entries
<1>6. s \in Seq(Entries) /\ Len(s) = Len(written)
  <2>1. DOMAIN s = 1..Len(written) /\ s = [i \in 1..Len(written) |-> s[i]]
    BY <1>1 DEF FilledIn
  <2>2. s \in [1..Len(written) -> Entries]
    BY <1>5, <2>1
  <2> QED BY <1>1, <2>1, <2>2
<1>7. \A i \in 1..(Len(written) + 1) : Level(s)[i] = Level(written)[i]
  <2>1. \A i \in 1..Len(written) : Step(s[i]) = Step(written[i])
    BY <1>5 DEF Step
  <2>2. /\ Len(s) \in Nat /\ Len(written) \in Nat /\ Len(s) <= Len(written)
        /\ \A i \in 1..Len(s) : Step(s[i]) = Step(written[i])
    BY <1>1, <1>6, <2>1
  <2>3. \A i \in 1..(Len(s) + 1) : Level(s)[i] = Level(written)[i]
    BY <2>2, SameLevels
  <2> QED BY <1>6, <2>3
<1>8. ASSUME NEW i \in 1..(Len(written) + 1)
      PROVE  OffAt(s, nwritten, i) = OffAt(written, nwritten, i)
  <2>1. CASE i <= Len(written)
    <3>1. i \in 1..Len(written)
      BY <1>1, <2>1
    <3>2. s[i].off = written[i].off
      BY <1>5, <3>1
    <3> QED BY <1>6, <2>1, <3>2 DEF OffAt
  <2>2. CASE ~(i <= Len(written))
    BY <1>6, <2>2 DEF OffAt
  <2> QED BY <2>1, <2>2
<1>9. Contiguous(s, nwritten)
  <2>1. ASSUME NEW i \in 1..Len(s)
        PROVE  /\ s[i].off + s[i].size = OffAt(s, nwritten, i + 1)
               /\ s[i].null => s[i].size = 1
    <3>1. i \in 1..Len(written) /\ i + 1 \in 1..(Len(written) + 1)
      BY <1>1, <1>6
    <3>2. /\ written[i].off + written[i].size = OffAt(written, nwritten, i + 1)
          /\ written[i].null => written[i].size = 1
      BY <1>1, <3>1, EntryFacts
    <3> QED BY <1>5, <1>8, <3>1, <3>2
  <2> QED BY <1>1, <1>6, <2>1 DEF Contiguous
<1>10. \A i \in 1..Len(written) : \A j \in (i + 1)..(Len(written) + 1) :
         First(written, i, j) => First(s, i, j)
  <2> SUFFICES ASSUME NEW i \in 1..Len(written), NEW j \in (i + 1)..(Len(written) + 1),
                      First(written, i, j)
               PROVE  First(s, i, j)
    OBVIOUS
  <2>1. {i, j} \subseteq 1..(Len(written) + 1)
        /\ (i + 1)..(j - 1) \subseteq 1..(Len(written) + 1)
    BY <1>1
  <2> QED BY <1>6, <1>7, <2>1 DEF First
<1>11. ~s[1].null /\ s # <<>>
  <2>1. 1 \in 1..Len(written)
    BY <1>1
  <2> QED BY <1>1, <1>5, <1>6, <2>1
<1>12. Level(s)[Len(s) + 1] <= 0 /\ \A i \in 1..Len(s) : Level(s)[i] >= 0
  <2>1. Len(s) + 1 \in 1..(Len(written) + 1) /\ 1..Len(s) \subseteq 1..(Len(written) + 1)
    BY <1>1, <1>6
  <2>2. Level(s)[Len(s) + 1] = 0
    BY <1>2, <1>6, <1>7, <2>1
  <2> QED BY <1>3, <1>6, <1>7, <2>1, <2>2
<1>13. ASSUME NEW i \in 1..Len(s), s[i].sibling # NoSibling
       PROVE  \E j \in (i + 1)..(Len(s) + 1) :
                First(s, i, j) /\ s[i].sibling = OffAt(s, nwritten, j)
  <2>1. i \in 1..Len(written) /\ s[i].sibling = SiblingAttr(i)
    BY <1>5, <1>6
  <2>2. PICK j \in (i + 1)..(Len(written) + 1) :
          First(written, i, j) /\ SiblingAttr(i) = OffAt(written, nwritten, j)
    BY <1>4, <1>13, <2>1
  <2>3. j \in 1..(Len(written) + 1)
    BY <1>1, <2>1
  <2> QED BY <1>6, <1>8, <1>10, <2>1, <2>2, <2>3
<1> QED BY <1>9, <1>11, <1>12, <1>13 DEF WellFormed

LEMMA OpenRight ==
  ASSUME NEW s, NEW end, WellFormed(s, end), Reader!Open(s, end), result = Reader!NoCall
  PROVE  ReaderInv' /\ rpc' = "idle"
<1>1. /\ section' = s /\ die_info_end' = end /\ die' = s[1].off /\ rpc' = "idle"
      /\ result' = Reader!NoCall
  BY DEF Reader!Open
<1>2. 1 \in 1..Len(s) /\ ~s[1].null
  <2>1. s \in Seq(Entries) /\ s # <<>> /\ ~s[1].null
    BY DEF WellFormed, Contiguous
  <2> QED BY <2>1
<1>3. WellFormed(section, die_info_end)'
  BY <1>1 DEF WellFormed, Contiguous, OffAt, First, Level
<1>4. DieIsAt(1)'
  BY <1>1, <1>2 DEF DieIsAt
<1>5. CallIsRight'
  BY <1>1 DEF CallIsRight, Reader!NoCall
<1> QED BY <1>1, <1>3, <1>4, <1>5 DEF ReaderInv

LEMMA ReadForeignRight ==
  ASSUME ForeignInv, ReadForeign
  PROVE  ForeignInv'
<1>1. /\ rpc = "closed" /\ written # <<>> /\ OpenLists = 0
      /\ Reader!Open(FilledIn, nwritten)
  BY DEF ReadForeign, FilledIn, Reader!Open
<1>2. Written /\ result = Reader!NoCall
  BY <1>1 DEF ForeignInv, ReaderInv
<1>3. WellFormed(FilledIn, nwritten)
  BY <1>1, <1>2, FilledInRight
<1> QED BY <1>1, <1>2, <1>3, OpenRight DEF ForeignInv

LEMMA ReaderStays ==
  ASSUME ReaderInv, UNCHANGED rvars
  PROVE  ReaderInv'
<1>1. (rpc \in {"closed", "idle", "sibling"} /\ CallIsRight)'
  BY DEF ReaderInv, rvars, CallIsRight, EntryOf
<1>2. (rpc = "closed" => result = Reader!NoCall)'
  BY DEF ReaderInv, rvars
<1>3. (rpc # "closed" => WellFormed(section, die_info_end) /\ \E i \in Nat : DieIsAt(i))'
  BY DEF ReaderInv, rvars, WellFormed, Contiguous, OffAt, First, Level, DieIsAt
<1>4. (rpc = "sibling" => \E i, x \in Nat : /\ DieIsAt(i) /\ Looking(section, i, x, child_depth)
                                            /\ die_info_ptr = section[x].off)'
  BY DEF ReaderInv, rvars, Looking, Below, Level, DieIsAt
<1> QED BY <1>1, <1>2, <1>3, <1>4 DEF ReaderInv

LEMMA WriteForeignRight ==
  ASSUME ForeignInv,
         \/ ForeignNull
         \/ \E children, with_sibling \in BOOLEAN : ForeignDie(children, with_sibling)
  PROVE  ForeignInv'
<1>1. ASSUME NEW e \in Entries, e.off = nwritten, e.null => e.size = 1 /\ written # <<>>,
             WriteForeign(e)
      PROVE  ForeignInv'
  <2>1. rpc = "closed" /\ UNCHANGED rvars
    BY <1>1 DEF WriteForeign
  <2>2. Written
    BY <2>1 DEF ForeignInv
  <2>3. Written'
    BY <1>1, <2>2, WriteRight
  <2>4. ReaderInv'
    BY <2>1, ReaderStays DEF ForeignInv
  <2> QED BY <2>3, <2>4 DEF ForeignInv
<1>2. nwritten \in Nat
  BY DEF ForeignInv, Written, Contiguous, WriteForeign, ForeignNull, ForeignDie
<1>3. CASE ForeignNull
  <2>1. NullEntry(nwritten) \in Entries /\ NullEntry(nwritten).off = nwritten
        /\ NullEntry(nwritten).size = 1
    BY <1>2 DEF NullEntry, Entries
  <2> QED BY <1>1, <1>3, <2>1 DEF ForeignNull
<1>4. ASSUME NEW children \in BOOLEAN, NEW with_sibling \in BOOLEAN,
             ForeignDie(children, with_sibling)
      PROVE  ForeignInv'
  <2> DEFINE e == [off |-> nwritten, size |-> IF with_sibling THEN 1 + RefSize ELSE 1,
                   null |-> FALSE, children |-> children, die |-> NULL,
                   sibling |-> IF with_sibling THEN 0 ELSE NoSibling]
  <2>1. (IF with_sibling THEN 1 + RefSize ELSE 1) \in Nat \ {0}
        /\ (IF with_sibling THEN 0 ELSE NoSibling) \in Nat \cup {NoSibling}
    BY DEF RefSize
  <2>2. e \in Entries /\ e.off = nwritten /\ ~e.null
    BY <1>2, <2>1 DEF Entries
  <2>3. WriteForeign(e)
    BY <1>4 DEF ForeignDie
  <2> HIDE DEF e
  <2> QED BY <1>1, <2>2, <2>3
<1> QED BY <1>3, <1>4

(* The reader's steps, whatever CU it is in.                                *)
LEMMA ReaderActs ==
  ASSUME ReaderInv, Reader!ReaderNext
  PROVE  rpc # "closed" /\ rpc' # "closed"
BY DEF Reader!ReaderNext, Reader!SiblingCall, Reader!SiblingTurn, Reader!SiblingFails,
  Reader!Child, Reader!Return, Reader!MakeDie

(* While DIEs are made and linked nothing is written, and nobody reads; and  *)
(* only from there a CU from elsewhere is begun.                            *)
LEMMA BuildRight ==
  ASSUME IInv, [Next]_vars
  PROVE  /\ ppc' = "build" => ppc = "build" /\ BuildInv'
         /\ ppc' = "foreign" => ppc = "foreign" \/ BeginForeign
<1>1. CASE ProducerNext /\ UNCHANGED rvars
  <2>1. CASE \E d \in Dies : NewDie(d)
    BY <1>1, <2>1 DEF NewDie, IInv, BuildInv, rvars
  <2>2. CASE \E d \in made, place \in {"parent", "child", "left", "right"}, n \in made :
               Link(d, place, n)
    BY <1>1, <2>2 DEF Link, IInv, BuildInv, rvars
  <2>3. CASE \E d \in made, place \in {"parent", "child", "left", "right"}, n \in made :
               LinkRefused(d, place, n)
    BY <1>1, <2>3 DEF LinkRefused, IInv, BuildInv, rvars
  <2>4. CASE Pass0 \/ Pass1 \/ Climb1 \/ Pass2 \/ Climb2
    BY <2>4 DEF Pass0, Pass1, Climb1, Pass2, Climb2, Down
  <2> QED BY <1>1, <2>1, <2>2, <2>3, <2>4 DEF ProducerNext
<1>2. CASE ReadOwn
  BY <1>2 DEF ReadOwn, pvars
<1>3. CASE BeginForeign
  BY <1>3 DEF BeginForeign
<1>4. CASE ForeignNull \/ \E children, with_sibling \in BOOLEAN : ForeignDie(children, with_sibling)
  BY <1>4 DEF ForeignNull, ForeignDie, WriteForeign, Foreign
<1>5. CASE ReadForeign
  BY <1>5 DEF ReadForeign, Foreign, pvars
<1>6. CASE Reader!ReaderNext /\ UNCHANGED pvars
  <2>1. rpc # "closed"
    BY <1>6 DEF Reader!ReaderNext, Reader!SiblingCall, Reader!SiblingTurn, Reader!SiblingFails,
      Reader!Child
  <2> QED BY <1>6, <2>1 DEF IInv, BuildInv, pvars
<1>7. CASE UNCHANGED vars
  BY <1>7 DEF vars, pvars, rvars, IInv, BuildInv
<1> QED BY <1>1, <1>2, <1>3, <1>4, <1>5, <1>6, <1>7 DEF Next

LEMMA ForeignRight ==
  ASSUME IInv, [Next]_vars, ppc' = "foreign"
  PROVE  ForeignInv'
<1>1. ppc = "foreign" \/ BeginForeign
  BY BuildRight
<1>2. CASE BeginForeign
  <2>1. /\ written = <<>> /\ rpc = "closed" /\ result = Reader!NoCall
        /\ written' = written /\ nwritten' = HeaderSize /\ UNCHANGED rvars
    BY <1>2 DEF BeginForeign, IInv, BuildInv
  <2>2. Written'
    <3>1. written' = <<>> /\ nwritten' = 11
      BY <2>1 DEF HeaderSize
    <3>2. written' \in Seq(Entries) /\ Len(written') = 0
      BY <3>1
    <3> QED BY <3>1, <3>2 DEF Written, Contiguous
  <2>3. ReaderInv'
    BY <2>1 DEF ReaderInv, rvars, CallIsRight, Reader!NoCall
  <2> QED BY <2>2, <2>3 DEF ForeignInv
<1>3. CASE ppc = "foreign" /\ ~BeginForeign
  <2>0. ForeignInv
    BY <1>3 DEF IInv
  <2>1. CASE ProducerNext /\ UNCHANGED rvars
    BY <1>3, <2>1 DEF ProducerNext, NewDie, Link, LinkRefused, Pass0, Pass1, Climb1, Pass2, Climb2
  <2>2. CASE ReadOwn
    BY <1>3, <2>2 DEF ReadOwn
  <2>3. CASE \/ ForeignNull
             \/ \E children, with_sibling \in BOOLEAN : ForeignDie(children, with_sibling)
    BY <2>0, <2>3, WriteForeignRight
  <2>4. CASE ReadForeign
    BY <2>0, <2>4, ReadForeignRight
  <2>5. CASE Reader!ReaderNext /\ UNCHANGED pvars
    <3>1. ReaderInv
      BY <2>0 DEF ForeignInv
    <3> QED BY <2>5, <3>1, ReaderSteps, ReaderActs DEF ForeignInv
  <2>6. CASE UNCHANGED vars
    <3>1. UNCHANGED rvars /\ written' = written /\ nwritten' = nwritten
      BY <2>6 DEF vars, pvars, rvars
    <3>2. ReaderInv'
      BY <2>0, <3>1, ReaderStays DEF ForeignInv
    <3>3. (rpc = "closed" => Written)'
      BY <2>0, <3>1 DEF ForeignInv, Written, Contiguous, OffAt, Level, rvars
    <3> QED BY <3>2, <3>3 DEF ForeignInv
  <2> QED BY <1>3, <2>1, <2>2, <2>3, <2>4, <2>5, <2>6 DEF Next
<1> QED BY <1>1, <1>2, <1>3
===============================================================================
