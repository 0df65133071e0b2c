---------------------------- MODULE CuContext_proofs ----------------------------
(***************************************************************************)
(* Theorems about the contexts of compilation units, for every section and  *)
(* every sequence of calls.                                                *)
(*                                                                         *)
(* A list is proved to cover the section up to some offset without          *)
(* following it: each context on it is followed by one that starts no later *)
(* than it ends, and cc_next ascends, so a search cannot get past an offset  *)
(* (Passed).                                                               *)
(***************************************************************************)
EXTENDS CuContext, WellFoundedInduction, TLAPS

Cus == 1..Len(CUs)

End(k) == CUs[k].start + Total(CUs[k])

Context == [start : Nat, length : Nat \ {0}, length_size : Nat \ {0},
            extension_size : Nat, cc_next : Nat]

Made == 1..Len(contexts)

(* A context of CU k.                                                      *)
IsOf(c, k) ==
  /\ contexts[c].start = CUs[k].start /\ contexts[c].length = CUs[k].length
  /\ contexts[c].length_size = CUs[k].length_size
  /\ contexts[c].extension_size = CUs[k].extension_size

Types ==
  /\ contexts \in Seq(Context)
  /\ \A c \in Made : \E k \in Cus : IsOf(c, k)
  /\ {de_cu_context, de_offdie_cu_context, de_offdie_cu_context_end} \subseteq Contexts
  /\ cu_context \in Contexts
  /\ die \in [context : Contexts, offset : Nat]
  /\ pc \in {"idle", "offdie", "die"} /\ want \in Nat /\ new_cu_offset \in Nat
  /\ failed \in BOOLEAN /\ short \in BOOLEAN

(* All contexts are on one list, the last one made at its end.               *)
LinkInv ==
  /\ \A c \in Made : IF c = Len(contexts) THEN contexts[c].cc_next = NULL
                     ELSE contexts[c].cc_next \in (c + 1)..Len(contexts)
  /\ contexts # <<>> => contexts[1].start = 0
  /\ de_cu_context_list = IF contexts = <<>> THEN NULL ELSE 1
  /\ de_cu_context_list_end = Len(contexts)
  /\ de_info_last_offset = EndOf(Len(contexts))

(* S leads from context `from' to context `to', CU by CU.                    *)
Leads(S, from, to) ==
  /\ from \in S /\ to \in S
  /\ \A d \in S : d <= to
  /\ \A d \in S \ {to} : /\ contexts[d].cc_next \in S
                         /\ contexts[contexts[d].cc_next].start = EndOf(d)

OffdieInv ==
  /\ de_offdie_cu_context = NULL <=> de_offdie_cu_context_end = NULL
  /\ de_offdie_cu_context_end # NULL =>
       /\ contexts[de_offdie_cu_context].start = 0
       /\ \E S \in SUBSET Made : Leads(S, de_offdie_cu_context, de_offdie_cu_context_end)

LoopInv ==
  pc = "offdie" =>
    /\ want >= new_cu_offset
    /\ new_cu_offset \in CuStarts \/ NoEscape => new_cu_offset = EndOf(de_offdie_cu_context_end)

DieInv ==
  /\ pc = "die" => cu_context # NULL /\ Covers(cu_context, want)
  /\ die # NoDie => die.context # NULL /\ Covers(die.context, die.offset)

(* While memory lasts no CU that was read ends behind de_info_last_offset,   *)
(* except that in its loop dwarf_offdie() reads again those before the one it  *)
(* is to come to.                                                          *)
ReadInv ==
  NoEscape /\ ~short =>
    /\ \A c \in Made : c # Len(contexts) => contexts[contexts[c].cc_next].start <= EndOf(c)
    /\ pc # "offdie" => \A c \in Made : EndOf(c) <= de_info_last_offset
    /\ pc = "offdie" =>
         /\ \A c \in Made : EndOf(c) <= want
         /\ de_offdie_cu_context_end # Len(contexts) =>
              \A c \in Made : EndOf(c) <= de_info_last_offset

IInv == Types /\ LinkInv /\ OffdieInv /\ LoopInv /\ DieInv /\ ReadInv
-------------------------------------------------------------------------------
(* Numbers.                                                                *)

LEMMA LeastNatural ==
  ASSUME NEW S \in SUBSET Nat, S # {}
  PROVE  \E m \in S : \A k \in S : m <= k
<1> DEFINE R == OpToRel(<, Nat)
<1>1. IsWellFoundedOn(R, Nat)
  BY NatLessThanWellFounded
<1> HIDE DEF R
<1>2. PICK m \in S : \A k \in S : ~(<<k, m>> \in R)
  BY <1>1, WFMin
<1>3. \A k \in S : k < m => <<k, m>> \in R
  BY DEF R, OpToRel
<1>4. \A k \in S : ~(k < m)
  BY <1>2, <1>3
<1> QED
  BY <1>4

(* A set that has a larger number with each of its numbers has no bound.      *)
LEMMA Unbounded ==
  ASSUME NEW n \in Nat, NEW S \in SUBSET (0..n), \A d \in S : \E e \in S : d < e
  PROVE  S = {}
<1> SUFFICES ASSUME S # {}
             PROVE  FALSE
  OBVIOUS
<1> DEFINE T == {x \in Nat : \E d \in S : x = n - d}
<1>1. T \in SUBSET Nat /\ T # {}
  <2>1. PICK d \in S : TRUE
    OBVIOUS
  <2>2. n - d \in T
    BY <2>1
  <2> QED
    BY <2>2
<1>2. PICK m \in T : \A k \in T : m <= k
  BY <1>1, LeastNatural
<1>3. PICK d \in S : m = n - d
  BY <1>2
<1>4. PICK e \in S : d < e
  OBVIOUS
<1>5. n - e \in T /\ n - e < m
  BY <1>3, <1>4
<1> QED
  BY <1>2, <1>5

-------------------------------------------------------------------------------
(* The section.                                                            *)

LEMMA CuFacts ==
  /\ Len(CUs) \in Nat /\ SimpleHeader \in Nat \ {0}
  /\ \A k \in Cus : /\ CUs[k] \in [start : Nat, length : Nat \ {0}, length_size : Nat \ {0},
                                   extension_size : Nat]
                    /\ SimpleHeader < CUs[k].length + CUs[k].length_size
  /\ CUs # <<>> => Len(CUs) \in Cus /\ CUs[1].start = 0 /\ 1 \in Cus
  /\ CUs = <<>> => Cus = {}
<1> DEFINE Cu == [start : Nat, length : Nat \ {0}, length_size : Nat \ {0},
                  extension_size : Nat]
<1>1. CUs \in Seq(Cu)
  BY CuAssumption
<1> HIDE DEF Cu
<1>2. Len(CUs) \in Nat /\ \A k \in Cus : CUs[k] \in Cu
  BY <1>1 DEF Cus
<1>3. CUs # <<>> => Len(CUs) # 0
  BY <1>1
<1>4. CUs = <<>> => Len(CUs) = 0
  OBVIOUS
<1>5. /\ SimpleHeader \in Nat \ {0}
      /\ CUs # <<>> => CUs[1].start = 0
      /\ \A k \in Cus : SimpleHeader < CUs[k].length + CUs[k].length_size
  BY CuAssumption DEF Cus
<1>6. CUs # <<>> => Len(CUs) \in Cus /\ 1 \in Cus
  BY <1>2, <1>3 DEF Cus
<1>7. CUs = <<>> => Cus = {}
  BY <1>4 DEF Cus
<1> QED
  BY <1>2, <1>5, <1>6, <1>7 DEF Cu

LEMMA CuSizes ==
  ASSUME NEW k \in Cus
  PROVE  /\ CUs[k].start \in Nat /\ End(k) \in Nat /\ Total(CUs[k]) \in Nat
         /\ CUs[k].start + SimpleHeader < End(k)
         /\ CUs[k].start < End(k)
<1> DEFINE s == CUs[k].start
           l == CUs[k].length
           z == CUs[k].length_size
           e == CUs[k].extension_size
<1>1. /\ s \in Nat /\ l \in Nat /\ z \in Nat /\ e \in Nat
      /\ SimpleHeader \in Nat \ {0} /\ SimpleHeader < l + z
  BY CuFacts
<1>2. Total(CUs[k]) = l + z + e /\ End(k) = s + Total(CUs[k])
  BY DEF End, Total
<1> HIDE DEF s, l, z, e
<1> QED
  BY <1>1, <1>2 DEF s

LEMMA CuFollows ==
  ASSUME NEW k \in Cus, k + 1 \in Cus
  PROVE  CUs[k + 1].start = End(k)
  BY CuAssumption DEF Cus, End

(* The CUs lie in the order of their numbers.                                *)
LEMMA CuOrder ==
  ASSUME NEW j \in Cus, NEW k \in Cus, j < k
  PROVE  End(j) <= CUs[k].start
<1> DEFINE Bad == {i \in Cus : j < i /\ ~(End(j) <= CUs[i].start)}
<1> SUFFICES ASSUME Bad # {}
             PROVE  FALSE
  OBVIOUS
<1>1. Bad \in SUBSET Nat
  BY DEF Cus
<1>2. PICK m \in Bad : \A i \in Bad : m <= i
  BY <1>1, LeastNatural
<1>3. m - 1 \in Cus /\ m \in Cus /\ j < m
  BY <1>2, CuFacts DEF Cus
<1>4. CUs[m].start = End(m - 1)
  BY <1>3, CuFollows DEF Cus
<1>5. CASE m - 1 = j
  BY <1>2, <1>4, <1>5, CuSizes
<1>6. CASE m - 1 # j
  <2>1. j < m - 1 /\ m - 1 \notin Bad
    BY <1>2, <1>3, <1>6 DEF Cus
  <2>2. End(j) <= CUs[m - 1].start
    BY <1>3, <2>1
  <2>3. CUs[m - 1].start < End(m - 1) /\ End(m - 1) \in Nat /\ CUs[m - 1].start \in Nat
    BY <1>3, CuSizes
  <2>4. End(j) \in Nat /\ CUs[m].start \in Nat
    BY <1>3, CuSizes
  <2> QED
    BY <1>2, <1>4, <2>2, <2>3, <2>4
<1> QED
  BY <1>5, <1>6

LEMMA OneCu ==
  ASSUME NEW j \in Cus, NEW k \in Cus, NEW o \in Nat,
         CUs[j].start <= o, o < End(j), CUs[k].start <= o, o < End(k)
  PROVE  j = k
<1>1. j \in Nat /\ k \in Nat
  BY DEF Cus
<1>2. /\ CUs[j].start \in Nat /\ CUs[k].start \in Nat /\ End(j) \in Nat /\ End(k) \in Nat
  BY CuSizes
<1>3. CASE j < k
  BY <1>2, <1>3, CuOrder
<1>4. CASE k < j
  BY <1>2, <1>4, CuOrder
<1> QED
  BY <1>1, <1>3, <1>4

LEMMA NumberOfStart ==
  ASSUME NEW k \in Cus
  PROVE  /\ Number(CUs[k].start) = k /\ CuAt(CUs[k].start) = CUs[k]
         /\ CUs[k].start \in CuStarts
<1>1. \A j \in Cus : CUs[j].start = CUs[k].start => j = k
  BY OneCu, CuSizes
<1> QED
  BY <1>1 DEF Number, CuAt, CuStarts, Cus

LEMMA SectionEnd ==
  ASSUME NEW k \in Cus
  PROVE  /\ dss_size \in Nat /\ End(k) <= dss_size
         /\ k = Len(CUs) => End(k) = dss_size
         /\ k # Len(CUs) => k + 1 \in Cus /\ End(k) = CUs[k + 1].start
<1>1. CUs # <<>> /\ Len(CUs) \in Cus
  BY CuFacts
<1>2. dss_size = End(Len(CUs)) /\ dss_size \in Nat
  BY <1>1, CuSizes DEF dss_size, End
<1>3. CASE k = Len(CUs)
  BY <1>2, <1>3
<1>4. CASE k # Len(CUs)
  <2>1. k + 1 \in Cus /\ k < Len(CUs)
    BY <1>4, CuFacts DEF Cus
  <2>2. End(k) <= CUs[Len(CUs)].start
    BY <1>1, <2>1, CuOrder
  <2>3. End(k) \in Nat /\ CUs[Len(CUs)].start \in Nat /\ CUs[Len(CUs)].start < End(Len(CUs))
    BY <1>1, CuSizes
  <2> QED
    BY <1>2, <1>4, <2>1, <2>2, <2>3, CuFollows
<1> QED
  BY <1>3, <1>4

LEMMA SizeIsNat == dss_size \in Nat
<1>1. CASE CUs = <<>>
  BY <1>1 DEF dss_size
<1>2. CASE CUs # <<>>
  BY <1>2, CuFacts, SectionEnd
<1> QED
  BY <1>1, <1>2

(* There is room for a header exactly where a CU starts.                     *)
LEMMA RoomAtStart ==
  ASSUME NEW k \in Cus
  PROVE  ~NoRoom(CUs[k].start)
<1>1. /\ CUs[k].start + SimpleHeader < End(k) /\ End(k) <= dss_size
      /\ End(k) \in Nat /\ dss_size \in Nat /\ CUs[k].start \in Nat /\ SimpleHeader \in Nat
  BY CuSizes, SectionEnd, CuFacts
<1> QED
  BY <1>1 DEF NoRoom

LEMMA NoRoomAtEnd == NoRoom(dss_size)
  BY SizeIsNat, CuFacts DEF NoRoom

LEMMA InsideIsNoStart ==
  ASSUME NEW k \in Cus, NEW o \in Nat, CUs[k].start < o, o < End(k)
  PROVE  o \notin CuStarts
<1> SUFFICES ASSUME NEW j \in Cus, o = CUs[j].start
             PROVE  FALSE
  BY DEF CuStarts, Cus
<1>1. j = k
  BY OneCu, CuSizes
<1> QED
  BY <1>1, CuSizes

-------------------------------------------------------------------------------
(* Searching.                                                              *)

LEMMA ContextIs ==
  ASSUME Types, NEW c \in Made
  PROVE  /\ c # NULL /\ c \in Contexts /\ CuNumber(c) \in Cus /\ IsOf(c, CuNumber(c))
         /\ contexts[c].start = CUs[CuNumber(c)].start /\ EndOf(c) = End(CuNumber(c))
<1>1. PICK k \in Cus : IsOf(c, k)
  BY DEF Types
<1>2. c # NULL /\ c \in Contexts
  BY DEF Made, NULL, Contexts, Types
<1>3. CuNumber(c) = k
  BY <1>1, <1>2, NumberOfStart DEF CuNumber, IsOf
<1>4. EndOf(c) = End(k)
  BY <1>1, <1>2 DEF EndOf, End, IsOf, Total
<1> QED
  BY <1>1, <1>2, <1>3, <1>4 DEF IsOf

LEMMA ContextSizes ==
  ASSUME Types, NEW c \in Made
  PROVE  /\ contexts[c].start \in Nat /\ EndOf(c) \in Nat
         /\ contexts[c].start < EndOf(c) /\ EndOf(c) <= dss_size
         /\ contexts[c].start \in CuStarts
  BY ContextIs, CuSizes, SectionEnd, NumberOfStart

LEMMA CoversIs ==
  ASSUME Types, NEW c \in Made, NEW o \in Nat
  PROVE  Covers(c, o) <=> contexts[c].start <= o /\ o < EndOf(c)
<1>1. c # NULL /\ contexts[c].start \in Nat
  BY ContextIs, ContextSizes
<1> QED
  BY <1>1 DEF Covers, EndOf

LEMMA ChainStep ==
  ASSUME NEW c \in Made
  PROVE  /\ c \in ChainOf(c)
         /\ \A d \in ChainOf(c) : contexts[d].cc_next \in Made => contexts[d].cc_next \in ChainOf(c)
<1>1. c \in ChainOf(c)
  BY DEF ChainOf, Made
<1>2. ASSUME NEW d \in ChainOf(c), contexts[d].cc_next \in Made
      PROVE  contexts[d].cc_next \in ChainOf(c)
  <2>1. contexts[d].cc_next # NULL
    BY <1>2 DEF Made, NULL
  <2>2. ASSUME NEW S \in SUBSET Made, c \in S, Follows(S)
        PROVE  contexts[d].cc_next \in S
    BY <1>2, <2>1, <2>2 DEF ChainOf, Follows, Made
  <2> QED
    BY <1>2, <2>2 DEF ChainOf, Made
<1> QED
  BY <1>1, <1>2

(* A search cannot get past an offset where each context is followed by one   *)
(* that starts no later than it ends.                                       *)
LEMMA Passed ==
  ASSUME Types, LinkInv, NEW o \in Nat, NEW P \in SUBSET Made, NEW c \in P,
         contexts[c].start <= o,
         \A d \in P : EndOf(d) <= o =>
           contexts[d].cc_next \in P /\ contexts[contexts[d].cc_next].start <= EndOf(d)
  PROVE  \E d \in ChainOf(c) : Covers(d, o)
<1> SUFFICES ASSUME \A d \in ChainOf(c) : ~Covers(d, o)
             PROVE  FALSE
  OBVIOUS
<1> DEFINE Q == {d \in P : d \in ChainOf(c) /\ EndOf(d) <= o}
<1>1. \A d \in P : d \in ChainOf(c) /\ contexts[d].start <= o => d \in Q
  <2> SUFFICES ASSUME NEW d \in P, d \in ChainOf(c), contexts[d].start <= o
               PROVE  EndOf(d) <= o
    OBVIOUS
  <2>1. ~Covers(d, o) /\ d \in Made
    OBVIOUS
  <2>2. ~(o < EndOf(d))
    BY <2>1, CoversIs
  <2>3. EndOf(d) \in Nat
    BY <2>1, ContextSizes
  <2> QED
    BY <2>2, <2>3
<1>2. c \in Q
  BY <1>1, ChainStep
<1>3. \A d \in Q : \E e \in Q : d < e
  <2> SUFFICES ASSUME NEW d \in Q
               PROVE  contexts[d].cc_next \in Q /\ d < contexts[d].cc_next
    OBVIOUS
  <2> DEFINE e == contexts[d].cc_next
  <2>1. d \in Made /\ e \in P /\ e \in Made /\ contexts[e].start <= EndOf(d) /\ EndOf(d) <= o
    OBVIOUS
  <2>2. e \in ChainOf(c)
    BY <2>1, ChainStep
  <2>3. contexts[e].start \in Nat /\ EndOf(d) \in Nat
    BY <2>1, ContextSizes
  <2>4. contexts[e].start <= o
    BY <2>1, <2>3
  <2>5. e \in Q
    BY <1>1, <2>1, <2>2, <2>4
  <2>6. d < e
    BY <2>1 DEF LinkInv, Made, NULL
  <2> QED
    BY <2>5, <2>6
<1>4. Len(contexts) \in Nat /\ Q \in SUBSET (0..Len(contexts))
  BY DEF Types, Made
<1> HIDE DEF Q
<1>5. Q = {}
  BY <1>3, <1>4, Unbounded
<1> QED
  BY <1>2, <1>5

LEMMA FirstFound ==
  ASSUME NEW c, NEW o, FirstCovering(c, o) # NULL
  PROVE  FirstCovering(c, o) \in Made /\ Covers(FirstCovering(c, o), o)
<1> DEFINE found == {d \in ChainOf(c) : Covers(d, o)}
<1>1. found # {} /\ FirstCovering(c, o) = CHOOSE d \in found : \A e \in found : d <= e
  BY DEF FirstCovering
<1>2. found \in SUBSET Nat
  BY DEF ChainOf
<1>3. \E d \in found : \A e \in found : d <= e
  BY <1>1, <1>2, LeastNatural
<1>4. FirstCovering(c, o) \in found
  BY <1>1, <1>3
<1> QED
  BY <1>4 DEF ChainOf, Made

LEMMA FirstIsFound ==
  ASSUME NEW c \in Made, NEW o, NEW d \in ChainOf(c), Covers(d, o)
  PROVE  FirstCovering(c, o) # NULL
<1> DEFINE found == {e \in ChainOf(c) : Covers(e, o)}
<1>1. found # {} /\ c # NULL
  BY DEF Made, NULL
<1>2. FirstCovering(c, o) = CHOOSE e \in found : \A f \in found : e <= f
  BY <1>1 DEF FirstCovering
<1>3. found \in SUBSET Nat /\ 0 \notin found
  BY DEF ChainOf
<1>4. \E e \in found : \A f \in found : e <= f
  BY <1>1, <1>3, LeastNatural
<1>5. FirstCovering(c, o) \in found
  BY <1>2, <1>4
<1> QED
  BY <1>3, <1>5 DEF NULL

(* What a search finds is the context of the CU the offset is in.            *)
LEMMA FoundCovers ==
  ASSUME Types, LinkInv, NEW o \in Nat, find_CU_Context(o) # NULL
  PROVE  find_CU_Context(o) \in Made /\ Covers(find_CU_Context(o), o)
<1>1. CASE NextIs(o) /\ find_CU_Context(o) = contexts[de_cu_context].cc_next
  <2> DEFINE c == contexts[de_cu_context].cc_next
  <2>1. de_cu_context \in Made /\ c # NULL /\ contexts[c].start = o
    BY <1>1 DEF NextIs, Types, Contexts, Made, NULL
  <2>2. c \in Made
    BY <2>1 DEF LinkInv, Made, Types
  <2> HIDE DEF c
  <2>3. Covers(c, o)
    BY <2>1, <2>2, ContextSizes, CoversIs
  <2> QED
    BY <1>1, <2>2, <2>3 DEF c
<1>2. CASE find_CU_Context(o) = FromCurrent(o) /\ FromCurrent(o) # NULL
  BY <1>2, FirstFound DEF FromCurrent
<1>3. CASE find_CU_Context(o) = FirstCovering(de_cu_context_list, o)
  BY <1>3, FirstFound
<1> QED
  BY <1>1, <1>2, <1>3 DEF find_CU_Context

LEMMA OffdieFoundCovers ==
  ASSUME NEW o \in Nat, find_offdie_CU_Context(o) # NULL
  PROVE  find_offdie_CU_Context(o) \in Made /\ Covers(find_offdie_CU_Context(o), o)
  BY FirstFound DEF find_offdie_CU_Context

(* dwarf_offdie() finds all that is before the last CU it read.              *)
LEMMA OffdieFinds ==
  ASSUME Types, LinkInv, OffdieInv, NEW o \in Nat, o < EndOf(de_offdie_cu_context_end)
  PROVE  find_offdie_CU_Context(o) # NULL
<1> DEFINE from == de_offdie_cu_context
           to == de_offdie_cu_context_end
<1>1. to # NULL
  BY DEF EndOf
<1>2. PICK S \in SUBSET Made : Leads(S, from, to)
  BY <1>1 DEF OffdieInv
<1>3. from \in S /\ contexts[from].start = 0
  BY <1>1, <1>2 DEF OffdieInv, Leads
<1>4. \A d \in S : EndOf(d) <= o =>
        contexts[d].cc_next \in S /\ contexts[contexts[d].cc_next].start <= EndOf(d)
  <2> SUFFICES ASSUME NEW d \in S, EndOf(d) <= o
               PROVE  contexts[d].cc_next \in S /\ contexts[contexts[d].cc_next].start <= EndOf(d)
    OBVIOUS
  <2>1. to \in S
    BY <1>2 DEF Leads
  <2>2. EndOf(d) \in Nat /\ EndOf(to) \in Nat
    BY <2>1, ContextSizes
  <2>3. d # to
    BY <2>2
  <2> QED
    BY <1>2, <2>2, <2>3 DEF Leads
<1>5. contexts[from].start <= o /\ from \in Made
  BY <1>3
<1> HIDE DEF from, to
<1>6. PICK d \in ChainOf(from) : Covers(d, o)
  BY <1>3, <1>4, <1>5, Passed
<1>7. FirstCovering(from, o) # NULL
  BY <1>5, <1>6, FirstIsFound
<1> QED
  BY <1>7 DEF find_offdie_CU_Context, from

(* Both find all that is before de_info_last_offset, while memory lasts.     *)
LEMMA ListFinds ==
  ASSUME Types, LinkInv, ReadInv, NoEscape, ~short, NEW o \in Nat, o < de_info_last_offset
  PROVE  find_CU_Context(o) # NULL
<1>1. Len(contexts) \in Nat /\ contexts # <<>>
  BY DEF Types, LinkInv, EndOf, NULL
<1>2. Len(contexts) \in Made /\ 1 \in Made
  BY <1>1 DEF Made, Types
<1>3. \A d \in Made : EndOf(d) <= o =>
        contexts[d].cc_next \in Made /\ contexts[contexts[d].cc_next].start <= EndOf(d)
  <2> SUFFICES ASSUME NEW d \in Made, EndOf(d) <= o
               PROVE  contexts[d].cc_next \in Made
                        /\ contexts[contexts[d].cc_next].start <= EndOf(d)
    OBVIOUS
  <2>1. EndOf(d) \in Nat /\ EndOf(Len(contexts)) \in Nat
    BY <1>2, ContextSizes
  <2>2. d # Len(contexts)
    BY <2>1 DEF LinkInv
  <2>3. contexts[d].cc_next \in Made
    BY <1>1, <2>2 DEF LinkInv, Made
  <2> QED
    BY <2>2, <2>3 DEF ReadInv
<1>4. contexts[1].start <= o
  BY <1>1 DEF LinkInv
<1>5. PICK d \in ChainOf(1) : Covers(d, o)
  BY <1>2, <1>3, <1>4, Passed
<1>6. FirstCovering(1, o) # NULL
  BY <1>2, <1>5, FirstIsFound
<1>7. de_cu_context_list = 1 /\ ~(o >= de_info_last_offset)
  <2>1. EndOf(Len(contexts)) \in Nat
    BY <1>2, ContextSizes
  <2> QED
    BY <1>1, <2>1 DEF LinkInv
<1>8. NextIs(o) => contexts[de_cu_context].cc_next # NULL
  BY DEF NextIs
<1> QED
  BY <1>6, <1>7, <1>8 DEF find_CU_Context

-------------------------------------------------------------------------------
(* A context more.                                                         *)

LEMMA MakeAdds ==
  ASSUME Types, LinkInv, NEW k \in Cus, NEW after, make_CU_Context(CUs[k].start, after)
  PROVE  /\ contexts' \in Seq(Context) /\ Len(contexts') = Len(contexts) + 1
         /\ \A c \in Made :
              /\ contexts'[c] = [contexts[c] EXCEPT !.cc_next = contexts'[c].cc_next]
              /\ contexts'[c].cc_next = IF c \in after \cup {Len(contexts)}
                                        THEN Len(contexts) + 1 ELSE contexts[c].cc_next
         /\ contexts'[Len(contexts) + 1] = [start |-> CUs[k].start, length |-> CUs[k].length,
                                            length_size |-> CUs[k].length_size,
                                            extension_size |-> CUs[k].extension_size,
                                            cc_next |-> NULL]
         /\ de_info_last_offset' = End(k)
         /\ de_cu_context_list' = 1 /\ de_cu_context_list_end' = Len(contexts) + 1
<1> DEFINE n == Len(contexts) + 1
           new == [start |-> CUs[k].start, length |-> CUs[k].length,
                   length_size |-> CUs[k].length_size,
                   extension_size |-> CUs[k].extension_size, cc_next |-> NULL]
           linked == [d \in Made |-> IF d \in after \cup {Len(contexts)}
                                     THEN [contexts[d] EXCEPT !.cc_next = n] ELSE contexts[d]]
<1>1. contexts' = Append(linked, new) /\ de_cu_context_list_end' = n
  BY NumberOfStart DEF make_CU_Context, LinkInv, NewNext, NewListEnd, Made
<1>2. Len(contexts) \in Nat /\ \A d \in Made : contexts[d] \in Context
  BY DEF Types, Made
<1>3. linked \in Seq(Context) /\ Len(linked) = Len(contexts)
  <2>1. \A d \in Made : linked[d] \in Context
    <3> SUFFICES ASSUME NEW d \in Made
                 PROVE  linked[d] \in Context
      OBVIOUS
    <3>1. [contexts[d] EXCEPT !.cc_next = n] \in Context
      BY <1>2 DEF Context
    <3> QED
      BY <1>2, <3>1
  <2>2. linked \in [1..Len(contexts) -> Context]
    BY <2>1 DEF Made
  <2> QED
    BY <1>2, <2>2
<1>4. new \in Context
  BY CuFacts DEF Context, NULL
<1>5. contexts' \in Seq(Context) /\ Len(contexts') = n /\ contexts'[n] = new
      /\ \A c \in Made : contexts'[c] = linked[c]
  <2> HIDE DEF linked, new
  <2> QED
    BY <1>1, <1>2, <1>3, <1>4 DEF Made
<1>6. \A c \in Made :
        /\ contexts'[c] = [contexts[c] EXCEPT !.cc_next = contexts'[c].cc_next]
        /\ contexts'[c].cc_next = IF c \in after \cup {Len(contexts)}
                                  THEN n ELSE contexts[c].cc_next
  BY <1>2, <1>5 DEF Context
<1>7. de_info_last_offset' = End(k)
  BY NumberOfStart DEF make_CU_Context, End
<1>8. de_cu_context_list' = 1
  <2>1. contexts = <<>> => n = 1
    OBVIOUS
  <2> QED
    BY <2>1 DEF make_CU_Context, LinkInv, NULL
<1> QED
  BY <1>1, <1>5, <1>6, <1>7, <1>8

(* The contexts that were there stay what they are, but for cc_next.          *)
Grown == /\ Len(contexts') = Len(contexts) + 1
         /\ \A c \in Made : /\ contexts'[c].start = contexts[c].start
                            /\ EndOf(c)' = EndOf(c)
                            /\ \A k \in Cus : IsOf(c, k) => IsOf(c, k)'
                            /\ \A o \in Nat : Covers(c, o) <=> Covers(c, o)'

LEMMA MakeGrows ==
  ASSUME Types, LinkInv, NEW k \in Cus, NEW after, make_CU_Context(CUs[k].start, after),
         NEW n \in Nat, n = Len(contexts) + 1
  PROVE  /\ Grown /\ Made' = Made \cup {n} /\ n \notin Made /\ n # NULL
         /\ IsOf(n, k)' /\ EndOf(n)' = End(k)
         /\ \A o \in Nat : Covers(n, o)' <=> (CUs[k].start <= o /\ o < End(k))
<1>1. /\ contexts' \in Seq(Context) /\ Len(contexts') = n
      /\ \A c \in Made : contexts'[c] = [contexts[c] EXCEPT !.cc_next = contexts'[c].cc_next]
      /\ contexts'[n] = [start |-> CUs[k].start, length |-> CUs[k].length,
                         length_size |-> CUs[k].length_size,
                         extension_size |-> CUs[k].extension_size, cc_next |-> NULL]
  BY MakeAdds
<1>2. Len(contexts) \in Nat /\ \A c \in Made : contexts[c] \in Context
  BY DEF Types, Made
<1>3. \A c \in Made : /\ contexts'[c].start = contexts[c].start
                      /\ contexts'[c].length = contexts[c].length
                      /\ contexts'[c].length_size = contexts[c].length_size
                      /\ contexts'[c].extension_size = contexts[c].extension_size
  BY <1>1, <1>2 DEF Context
<1>4. Grown
  <2> SUFFICES ASSUME NEW c \in Made
               PROVE  /\ contexts'[c].start = contexts[c].start
                      /\ EndOf(c)' = EndOf(c)
                      /\ \A j \in Cus : IsOf(c, j) => IsOf(c, j)'
                      /\ \A o \in Nat : Covers(c, o) <=> Covers(c, o)'
    BY <1>1 DEF Grown
  <2> QED
    BY <1>3 DEF EndOf, IsOf, Covers, Total
<1>5. Made' = Made \cup {n} /\ n \notin Made /\ n # NULL
  BY <1>1, <1>2 DEF Made, NULL
<1>6. IsOf(n, k)' /\ EndOf(n)' = End(k)
  BY <1>1, <1>5 DEF IsOf, EndOf, End, Total
<1>7. \A o \in Nat : Covers(n, o)' <=> (CUs[k].start <= o /\ o < End(k))
  <2>1. contexts'[n].start = CUs[k].start /\ Total(contexts'[n]) = Total(CUs[k])
    BY <1>1 DEF Total
  <2>2. CUs[k].start \in Nat
    BY CuSizes
  <2> QED
    BY <2>1, <2>2 DEF Covers, End
<1> QED
  BY <1>4, <1>5, <1>6, <1>7

(* The links after a context was made.                                       *)
LEMMA MakeLinks ==
  ASSUME Types, LinkInv, NEW k \in Cus, NEW after, make_CU_Context(CUs[k].start, after),
         contexts = <<>> => CUs[k].start = 0
  PROVE  LinkInv'
<1>n. PICK n \in Nat : n = Len(contexts) + 1
  BY DEF Types
<1>1. /\ contexts' \in Seq(Context) /\ Len(contexts') = n
      /\ \A c \in Made : contexts'[c].cc_next = IF c \in after \cup {Len(contexts)}
                                                THEN n ELSE contexts[c].cc_next
      /\ contexts'[n].cc_next = NULL
      /\ de_info_last_offset' = End(k)
      /\ de_cu_context_list' = 1 /\ de_cu_context_list_end' = n
  <2>1. contexts'[n] = [start |-> CUs[k].start, length |-> CUs[k].length,
                        length_size |-> CUs[k].length_size,
                        extension_size |-> CUs[k].extension_size, cc_next |-> NULL]
    BY <1>n, MakeAdds
  <2>2. contexts'[n].cc_next = NULL
    BY <2>1
  <2>3. contexts' \in Seq(Context) /\ Len(contexts') = n
    BY <1>n, MakeAdds
  <2>4. de_info_last_offset' = End(k) /\ de_cu_context_list' = 1 /\ de_cu_context_list_end' = n
    BY <1>n, MakeAdds
  <2>5. \A c \in Made : contexts'[c].cc_next = IF c \in after \cup {Len(contexts)}
                                                THEN n ELSE contexts[c].cc_next
    BY <1>n, MakeAdds
  <2> QED
    BY <2>2, <2>3, <2>4, <2>5
<1>2. Len(contexts) \in Nat /\ n = Len(contexts) + 1
  BY <1>n DEF Types
<1>3. /\ Grown /\ Made' = Made \cup {n} /\ IsOf(n, k)' /\ EndOf(n)' = End(k)
  BY <1>n, MakeGrows
<1>4. \A c \in Made' : IF c = n THEN contexts'[c].cc_next = NULL
                       ELSE contexts'[c].cc_next \in (c + 1)..n
  <2> SUFFICES ASSUME NEW c \in Made
               PROVE  c # n => contexts'[c].cc_next \in (c + 1)..n
    BY <1>1, <1>3
  <2>1. CASE contexts'[c].cc_next = n
    BY <1>2, <2>1 DEF Made
  <2>2. CASE c # Len(contexts) /\ contexts'[c].cc_next = contexts[c].cc_next
    BY <1>2, <2>2 DEF Made, LinkInv
  <2> QED
    BY <1>1, <2>1, <2>2
<1>5. contexts' # <<>> /\ contexts'[1].start = 0
  <2>0. contexts' # <<>>
    BY <1>1, <1>2
  <2>1. CASE contexts = <<>>
    <3>1. n = 1
      BY <1>2, <2>1
    <3>2. contexts'[n].start = CUs[k].start
      BY <1>3 DEF IsOf
    <3> QED
      BY <2>0, <2>1, <3>1, <3>2
  <2>2. CASE contexts # <<>>
    <3>1. 1 \in Made
      BY <2>2, <1>2 DEF Made, Types
    <3> QED
      BY <1>1, <1>2, <1>3, <2>2, <3>1 DEF Grown, LinkInv
  <2> QED
    BY <2>0, <2>1, <2>2
<1>6. EndOf(Len(contexts))' = End(k)
  BY <1>1, <1>3 DEF EndOf
<1> QED
  BY <1>1, <1>3, <1>4, <1>5, <1>6 DEF LinkInv

(* Where a CU ends the next one starts, and there is room for its header.     *)
LEMMA AtBoundary ==
  ASSUME Types, NEW c \in Contexts, ~NoRoom(EndOf(c))
  PROVE  CuNumber(c) + 1 \in Cus /\ EndOf(c) = CUs[CuNumber(c) + 1].start
<1>1. CASE c = NULL
  <2>1. EndOf(c) = 0 /\ CuNumber(c) = 0
    BY <1>1 DEF EndOf, CuNumber
  <2>2. CUs # <<>>
    <3> SUFFICES ASSUME CUs = <<>>
                 PROVE  FALSE
      OBVIOUS
    <3>1. NoRoom(0)
      BY NoRoomAtEnd DEF dss_size
    <3> QED
      BY <2>1, <3>1
  <2> QED
    BY <2>1, <2>2, CuFacts
<1>2. CASE c # NULL
  <2>1. c \in Made
    BY <1>2 DEF Made, Contexts, NULL, Types
  <2>2. CuNumber(c) \in Cus /\ EndOf(c) = End(CuNumber(c))
    BY <2>1, ContextIs
  <2>3. CuNumber(c) # Len(CUs)
    BY <2>2, SectionEnd, NoRoomAtEnd
  <2> QED
    BY <2>2, <2>3, SectionEnd
<1> QED
  BY <1>1, <1>2

(* The types of what making a context changes.                               *)
LEMMA MakeTypes ==
  ASSUME Types, LinkInv, NEW k \in Cus, NEW after, make_CU_Context(CUs[k].start, after),
         NEW n \in Nat, n = Len(contexts) + 1
  PROVE  /\ contexts' \in Seq(Context) /\ Len(contexts') = n
         /\ Contexts' = Contexts \cup {n}
         /\ \A c \in Made' : \E j \in Cus : IsOf(c, j)'
<1>1. contexts' \in Seq(Context) /\ Len(contexts') = n
  BY MakeAdds
<1>2. Grown /\ Made' = Made \cup {n} /\ IsOf(n, k)'
  BY MakeGrows
<1>3. Contexts' = Contexts \cup {n}
  BY <1>1 DEF Contexts, Types
<1>4. ASSUME NEW c \in Made'
      PROVE  \E j \in Cus : IsOf(c, j)'
  <2>1. CASE c = n
    BY <1>2, <2>1
  <2>2. CASE c # n
    <3>1. c \in Made
      BY <1>2, <1>4, <2>2
    <3>2. PICK j \in Cus : IsOf(c, j)
      BY <3>1 DEF Types
    <3> QED
      BY <1>2, <3>1, <3>2 DEF Grown
  <2> QED
    BY <2>1, <2>2
<1> QED
  BY <1>1, <1>3, <1>4

(* What dwarf_offdie() read is not disturbed by the walk.                     *)
LEMMA OffdieStays ==
  ASSUME Types, LinkInv, OffdieInv, NEW k \in Cus, make_CU_Context(CUs[k].start, {}),
         UNCHANGED <<de_offdie_cu_context, de_offdie_cu_context_end>>
  PROVE  OffdieInv'
<1>n. PICK n \in Nat : n = Len(contexts) + 1
  BY DEF Types
<1>1. Grown /\ Made' = Made \cup {n} /\ n \notin Made
  BY <1>n, MakeGrows
<1>2. \A c \in Made : c # Len(contexts) => contexts'[c].cc_next = contexts[c].cc_next
  <2>1. \A c \in Made : contexts'[c].cc_next = IF c \in {} \cup {Len(contexts)}
                                                THEN Len(contexts) + 1 ELSE contexts[c].cc_next
    BY MakeAdds
  <2> QED
    BY <2>1
<1> SUFFICES ASSUME de_offdie_cu_context_end # NULL
             PROVE  /\ contexts'[de_offdie_cu_context].start = 0
                    /\ \E S \in SUBSET Made' :
                         Leads(S, de_offdie_cu_context, de_offdie_cu_context_end)'
  BY DEF OffdieInv
<1>3. PICK S \in SUBSET Made : Leads(S, de_offdie_cu_context, de_offdie_cu_context_end)
  BY DEF OffdieInv
<1>4. de_offdie_cu_context \in Made /\ contexts'[de_offdie_cu_context].start = 0
  <2>1. de_offdie_cu_context \in Made
    BY <1>3 DEF Leads
  <2> QED
    BY <1>1, <2>1 DEF OffdieInv, Grown
<1>5. ASSUME NEW d \in S \ {de_offdie_cu_context_end}
      PROVE  contexts'[d].cc_next \in S
               /\ contexts'[contexts'[d].cc_next].start = EndOf(d)'
  <2>1. d \in Made /\ d # Len(contexts)
    BY <1>3, <1>5 DEF Leads, Types, Contexts, Made
  <2>2. contexts'[d].cc_next = contexts[d].cc_next /\ contexts[d].cc_next \in S
        /\ contexts[contexts[d].cc_next].start = EndOf(d)
    BY <1>2, <1>3, <1>5, <2>1 DEF Leads
  <2>3. contexts[d].cc_next \in Made
    BY <2>2
  <2> QED
    BY <1>1, <2>1, <2>2, <2>3 DEF Grown
<1>6. Leads(S, de_offdie_cu_context, de_offdie_cu_context_end)'
  BY <1>3, <1>5 DEF Leads
<1> QED
  BY <1>1, <1>4, <1>6

LEMMA DieStays ==
  ASSUME Types, DieInv, Grown, NEW n, Made' = Made \cup {n}, UNCHANGED die
  PROVE  die # NoDie => die.context # NULL /\ Covers(die.context, die.offset)'
<1> SUFFICES ASSUME die # NoDie
             PROVE  die.context # NULL /\ Covers(die.context, die.offset)'
  OBVIOUS
<1>1. die.context # NULL /\ Covers(die.context, die.offset)
  BY DEF DieInv
<1>2. die.context \in Made /\ die.offset \in Nat
  BY <1>1 DEF Types, Contexts, Made, NULL
<1> QED
  BY <1>1, <1>2 DEF Grown

-------------------------------------------------------------------------------
(* The steps.                                                              *)

LEMMA NextCuReads ==
  ASSUME IInv, pc = "idle", ~NoRoom(EndOf(de_cu_context)),
         find_CU_Context(EndOf(de_cu_context)) = NULL,
         make_CU_Context(EndOf(de_cu_context), {}), de_cu_context' = Len(contexts'), Succeed,
         UNCHANGED <<de_offdie_cu_context, de_offdie_cu_context_end, loop>>
  PROVE  IInv'
<1> USE DEF IInv
<1>n. PICK n \in Nat : n = Len(contexts) + 1
  BY DEF Types
<1>k. PICK k \in Cus : EndOf(de_cu_context) = CUs[k].start
  <2>1. de_cu_context \in Contexts
    BY DEF Types
  <2> QED
    BY <2>1, AtBoundary
<1>m. make_CU_Context(CUs[k].start, {})
  BY <1>k
<1>1. /\ Grown /\ Made' = Made \cup {n} /\ n \notin Made /\ n # NULL
      /\ IsOf(n, k)' /\ EndOf(n)' = End(k)
  BY <1>n, <1>m, MakeGrows
<1>2. /\ contexts' \in Seq(Context) /\ Len(contexts') = n
      /\ Contexts' = Contexts \cup {n}
      /\ \A c \in Made' : \E j \in Cus : IsOf(c, j)'
  BY <1>n, <1>m, MakeTypes
<1>3. pc' = "idle" /\ die' = NoDie /\ short' = short /\ failed' = FALSE
  BY DEF Succeed, loop
<1>4. Types'
  <2>1. {de_cu_context, de_offdie_cu_context, de_offdie_cu_context_end}' \subseteq Contexts'
    BY <1>2 DEF Types
  <2>2. NoDie \in [context : Contexts', offset : Nat]
    BY <1>2 DEF NoDie, NULL, Contexts
  <2>3. cu_context' \in Contexts' /\ want' \in Nat /\ new_cu_offset' \in Nat
    BY <1>2 DEF Types, loop
  <2> QED
    BY <1>2, <1>3, <2>1, <2>2, <2>3 DEF Types
<1>5. LinkInv'
  <2>1. contexts = <<>> => CUs[k].start = 0
    BY <1>k DEF Types, Contexts, EndOf, NULL
  <2> QED
    BY <1>m, <2>1, MakeLinks
<1>6. OffdieInv'
  BY <1>m, OffdieStays
<1>7. LoopInv' /\ DieInv'
  BY <1>3 DEF LoopInv, DieInv
<1>8. ReadInv'
  <2> SUFFICES ASSUME NoEscape, ~short
               PROVE  /\ \A c \in Made' : c # n =>
                           contexts'[contexts'[c].cc_next].start <= EndOf(c)'
                      /\ \A c \in Made' : EndOf(c)' <= de_info_last_offset'
    BY <1>2, <1>3 DEF ReadInv
  <2>1. /\ \A c \in Made : EndOf(c) <= de_info_last_offset
        /\ \A c \in Made : c # Len(contexts) => contexts[contexts[c].cc_next].start <= EndOf(c)
    BY DEF ReadInv
  <2>2. CUs[k].start \in Nat /\ End(k) \in Nat /\ CUs[k].start < End(k)
    BY CuSizes
  <2>3. de_info_last_offset \in Nat /\ de_info_last_offset = EndOf(Len(contexts))
    <3>1. CASE contexts = <<>>
      BY <3>1 DEF LinkInv, EndOf, NULL
    <3>2. CASE contexts # <<>>
      <4>1. Len(contexts) \in Made
        BY <3>2 DEF Types, Made
      <4> QED
        BY <4>1, ContextSizes DEF LinkInv
    <3> QED
      BY <3>1, <3>2
  <2>4. CUs[k].start = de_info_last_offset
    <3>1. ~(CUs[k].start < de_info_last_offset)
      BY <1>k, <2>2, ListFinds
    <3>2. CUs[k].start <= de_info_last_offset
      <4>1. CASE de_cu_context = NULL
        BY <1>k, <2>3, <4>1 DEF EndOf
      <4>2. CASE de_cu_context # NULL
        <5>1. de_cu_context \in Made
          BY <4>2 DEF Types, Contexts, Made, NULL
        <5> QED
          BY <1>k, <2>1, <5>1
      <4> QED
        BY <4>1, <4>2
    <3> QED
      BY <2>2, <2>3, <3>1, <3>2
  <2>5. de_info_last_offset' = End(k)
    BY <1>1, <1>2, <1>5 DEF LinkInv
  <2>6. ASSUME NEW c \in Made
        PROVE  EndOf(c)' <= End(k)
    <3>1. EndOf(c)' = EndOf(c) /\ EndOf(c) \in Nat /\ EndOf(c) <= de_info_last_offset
      BY <1>1, <2>1, ContextSizes DEF Grown
    <3> QED
      BY <2>2, <2>3, <2>4, <3>1
  <2>7. ASSUME NEW c \in Made
        PROVE  contexts'[contexts'[c].cc_next].start <= EndOf(c)'
    <3>0. \A d \in Made : contexts'[d].cc_next = IF d \in {} \cup {Len(contexts)}
                                                THEN n ELSE contexts[d].cc_next
      BY <1>n, <1>m, MakeAdds
    <3>1. CASE c = Len(contexts)
      <4>1. contexts'[c].cc_next = n
        BY <3>0, <3>1
      <4>2. contexts'[n].start = CUs[k].start /\ EndOf(c)' = EndOf(c)
        BY <1>1 DEF IsOf, Grown
      <4> QED
        BY <2>2, <2>3, <2>4, <3>1, <4>1, <4>2
    <3>2. CASE c # Len(contexts)
      <4>1. contexts'[c].cc_next = contexts[c].cc_next /\ EndOf(c)' = EndOf(c)
        BY <1>1, <3>0, <3>2 DEF Grown
      <4>2. contexts[c].cc_next \in Made
        BY <3>2 DEF LinkInv, Made, Types
      <4> QED
        BY <1>1, <2>1, <3>2, <4>1, <4>2 DEF Grown
    <3> QED
      BY <3>1, <3>2
  <2> QED
    BY <1>1, <2>2, <2>5, <2>6, <2>7
<1> QED
  BY <1>4, <1>5, <1>6, <1>7, <1>8

(* The next CU becomes the last one dwarf_offdie() read.                      *)
LEMMA OffdieLeadsOn ==
  ASSUME Types, LinkInv, OffdieInv, NEW k \in Cus, NEW n \in Nat, n = Len(contexts) + 1,
         make_CU_Context(CUs[k].start, {de_offdie_cu_context_end}),
         CUs[k].start = EndOf(de_offdie_cu_context_end),
         de_offdie_cu_context' = IF de_offdie_cu_context = NULL THEN n ELSE de_offdie_cu_context,
         de_offdie_cu_context_end' = n
  PROVE  OffdieInv'
<1> DEFINE from == de_offdie_cu_context
           to == de_offdie_cu_context_end
<1>1. Grown /\ Made' = Made \cup {n} /\ n \notin Made /\ n # NULL /\ IsOf(n, k)'
  BY MakeGrows
<1>2. \A c \in Made : contexts'[c].cc_next = IF c \in {to} \cup {Len(contexts)}
                                             THEN n ELSE contexts[c].cc_next
  BY MakeAdds
<1>3. contexts'[n].start = EndOf(to)
  BY <1>1 DEF IsOf
<1> SUFFICES /\ contexts'[de_offdie_cu_context'].start = 0
             /\ \E S \in SUBSET Made' : Leads(S, de_offdie_cu_context, de_offdie_cu_context_end)'
  BY <1>1 DEF OffdieInv
<1>4. CASE to = NULL
  <2>1. de_offdie_cu_context' = n /\ contexts'[n].start = 0
    BY <1>3, <1>4 DEF OffdieInv, EndOf
  <2>2. Leads({n}, de_offdie_cu_context, de_offdie_cu_context_end)'
    <3>1. \A d \in {n} : d <= n
      OBVIOUS
    <3> QED
      BY <2>1, <3>1 DEF Leads
  <2> QED
    BY <1>1, <2>1, <2>2
<1>5. CASE to # NULL
  <2>1. PICK S \in SUBSET Made : Leads(S, from, to)
    BY <1>5 DEF OffdieInv
  <2>2. from \in S /\ to \in S /\ from # NULL /\ contexts[from].start = 0 /\ de_offdie_cu_context' = from
    BY <1>5, <2>1 DEF Leads, OffdieInv
  <2>3. contexts'[from].start = 0
    BY <1>1, <2>2 DEF Grown
  <2>4. ASSUME NEW d \in S
        PROVE  /\ contexts'[d].cc_next \in S \cup {n}
               /\ contexts'[contexts'[d].cc_next].start = EndOf(d)'
    <3>1. d \in Made /\ EndOf(d)' = EndOf(d)
      BY <1>1 DEF Grown
    <3>2. CASE d = to
      BY <1>2, <1>3, <3>1, <3>2
    <3>3. CASE d # to
      <4>1. d # Len(contexts)
        BY <2>1, <2>2, <3>3 DEF Leads, Made, Types
      <4>2. contexts'[d].cc_next = contexts[d].cc_next
        BY <1>2, <3>1, <3>3, <4>1
      <4>3. contexts[d].cc_next \in S /\ contexts[contexts[d].cc_next].start = EndOf(d)
        BY <2>1, <3>3 DEF Leads
      <4>4. contexts'[contexts[d].cc_next].start = contexts[contexts[d].cc_next].start
        BY <1>1, <4>3 DEF Grown
      <4> QED
        BY <3>1, <4>2, <4>3, <4>4
    <3> QED
      BY <3>2, <3>3
  <2>5. \A d \in S \cup {n} : d <= n
    BY DEF Made, Types
  <2>6. Leads(S \cup {n}, de_offdie_cu_context, de_offdie_cu_context_end)'
    <3> DEFINE T == S \cup {n}
    <3>1. from \in T /\ n \in T /\ \A d \in T : d <= n
      BY <2>2, <2>5
    <3>2. ASSUME NEW d \in T \ {n}
          PROVE  contexts'[d].cc_next \in T /\ contexts'[contexts'[d].cc_next].start = EndOf(d)'
      BY <2>4
    <3> HIDE DEF T
    <3>3. Leads(T, de_offdie_cu_context, de_offdie_cu_context_end)'
      BY <2>2, <3>1, <3>2 DEF Leads
    <3> QED
      BY <3>3 DEF T
  <2> QED
    BY <1>1, <2>2, <2>3, <2>6
<1> QED
  BY <1>4, <1>5

LEMMA OffdieReads ==
  ASSUME IInv, OffdieRead
  PROVE  IInv'
<1> USE DEF IInv
<1>n. PICK n \in Nat : n = Len(contexts) + 1
  BY DEF Types
<1>k. PICK k \in Cus : new_cu_offset = CUs[k].start
  BY DEF OffdieRead, CuStarts, Cus
<1>m. /\ make_CU_Context(CUs[k].start, {de_offdie_cu_context_end})
      /\ CuAt(new_cu_offset) = CUs[k]
  BY <1>k, NumberOfStart DEF OffdieRead
<1>e. new_cu_offset = EndOf(de_offdie_cu_context_end)
  BY DEF OffdieRead, LoopInv
<1>a. /\ pc = "offdie" /\ de_offdie_cu_context_end' = n /\ cu_context' = n
      /\ de_offdie_cu_context' = IF de_offdie_cu_context = NULL THEN n ELSE de_offdie_cu_context
      /\ new_cu_offset' = new_cu_offset + CUs[k].length + CUs[k].length_size
      /\ pc' = IF want >= new_cu_offset' THEN "offdie" ELSE "die"
      /\ de_cu_context' = de_cu_context /\ want' = want /\ die' = die
      /\ failed' = failed /\ short' = short
  BY <1>n, <1>m DEF OffdieRead
<1>1. /\ Grown /\ Made' = Made \cup {n} /\ n \notin Made /\ n # NULL
      /\ IsOf(n, k)' /\ EndOf(n)' = End(k)
      /\ \A o \in Nat : Covers(n, o)' <=> (CUs[k].start <= o /\ o < End(k))
  BY <1>n, <1>m, MakeGrows
<1>2. /\ contexts' \in Seq(Context) /\ Len(contexts') = n
      /\ Contexts' = Contexts \cup {n}
      /\ \A c \in Made' : \E j \in Cus : IsOf(c, j)'
  BY <1>n, <1>m, MakeTypes
<1>3. /\ CUs[k].start \in Nat /\ CUs[k].start = new_cu_offset /\ End(k) \in Nat
      /\ new_cu_offset' \in Nat /\ CUs[k].start < new_cu_offset' /\ new_cu_offset' <= End(k)
      /\ new_cu_offset' = End(k) \/ CUs[k].extension_size # 0
  <2> DEFINE s == CUs[k].start
             l == CUs[k].length
             z == CUs[k].length_size
             e == CUs[k].extension_size
  <2>1. /\ s \in Nat /\ l \in Nat \ {0} /\ z \in Nat /\ e \in Nat
    BY CuFacts
  <2>2. End(k) = s + (l + z + e) /\ new_cu_offset' = s + l + z /\ s = new_cu_offset
    BY <1>k, <1>a DEF End, Total
  <2> HIDE DEF s, l, z, e
  <2>3. /\ s \in Nat /\ s = new_cu_offset /\ End(k) \in Nat
        /\ new_cu_offset' \in Nat /\ s < new_cu_offset' /\ new_cu_offset' <= End(k)
        /\ new_cu_offset' = End(k) \/ e # 0
    BY <2>1, <2>2
  <2> QED
    BY <2>3 DEF s, e
<1>4. Types'
  <2>1. {de_cu_context, de_offdie_cu_context, de_offdie_cu_context_end}' \subseteq Contexts'
    BY <1>2, <1>a DEF Types
  <2>2. die' \in [context : Contexts', offset : Nat]
    BY <1>2, <1>a DEF Types
  <2>3. cu_context' \in Contexts' /\ want' \in Nat /\ new_cu_offset' \in Nat
    BY <1>2, <1>3, <1>a DEF Types
  <2>4. pc' \in {"idle", "offdie", "die"} /\ failed' \in BOOLEAN /\ short' \in BOOLEAN
    BY <1>a DEF Types
  <2> QED
    BY <1>2, <2>1, <2>2, <2>3, <2>4 DEF Types
<1>5. LinkInv'
  <2>1. contexts = <<>> => CUs[k].start = 0
    BY <1>e, <1>k DEF Types, Contexts, EndOf, NULL
  <2> QED
    BY <1>m, <2>1, MakeLinks
<1>6. OffdieInv'
  BY <1>n, <1>k, <1>m, <1>e, <1>a, OffdieLeadsOn
<1>7. LoopInv'
  <2> SUFFICES ASSUME want >= new_cu_offset'
               PROVE  new_cu_offset' \in CuStarts \/ NoEscape => new_cu_offset' = End(k)
    BY <1>1, <1>a DEF LoopInv
  <2>1. NoEscape => CUs[k].extension_size = 0
    BY DEF NoEscape, Cus
  <2>2. new_cu_offset' # End(k) => new_cu_offset' \notin CuStarts
    BY <1>3, InsideIsNoStart
  <2> QED
    BY <1>3, <2>1, <2>2
<1>8. DieInv'
  <2>1. die # NoDie => die.context # NULL /\ Covers(die.context, die.offset)'
    BY <1>1, <1>a, DieStays
  <2>2. pc' = "die" => Covers(n, want)'
    <3>1. pc' = "die" => ~(want >= new_cu_offset')
      BY <1>a
    <3>2. want \in Nat /\ want >= new_cu_offset
      BY <1>a DEF Types, LoopInv
    <3>3. pc' = "die" => CUs[k].start <= want /\ want < End(k)
      BY <1>3, <3>1, <3>2
    <3> QED
      BY <1>1, <1>a, <3>2, <3>3
  <2> QED
    BY <1>1, <1>a, <2>1, <2>2 DEF DieInv
<1>9. ReadInv'
  <2> SUFFICES ASSUME NoEscape, ~short
               PROVE  /\ \A c \in Made' : c # n =>
                           contexts'[contexts'[c].cc_next].start <= EndOf(c)'
                      /\ pc' # "offdie" => \A c \in Made' : EndOf(c)' <= de_info_last_offset'
                      /\ pc' = "offdie" => \A c \in Made' : EndOf(c)' <= want
    BY <1>2, <1>a DEF ReadInv
  <2>1. /\ \A c \in Made : EndOf(c) <= want
        /\ de_offdie_cu_context_end # Len(contexts) =>
             \A c \in Made : EndOf(c) <= de_info_last_offset
        /\ \A c \in Made : c # Len(contexts) => contexts[contexts[c].cc_next].start <= EndOf(c)
    BY <1>a DEF ReadInv
  <2>2. new_cu_offset' = End(k) /\ want \in Nat
    BY <1>3 DEF NoEscape, Cus, Types
  <2>3. de_info_last_offset' = End(k)
    BY <1>1, <1>2, <1>5 DEF LinkInv
  <2>4. ASSUME NEW c \in Made
        PROVE  EndOf(c)' = EndOf(c) /\ EndOf(c) \in Nat /\ EndOf(c) <= want
    BY <1>1, <2>1, ContextSizes DEF Grown
  <2>5. ASSUME NEW c \in Made'
        PROVE  /\ pc' # "offdie" => EndOf(c)' <= de_info_last_offset'
               /\ pc' = "offdie" => EndOf(c)' <= want
    <3>1. CASE c = n
      BY <1>1, <1>3, <1>a, <2>2, <2>3, <3>1
    <3>2. CASE c # n
      <4>1. c \in Made
        BY <1>1, <2>5, <3>2
      <4> QED
        BY <1>3, <1>a, <2>2, <2>3, <2>4, <4>1
    <3> QED
      BY <3>1, <3>2
  <2>6. ASSUME NEW c \in Made
        PROVE  contexts'[contexts'[c].cc_next].start <= EndOf(c)'
    <3>0. \A d \in Made : contexts'[d].cc_next =
                            IF d \in {de_offdie_cu_context_end} \cup {Len(contexts)}
                            THEN n ELSE contexts[d].cc_next
      BY <1>n, <1>m, MakeAdds
    <3>1. contexts'[n].start = CUs[k].start
      BY <1>1 DEF IsOf
    <3>2. CASE c = de_offdie_cu_context_end
      BY <1>3, <1>e, <2>4, <3>0, <3>1, <3>2
    <3>3. CASE c = Len(contexts) /\ c # de_offdie_cu_context_end
      <4>1. contexts'[c].cc_next = n
        BY <3>0, <3>3
      <4>2. CUs[k].start <= EndOf(c)
        <5>1. CASE de_offdie_cu_context_end = NULL
          BY <1>3, <1>e, <2>4, <5>1 DEF EndOf
        <5>2. CASE de_offdie_cu_context_end # NULL
          <6>1. de_offdie_cu_context_end \in Made
            BY <5>2 DEF Types, Contexts, Made, NULL
          <6> QED
            BY <1>3, <1>e, <2>1, <3>3, <6>1 DEF LinkInv
        <5> QED
          BY <5>1, <5>2
      <4> QED
        BY <2>4, <3>1, <4>1, <4>2
    <3>4. CASE c # Len(contexts) /\ c # de_offdie_cu_context_end
      <4>1. contexts'[c].cc_next = contexts[c].cc_next
        BY <3>0, <3>4
      <4>2. contexts[c].cc_next \in Made
        BY <3>4 DEF LinkInv, Made, Types
      <4> QED
        BY <1>1, <2>1, <2>4, <3>4, <4>1, <4>2 DEF Grown
    <3> QED
      BY <3>2, <3>3, <3>4
  <2> QED
    BY <1>1, <2>5, <2>6
<1> QED
  BY <1>4, <1>5, <1>6, <1>7, <1>8, <1>9

(* A step that reads no CU leaves the lists as they are.                     *)
ListsKept == UNCHANGED <<contexts, de_info_last_offset, de_cu_context_list,
                         de_cu_context_list_end, de_offdie_cu_context,
                         de_offdie_cu_context_end>>

LEMMA ListsStay ==
  ASSUME IInv, ListsKept
  PROVE  /\ LinkInv' /\ OffdieInv'
         /\ Made' = Made /\ Contexts' = Contexts
         /\ \A c, o : Covers(c, o)' <=> Covers(c, o)
         /\ \A c : EndOf(c)' = EndOf(c)
<1>1. /\ Made' = Made /\ Contexts' = Contexts
      /\ \A c, o : Covers(c, o)' <=> Covers(c, o)
      /\ \A c : EndOf(c)' = EndOf(c)
  BY DEF ListsKept, Made, Contexts, Covers, EndOf
<1>2. LinkInv'
  BY <1>1 DEF ListsKept, IInv, LinkInv
<1>3. OffdieInv'
  BY <1>1 DEF ListsKept, IInv, OffdieInv, Leads
<1> QED
  BY <1>1, <1>2, <1>3

LEMMA TypesStay ==
  ASSUME IInv, ListsKept, de_cu_context' \in Contexts, cu_context' \in Contexts,
         die' \in [context : Contexts, offset : Nat], pc' \in {"idle", "offdie", "die"},
         want' \in Nat, new_cu_offset' \in Nat, failed' \in BOOLEAN, short' \in BOOLEAN
  PROVE  Types'
<1>1. contexts' = contexts /\ Made' = Made /\ Contexts' = Contexts
  BY ListsStay DEF ListsKept
<1>2. \A c \in Made' : \E k \in Cus : IsOf(c, k)'
  BY <1>1 DEF IInv, Types, IsOf
<1>3. {de_cu_context, de_offdie_cu_context, de_offdie_cu_context_end}' \subseteq Contexts'
  BY <1>1 DEF IInv, Types, ListsKept
<1> QED
  BY <1>1, <1>2, <1>3 DEF IInv, Types

LEMMA NoDieType ==
  ASSUME Types
  PROVE  NoDie \in [context : Contexts, offset : Nat]
<1>1. Len(contexts) \in Nat => NULL \in Contexts
  BY DEF Contexts, NULL
<1> QED
  BY <1>1 DEF NoDie, Types

(* Between calls everything that was read ends before de_info_last_offset.    *)
LEMMA ReadStays ==
  ASSUME IInv, ListsKept, pc # "offdie", pc' # "offdie", ~short' => ~short
  PROVE  ReadInv'
  BY ListsStay DEF IInv, ReadInv, ListsKept

LEMMA NextCuFinds ==
  ASSUME IInv, NextCuAtEnd \/ NextCuFound
  PROVE  IInv'
<1> USE DEF IInv
<1>1. /\ pc = "idle" /\ Succeed /\ ListsKept /\ UNCHANGED loop
  BY DEF NextCuAtEnd, NextCuFound, ListsKept
<1>2. de_cu_context' \in Contexts
  <2>1. CASE NextCuAtEnd
    BY <2>1 DEF NextCuAtEnd, Contexts, NULL, Types
  <2>2. CASE NextCuFound
    <3> DEFINE o == EndOf(de_cu_context)
    <3>1. de_cu_context' = find_CU_Context(o) /\ find_CU_Context(o) # NULL
      BY <2>2 DEF NextCuFound
    <3>2. o \in Nat
      <4>1. CASE de_cu_context = NULL
        BY <4>1 DEF EndOf
      <4>2. CASE de_cu_context # NULL
        BY <4>2, ContextSizes DEF Types, Contexts, Made, NULL
      <4> QED
        BY <4>1, <4>2
    <3> HIDE DEF o
    <3>3. find_CU_Context(o) \in Made
      BY <3>1, <3>2, FoundCovers
    <3> QED
      BY <3>1, <3>3, ContextIs
  <2> QED
    BY <2>1, <2>2
<1>3. pc' = "idle" /\ die' = NoDie /\ failed' = FALSE /\ short' = short
  BY <1>1 DEF Succeed, loop
<1>4. Types'
  BY <1>1, <1>2, <1>3, NoDieType, TypesStay DEF Types, loop
<1>5. LinkInv' /\ OffdieInv'
  BY <1>1, ListsStay
<1>6. LoopInv' /\ DieInv'
  BY <1>3 DEF LoopInv, DieInv
<1>7. ReadInv'
  BY <1>1, <1>3, ReadStays
<1> QED
  BY <1>4, <1>5, <1>6, <1>7

LEMMA FailStays ==
  ASSUME IInv, NEW is_short \in BOOLEAN, Fail(is_short),
         pc = "offdie" /\ ~is_short => NoRoom(new_cu_offset) \/ new_cu_offset \notin CuStarts
  PROVE  IInv'
<1> USE DEF IInv
<1>1. /\ ListsKept /\ pc' = "idle" /\ die' = NoDie /\ failed' = TRUE
      /\ short' = (short \/ is_short) /\ UNCHANGED <<want, new_cu_offset, cu_context>>
      /\ UNCHANGED de_cu_context
  BY DEF Fail, ListsKept, lists, heads
<1>2. Types'
  <2>1. short' \in BOOLEAN
    BY <1>1 DEF Types
  <2> QED
    BY <1>1, <2>1, NoDieType, TypesStay DEF Types
<1>3. LinkInv' /\ OffdieInv'
  BY <1>1, ListsStay
<1>4. LoopInv' /\ DieInv'
  BY <1>1 DEF LoopInv, DieInv
<1>5. ReadInv'
  <2>1. CASE pc # "offdie"
    BY <1>1, <2>1, ReadStays DEF Types
  <2>2. CASE pc = "offdie"
    <3> SUFFICES ASSUME NoEscape, ~short, ~is_short
                 PROVE  /\ \A c \in Made : c # Len(contexts) =>
                             contexts[contexts[c].cc_next].start <= EndOf(c)
                        /\ \A c \in Made : EndOf(c) <= de_info_last_offset
      BY <1>1, ListsStay DEF ReadInv, ListsKept, Types
    <3>1. /\ \A c \in Made : c # Len(contexts) => contexts[contexts[c].cc_next].start <= EndOf(c)
          /\ de_offdie_cu_context_end # Len(contexts) =>
               \A c \in Made : EndOf(c) <= de_info_last_offset
      BY <2>2 DEF ReadInv
    <3>2. ASSUME NEW c \in Made, de_offdie_cu_context_end = Len(contexts)
          PROVE  EndOf(c) <= de_info_last_offset
      <4>1. de_offdie_cu_context_end \in Contexts /\ de_offdie_cu_context_end \in Made
        BY <3>2 DEF Types, Made
      <4>2. new_cu_offset = EndOf(de_offdie_cu_context_end)
        BY <2>2 DEF LoopInv
      <4>3. NoRoom(EndOf(de_offdie_cu_context_end))
        <5> SUFFICES ASSUME ~NoRoom(EndOf(de_offdie_cu_context_end))
                     PROVE  FALSE
          OBVIOUS
        <5>1. PICK k \in Cus : EndOf(de_offdie_cu_context_end) = CUs[k].start
          BY <4>1, AtBoundary
        <5> QED
          BY <2>2, <4>2, <5>1, NumberOfStart
      <4> DEFINE j == CuNumber(de_offdie_cu_context_end)
      <4>4. j \in Cus /\ EndOf(de_offdie_cu_context_end) = End(j)
        BY <4>1, ContextIs
      <4>5. End(j) = dss_size
        BY <4>3, <4>4, SectionEnd, RoomAtStart
      <4>6. de_info_last_offset = dss_size
        BY <3>2, <4>4, <4>5 DEF LinkInv
      <4> QED
        BY <4>6, ContextSizes
    <3> QED
      BY <3>1, <3>2
  <2> QED
    BY <2>1, <2>2
<1> QED
  BY <1>2, <1>3, <1>4, <1>5

(* The last CU that was read ends where de_info_last_offset says.            *)
LEMMA LastIsNat ==
  ASSUME Types, LinkInv
  PROVE  de_info_last_offset \in Nat /\ de_info_last_offset <= dss_size
<1>1. CASE contexts = <<>>
  BY <1>1, SizeIsNat DEF LinkInv, EndOf, NULL
<1>2. CASE contexts # <<>>
  <2>1. Len(contexts) \in Made
    BY <1>2 DEF Types, Made
  <2> QED
    BY <2>1, ContextSizes DEF LinkInv
<1> QED
  BY <1>1, <1>2

LEMMA EndIsNat ==
  ASSUME Types, NEW c \in Contexts
  PROVE  EndOf(c) \in Nat /\ EndOf(c) <= dss_size
<1>1. CASE c = NULL
  BY <1>1, SizeIsNat DEF EndOf
<1>2. CASE c # NULL
  BY <1>2, ContextSizes DEF Contexts, Made, NULL, Types
<1> QED
  BY <1>1, <1>2

LEMMA OffdieKeeps ==
  ASSUME IInv, NEW offset \in Wanted, Offdie(offset)
  PROVE  IInv'
<1> USE DEF IInv
<1> DEFINE c == find_CU_Context(offset)
           d == IF c # NULL THEN c ELSE find_offdie_CU_Context(offset)
<1>0. offset \in Nat
  BY CuAssumption
<1>1. /\ pc = "idle" /\ pc' = IF d # NULL THEN "die" ELSE "offdie"
      /\ want' = offset /\ cu_context' = d /\ die' = NoDie
      /\ new_cu_offset' = EndOf(de_offdie_cu_context_end)
      /\ failed' = FALSE /\ short' = short /\ ListsKept /\ UNCHANGED de_cu_context
  BY DEF Offdie, Succeed, ListsKept, lists, heads
<1>2. d # NULL => d \in Made /\ Covers(d, offset)
  BY <1>0, FoundCovers, OffdieFoundCovers
<1>3. d = NULL => c = NULL /\ find_offdie_CU_Context(offset) = NULL
  OBVIOUS
<1> HIDE DEF c, d
<1>4. d \in Contexts
  <2>1. d = NULL => d \in Contexts
    BY DEF Types, Contexts, NULL
  <2> QED
    BY <1>2, <2>1, ContextIs
<1>5. new_cu_offset' \in Nat
  BY <1>1, EndIsNat DEF Types
<1>6. Types'
  BY <1>0, <1>1, <1>4, <1>5, NoDieType, TypesStay DEF Types
<1>7. LinkInv' /\ OffdieInv'
  BY <1>1, ListsStay
<1>8. DieInv'
  BY <1>1, <1>2, ListsStay DEF DieInv
<1>9. LoopInv'
  <2>1. d = NULL => offset >= EndOf(de_offdie_cu_context_end)
    <3>1. d = NULL => ~(offset < EndOf(de_offdie_cu_context_end))
      BY <1>0, <1>3, OffdieFinds
    <3> QED
      BY <1>0, <1>1, <1>5, <3>1
  <2>2. EndOf(de_offdie_cu_context_end)' = EndOf(de_offdie_cu_context_end)
    BY <1>1 DEF ListsKept, EndOf
  <2> QED
    BY <1>1, <2>1, <2>2 DEF LoopInv
<1>10. ReadInv'
  <2> SUFFICES ASSUME NoEscape, ~short
               PROVE  /\ \A e \in Made : e # Len(contexts) =>
                           contexts[contexts[e].cc_next].start <= EndOf(e)
                      /\ \A e \in Made : EndOf(e) <= de_info_last_offset
                      /\ d = NULL => \A e \in Made : EndOf(e) <= offset
    BY <1>1, ListsStay DEF ReadInv, ListsKept
  <2>1. /\ \A e \in Made : e # Len(contexts) => contexts[contexts[e].cc_next].start <= EndOf(e)
        /\ \A e \in Made : EndOf(e) <= de_info_last_offset
    BY <1>1 DEF ReadInv
  <2>2. d = NULL => de_info_last_offset <= offset
    <3>1. d = NULL => ~(offset < de_info_last_offset)
      BY <1>0, <1>3, ListFinds DEF c
    <3> QED
      BY <1>0, <3>1, LastIsNat
  <2>3. \A e \in Made : EndOf(e) \in Nat
    BY ContextSizes
  <2> QED
    BY <1>0, <2>1, <2>2, <2>3, LastIsNat
<1> QED
  BY <1>6, <1>7, <1>8, <1>9, <1>10

LEMMA FirstDieKeeps ==
  ASSUME IInv, pc = "idle", de_cu_context # NULL, pc' = "die",
         want' = contexts[de_cu_context].start + SimpleHeader
                   + contexts[de_cu_context].extension_size,
         cu_context' = de_cu_context, Succeed, UNCHANGED <<lists, new_cu_offset>>
  PROVE  IInv'
<1> USE DEF IInv
<1>1. /\ die' = NoDie /\ failed' = FALSE /\ short' = short /\ ListsKept
      /\ UNCHANGED <<de_cu_context, new_cu_offset>>
  BY DEF Succeed, ListsKept, lists, heads
<1>2. de_cu_context \in Made
  BY DEF Types, Contexts, Made, NULL
<1>3. want' \in Nat /\ Covers(de_cu_context, want')
  <2> DEFINE k == CuNumber(de_cu_context)
             s == CUs[k].start
             l == CUs[k].length
             z == CUs[k].length_size
             e == CUs[k].extension_size
  <2>1. k \in Cus /\ IsOf(de_cu_context, k) /\ EndOf(de_cu_context) = End(k)
    BY <1>2, ContextIs
  <2>2. /\ s \in Nat /\ l \in Nat /\ z \in Nat /\ e \in Nat
        /\ SimpleHeader \in Nat /\ SimpleHeader < l + z
    BY <2>1, CuFacts
  <2>3. /\ want' = s + SimpleHeader + e /\ EndOf(de_cu_context) = s + (l + z + e)
        /\ contexts[de_cu_context].start = s
    BY <2>1 DEF IsOf, End, Total
  <2> HIDE DEF k, s, l, z, e
  <2>4. want' \in Nat /\ s <= want' /\ want' < EndOf(de_cu_context)
    BY <2>2, <2>3
  <2> QED
    BY <1>2, <2>3, <2>4, CoversIs
<1>4. Types'
  BY <1>1, <1>3, NoDieType, TypesStay DEF Types
<1>5. LinkInv' /\ OffdieInv'
  BY <1>1, ListsStay
<1>6. LoopInv' /\ DieInv'
  BY <1>1, <1>3, ListsStay DEF LoopInv, DieInv
<1>7. ReadInv'
  BY <1>1, ReadStays
<1> QED
  BY <1>4, <1>5, <1>6, <1>7

LEMMA MakeDieKeeps ==
  ASSUME IInv, pc = "die", pc' = "idle",
         die' \in {die, [context |-> cu_context, offset |-> want]},
         UNCHANGED <<lists, want, new_cu_offset, cu_context, failed, short>>
  PROVE  IInv'
<1> USE DEF IInv
<1>1. ListsKept /\ UNCHANGED <<de_cu_context, want, new_cu_offset, cu_context, failed, short>>
  BY DEF ListsKept, lists, heads
<1>2. Types'
  BY <1>1, TypesStay DEF Types
<1>3. LinkInv' /\ OffdieInv'
  BY <1>1, ListsStay
<1>4. die' # NoDie => die'.context # NULL /\ Covers(die'.context, die'.offset)
  <2>1. CASE die' = die
    BY <2>1 DEF DieInv
  <2>2. CASE die' = [context |-> cu_context, offset |-> want]
    BY <2>2 DEF DieInv
  <2> QED
    BY <2>1, <2>2
<1>5. LoopInv' /\ DieInv'
  BY <1>4, ListsStay, <1>1 DEF LoopInv, DieInv
<1>6. ReadInv'
  BY <1>1, ReadStays
<1> QED
  BY <1>2, <1>3, <1>5, <1>6

LEMMA StartHolds == Init => IInv
<1> SUFFICES ASSUME Init
             PROVE  IInv
  OBVIOUS
<1> USE DEF Init
<1>1. contexts \in Seq(Context) /\ Len(contexts) = 0
  OBVIOUS
<1>2. Made = {} /\ Contexts = {0}
  BY <1>1 DEF Made, Contexts
<1>3. NULL \in Contexts /\ NoDie \in [context : Contexts, offset : Nat]
  BY <1>2 DEF NULL, NoDie
<1>4. Types
  BY <1>1, <1>2, <1>3 DEF Types
<1>5. LinkInv
  BY <1>1, <1>2 DEF LinkInv, NULL, EndOf
<1>6. OffdieInv /\ LoopInv /\ DieInv
  BY DEF OffdieInv, LoopInv, DieInv
<1>7. ReadInv
  BY <1>2 DEF ReadInv
<1> QED
  BY <1>4, <1>5, <1>6, <1>7 DEF IInv

LEMMA FinishStarts == Finish => Init'
  BY DEF Finish, Init

LEMMA FinishKeeps == Finish => IInv'
  BY StartHolds, FinishStarts, PTL

(* What holds of the contexts, the lists and the calls is kept by every step.  *)
LEMMA StepKeeps ==
  ASSUME IInv, [Next]_vars
  PROVE  IInv'
<1>1. CASE NextCuAtEnd \/ NextCuFound
  BY <1>1, NextCuFinds
<1>2. CASE NextCuRead
  <2>1. CASE Fail(TRUE)
    BY <2>1, FailStays
  <2>2. CASE ~Fail(TRUE)
    BY <1>2, <2>2, NextCuReads DEF NextCuRead
  <2> QED
    BY <2>1, <2>2
<1>3. CASE FirstDie
  <2>1. CASE Fail(FALSE)
    BY <1>3, <2>1, FailStays DEF FirstDie
  <2>2. CASE ~Fail(FALSE)
    BY <1>3, <2>2, FirstDieKeeps DEF FirstDie
  <2> QED
    BY <2>1, <2>2
<1>4. CASE Finish
  BY <1>4, FinishKeeps
<1>5. CASE \E offset \in Wanted : Offdie(offset)
  BY <1>5, OffdieKeeps
<1>6. CASE OffdieRead
  BY <1>6, OffdieReads
<1>7. CASE OffdieReadFails
  <2>1. CASE NoRoom(new_cu_offset) \/ new_cu_offset \notin CuStarts
    BY <1>7, <2>1, FailStays DEF OffdieReadFails
  <2>2. CASE ~(NoRoom(new_cu_offset) \/ new_cu_offset \notin CuStarts)
    BY <1>7, <2>2, FailStays DEF OffdieReadFails
  <2> QED
    BY <2>1, <2>2
<1>8. CASE MakeDie
  <2>1. CASE Fail(TRUE)
    BY <2>1, FailStays
  <2>2. CASE ~Fail(TRUE)
    BY <1>8, <2>2, MakeDieKeeps DEF MakeDie
  <2> QED
    BY <2>1, <2>2
<1>9. CASE UNCHANGED vars
  <2>1. ListsKept /\ UNCHANGED <<de_cu_context, pc, want, new_cu_offset, cu_context, die, failed, short>>
    BY <1>9 DEF vars, ListsKept, lists, heads, loop
  <2>2. Types'
    BY <2>1, TypesStay DEF IInv, Types
  <2>3. LinkInv' /\ OffdieInv' /\ LoopInv' /\ DieInv' /\ ReadInv'
    BY <2>1, ListsStay DEF IInv, ListsKept, LoopInv, DieInv, ReadInv
  <2> QED
    BY <2>2, <2>3 DEF IInv
<1> QED
  BY <1>1, <1>2, <1>3, <1>4, <1>5, <1>6, <1>7, <1>8, <1>9 DEF Next, Calls, Inside

(* Without room for a header the section has ended.                          *)
LEMMA NoRoomIsEnd ==
  ASSUME Types, NEW c \in Contexts, NoRoom(EndOf(c))
  PROVE  /\ EndOf(c) = dss_size
         /\ CuNumber(c) = Len(CUs)
<1>1. CASE c = NULL
  <2>1. EndOf(c) = 0 /\ CuNumber(c) = 0
    BY <1>1 DEF EndOf, CuNumber
  <2>2. CUs = <<>>
    <3> SUFFICES ASSUME CUs # <<>>
                 PROVE  FALSE
      OBVIOUS
    <3>1. 1 \in Cus /\ CUs[1].start = 0
      BY CuFacts
    <3> QED
      BY <2>1, <3>1, RoomAtStart
  <2> QED
    BY <2>1, <2>2 DEF dss_size
<1>2. CASE c # NULL
  <2>1. c \in Made
    BY <1>2 DEF Made, Contexts, NULL, Types
  <2>2. CuNumber(c) \in Cus /\ EndOf(c) = End(CuNumber(c))
    BY <2>1, ContextIs
  <2>3. CuNumber(c) = Len(CUs)
    BY <2>2, SectionEnd, RoomAtStart
  <2> QED
    BY <2>2, <2>3, SectionEnd
<1> QED
  BY <1>1, <1>2

(* The number of the CU a context is of, told by an offset it covers.         *)
LEMMA NumberIs ==
  ASSUME Types, NEW k \in Cus, NEW c \in Made, Covers(c, CUs[k].start)
  PROVE  CuNumber(c) = k
<1>1. CuNumber(c) \in Cus /\ contexts[c].start = CUs[CuNumber(c)].start
      /\ EndOf(c) = End(CuNumber(c))
  BY ContextIs
<1>2. CUs[k].start \in Nat /\ CUs[k].start < End(k)
  BY CuSizes
<1>3. contexts[c].start <= CUs[k].start /\ CUs[k].start < EndOf(c)
  BY <1>2, CoversIs
<1> QED
  BY <1>1, <1>2, <1>3, OneCu

(* dwarf_next_cu_header() goes to the next CU, found or read.                  *)
LEMMA WalkStep ==
  ASSUME IInv, NextCuAtEnd \/ NextCuFound \/ NextCuRead,
         CuNumber(de_cu_context)' # CuNumber(de_cu_context)
  PROVE  CuNumber(de_cu_context)' = (CuNumber(de_cu_context) + 1) % (Len(CUs) + 1)
<1> USE DEF IInv
<1> DEFINE j == CuNumber(de_cu_context)
<1>0. de_cu_context \in Contexts /\ Len(CUs) \in Nat
  BY CuFacts DEF Types
<1>1. CASE NextCuAtEnd
  <2>1. CuNumber(de_cu_context)' = 0
    BY <1>1 DEF NextCuAtEnd, CuNumber
  <2>2. j = Len(CUs)
    BY <1>0, <1>1, NoRoomIsEnd DEF NextCuAtEnd
  <2>3. (Len(CUs) + 1) % (Len(CUs) + 1) = 0
    BY <1>0
  <2> QED
    BY <2>1, <2>2, <2>3
<1>2. ASSUME ~NoRoom(EndOf(de_cu_context)), CuNumber(de_cu_context)' = j + 1
      PROVE  CuNumber(de_cu_context)' = (j + 1) % (Len(CUs) + 1)
  <2>1. j + 1 \in Cus
    BY <1>0, <1>2, AtBoundary
  <2> HIDE DEF j
  <2>2. (j + 1) % (Len(CUs) + 1) = j + 1
    BY <1>0, <2>1 DEF Cus
  <2> QED
    BY <1>2, <2>2
<1>3. CASE NextCuFound
  <2> DEFINE c == find_CU_Context(EndOf(de_cu_context))
  <2>1. ~NoRoom(EndOf(de_cu_context)) /\ c # NULL /\ de_cu_context' = c /\ contexts' = contexts
    BY <1>3 DEF NextCuFound
  <2>2. j + 1 \in Cus /\ EndOf(de_cu_context) = CUs[j + 1].start
    BY <1>0, <2>1, AtBoundary
  <2>3. c \in Made /\ Covers(c, CUs[j + 1].start)
    BY <1>0, <2>1, <2>2, FoundCovers, EndIsNat
  <2>4. CuNumber(c) = j + 1
    BY <2>2, <2>3, NumberIs
  <2>5. CuNumber(de_cu_context)' = CuNumber(c)
    BY <2>1 DEF CuNumber
  <2> QED
    BY <1>2, <2>1, <2>4, <2>5
<1>4. CASE NextCuRead
  <2>1. CASE Fail(TRUE)
    <3>1. contexts' = contexts /\ de_cu_context' = de_cu_context
      BY <2>1 DEF Fail, lists, heads
    <3> QED
      BY <3>1 DEF CuNumber
  <2>2. CASE ~Fail(TRUE)
    <3>1. /\ ~NoRoom(EndOf(de_cu_context)) /\ de_cu_context' = Len(contexts')
          /\ make_CU_Context(EndOf(de_cu_context), {})
      BY <1>4, <2>2 DEF NextCuRead
    <3>2. j + 1 \in Cus /\ EndOf(de_cu_context) = CUs[j + 1].start
      BY <1>0, <3>1, AtBoundary
    <3>k. PICK k \in Cus : k = j + 1
      BY <3>2
    <3>n. PICK n \in Nat : n = Len(contexts) + 1
      BY DEF Types
    <3>3. make_CU_Context(CUs[k].start, {})
      BY <3>1, <3>2, <3>k
    <3>4. Len(contexts') = n /\ n # NULL /\ IsOf(n, k)'
      BY <3>3, <3>n, MakeGrows, MakeTypes
    <3>5. CuNumber(de_cu_context)' = Number(CUs[k].start)
      BY <3>1, <3>4 DEF CuNumber, IsOf
    <3>6. CuNumber(de_cu_context)' = j + 1
      BY <3>5, <3>k, NumberOfStart
    <3> QED
      BY <1>2, <3>1, <3>6
  <2> QED
    BY <2>1, <2>2
<1> QED
  BY <1>1, <1>3, <1>4

(* All other calls leave the walk where it is.                               *)
LEMMA WalkStays ==
  ASSUME IInv, [Next]_vars, ~(NextCuAtEnd \/ NextCuFound \/ NextCuRead), ~Finish
  PROVE  CuNumber(de_cu_context)' = CuNumber(de_cu_context)
<1>1. CASE contexts' = contexts /\ de_cu_context' = de_cu_context
  BY <1>1 DEF CuNumber
<1>2. CASE OffdieRead
  <2>1. PICK k \in Cus : new_cu_offset = CUs[k].start
    BY <1>2 DEF OffdieRead, CuStarts, Cus
  <2>2. make_CU_Context(CUs[k].start, {de_offdie_cu_context_end}) /\ de_cu_context' = de_cu_context
    BY <1>2, <2>1 DEF OffdieRead
  <2>n. PICK n \in Nat : n = Len(contexts) + 1
    BY DEF IInv, Types
  <2>3. Grown
    BY <2>2, <2>n, MakeGrows DEF IInv
  <2>4. de_cu_context = NULL \/ de_cu_context \in Made
    BY DEF IInv, Types, Contexts, Made, NULL
  <2> QED
    BY <2>2, <2>3, <2>4 DEF Grown, CuNumber
<1>3. CASE ~OffdieRead
  <2>1. contexts' = contexts /\ de_cu_context' = de_cu_context
    <3>1. CASE FirstDie
      BY <3>1 DEF FirstDie, Fail, lists, heads
    <3>2. CASE \E offset \in Wanted : Offdie(offset)
      BY <3>2 DEF Offdie, lists, heads
    <3>3. CASE OffdieReadFails
      BY <3>3 DEF OffdieReadFails, Fail, lists, heads
    <3>4. CASE MakeDie
      BY <3>4 DEF MakeDie, Fail, lists, heads
    <3>5. CASE UNCHANGED vars
      BY <3>5 DEF vars, lists, heads
    <3> QED
      BY <1>3, <3>1, <3>2, <3>3, <3>4, <3>5 DEF Next, Calls, Inside
  <2> QED
    BY <1>1, <2>1
<1> QED
  BY <1>2, <1>3

-------------------------------------------------------------------------------
(* The theorems.                                                           *)

(* The contexts and the two lists of them stay what every call relies on,     *)
(* whichever of dwarf_next_cu_header(), dwarf_offdie(), dwarf_siblingof() and  *)
(* dwarf_finish() come in whatever order.                                   *)
THEOREM CallsKeepIInv == Spec => []IInv
<1>1. Init => IInv
  BY StartHolds
<1>2. IInv /\ [Next]_vars => IInv'
  BY StepKeeps
<1> QED
  BY <1>1, <1>2, PTL DEF Spec

(* Every cc_next leads to a context made later, so no list has a cycle,       *)
(* however dwarf_offdie() and dwarf_next_cu_header() splice them.            *)
THEOREM ContextsTyped == Spec => []TypeOK
<1>1. IInv => TypeOK
  <2> SUFFICES ASSUME IInv
               PROVE  TypeOK
    OBVIOUS
  <2> USE DEF IInv
  <2>1. ASSUME NEW c \in 1..Len(contexts)
        PROVE  /\ contexts[c].start \in CuStarts
               /\ contexts[c].cc_next \in Contexts
               /\ contexts[c].cc_next # NULL => contexts[c].cc_next > c
    <3>1. c \in Made /\ Len(contexts) \in Nat
      BY DEF Made, Types
    <3>2. contexts[c].start \in CuStarts
      BY <3>1, ContextSizes
    <3>3. CASE c = Len(contexts)
      BY <3>1, <3>2, <3>3 DEF LinkInv, Contexts, NULL
    <3>4. CASE c # Len(contexts)
      BY <3>1, <3>2, <3>4 DEF LinkInv, Contexts, NULL
    <3> QED
      BY <3>3, <3>4
  <2>2. Len(contexts) \in Nat /\ contexts # <<>> => 1 \in Contexts
    BY DEF Types, Contexts
  <2>3. /\ de_cu_context_list \in Contexts /\ de_cu_context_list_end \in Contexts
        /\ de_cu_context \in Contexts /\ de_offdie_cu_context \in Contexts
        /\ de_offdie_cu_context_end \in Contexts
    BY <2>2 DEF Types, LinkInv, Contexts, NULL
  <2>4. \A i \in 1..5 : heads[i] \in Contexts
    BY <2>3 DEF heads
  <2>5. cu_context \in Contexts /\ die.context \in Contexts
        /\ pc \in {"idle", "offdie", "die"} /\ {failed, short} \subseteq BOOLEAN
    BY DEF Types
  <2> QED
    BY <2>1, <2>4, <2>5, LastIsNat DEF TypeOK
<1> QED
  BY <1>1, CallsKeepIInv, PTL

(* Whatever calls come between and whichever fail, a Dwarf_Die is given the    *)
(* context of the CU its offset is in, and, while memory lasts and without a   *)
(* 64-bit length field, no CU that was read is lost to find_CU_Context().     *)
THEOREM ContextsAreRight == Spec => []ContextsRight
<1>1. IInv => DieInItsContext
  <2> SUFFICES ASSUME IInv, die # NoDie
               PROVE  \E k \in 1..Len(CUs) :
                        /\ contexts[die.context].start = CUs[k].start
                        /\ CUs[k].start <= die.offset
                        /\ die.offset < CUs[k].start + Total(CUs[k])
    BY DEF DieInItsContext
  <2>1. die.context # NULL /\ Covers(die.context, die.offset)
    BY DEF IInv, DieInv
  <2>2. die.context \in Made /\ die.offset \in Nat /\ Types
    BY <2>1 DEF IInv, Types, Contexts, Made, NULL
  <2>3. contexts[die.context].start <= die.offset /\ die.offset < EndOf(die.context)
    BY <2>1, <2>2, CoversIs
  <2> QED
    BY <2>2, <2>3, ContextIs DEF Cus, End
<1>2. IInv => ReadIsFound
  <2> SUFFICES ASSUME IInv, NoEscape, pc = "idle", ~short, NEW c \in Made
               PROVE  find_CU_Context(contexts[c].start) # NULL
    BY DEF ReadIsFound, Made
  <2> USE DEF IInv
  <2>1. /\ contexts[c].start \in Nat /\ EndOf(c) \in Nat /\ contexts[c].start < EndOf(c)
    BY ContextSizes
  <2>2. EndOf(c) <= de_info_last_offset /\ de_info_last_offset \in Nat
    BY LastIsNat DEF ReadInv
  <2>3. contexts[c].start < de_info_last_offset
    BY <2>1, <2>2
  <2> QED
    BY <2>1, <2>3, ListFinds
<1> QED
  BY <1>1, <1>2, CallsKeepIInv, PTL DEF ContextsRight

(* No call is going on that has already failed.                              *)
CallInv == pc # "idle" => failed = FALSE

LEMMA CallsKeepCallInv == Spec => []CallInv
<1>1. Init => CallInv
  BY DEF Init, CallInv
<1>2. CallInv /\ [Next]_vars => CallInv'
  <2> SUFFICES ASSUME CallInv, [Next]_vars
               PROVE  CallInv'
    OBVIOUS
  <2> USE DEF CallInv
  <2>1. CASE NextCuAtEnd \/ NextCuFound \/ NextCuRead
    BY <2>1 DEF NextCuAtEnd, NextCuFound, NextCuRead, Succeed, Fail, loop
  <2>2. CASE FirstDie \/ Finish
    BY <2>2 DEF FirstDie, Finish, Succeed, Fail
  <2>3. CASE \E offset \in Wanted : Offdie(offset)
    BY <2>3 DEF Offdie, Succeed
  <2>4. CASE OffdieRead \/ OffdieReadFails \/ MakeDie
    BY <2>4 DEF OffdieRead, OffdieReadFails, MakeDie, Fail
  <2>5. CASE UNCHANGED vars
    BY <2>5 DEF vars, loop
  <2> QED
    BY <2>1, <2>2, <2>3, <2>4, <2>5 DEF Next, Calls, Inside
<1> QED
  BY <1>1, <1>2, PTL DEF Spec

(* While memory lasts, dwarf_offdie() does not fail for an offset in the       *)
(* section: its loop fails only behind the last CU.                         *)
LEMMA DeliverStep ==
  ASSUME IInv, CallInv, [Next]_vars
  PROVE  Delivers
<1> SUFFICES ASSUME NoEscape, pc # "idle", want < dss_size, ~short'
             PROVE  ~failed'
  BY DEF Delivers
<1>0. failed = FALSE
  BY DEF CallInv
<1>1. CASE OffdieRead
  BY <1>0, <1>1 DEF OffdieRead
<1>2. CASE OffdieReadFails
  <2>1. pc = "offdie" /\ (NoRoom(new_cu_offset) \/ new_cu_offset \notin CuStarts)
    BY <1>2 DEF OffdieReadFails, Fail
  <2>2. new_cu_offset = EndOf(de_offdie_cu_context_end) /\ want >= new_cu_offset
        /\ de_offdie_cu_context_end \in Contexts /\ Types
    BY <2>1 DEF IInv, LoopInv, Types
  <2>3. NoRoom(new_cu_offset)
    <3> SUFFICES ASSUME ~NoRoom(new_cu_offset)
                 PROVE  FALSE
      OBVIOUS
    <3>1. PICK k \in Cus : new_cu_offset = CUs[k].start
      BY <2>2, AtBoundary
    <3> QED
      BY <2>1, <3>1, NumberOfStart
  <2>4. new_cu_offset = dss_size
    BY <2>2, <2>3, NoRoomIsEnd
  <2>5. want \in Nat
    BY <2>2 DEF Types
  <2> QED
    BY <2>2, <2>4, <2>5, SizeIsNat
<1>3. CASE MakeDie
  BY <1>0, <1>3 DEF MakeDie, Fail
<1>4. CASE UNCHANGED vars
  BY <1>0, <1>4 DEF vars
<1>5. pc # "idle" => ~Calls
  BY DEF Calls, NextCuAtEnd, NextCuFound, NextCuRead, FirstDie, Finish, Offdie
<1> QED
  BY <1>1, <1>2, <1>3, <1>4, <1>5 DEF Next, Inside

(* Whatever dwarf_offdie() and dwarf_siblingof() calls come between, and       *)
(* whichever fail, dwarf_next_cu_header() walks the CUs in their order; and    *)
(* dwarf_offdie() delivers for every offset in the section, while memory lasts *)
(* and without a 64-bit length field.                                       *)
THEOREM CusReached == Spec => CusAreReached
<1>1. IInv /\ [Next]_vars => WalksOn
  <2> SUFFICES ASSUME IInv, [Next]_vars, contexts' # <<>>,
                      CuNumber(de_cu_context)' # CuNumber(de_cu_context)
               PROVE  CuNumber(de_cu_context)'
                        = (CuNumber(de_cu_context) + 1) % (Len(CUs) + 1)
    BY DEF WalksOn
  <2>1. ~Finish
    BY DEF Finish
  <2>2. NextCuAtEnd \/ NextCuFound \/ NextCuRead
    BY <2>1, WalkStays
  <2> QED
    BY <2>2, WalkStep
<1>2. IInv /\ CallInv /\ [Next]_vars => Delivers
  BY DeliverStep
<1> QED
  BY <1>1, <1>2, CallsKeepIInv, CallsKeepCallInv, PTL
     DEF Spec, CusAreReached, WalkInOrder, OffdieDelivers
=================================================================================
