------------------------------ MODULE Dump_proofs ------------------------------
(***************************************************************************)
(* Theorems about the handles that dwarfdump holds and about what it prints,  *)
(* for all object files, archives and command lines, and however many handles *)
(* there is memory for.                                                    *)
(***************************************************************************)
EXTENDS Dump, WellFoundedInduction, SequenceTheorems, FiniteSetTheorems, TLAPS

(* The DIEs of the object file.                                            *)
AllDies ==
  {d \in Nat \X Nat : d[1] \in 1..Len(obj.cus) /\ d[2] \in 1..Len(obj.cus[d[1]].dies)}

Activations == [first : Handles, die : Handles, visited : BOOLEAN]

Ranges == {r \in Int \X Int : r[1] <= r[2]}

Types ==
  /\ run \in Runs /\ m \in 1..Len(run.members)
  /\ phase \in {"infos", "walk", "frames", "search", "next unit", "exit", "done"}
  /\ cu \in 0..Len(obj.cus) /\ cu_count \in 0..Len(obj.cus)
  /\ held \in [Handles -> AllDies \cup {None}]
  /\ stack \in Seq(Activations) /\ search \in Seq(Activations)
  /\ die_stack \in [0..DIE_STACK_SIZE -> [die : Handles \cup {NULL}, printed : BOOLEAN]]
  /\ range = None \/ range \in Ranges
  /\ fde \in 1..(Len(obj.fdes) + 1) /\ frame_count \in 0..(fde - 1)
  /\ current \in Handles \cup {NULL}

(* What the phase says of the other variables.                              *)
PhaseInv ==
  /\ phase = "walk" <=> stack # <<>>
  /\ phase = "search" <=> search # <<>>
  /\ phase \in {"search", "next unit"} => current # NULL /\ fde <= Len(obj.fdes)
  /\ phase \in {"infos", "walk"} => current = NULL
  /\ phase = "infos" => cu_count <= cu
  /\ phase = "walk" => cu_count < cu
  /\ Len(stack) <= DIE_STACK_SIZE

Of(c) == {c.first, c.die}

(* The handles in use are those of U and of the calls, each in one place.     *)
Owns(calls, U, h) ==
  /\ calls \in Seq(Activations)
  /\ \A i \in 1..Len(calls) : Of(calls[i]) \cap U = {}
  /\ \A i, j \in 1..Len(calls) : i # j => Of(calls[i]) \cap Of(calls[j]) = {}
  /\ \A x \in Handles :
       h[x] # None <=> x \in U \/ \E i \in 1..Len(calls) : x \in Of(calls[i])

Running == IF phase = "walk" THEN stack ELSE search

UnitDie == IF current = NULL THEN {} ELSE {current}

(* An entry of die_stack is empty, or has the DIE of the call at its level.   *)
Mirrors(s, calls) ==
  \A lev \in 0..DIE_STACK_SIZE :
    IF lev < Len(calls) THEN s[lev].die \in {NULL, calls[lev + 1].die}
    ELSE s[lev] = Empty

HandleInv == Owns(Running, UnitDie, held) /\ Mirrors(die_stack, stack)

IInv == Types /\ (phase # "exit" => PhaseInv /\ HandleInv)
-------------------------------------------------------------------------------
(* The data.                                                               *)

LEMMA LeastNatural ==
  ASSUME NEW S \in SUBSET Nat, S # {}
  PROVE  \E least \in S : \A k \in S : least <= k
<1> DEFINE R == OpToRel(<, Nat)
<1>1. IsWellFoundedOn(R, Nat)
  BY NatLessThanWellFounded
<1> HIDE DEF R
<1>2. PICK least \in S : \A k \in S : ~(<<k, least>> \in R)
  BY <1>1, WFMin
<1>3. \A k \in S : k < least => <<k, least>> \in R
  BY DEF R, OpToRel
<1>4. \A k \in S : ~(k < least)
  BY <1>2, <1>3
<1> QED
  BY <1>4

LEMMA MinIsIn ==
  ASSUME NEW S \in SUBSET Nat, S # {}
  PROVE  Min(S) \in S
<1>1. \E least \in S : \A k \in S : least =< k
  BY LeastNatural
<1> QED
  BY <1>1 DEF Min

LEMMA ObjectType ==
  ASSUME Types
  PROVE  /\ obj \in Objects /\ obj.eh <= Len(obj.fdes) /\ obj.eh \in Nat
         /\ obj.cus \in Seq(Units)
         /\ obj.fdes \in Seq([off : Nat, low : Nat])
         /\ run.members \in Seq(Objects) /\ opt.most \in Nat
<1>1. run \in Runs /\ m \in 1..Len(run.members)
  BY DEF Types
<1>2. run.members \in Seq(Objects) /\ obj = run.members[m]
  BY <1>1, RunsAssumption DEF obj
<1>3. obj \in Objects /\ obj.eh <= Len(obj.fdes)
  BY <1>1, <1>2, RunsAssumption
<1>4. opt.most \in Nat
  BY <1>1, RunsAssumption DEF opt
<1> QED
  BY <1>2, <1>3, <1>4 DEF Objects

LEMMA DiesOf ==
  ASSUME Types, NEW c \in 1..Len(obj.cus)
  PROVE  /\ obj.cus[c].dies \in Seq(Dies) /\ Len(obj.cus[c].dies) \in Nat \ {0}
         /\ DOMAIN obj.cus[c].dies = 1..Len(obj.cus[c].dies)
         /\ <<c, 1>> \in AllDies
<1>1. obj.cus[c] \in Units
  BY ObjectType
<1>2. obj.cus[c].dies \in Seq(Dies) /\ obj.cus[c].dies # <<>>
  BY <1>1 DEF Units
<1>3. Len(obj.cus[c].dies) \in Nat \ {0} /\ DOMAIN obj.cus[c].dies = 1..Len(obj.cus[c].dies)
  BY <1>2
<1>4. c \in Nat /\ 1 \in 1..Len(obj.cus[c].dies)
  BY <1>3
<1> QED
  BY <1>2, <1>3, <1>4 DEF AllDies

LEMMA DieIsNot == \A d \in AllDies : d # None
<1>1. \A d \in Nat \X Nat : Len(d) = 2
  OBVIOUS
<1>2. Len(None) = 0
  BY DEF None
<1>3. \A d \in AllDies : d \in Nat \X Nat
  BY DEF AllDies
<1> QED
  BY <1>1, <1>2, <1>3

LEMMA IndexIs ==
  ASSUME Types, NEW d \in AllDies, NEW S \in SUBSET (1..Len(obj.cus[d[1]].dies))
  PROVE  Index(d, FirstOf(S)) \in AllDies \cup {None}
<1>1. CASE S = {}
  BY <1>1 DEF Index, FirstOf
<1>2. CASE S # {}
  <2>1. Min(S) \in S
    BY <1>2, MinIsIn
  <2>2. d[1] \in 1..Len(obj.cus) /\ d[1] \in Nat
    BY DEF AllDies
  <2>3. Min(S) \in 1..Len(obj.cus[d[1]].dies) /\ Min(S) \in Nat /\ Min(S) # 0
    <3>1. Len(obj.cus[d[1]].dies) \in Nat
      BY <2>2, DiesOf
    <3>2. \A k \in 1..Len(obj.cus[d[1]].dies) : k \in Nat /\ k # 0
      BY <3>1
    <3> QED
      BY <2>1, <3>2
  <2>4. Index(d, FirstOf(S)) = <<d[1], Min(S)>>
    BY <1>2, <2>3 DEF Index, FirstOf
  <2> QED
    BY <2>2, <2>3, <2>4 DEF AllDies
<1> QED
  BY <1>1, <1>2

(* dwarf_child() and dwarf_siblingof() answer with a DIE or NO_ENTRY.         *)
LEMMA AnswersAreDies ==
  ASSUME Types, NEW d \in AllDies
  PROVE  ChildOf(d) \in AllDies \cup {None} /\ SiblingOf(d) \in AllDies \cup {None}
<1>1. DOMAIN obj.cus[d[1]].dies = 1..Len(obj.cus[d[1]].dies)
  BY DiesOf DEF AllDies
<1> QED
  BY <1>1, IndexIs DEF ChildOf, SiblingOf

LEMMA NextCuIs ==
  ASSUME Types
  PROVE  /\ NextCu.cu \in 0..Len(obj.cus)
         /\ NextCu.res = "OK" => NextCu.cu = cu + 1 /\ NextCu.cu \in 1..Len(obj.cus)
<1>1. Len(obj.cus) \in Nat /\ cu \in 0..Len(obj.cus)
  <2>1. cu \in 0..Len(obj.cus)
    BY DEF Types
  <2> QED
    BY <2>1, ObjectType
<1>2. CASE cu + 1 = obj.bad
  BY <1>1, <1>2 DEF NextCu
<1>3. CASE cu + 1 # obj.bad /\ cu = Len(obj.cus)
  BY <1>1, <1>3 DEF NextCu
<1>4. CASE cu + 1 # obj.bad /\ cu # Len(obj.cus)
  BY <1>1, <1>4 DEF NextCu
<1> QED
  BY <1>2, <1>3, <1>4
-------------------------------------------------------------------------------
(* Handles.                                                                *)

LEMMA NewIs ==
  ASSUME NEW h, Room(h)
  PROVE  New(h) \in Handles /\ h[New(h)] = None
<1>1. {i \in Handles : h[i] = None} \in SUBSET Nat /\ {i \in Handles : h[i] = None} # {}
  BY HandlesAssumption DEF Room
<1>2. New(h) \in {i \in Handles : h[i] = None}
  BY <1>1, MinIsIn DEF New
<1> QED
  BY <1>2

LEMMA HeldTypes ==
  ASSUME NEW h \in [Handles -> AllDies \cup {None}]
  PROVE  /\ \A d \in AllDies : Get(h, d) \in [Handles -> AllDies \cup {None}]
         /\ \A gone : Dealloc(h, gone) \in [Handles -> AllDies \cup {None}]
  BY DEF Get, Dealloc

LEMMA GetIs ==
  ASSUME NEW h \in [Handles -> AllDies \cup {None}], Room(h), NEW d, NEW x \in Handles
  PROVE  Get(h, d)[x] = IF x = New(h) THEN d ELSE h[x]
  BY DEF Get

LEMMA DeallocIs ==
  ASSUME NEW h, NEW gone, NEW x \in Handles
  PROVE  Dealloc(h, gone)[x] = IF x \in gone THEN None ELSE h[x]
  BY DEF Dealloc

LEMMA LastIs ==
  ASSUME NEW calls \in Seq(Activations), calls # <<>>
  PROVE  /\ Len(calls) \in Nat \ {0} /\ Len(calls) \in 1..Len(calls)
         /\ Last(calls) = calls[Len(calls)] /\ Last(calls) \in Activations
         /\ Last(calls).first \in Handles /\ Last(calls).die \in Handles
         /\ \A i \in 1..(Len(calls) - 1) : i \in 1..Len(calls) /\ i # Len(calls)
<1>1. Len(calls) \in Nat \ {0} /\ Last(calls) = calls[Len(calls)]
  BY DEF Last
<1>2. Len(calls) \in 1..Len(calls)
  BY <1>1
<1>3. Last(calls) \in Activations
  BY <1>1, <1>2
<1> QED
  BY <1>1, <1>2, <1>3 DEF Activations

(* A call is made with a DIE of its own.                                     *)
LEMMA Pushed ==
  ASSUME NEW h \in [Handles -> AllDies \cup {None}], NEW calls, NEW U, Owns(calls, U, h), Room(h),
         NEW d, d # None
  PROVE  Owns(Append(calls, [first |-> New(h), die |-> New(h), visited |-> FALSE]), U, Get(h, d))
<1> DEFINE n == New(h)
           call == [first |-> n, die |-> n, visited |-> FALSE]
           after == Append(calls, call)
<1>1. n \in Handles /\ h[n] = None
  BY NewIs
<1>2. calls \in Seq(Activations)
  BY DEF Owns
<1>3. call \in Activations /\ call.first = n /\ call.die = n
  BY <1>1 DEF Activations
<1>4. n \notin U /\ \A i \in 1..Len(calls) : n \notin Of(calls[i])
  BY <1>1 DEF Owns
<1> HIDE DEF n, call
<1>5. /\ after \in Seq(Activations) /\ Len(after) = Len(calls) + 1 /\ Len(calls) \in Nat
      /\ \A i \in 1..Len(calls) : after[i] = calls[i]
      /\ after[Len(calls) + 1] = call
  BY <1>2, <1>3
<1>6. Of(after[Len(calls) + 1]) = {n} /\ \A i \in 1..Len(calls) : Of(after[i]) = Of(calls[i])
  BY <1>3, <1>5 DEF Of
<1> HIDE DEF after
<1>7. \A i \in 1..Len(after) : i \in 1..Len(calls) \/ i = Len(calls) + 1
  BY <1>5
<1>8. \A i \in 1..Len(after) : Of(after[i]) \cap U = {}
  BY <1>4, <1>6, <1>7 DEF Owns
<1>9. ASSUME NEW i \in 1..Len(after), NEW j \in 1..Len(after), i # j
      PROVE  Of(after[i]) \cap Of(after[j]) = {}
  <2>1. \A k, l \in 1..Len(calls) : k # l => Of(calls[k]) \cap Of(calls[l]) = {}
    BY DEF Owns
  <2>2. CASE i = Len(calls) + 1
    BY <1>4, <1>6, <1>7, <1>9, <2>2
  <2>3. CASE j = Len(calls) + 1
    BY <1>4, <1>6, <1>7, <1>9, <2>3
  <2>4. CASE i \in 1..Len(calls) /\ j \in 1..Len(calls)
    BY <1>6, <1>9, <2>1, <2>4
  <2> QED
    BY <1>7, <2>2, <2>3, <2>4
<1>10. ASSUME NEW x \in Handles
       PROVE  Get(h, d)[x] # None <=> x \in U \/ \E i \in 1..Len(after) : x \in Of(after[i])
  <2>1. Get(h, d)[x] # None <=> x = n \/ h[x] # None
    BY <1>1, GetIs DEF n
  <2>2. h[x] # None <=> x \in U \/ \E i \in 1..Len(calls) : x \in Of(calls[i])
    BY DEF Owns
  <2>3. (\E i \in 1..Len(after) : x \in Of(after[i]))
          <=> x = n \/ \E i \in 1..Len(calls) : x \in Of(calls[i])
    BY <1>5, <1>6, <1>7
  <2> QED
    BY <2>1, <2>2, <2>3
<1> QED
  BY <1>5, <1>8, <1>9, <1>10 DEF Owns, after, call, n

(* The last call is at another DIE, or has looked at it: calls as before, and  *)
(* the last with the handles V.                                             *)
LEMMA LastChanged ==
  ASSUME NEW calls, NEW U, NEW h, Owns(calls, U, h), calls # <<>>,
         NEW c \in Activations, NEW after, after = [calls EXCEPT ![Len(calls)] = c],
         NEW g, Of(c) \cap U = {},
         \A i \in 1..(Len(calls) - 1) : Of(calls[i]) \cap Of(c) = {},
         \A x \in Handles : g[x] # None <=> \/ x \in Of(c)
                                            \/ h[x] # None /\ x \notin Of(Last(calls))
  PROVE  Owns(after, U, g)
<1> DEFINE n == Len(calls)
<1>1. calls \in Seq(Activations) /\ n \in Nat \ {0} /\ Last(calls) = calls[n]
  BY DEF Owns, Last
<1>2. /\ after \in Seq(Activations) /\ Len(after) = n /\ after[n] = c
      /\ \A i \in 1..(n - 1) : after[i] = calls[i]
  BY <1>1
<1> HIDE DEF n
<1>3. \A i \in 1..n : i \in 1..(n - 1) \/ i = n
  BY <1>1
<1>4. \A i \in 1..n : Of(after[i]) \cap U = {}
  BY <1>2, <1>3 DEF Owns, n
<1>5. ASSUME NEW i \in 1..n, NEW j \in 1..n, i # j
      PROVE  Of(after[i]) \cap Of(after[j]) = {}
  <2>1. \A k, l \in 1..n : k # l => Of(calls[k]) \cap Of(calls[l]) = {}
    BY DEF Owns, n
  <2>2. \A k \in 1..(n - 1) : Of(calls[k]) \cap Of(c) = {}
    BY DEF n
  <2>3. CASE i = n
    BY <1>2, <1>3, <1>5, <2>2, <2>3
  <2>4. CASE j = n
    BY <1>2, <1>3, <1>5, <2>2, <2>4
  <2>5. CASE i \in 1..(n - 1) /\ j \in 1..(n - 1)
    BY <1>2, <1>5, <2>1, <2>5
  <2> QED
    BY <1>3, <2>3, <2>4, <2>5
<1>6. ASSUME NEW x \in Handles
      PROVE  g[x] # None <=> x \in U \/ \E i \in 1..n : x \in Of(after[i])
  <2>1. h[x] # None <=> x \in U \/ \E i \in 1..n : x \in Of(calls[i])
    BY DEF Owns, n
  <2>2. x \in U => x \notin Of(calls[n])
    BY <1>1 DEF Owns, n
  <2>3. \A i \in 1..(n - 1) : x \in Of(calls[i]) => x \notin Of(calls[n])
    <3>1. n \in 1..n /\ \A i \in 1..(n - 1) : i \in 1..n /\ i # n
      BY <1>1
    <3> QED
      BY <3>1 DEF Owns, n
  <2>4. (\E i \in 1..n : x \in Of(after[i]))
          <=> x \in Of(c) \/ \E i \in 1..(n - 1) : x \in Of(calls[i])
    BY <1>1, <1>2, <1>3
  <2>5. (\E i \in 1..n : x \in Of(calls[i]))
          <=> x \in Of(calls[n]) \/ \E i \in 1..(n - 1) : x \in Of(calls[i])
    BY <1>1, <1>3
  <2> QED
    BY <1>1, <2>1, <2>2, <2>3, <2>4, <2>5
<1> QED
  BY <1>2, <1>4, <1>5, <1>6 DEF Owns

LEMMA Visited ==
  ASSUME NEW calls, NEW U, NEW h, Owns(calls, U, h), calls # <<>>
  PROVE  Owns([calls EXCEPT ![Len(calls)].visited = TRUE], U, h)
<1> DEFINE n == Len(calls)
           c == [Last(calls) EXCEPT !.visited = TRUE]
           after == [calls EXCEPT ![n] = c]
<1>1. /\ calls \in Seq(Activations) /\ n \in 1..Len(calls) /\ Last(calls) = calls[n]
      /\ Last(calls) \in Activations /\ \A i \in 1..(n - 1) : i \in 1..n /\ i # n
  BY LastIs DEF Owns
<1>2. c \in Activations /\ Of(c) = Of(calls[n])
  BY <1>1 DEF Activations, Of
<1>3. after = [calls EXCEPT ![Len(calls)].visited = TRUE]
  BY <1>1
<1>4. Of(c) \cap U = {} /\ \A i \in 1..(n - 1) : Of(calls[i]) \cap Of(c) = {}
  BY <1>1, <1>2 DEF Owns
<1>5. \A x \in Handles : h[x] # None <=> x \in Of(c) \/ (h[x] # None /\ x \notin Of(Last(calls)))
  <2>1. \A x \in Handles : x \in Of(calls[n]) => h[x] # None
    BY <1>1 DEF Owns
  <2> QED
    BY <1>1, <1>2, <2>1
<1> HIDE DEF c
<1>6. after = [calls EXCEPT ![Len(calls)] = c]
  OBVIOUS
<1> HIDE DEF after, n
<1>7. Owns(after, U, h)
  BY <1>2, <1>4, <1>5, <1>6, LastChanged, Zenon DEF n
<1> QED
  BY <1>3, <1>7

(* The DIE that a call gives back, if it is not the caller's.                *)
OwnOf(c) == IF c.die = c.first THEN {} ELSE {c.die}

(* A call goes on to a sibling and gives back its own DIE.                    *)
LEMMA Moved ==
  ASSUME NEW h \in [Handles -> AllDies \cup {None}], NEW calls, NEW U, Owns(calls, U, h),
         calls # <<>>,
         Room(h), NEW d, d # None
  PROVE  Owns([calls EXCEPT ![Len(calls)].die = New(h), ![Len(calls)].visited = FALSE], U,
              Dealloc(Get(h, d), OwnOf(Last(calls))))
<1> DEFINE n == Len(calls)
           last == Last(calls)
           new == New(h)
           c == [last EXCEPT !.die = new, !.visited = FALSE]
           after == [calls EXCEPT ![n] = c]
           g == Dealloc(Get(h, d), OwnOf(last))
<1>1. /\ calls \in Seq(Activations) /\ n \in 1..Len(calls) /\ last = calls[n]
      /\ last \in Activations /\ \A i \in 1..(n - 1) : i \in 1..n /\ i # n
  BY LastIs DEF Owns
<1>2. new \in Handles /\ h[new] = None
  BY NewIs
<1>3. c \in Activations /\ Of(c) = {last.first, new} /\ Of(last) = {last.first, last.die}
  BY <1>1, <1>2 DEF Activations, Of
<1>4. after = [calls EXCEPT ![Len(calls)].die = New(h), ![Len(calls)].visited = FALSE]
  BY <1>1
<1>5. last.first \in Handles /\ last.die \in Handles
  BY <1>1 DEF Activations
<1> HIDE DEF new, c, last
<1>6. h[last.first] # None /\ h[last.die] # None
  BY <1>1, <1>3, <1>5 DEF Owns
<1>7. new \notin U /\ \A i \in 1..n : new \notin Of(calls[i])
  BY <1>2 DEF Owns
<1>8. Of(c) \cap U = {} /\ \A i \in 1..(n - 1) : Of(calls[i]) \cap Of(c) = {}
  <2>1. Of(last) \cap U = {} /\ \A i \in 1..(n - 1) : Of(calls[i]) \cap Of(last) = {}
    BY <1>1 DEF Owns
  <2>2. \A i \in 1..(n - 1) : new \notin Of(calls[i])
    BY <1>1, <1>7
  <2> QED
    BY ZenonT(40), <1>3, <1>7, <2>1, <2>2
<1>9. ASSUME NEW x \in Handles
      PROVE  g[x] # None <=> x \in Of(c) \/ (h[x] # None /\ x \notin Of(last))
  <2>1. g[x] # None <=> x \notin OwnOf(last) /\ (x = new \/ h[x] # None)
    <3>1. g[x] = IF x \in OwnOf(last) THEN None ELSE Get(h, d)[x]
      BY DeallocIs
    <3>2. Get(h, d)[x] = IF x = new THEN d ELSE h[x]
      BY GetIs DEF new
    <3> QED
      BY <3>1, <3>2
  <2>2. x \in OwnOf(last) <=> x = last.die /\ last.die # last.first
    BY DEF OwnOf
  <2>3. x \in Of(c) <=> x = last.first \/ x = new
    BY <1>3
  <2>4. x \in Of(last) <=> x = last.first \/ x = last.die
    BY <1>3
  <2>5. last.first # new /\ last.die # new
    BY <1>2, <1>6
  <2> QED
    BY <1>6, <2>1, <2>2, <2>3, <2>4, <2>5, Zenon
<1>10. after = [calls EXCEPT ![Len(calls)] = c]
  OBVIOUS
<1> HIDE DEF after, n, g
<1>11. Owns(after, U, g)
  BY <1>3, <1>8, <1>9, <1>10, LastChanged, Zenon DEF n, last
<1> QED
  BY <1>4, <1>11 DEF g, last

LEMMA FrontIs ==
  ASSUME NEW S, NEW s \in Seq(S), Len(s) > 0
  PROVE  /\ Front(s) \in Seq(S) /\ Len(Front(s)) = Len(s) - 1
         /\ \A i \in 1..(Len(s) - 1) : Front(s)[i] = s[i]
<1> DEFINE n == Len(s) - 1
<1>1. n \in Nat /\ \A i \in 1..n : s[i] \in S /\ 1 + i - 1 = i
  OBVIOUS
<1>2. Front(s) = SubSeq(s, 1, n)
  BY DEF Front
<1> HIDE DEF n
<1>3. 1 \in Int /\ n \in Int /\ n - 1 + 1 = n
  BY <1>1
<1>4. /\ SubSeq(s, 1, n) \in Seq(S) /\ Len(SubSeq(s, 1, n)) = IF 1 <= n THEN n ELSE 0
      /\ \A i \in 1..n : SubSeq(s, 1, n)[i] = s[1 + i - 1]
  BY <1>1, <1>3, SubSeqProperties
<1>5. Len(SubSeq(s, 1, n)) = n
  BY <1>1, <1>4
<1> QED
  BY <1>1, <1>2, <1>4, <1>5 DEF n

(* A call returns; its own DIE and the one it was made with are given back.   *)
LEMMA Popped ==
  ASSUME NEW h, NEW calls, NEW U, Owns(calls, U, h), calls # <<>>
  PROVE  Owns(Front(calls), U, Dealloc(h, OwnOf(Last(calls)) \cup {Last(calls).first}))
<1> DEFINE n == Len(calls)
           after == Front(calls)
           gone == OwnOf(Last(calls)) \cup {Last(calls).first}
<1>1. calls \in Seq(Activations) /\ n \in Nat \ {0} /\ Last(calls) = calls[n]
  BY LastIs DEF Owns
<1>2. /\ after \in Seq(Activations) /\ Len(after) = n - 1
      /\ \A i \in 1..(n - 1) : after[i] = calls[i]
  BY <1>1, FrontIs
<1>3. gone = Of(calls[n])
  BY <1>1 DEF OwnOf, Of
<1> HIDE DEF n, after, gone
<1>4. \A i \in 1..n : i \in 1..(n - 1) \/ i = n
  BY <1>1
<1>5. \A i \in 1..(n - 1) : i \in 1..n /\ i # n
  BY <1>1
<1>6. \A i \in 1..(n - 1) : Of(after[i]) \cap U = {}
  BY <1>2, <1>5 DEF Owns, n
<1>7. \A i, j \in 1..(n - 1) : i # j => Of(after[i]) \cap Of(after[j]) = {}
  BY <1>2, <1>5 DEF Owns, n
<1>8. ASSUME NEW x \in Handles
      PROVE  Dealloc(h, gone)[x] # None <=> x \in U \/ \E i \in 1..(n - 1) : x \in Of(after[i])
  <2>1. Dealloc(h, gone)[x] # None <=> x \notin Of(calls[n]) /\ h[x] # None
    BY <1>3, DeallocIs
  <2>2. h[x] # None <=> x \in U \/ \E i \in 1..n : x \in Of(calls[i])
    BY DEF Owns, n
  <2>3. n \in 1..n
    BY <1>1
  <2>4. x \in U => x \notin Of(calls[n])
    BY <2>3 DEF Owns, n
  <2>5. \A i \in 1..(n - 1) : x \in Of(calls[i]) => x \notin Of(calls[n])
    BY <1>5, <2>3 DEF Owns, n
  <2>6. (\E i \in 1..n : x \in Of(calls[i]))
          <=> x \in Of(calls[n]) \/ \E i \in 1..(n - 1) : x \in Of(calls[i])
    BY <1>4, <1>5, <2>3
  <2> QED
    BY <1>2, <2>1, <2>2, <2>4, <2>5, <2>6
<1> QED
  BY <1>2, <1>6, <1>7, <1>8 DEF Owns, after, gone, n

(* All calls return, and each gives back what it has.                        *)
LEMMA Released ==
  ASSUME NEW h, NEW calls, NEW U, Owns(calls, U, h)
  PROVE  Owns(<<>>, U, Dealloc(h, UNION {{c.first, c.die} : c \in Range(calls)}))
<1> DEFINE gone == UNION {{c.first, c.die} : c \in Range(calls)}
<1>1. calls \in Seq(Activations) /\ DOMAIN calls = 1..Len(calls)
  BY DEF Owns
<1>2. \A x : x \in gone <=> \E i \in 1..Len(calls) : x \in Of(calls[i])
  BY <1>1 DEF Range, Of
<1> HIDE DEF gone
<1>3. \A x \in Handles : Dealloc(h, gone)[x] # None <=> x \notin gone /\ h[x] # None
  BY DeallocIs
<1>4. \A x \in Handles : Dealloc(h, gone)[x] # None <=> x \in U
  BY <1>2, <1>3 DEF Owns
<1>5. <<>> \in Seq(Activations) /\ Len(<<>>) = 0 /\ 1..0 = {}
  OBVIOUS
<1> QED
  BY <1>4, <1>5 DEF Owns, gone

LEMMA NoCalls ==
  ASSUME NEW h, NEW U
  PROVE  Owns(<<>>, U, h) <=> \A x \in Handles : h[x] # None <=> x \in U
<1>1. <<>> \in Seq(Activations) /\ Len(<<>>) = 0 /\ 1..0 = {}
  OBVIOUS
<1> QED
  BY <1>1 DEF Owns

(* The DIE of a unit.                                                      *)
LEMMA Opened ==
  ASSUME NEW h \in [Handles -> AllDies \cup {None}], NEW U, Owns(<<>>, U, h), Room(h),
         NEW d, d # None
  PROVE  Owns(<<>>, U \cup {New(h)}, Get(h, d))
<1>1. New(h) \in Handles /\ h[New(h)] = None
  BY NewIs
<1>2. \A x \in Handles : Get(h, d)[x] = IF x = New(h) THEN d ELSE h[x]
  BY GetIs
<1> QED
  BY <1>1, <1>2, NoCalls

LEMMA Closed ==
  ASSUME NEW h, NEW U, NEW V, Owns(<<>>, U, h)
  PROVE  Owns(<<>>, U \ V, Dealloc(h, V))
  BY NoCalls, DeallocIs
-------------------------------------------------------------------------------
(* Steps.                                                                  *)

LEMMA StartHolds == Init => IInv
<1> SUFFICES ASSUME Init
             PROVE  IInv
  OBVIOUS
<1> USE DEF Init, InfosInit
<1>1. phase \in {"infos", "frames"}
  BY DEF Start
<1>2. run \in Runs /\ m = 1 /\ run.members \in Seq(Objects) /\ run.members # <<>>
  BY RunsAssumption
<1>3. m \in 1..Len(run.members)
  BY <1>2
<1>4. Len(obj.cus) \in Nat /\ Len(obj.fdes) \in Nat
  <2>1. obj \in Objects
    BY <1>2, <1>3 DEF obj
  <2> QED
    BY <2>1 DEF Objects
<1>5. held \in [Handles -> AllDies \cup {None}] /\ \A h \in Handles : held[h] = None
  OBVIOUS
<1>6. die_stack \in [0..DIE_STACK_SIZE -> [die : Handles \cup {NULL}, printed : BOOLEAN]]
  BY DEF Empty
<1>7. Types
  <2>1. 0 \in 0..Len(obj.cus) /\ fde \in 1..(Len(obj.fdes) + 1) /\ frame_count \in 0..(fde - 1)
    BY <1>4
  <2>2. <<>> \in Seq(Activations)
    OBVIOUS
  <2> QED
    BY <1>1, <1>2, <1>3, <1>5, <1>6, <2>1, <2>2 DEF Types
<1>8. PhaseInv
  <2>1. Len(stack) <= DIE_STACK_SIZE /\ cu_count <= cu
    BY DepthAssumption
  <2> QED
    BY <1>1, <2>1 DEF PhaseInv
<1>9. Owns(Running, UnitDie, held)
  BY <1>1, <1>5, NoCalls DEF Running, UnitDie
<1>10. Mirrors(die_stack, stack)
  BY DEF Mirrors
<1> QED
  BY <1>7, <1>8, <1>9, <1>10 DEF IInv, HandleInv

(* Where a step leaves the data, the range and the search alone.              *)
LEMMA TypesStay ==
  ASSUME Types, UNCHANGED <<run, m>>,
         phase' \in {"infos", "walk", "frames", "search", "next unit", "exit", "done"},
         cu' \in 0..Len(obj.cus), cu_count' \in 0..Len(obj.cus),
         held' \in [Handles -> AllDies \cup {None}],
         stack' \in Seq(Activations), search' \in Seq(Activations),
         die_stack' \in [0..DIE_STACK_SIZE -> [die : Handles \cup {NULL}, printed : BOOLEAN]],
         range' = None \/ range' \in Ranges,
         fde' \in 1..(Len(obj.fdes) + 1), frame_count' \in 0..(fde' - 1),
         current' \in Handles \cup {NULL}
  PROVE  Types' /\ AllDies' = AllDies
  BY DEF Types, AllDies, obj

(* dwarfdump runs.                                                          *)
Now == Types /\ PhaseInv /\ HandleInv

LEMMA ActiveCall ==
  ASSUME NEW calls \in Seq(Activations), calls # <<>>, NEW U, Owns(calls, U, held), Types
  PROVE  /\ Last(calls) \in Activations /\ Len(calls) \in Nat \ {0}
         /\ held[Last(calls).die] \in AllDies
<1>1. Len(calls) \in 1..Len(calls) /\ Last(calls) = calls[Len(calls)]
  BY DEF Last
<1>2. Last(calls) \in Activations
  BY <1>1
<1>3. Last(calls).die \in Handles
  BY <1>2 DEF Activations
<1>4. held[Last(calls).die] # None
  BY <1>1, <1>3 DEF Owns, Of
<1>5. held \in [Handles -> AllDies \cup {None}]
  BY DEF Types
<1> QED
  BY <1>1, <1>2, <1>3, <1>4, <1>5

LEMMA NextUnitKeeps ==
  ASSUME Now, NextUnit /\ UNCHANGED fvars
  PROVE  Types' /\ PhaseInv' /\ HandleInv'
<1> USE DEF Now
<1>1. /\ phase = "infos" /\ stack = <<>> /\ search = <<>> /\ current = NULL /\ cu_count <= cu
      /\ cu' = NextCu.cu
      /\ UNCHANGED <<run, m, die_stack, range, printed, fde, frame_count, current, search, names>>
  BY DEF NextUnit, fvars, PhaseInv
<1>2. /\ cu' \in 0..Len(obj.cus) /\ cu \in Nat /\ cu_count \in Nat /\ Len(obj.cus) \in Nat
      /\ NextCu.res = "OK" => cu' = cu + 1 /\ cu' \in 1..Len(obj.cus)
  BY <1>1, NextCuIs, ObjectType DEF Types
<1>3. Owns(<<>>, {}, held)
  BY <1>1 DEF HandleInv, Running, UnitDie
<1>4. CASE stack' = <<>> /\ phase' \in {"infos", "frames"} /\ held' = held
           /\ cu_count' \in 0..Len(obj.cus) /\ (phase' = "infos" => cu_count' <= cu')
  <2>1. Types'
    BY <1>1, <1>2, <1>4, TypesStay DEF Types
  <2>2. PhaseInv'
    BY <1>1, <1>4, DepthAssumption DEF PhaseInv
  <2>3. HandleInv'
    BY <1>1, <1>3, <1>4 DEF HandleInv, Running, UnitDie, Mirrors
  <2> QED
    BY <2>1, <2>2, <2>3
<1>5. CASE /\ NextCu.res = "OK" /\ phase' = "walk" /\ cu_count' = cu_count
           /\ Room(held) /\ held' = Get(held, <<NextCu.cu, 1>>)
           /\ stack' = <<[first |-> New(held), die |-> New(held), visited |-> FALSE]>>
  <2> DEFINE call == [first |-> New(held), die |-> New(held), visited |-> FALSE]
  <2>1. <<NextCu.cu, 1>> \in AllDies /\ <<NextCu.cu, 1>> # None
    BY <1>1, <1>2, <1>5, DiesOf, DieIsNot
  <2>2. stack' = Append(<<>>, call)
    BY <1>5
  <2>3. Owns(stack', {}, held')
    <3>1. held \in [Handles -> AllDies \cup {None}]
      BY DEF Types
    <3> QED
      BY <1>3, <1>5, <2>1, <2>2, <3>1, Pushed
  <2>4. stack' \in Seq(Activations)
    BY <2>3 DEF Owns
  <2>5. held' \in [Handles -> AllDies \cup {None}]
    BY <1>5, <2>1, HeldTypes DEF Types
  <2>6. Types'
    BY <1>1, <1>2, <1>5, <2>4, <2>5, TypesStay DEF Types
  <2>7. Len(stack') = 1 /\ stack' # <<>>
    BY <1>5
  <2>8. PhaseInv'
    BY <1>1, <1>2, <1>5, <2>7, DepthAssumption DEF PhaseInv
  <2>9. HandleInv'
    <3>1. Mirrors(die_stack, stack')
      BY <1>1, DepthAssumption DEF HandleInv, Mirrors, Empty, NULL
    <3> QED
      BY <1>1, <1>5, <2>3, <3>1 DEF HandleInv, Running, UnitDie
  <2> QED
    BY <2>6, <2>8, <2>9
<1>6. cu_count \in 0..Len(obj.cus)
  BY DEF Types
<1>7. CASE NextCu.res # "OK" \/ cu_count >= opt.most
  BY <1>1, <1>4, <1>6, <1>7 DEF NextUnit
<1>8. CASE ~(NextCu.res # "OK" \/ cu_count >= opt.most)
  <2>1. cu' = cu + 1 /\ cu' <= Len(obj.cus)
    BY <1>1, <1>2, <1>8
  <2>2. CASE Skipped(NextCu.cu)
    BY <1>1, <1>2, <1>4, <1>6, <1>8, <2>1, <2>2 DEF NextUnit
  <2>3. CASE ~Skipped(NextCu.cu) /\ (opt.info \/ opt.unit \/ opt.search)
    BY <1>1, <1>5, <1>8, <2>3 DEF NextUnit
  <2>4. CASE ~Skipped(NextCu.cu) /\ ~(opt.info \/ opt.unit \/ opt.search)
    <3>1. cu_count' = cu_count + 1 /\ UNCHANGED <<phase, held, stack>>
      BY <1>8, <2>4 DEF NextUnit
    <3> QED
      BY <1>1, <1>2, <1>4, <2>1, <3>1
  <2> QED
    BY <2>2, <2>3, <2>4
<1> QED
  BY <1>7, <1>8

LEMMA NotedType ==
  ASSUME Types, NEW d \in AllDies
  PROVE  Noted(d) = None \/ Noted(d) \in Ranges
<1>1. Die(d).fde \in Int
  <2>1. obj.cus[d[1]].dies \in Seq(Dies) /\ d[2] \in 1..Len(obj.cus[d[1]].dies)
    BY DiesOf DEF AllDies
  <2>2. Die(d) \in Dies
    BY <2>1 DEF Die
  <2> QED
    BY <2>2 DEF Dies
<1>2. range = None \/ range \in Ranges
  BY DEF Types
<1>3. ASSUME NEW a \in Int, NEW b \in Int, a <= b
      PROVE  <<a, b>> \in Ranges
  BY <1>3 DEF Ranges
<1>4. \A r \in Ranges : r[1] \in Int /\ r[2] \in Int /\ r[1] <= r[2]
  BY DEF Ranges
<1> DEFINE f == Die(d).fde
<1>5. /\ <<f, f>> \in Ranges
      /\ range # None /\ f < range[1] => <<f, range[2]>> \in Ranges
      /\ range # None /\ f > range[2] => <<range[1], f>> \in Ranges
  BY <1>1, <1>2, <1>3, <1>4
<1> QED
  BY <1>2, <1>5 DEF Noted

(* The loop over die_stack, one level more.                                  *)
Level(f, k, st) == IF k = 0 THEN st ELSE print_one_die(f[k - 1], k - 1)

LEMMA LevelsExist ==
  ASSUME NEW st, NEW n \in Nat
  PROVE  \E f : f = [k \in 0..n |-> Level(f, k, st)]
<1> DEFINE Has(k) == \E f : f = [i \in 0..k |-> Level(f, i, st)]
           Missing == {k \in Nat : ~Has(k)}
<1>1. Has(0)
  <2> DEFINE f == [i \in 0..0 |-> st]
  <2>1. f = [i \in 0..0 |-> Level(f, i, st)]
    BY DEF Level
  <2> QED BY <2>1
<1>2. ASSUME NEW k \in Nat, Has(k) PROVE Has(k + 1)
  <2>1. PICK f : f = [i \in 0..k |-> Level(f, i, st)]
    BY <1>2
  <2> DEFINE g == [i \in 0..(k + 1) |-> IF i <= k THEN f[i] ELSE Level(f, k + 1, st)]
  <2>2. \A i \in 0..k : g[i] = f[i]
    OBVIOUS
  <2>3. ASSUME NEW i \in 0..(k + 1) PROVE g[i] = Level(g, i, st)
    <3>1. CASE i = 0
      BY <3>1, <2>1 DEF Level
    <3>2. CASE i # 0
      <4>1. i - 1 \in 0..k
        BY <3>2
      <4>2. g[i - 1] = f[i - 1]
        BY <4>1, <2>2
      <4>3. Level(g, i, st) = Level(f, i, st)
        BY <4>2, <3>2 DEF Level
      <4>4. CASE i <= k
        <5>1. i \in 0..k
          BY <4>4
        <5>2. g[i] = f[i] /\ f[i] = Level(f, i, st)
          BY <5>1, <2>1, <2>2
        <5> QED BY <4>3, <5>2
      <4>5. CASE ~(i <= k)
        <5>1. i = k + 1
          BY <4>5
        <5>2. g[i] = Level(f, i, st)
          BY <5>1
        <5> QED BY <4>3, <5>2
      <4> QED BY <4>4, <4>5
    <3> QED BY <3>1, <3>2
  <2>4. g = [i \in 0..(k + 1) |-> Level(g, i, st)]
    <3> HIDE DEF g
    <3>1. g = [i \in 0..(k + 1) |-> g[i]]
      BY DEF g
    <3> QED BY <3>1, <2>3
  <2> QED BY <2>4
<1>3. Missing = {}
  <2>1. SUFFICES ASSUME Missing # {} PROVE FALSE
    OBVIOUS
  <2>2. PICK k \in Missing : \A i \in Missing : k <= i
    BY <2>1, LeastNatural
  <2>3. k # 0
    BY <1>1
  <2>4. k - 1 \in Nat /\ k - 1 \notin Missing
    BY <2>2, <2>3
  <2>5. Has((k - 1) + 1)
    BY <2>4, <1>2
  <2>6. (k - 1) + 1 = k
    BY <2>4
  <2> QED BY <2>5, <2>6
<1> QED BY <1>3

LEMMA LevelsTurns ==
  ASSUME NEW st, Len(stack) \in Nat, NEW k \in 0..Len(stack)
  PROVE  LevelsPrinted(st)[k] = IF k = 0 THEN st
                                ELSE print_one_die(LevelsPrinted(st)[k - 1], k - 1)
<1> DEFINE after == LevelsPrinted(st)
<1>1. after = CHOOSE f : f = [i \in 0..Len(stack) |->
                                IF i = 0 THEN st ELSE print_one_die(f[i - 1], i - 1)]
  BY DEF LevelsPrinted
<1>2. \E f : f = [i \in 0..Len(stack) |->
                    IF i = 0 THEN st ELSE print_one_die(f[i - 1], i - 1)]
  <2> HIDE DEF after
  <2>1. \E f : f = [i \in 0..Len(stack) |-> Level(f, i, st)]
    BY LevelsExist
  <2> QED BY <2>1 DEF Level
<1> HIDE DEF after
<1>3. after = [i \in 0..Len(stack) |->
                 IF i = 0 THEN st ELSE print_one_die(after[i - 1], i - 1)]
  BY <1>1, <1>2
<1>4. after[k] = IF k = 0 THEN st ELSE print_one_die(after[k - 1], k - 1)
  BY <1>3
<1> QED BY <1>4 DEF after

StackEntries == [0..DIE_STACK_SIZE -> [die : Handles \cup {NULL}, printed : BOOLEAN]]

(* The levels below k are marked as printed, and that is all.                 *)
MarkedTo(s, now, k) ==
  /\ now \in StackEntries
  /\ \A lev \in 0..DIE_STACK_SIZE :
       /\ now[lev].die = s[lev].die
       /\ IF lev < k THEN now[lev].printed ELSE now[lev] = s[lev]

LEMMA OnePrinted ==
  ASSUME NEW st, st.stack \in StackEntries, NEW level \in 0..DIE_STACK_SIZE
  PROVE  LET now == print_one_die(st, level).stack
         IN /\ now \in StackEntries
            /\ \A lev \in 0..DIE_STACK_SIZE : now[lev].die = st.stack[lev].die
            /\ \A lev \in 0..DIE_STACK_SIZE \ {level} : now[lev] = st.stack[lev]
            /\ now[level].printed
<1> DEFINE now == print_one_die(st, level).stack
           entry == [st.stack[level] EXCEPT !.printed = TRUE]
<1>1. CASE st.stack[level].printed
  <2>1. now = st.stack
    BY <1>1 DEF print_one_die
  <2> QED BY <1>1, <2>1
<1>2. CASE ~st.stack[level].printed
  <2>1. now = [st.stack EXCEPT ![level].printed = TRUE]
    BY <1>2 DEF print_one_die
  <2>2. st.stack[level] \in [die : Handles \cup {NULL}, printed : BOOLEAN]
    BY DEF StackEntries
  <2>3. /\ entry \in [die : Handles \cup {NULL}, printed : BOOLEAN]
        /\ entry.die = st.stack[level].die /\ entry.printed
    BY <2>2
  <2>4. now = [st.stack EXCEPT ![level] = entry]
    BY <2>1
  <2> HIDE DEF entry, now
  <2>5. now \in StackEntries /\ now[level] = entry
        /\ \A lev \in 0..DIE_STACK_SIZE \ {level} : now[lev] = st.stack[lev]
    BY <2>3, <2>4 DEF StackEntries
  <2> QED BY <2>3, <2>5 DEF now
<1> QED BY <1>1, <1>2

LEMMA LevelsMarked ==
  ASSUME NEW st, st.stack \in StackEntries, Len(stack) \in Nat, Len(stack) <= DIE_STACK_SIZE,
         NEW k \in 0..Len(stack)
  PROVE  MarkedTo(st.stack, LevelsPrinted(st)[k].stack, k)
<1> DEFINE Right(i) == MarkedTo(st.stack, LevelsPrinted(st)[i].stack, i)
           Wrong == {i \in 0..Len(stack) : ~Right(i)}
<1>1. Right(0)
  <2>1. LevelsPrinted(st)[0] = st
    BY LevelsTurns
  <2> QED BY <2>1, DepthAssumption DEF MarkedTo
<1>2. ASSUME NEW i \in 1..Len(stack), Right(i - 1) PROVE Right(i)
  <2> DEFINE was == LevelsPrinted(st)[i - 1]
             now == LevelsPrinted(st)[i]
  <2>1. now = print_one_die(was, i - 1)
    BY LevelsTurns
  <2>2. i - 1 \in 0..DIE_STACK_SIZE
    BY DepthAssumption
  <2>3. /\ was.stack \in StackEntries
        /\ \A lev \in 0..DIE_STACK_SIZE :
             /\ was.stack[lev].die = st.stack[lev].die
             /\ lev < i - 1 => was.stack[lev].printed
             /\ ~(lev < i - 1) => was.stack[lev] = st.stack[lev]
    BY <1>2 DEF MarkedTo
  <2> HIDE DEF was, now
  <2>4. /\ now.stack \in StackEntries
        /\ \A lev \in 0..DIE_STACK_SIZE : now.stack[lev].die = was.stack[lev].die
        /\ \A lev \in 0..DIE_STACK_SIZE \ {i - 1} : now.stack[lev] = was.stack[lev]
        /\ now.stack[i - 1].printed
    BY <2>1, <2>2, <2>3, OnePrinted
  <2>5. ASSUME NEW lev \in 0..DIE_STACK_SIZE
        PROVE  /\ now.stack[lev].die = st.stack[lev].die
               /\ IF lev < i THEN now.stack[lev].printed ELSE now.stack[lev] = st.stack[lev]
    <3>1. CASE lev = i - 1
      BY <2>3, <2>4, <3>1
    <3>2. CASE lev < i - 1
      BY <2>3, <2>4, <3>2
    <3>3. CASE lev > i - 1
      BY <2>3, <2>4, <3>3
    <3> QED BY <3>1, <3>2, <3>3
  <2> QED BY <2>4, <2>5 DEF MarkedTo, now
<1>3. Wrong = {}
  <2> SUFFICES ASSUME Wrong # {} PROVE FALSE
    OBVIOUS
  <2>1. Wrong \in SUBSET Nat
    OBVIOUS
  <2> HIDE DEF Right
  <2>2. PICK i \in Wrong : \A j \in Wrong : i <= j
    BY <2>1, LeastNatural
  <2>3. i # 0
    BY <1>1
  <2>4. i \in 1..Len(stack) /\ i - 1 \in 0..Len(stack) /\ ~(i <= i - 1)
    BY <2>3
  <2>5. Right(i - 1)
    BY <2>2, <2>4
  <2> QED BY <1>2, <2>4, <2>5
<1> QED BY <1>3

LEMMA LevelsMirror ==
  ASSUME NEW s \in StackEntries, Mirrors(s, stack), NEW now, NEW k \in Nat, k <= Len(stack),
         Len(stack) \in Nat, MarkedTo(s, now, k)
  PROVE  Mirrors(now, stack)
<1>1. ASSUME NEW lev \in 0..DIE_STACK_SIZE
      PROVE  IF lev < Len(stack) THEN now[lev].die \in {NULL, stack[lev + 1].die}
             ELSE now[lev] = Empty
  BY DEF Mirrors, MarkedTo
<1> QED BY <1>1 DEF Mirrors

(* Printing leaves the DIEs of die_stack as they are.                        *)
LEMMA PrintedMirrors ==
  ASSUME Types, Mirrors(die_stack, stack), stack # <<>>, Len(stack) <= DIE_STACK_SIZE,
         NEW set, set.stack = SetEntry(die_stack, indent_level, Top.die)
  PROVE  \A done \in {set, print_one_die(set, indent_level), print_die_stack(set)} :
           done.stack \in StackEntries /\ Mirrors(done.stack, stack)
<1> DEFINE n == Len(stack)
           s == set.stack
<1>1. /\ stack \in Seq(Activations) /\ n \in Nat \ {0} /\ indent_level = n - 1
      /\ Top = stack[n] /\ Top \in Activations
  <2>1. stack \in Seq(Activations)
    BY DEF Types
  <2> QED
    BY <2>1, LastIs DEF indent_level, Top
<1>2. Top.die \in Handles
  BY <1>1 DEF Activations
<1>3. die_stack \in StackEntries
  BY DEF Types, StackEntries
<1>4. [die |-> Top.die, printed |-> FALSE] \in [die : Handles \cup {NULL}, printed : BOOLEAN]
  BY <1>2
<1>5. /\ s \in StackEntries
      /\ \A lev \in 0..DIE_STACK_SIZE :
           s[lev] = IF lev = n - 1 THEN [die |-> Top.die, printed |-> FALSE] ELSE die_stack[lev]
  BY <1>1, <1>3, <1>4 DEF SetEntry, StackEntries
<1>6. Mirrors(s, stack)
  BY <1>1, <1>5, DepthAssumption DEF Mirrors
<1>7. LET done == print_one_die(set, indent_level)
      IN done.stack \in StackEntries /\ Mirrors(done.stack, stack)
  <2> DEFINE now == print_one_die(set, indent_level).stack
  <2>1. n - 1 \in 0..DIE_STACK_SIZE
    BY <1>1, DepthAssumption
  <2>2. /\ now \in StackEntries
        /\ \A lev \in 0..DIE_STACK_SIZE : now[lev].die = s[lev].die
        /\ \A lev \in 0..DIE_STACK_SIZE \ {n - 1} : now[lev] = s[lev]
    BY <1>1, <1>5, <2>1, OnePrinted
  <2> HIDE DEF now
  <2>3. ASSUME NEW lev \in 0..DIE_STACK_SIZE
        PROVE  IF lev < n THEN now[lev].die \in {NULL, stack[lev + 1].die} ELSE now[lev] = Empty
    <3>1. ~(lev < n) => lev # n - 1
      BY <1>1
    <3> QED BY <1>6, <2>2, <3>1 DEF Mirrors
  <2> QED BY <2>2, <2>3 DEF Mirrors, now
<1>8. LET done == print_die_stack(set)
      IN done.stack \in StackEntries /\ Mirrors(done.stack, stack)
  <2>1. n \in 0..n /\ n <= n
    BY <1>1
  <2>2. MarkedTo(s, print_die_stack(set).stack, n)
    BY <1>1, <1>5, <2>1, LevelsMarked DEF print_die_stack
  <2>3. Mirrors(print_die_stack(set).stack, stack)
    BY <1>1, <1>5, <1>6, <2>1, <2>2, LevelsMirror
  <2> QED BY <2>2, <2>3 DEF MarkedTo
<1> QED
  BY <1>5, <1>6, <1>7, <1>8

LEMMA PrintDieKeeps ==
  ASSUME Now, PrintDie /\ UNCHANGED fvars
  PROVE  Types' /\ (phase' # "exit" => PhaseInv' /\ HandleInv')
<1> USE DEF Now
<1> DEFINE d == held[Top.die]
           n == Len(stack)
           visited == [stack EXCEPT ![n].visited = TRUE]
           set == [printed |-> printed, stack |-> SetEntry(die_stack, indent_level, Top.die)]
           done == IF opt.info THEN print_one_die(set, indent_level)
                   ELSE IF opt.search /\ Die(d).match THEN print_die_stack(set)
                   ELSE set
           E == [die : Handles \cup {NULL}, printed : BOOLEAN]
<1>1. /\ phase = "walk" /\ stack # <<>> /\ search = <<>> /\ current = NULL /\ n <= DIE_STACK_SIZE
      /\ UNCHANGED <<run, m, cu, cu_count, fde, frame_count, current, search, names>>
      /\ range' = Noted(d)
  BY DEF PrintDie, fvars, PhaseInv
<1>2. Owns(stack, {}, held) /\ Mirrors(die_stack, stack) /\ stack \in Seq(Activations)
  BY <1>1 DEF HandleInv, Running, UnitDie, Types
<1>3. Top \in Activations /\ n \in Nat \ {0} /\ d \in AllDies
  BY <1>1, <1>2, ActiveCall DEF Top
<1>4. indent_level = n - 1 /\ indent_level \in Nat
  BY <1>3 DEF indent_level
<1>5. Owns(visited, {}, held) /\ visited \in Seq(Activations) /\ Len(visited) = n
  <2>1. Owns(visited, {}, held)
    BY <1>1, <1>2, Visited
  <2>2. Len(visited) = n
    BY <1>2
  <2> QED
    BY <2>1, <2>2 DEF Owns
<1>6. done.stack \in [0..DIE_STACK_SIZE -> E] /\ Mirrors(done.stack, stack)
  <2>1. \A x \in {set, print_one_die(set, indent_level), print_die_stack(set)} :
           x.stack \in StackEntries /\ Mirrors(x.stack, stack)
    BY <1>1, <1>2, PrintedMirrors
  <2>2. done \in {set, print_one_die(set, indent_level), print_die_stack(set)}
    OBVIOUS
  <2> QED
    BY <2>1, <2>2 DEF StackEntries
<1>7. range' = None \/ range' \in Ranges
  BY <1>1, <1>3, NotedType
<1>8. \A s : Mirrors(s, stack) => Mirrors(s, visited)
  <2>1. \A i \in 1..n : visited[i].die = stack[i].die
    BY <1>2
  <2> QED
    BY <1>3, <1>5, <2>1 DEF Mirrors
<1> HIDE DEF visited, done, set
<1>9. CASE ChildOf(d) = None
  <2>1. die_stack' = done.stack /\ stack' = visited /\ UNCHANGED <<held, phase>>
    BY <1>9 DEF PrintDie, done, visited, set
  <2>2. Types'
    BY <1>1, <1>5, <1>6, <1>7, <2>1, TypesStay DEF Types
  <2>3. visited # <<>>
    BY <1>3, <1>5
  <2>4. PhaseInv'
    BY <1>1, <1>5, <2>1, <2>3 DEF PhaseInv
  <2>5. HandleInv'
    BY <1>1, <1>5, <1>6, <1>8, <2>1 DEF HandleInv, Running, UnitDie
  <2> QED
    BY <2>2, <2>4, <2>5
<1>10. CASE ChildOf(d) # None
  <2> DEFINE call == [first |-> New(held), die |-> New(held), visited |-> FALSE]
  <2>1. /\ Room(held) /\ held' = Get(held, ChildOf(d))
        /\ die_stack' = SetEntry(done.stack, n, NULL)
        /\ phase' = IF TooDeep(n) THEN "exit" ELSE phase
        /\ stack' = Append(visited, call)
    <3>1. indent_level + 1 = n
      BY <1>3, <1>4
    <3> QED
      BY <1>10, <3>1, Zenon DEF PrintDie, done, visited, set
  <2>2. ChildOf(d) \in AllDies
    BY <1>3, <1>10, AnswersAreDies
  <2>3. Owns(stack', {}, held')
    <3>1. held \in [Handles -> AllDies \cup {None}]
      BY DEF Types
    <3> QED
      BY <1>5, <1>10, <2>1, <3>1, Pushed
  <2>4. held' \in [Handles -> AllDies \cup {None}]
    BY <2>1, <2>2, HeldTypes DEF Types
  <2>5. stack' \in Seq(Activations)
    BY <2>3 DEF Owns
  <2> HIDE DEF call
  <2>6. Len(stack') = n + 1 /\ stack' # <<>> /\ \A i \in 1..n : stack'[i] = visited[i]
    BY <1>3, <1>5, <2>1
  <2>7. /\ die_stack' \in [0..DIE_STACK_SIZE -> E]
        /\ \A lev \in 0..DIE_STACK_SIZE :
             die_stack'[lev] = IF lev = n THEN Empty ELSE done.stack[lev]
    BY <1>6, <2>1 DEF SetEntry, Empty
  <2>8. Types'
    BY <1>1, <1>7, <2>1, <2>4, <2>5, <2>7, TypesStay DEF Types
  <2>9. phase' # "exit" => phase' = "walk" /\ n < DIE_STACK_SIZE
    BY <1>1, <1>3, <2>1, DepthAssumption DEF TooDeep
  <2>10. phase' # "exit" => PhaseInv'
    BY <1>1, <1>3, <2>6, <2>9, DepthAssumption DEF PhaseInv
  <2>11. Mirrors(die_stack', stack')
    <3>1. ASSUME NEW lev \in 0..DIE_STACK_SIZE
          PROVE  IF lev < n + 1 THEN die_stack'[lev].die \in {NULL, stack'[lev + 1].die}
                 ELSE die_stack'[lev] = Empty
      <4>1. CASE lev = n
        BY <1>3, <2>7, <4>1 DEF Empty
      <4>2. CASE lev < n
        <5>1. done.stack[lev].die \in {NULL, visited[lev + 1].die}
          BY <1>3, <1>5, <1>6, <1>8, <4>2 DEF Mirrors
        <5> QED
          BY <1>3, <2>6, <2>7, <4>2, <5>1
      <4>3. CASE lev > n
        <5>1. done.stack[lev] = Empty
          BY <1>3, <1>6, <4>3 DEF Mirrors
        <5> QED
          BY <1>3, <2>7, <4>3, <5>1
      <4> QED
        BY <1>3, <4>1, <4>2, <4>3
    <3> QED
      BY <2>6, <3>1 DEF Mirrors
  <2>12. phase' # "exit" => HandleInv'
    BY <1>1, <2>3, <2>9, <2>11 DEF HandleInv, Running, UnitDie
  <2> QED
    BY <2>8, <2>10, <2>12
<1> QED
  BY <1>9, <1>10

(* The entry of the last call is empty now, and the calls above it are as     *)
(* they were; it may have returned.                                         *)
LEMMA Emptied ==
  ASSUME Types, Mirrors(die_stack, stack), stack # <<>>, NEW calls \in Seq(Activations),
         Len(calls) = Len(stack) \/ Len(calls) = Len(stack) - 1,
         \A i \in 1..(Len(stack) - 1) : calls[i] = stack[i],
         NEW s, s = EmptyEntry(die_stack, indent_level)
  PROVE  /\ s \in [0..DIE_STACK_SIZE -> [die : Handles \cup {NULL}, printed : BOOLEAN]]
         /\ Mirrors(s, calls)
<1> DEFINE E == [die : Handles \cup {NULL}, printed : BOOLEAN]
           n == Len(stack)
<1>1. stack \in Seq(Activations) /\ die_stack \in [0..DIE_STACK_SIZE -> E]
  BY DEF Types
<1>2. n \in Nat \ {0} /\ indent_level = n - 1 /\ Len(calls) \in {n, n - 1}
  BY <1>1, LastIs DEF indent_level
<1>3. Empty \in E /\ Empty.die = NULL
  BY DEF Empty
<1>4. /\ s \in [0..DIE_STACK_SIZE -> E]
      /\ \A lev \in 0..DIE_STACK_SIZE : s[lev] = IF lev = n - 1 THEN Empty ELSE die_stack[lev]
  BY <1>1, <1>2, <1>3 DEF EmptyEntry
<1> HIDE DEF n
<1>5. ASSUME NEW lev \in 0..DIE_STACK_SIZE
      PROVE  IF lev < Len(calls) THEN s[lev].die \in {NULL, calls[lev + 1].die}
             ELSE s[lev] = Empty
  <2>1. IF lev < n THEN die_stack[lev].die \in {NULL, stack[lev + 1].die}
        ELSE die_stack[lev] = Empty
    BY DEF Mirrors, n
  <2>2. CASE lev = n - 1
    BY <1>3, <1>4, <2>2
  <2>3. CASE lev < n - 1
    <3>1. lev + 1 \in 1..(n - 1) /\ lev < Len(calls) /\ lev < n
      BY <1>2, <2>3
    <3>2. calls[lev + 1] = stack[lev + 1]
      BY <3>1 DEF n
    <3>3. s[lev] = die_stack[lev]
      BY <1>2, <1>4, <2>3
    <3> QED
      BY <2>1, <3>1, <3>2, <3>3
  <2>4. CASE lev >= n
    <3>1. ~(lev < Len(calls)) /\ ~(lev < n) /\ lev # n - 1
      BY <1>2, <2>4
    <3> QED
      BY <1>4, <2>1, <3>1
  <2>5. lev = n - 1 \/ lev < n - 1 \/ lev >= n
    BY <1>2
  <2> QED
    BY <2>2, <2>3, <2>4, <2>5
<1> QED
  BY <1>4, <1>5 DEF Mirrors

LEMMA NextSiblingKeeps ==
  ASSUME Now, NextSibling /\ UNCHANGED fvars
  PROVE  Types' /\ PhaseInv' /\ HandleInv'
<1> USE DEF Now
<1> DEFINE d == held[Top.die]
           n == Len(stack)
<1>1. /\ phase = "walk" /\ stack # <<>> /\ search = <<>> /\ current = NULL /\ n <= DIE_STACK_SIZE
      /\ cu_count < cu
      /\ UNCHANGED <<run, m, phase, cu, cu_count, range, fde, frame_count, current, search, names>>
      /\ SiblingOf(d) # None /\ Room(held)
      /\ held' = Dealloc(Get(held, SiblingOf(d)), OwnOf(Last(stack)))
      /\ die_stack' = EmptyEntry(die_stack, indent_level)
      /\ stack' = [stack EXCEPT ![n].die = New(held), ![n].visited = FALSE]
  BY DEF NextSibling, fvars, PhaseInv, Own, OwnOf, Top
<1>2. Owns(stack, {}, held) /\ Mirrors(die_stack, stack) /\ stack \in Seq(Activations)
  BY <1>1 DEF HandleInv, Running, UnitDie, Types
<1>3. Top \in Activations /\ n \in Nat \ {0} /\ d \in AllDies
  BY <1>1, <1>2, ActiveCall DEF Top
<1>4. held \in [Handles -> AllDies \cup {None}] /\ SiblingOf(d) \in AllDies
  <2>1. held \in [Handles -> AllDies \cup {None}]
    BY DEF Types
  <2> QED
    BY <1>1, <1>3, <2>1, AnswersAreDies
<1>5. Owns(stack', {}, held')
  <2>1. Owns([stack EXCEPT ![Len(stack)].die = New(held), ![Len(stack)].visited = FALSE], {},
             Dealloc(Get(held, SiblingOf(d)), OwnOf(Last(stack))))
    <3> HIDE DEF d
    <3> QED
      BY <1>1, <1>2, <1>4, Moved, Zenon
  <2> QED
    BY <1>1, <2>1, Zenon
<1>6. held' \in [Handles -> AllDies \cup {None}]
  BY <1>1, <1>4, HeldTypes
<1>7. /\ stack' \in Seq(Activations) /\ Len(stack') = n /\ stack' # <<>>
      /\ \A i \in 1..(n - 1) : stack'[i] = stack[i]
  <2>1. stack' \in Seq(Activations)
    BY <1>5 DEF Owns
  <2>2. Len(stack') = n /\ \A i \in 1..(n - 1) : stack'[i] = stack[i]
    BY <1>1, <1>2, <1>3
  <2> QED
    BY <1>3, <2>1, <2>2
<1>8. /\ die_stack' \in [0..DIE_STACK_SIZE -> [die : Handles \cup {NULL}, printed : BOOLEAN]]
      /\ Mirrors(die_stack', stack')
  BY <1>1, <1>2, <1>7, Emptied
<1>9. Types'
  BY <1>1, <1>6, <1>7, <1>8, TypesStay DEF Types
<1>10. PhaseInv'
  BY <1>1, <1>7 DEF PhaseInv
<1>11. HandleInv'
  BY <1>1, <1>5, <1>8 DEF HandleInv, Running, UnitDie
<1> QED
  BY <1>9, <1>10, <1>11

LEMMA NoSiblingKeeps ==
  ASSUME Now, NoSibling /\ UNCHANGED fvars
  PROVE  Types' /\ PhaseInv' /\ HandleInv'
<1> USE DEF Now
<1> DEFINE n == Len(stack)
<1>1. /\ phase = "walk" /\ stack # <<>> /\ search = <<>> /\ current = NULL /\ n <= DIE_STACK_SIZE
      /\ cu_count < cu
      /\ UNCHANGED <<run, m, cu, range, fde, frame_count, current, search, names>>
      /\ held' = Dealloc(held, OwnOf(Last(stack)) \cup {Last(stack).first})
      /\ die_stack' = EmptyEntry(die_stack, indent_level)
      /\ stack' = Front(stack)
      /\ IF indent_level > 0 THEN UNCHANGED <<phase, cu_count>>
         ELSE phase' = "infos" /\ cu_count' = cu_count + 1
  BY DEF NoSibling, fvars, PhaseInv, Own, OwnOf, Top
<1>2. Owns(stack, {}, held) /\ Mirrors(die_stack, stack) /\ stack \in Seq(Activations)
  BY <1>1 DEF HandleInv, Running, UnitDie, Types
<1>3. n \in Nat \ {0} /\ indent_level = n - 1
  BY <1>1, <1>2, LastIs DEF indent_level
<1>4. held \in [Handles -> AllDies \cup {None}]
  BY DEF Types
<1>5. Owns(stack', {}, held')
  BY <1>1, <1>2, Popped
<1>6. held' \in [Handles -> AllDies \cup {None}]
  BY <1>1, <1>4, HeldTypes
<1>7. /\ stack' \in Seq(Activations) /\ Len(stack') = n - 1
      /\ \A i \in 1..(n - 1) : stack'[i] = stack[i]
  BY <1>1, <1>2, <1>3, FrontIs
<1>8. /\ die_stack' \in [0..DIE_STACK_SIZE -> [die : Handles \cup {NULL}, printed : BOOLEAN]]
      /\ Mirrors(die_stack', stack')
  BY <1>1, <1>2, <1>7, Emptied
<1>9. cu_count \in 0..Len(obj.cus) /\ cu \in 0..Len(obj.cus) /\ Len(obj.cus) \in Nat
  <2>1. cu_count \in 0..Len(obj.cus) /\ cu \in 0..Len(obj.cus)
    BY DEF Types
  <2> QED
    BY <2>1, ObjectType
<1>10. /\ phase' \in {"infos", "walk"} /\ cu_count' \in 0..Len(obj.cus)
       /\ phase' = "walk" <=> stack' # <<>>
       /\ phase' = "walk" => cu_count' < cu
       /\ phase' = "infos" => cu_count' <= cu
  <2>1. CASE n = 1
    BY <1>1, <1>3, <1>7, <1>9, <2>1
  <2>2. CASE n > 1
    BY <1>1, <1>3, <1>7, <1>9, <2>2
  <2> QED
    BY <1>3, <2>1, <2>2
<1>11. Types'
  BY <1>1, <1>6, <1>7, <1>8, <1>10, TypesStay DEF Types
<1>12. PhaseInv'
  <2>1. Len(stack') <= DIE_STACK_SIZE
    BY <1>1, <1>3, <1>7, DepthAssumption
  <2> QED
    BY <1>1, <1>10, <2>1 DEF PhaseInv
<1>13. HandleInv'
  <2>1. phase' = "infos" => stack' = <<>>
    BY <1>10
  <2>2. Running' = stack' /\ UnitDie' = {}
    BY <1>1, <1>10, <2>1 DEF Running, UnitDie
  <2> QED
    BY <1>5, <1>8, <2>2 DEF HandleInv
<1> QED
  BY <1>11, <1>12, <1>13
-------------------------------------------------------------------------------
(* The steps of print_frames().                                             *)

LEMMA FramesCounted ==
  ASSUME Types
  PROVE  /\ fde \in Nat \ {0} /\ frame_count \in Nat /\ frame_count <= fde - 1
         /\ Len(obj.fdes) \in Nat /\ fde <= Len(obj.fdes) + 1
<1>1. fde \in 1..(Len(obj.fdes) + 1) /\ frame_count \in 0..(fde - 1)
  BY DEF Types
<1>2. Len(obj.fdes) \in Nat
  BY ObjectType
<1> QED
  BY <1>1, <1>2

(* No FDE is counted that is not passed, also where the rest of a section is   *)
(* left out.                                                               *)
LEMMA NextFdeType ==
  ASSUME Types, fde <= Len(obj.fdes), NextFde
  PROVE  fde' \in 1..(Len(obj.fdes) + 1) /\ frame_count' \in 0..(fde' - 1)
<1>1. /\ fde \in Nat \ {0} /\ frame_count \in Nat /\ frame_count <= fde - 1
      /\ Len(obj.fdes) \in Nat
  BY FramesCounted
<1>2. obj.eh \in Nat /\ obj.eh <= Len(obj.fdes)
  BY ObjectType
<1>3. fde' = fde + 1 \/ (fde <= obj.eh /\ fde' = obj.eh + 1) \/ fde' = Len(obj.fdes) + 1
  BY DEF NextFde
<1>4. fde' \in Nat /\ fde + 1 <= fde' /\ fde' <= Len(obj.fdes) + 1
  BY <1>1, <1>2, <1>3
<1>5. frame_count' = frame_count + 1
  BY DEF NextFde
<1>6. \A f \in Nat \ {0}, c, k, g \in Nat :
        c <= f - 1 /\ f + 1 <= g /\ g <= k + 1 => g \in 1..(k + 1) /\ c + 1 \in 0..(g - 1)
  OBVIOUS
<1> QED
  BY <1>1, <1>4, <1>5, <1>6, Zenon

(* A step after .debug_info was printed.                                    *)
LEMMA SearchKeeps ==
  ASSUME Now, phase \in {"frames", "search", "next unit"},
         UNCHANGED <<run, m, cu_count, stack, die_stack, range>>,
         phase' \in {"frames", "search", "next unit"}, cu' \in 0..Len(obj.cus),
         held' \in [Handles -> AllDies \cup {None}],
         fde' \in 1..(Len(obj.fdes) + 1), frame_count' \in 0..(fde' - 1),
         current' \in Handles \cup {NULL}, Owns(search', UnitDie', held'),
         phase' = "search" <=> search' # <<>>,
         phase' # "frames" => current' # NULL /\ fde' <= Len(obj.fdes)
  PROVE  Types' /\ PhaseInv' /\ HandleInv'
<1> USE DEF Now
<1>1. stack = <<>> /\ Len(stack) <= DIE_STACK_SIZE /\ Mirrors(die_stack, stack)
  BY DEF PhaseInv, HandleInv
<1>2. search' \in Seq(Activations)
  BY DEF Owns
<1>3. Types'
  BY <1>2, TypesStay DEF Types
<1>4. PhaseInv'
  BY <1>1 DEF PhaseInv, obj
<1>5. HandleInv'
  BY <1>1 DEF HandleInv, Running
<1> QED
  BY <1>3, <1>4, <1>5

LEMMA LeaveOutKeeps ==
  ASSUME Now, LeaveOut \/ Unnamed
  PROVE  Types' /\ PhaseInv' /\ HandleInv'
<1> USE DEF Now
<1>1. /\ phase = "frames" /\ fde <= Len(obj.fdes) /\ NextFde /\ search = <<>>
      /\ UNCHANGED <<run, m, phase, cu, cu_count, held, stack, die_stack, range, search, current>>
  BY DEF LeaveOut, Unnamed, Shown, ivars, PhaseInv
<1>2. fde' \in 1..(Len(obj.fdes) + 1) /\ frame_count' \in 0..(fde' - 1)
  BY <1>1, NextFdeType
<1>3. Owns(search, UnitDie, held)
  BY <1>1 DEF HandleInv, Running
<1>4. Owns(search', UnitDie', held')
  BY <1>1, <1>3 DEF UnitDie
<1>5. /\ cu \in 0..Len(obj.cus) /\ held \in [Handles -> AllDies \cup {None}]
      /\ current \in Handles \cup {NULL}
  BY DEF Types
<1> QED
  BY <1>1, <1>2, <1>4, <1>5, SearchKeeps

(* The DIE of the unit is in the handle u, and the children are gone through.  *)
LEMMA SearchInIs ==
  ASSUME NEW u \in Handles, NEW h \in [Handles -> AllDies \cup {None}],
         NEW d \in AllDies, Types, Owns(<<>>, {u}, h), SearchIn(d, h)
  PROVE  /\ held' \in [Handles -> AllDies \cup {None}]
         /\ Owns(search', {u}, held')
         /\ phase' \in {"search", "next unit"}
         /\ phase' = "search" <=> search' # <<>>
<1>1. CASE ChildOf(d) = None
  BY <1>1 DEF SearchIn
<1>2. CASE ChildOf(d) # None
  <2> DEFINE call == [first |-> New(h), die |-> New(h), visited |-> FALSE]
  <2>1. /\ phase' = "search" /\ Room(h) /\ held' = Get(h, ChildOf(d))
        /\ search' = <<call>>
    BY <1>2 DEF SearchIn
  <2>2. ChildOf(d) \in AllDies
    BY <1>2, AnswersAreDies
  <2>3. held' \in [Handles -> AllDies \cup {None}]
    BY <2>1, <2>2, HeldTypes
  <2>4. Owns(Append(<<>>, call), {u}, Get(h, ChildOf(d)))
    BY <1>2, <2>1, Pushed
  <2>5. search' = Append(<<>>, call) /\ search' # <<>>
    BY <2>1
  <2> QED
    BY <2>1, <2>3, <2>4, <2>5
<1> QED
  BY <1>1, <1>2

LEMMA StartSearchKeeps ==
  ASSUME Now, StartSearch
  PROVE  Types' /\ PhaseInv' /\ HandleInv'
<1> USE DEF Now
<1>1. /\ phase = "frames" /\ fde <= Len(obj.fdes) /\ search = <<>>
      /\ UNCHANGED <<run, m, cu_count, stack, die_stack, range, printed>>
  BY DEF StartSearch, PhaseInv
<1>2. Owns(<<>>, UnitDie, held)
  BY <1>1 DEF HandleInv, Running
<1>3. /\ cu \in 0..Len(obj.cus) /\ held \in [Handles -> AllDies \cup {None}]
      /\ current \in Handles \cup {NULL}
      /\ fde \in 1..(Len(obj.fdes) + 1) /\ frame_count \in 0..(fde - 1)
  BY DEF Types
<1>4. CASE current # NULL
  <2>1. SearchIn(held[current], held) /\ UNCHANGED <<cu, current, names, fde, frame_count>>
    BY <1>4 DEF StartSearch
  <2>2. UnitDie = {current} /\ current \in Handles
    BY <1>3, <1>4 DEF UnitDie
  <2>3. held[current] # None
    BY <1>2, <2>2, NoCalls
  <2>4. held[current] \in AllDies
    BY <1>3, <2>2, <2>3
  <2>5. /\ held' \in [Handles -> AllDies \cup {None}] /\ Owns(search', {current}, held')
        /\ phase' \in {"search", "next unit"} /\ (phase' = "search" <=> search' # <<>>)
    BY <1>2, <1>3, <2>1, <2>2, <2>4, SearchInIs
  <2>6. UnitDie' = {current}
    BY <1>4, <2>1 DEF UnitDie
  <2> QED
    BY <1>1, <1>3, <1>4, <2>1, <2>5, <2>6, SearchKeeps
<1>5. CASE current = NULL /\ NextCu.res # "OK"
  <2>1. cu' = NextCu.cu /\ NextFde /\ UNCHANGED <<phase, held, search, current>>
    BY <1>5 DEF StartSearch, Shown
  <2>2. fde' \in 1..(Len(obj.fdes) + 1) /\ frame_count' \in 0..(fde' - 1)
    BY <1>1, <2>1, NextFdeType
  <2>3. cu' \in 0..Len(obj.cus)
    BY <2>1, NextCuIs
  <2>4. Owns(search', UnitDie', held')
    BY <1>1, <1>2, <2>1 DEF UnitDie
  <2> QED
    BY <1>1, <1>3, <2>1, <2>2, <2>3, <2>4, SearchKeeps
<1>6. CASE current = NULL /\ NextCu.res = "OK"
  <2> DEFINE d == <<NextCu.cu, 1>>
  <2>1. /\ cu' = NextCu.cu /\ Room(held) /\ current' = New(held)
        /\ SearchIn(d, Get(held, d)) /\ UNCHANGED <<names, fde, frame_count>>
    BY <1>6 DEF StartSearch
  <2>2. cu' \in 1..Len(obj.cus) /\ cu' \in 0..Len(obj.cus)
    BY <1>6, <2>1, NextCuIs
  <2>3. d \in AllDies /\ d # None
    BY <2>1, <2>2, DiesOf, DieIsNot
  <2> HIDE DEF d
  <2>4. UnitDie = {}
    BY <1>6 DEF UnitDie
  <2>5. Owns(<<>>, {} \cup {New(held)}, Get(held, d)) /\ New(held) \in Handles
    <3>1. Owns(<<>>, {}, held)
      BY <1>2, <2>4
    <3>2. New(held) \in Handles
      BY <2>1, NewIs
    <3> QED
      BY <1>3, <2>1, <2>3, <3>1, <3>2, Opened
  <2>6. Get(held, d) \in [Handles -> AllDies \cup {None}]
    BY <1>3, <2>3, HeldTypes
  <2>7. /\ held' \in [Handles -> AllDies \cup {None}] /\ Owns(search', {New(held)}, held')
        /\ phase' \in {"search", "next unit"} /\ (phase' = "search" <=> search' # <<>>)
    BY <2>1, <2>3, <2>5, <2>6, SearchInIs
  <2>8. current' \in Handles /\ current' # NULL /\ UnitDie' = {New(held)}
    BY <2>1, <2>5, HandlesAssumption DEF UnitDie, NULL
  <2> QED
    BY <1>1, <1>3, <2>1, <2>2, <2>7, <2>8, SearchKeeps
<1> QED
  BY <1>4, <1>5, <1>6

LEMMA NextSearchUnitKeeps ==
  ASSUME Now, NextSearchUnit
  PROVE  Types' /\ PhaseInv' /\ HandleInv'
<1> USE DEF Now
<1>1. /\ phase = "next unit" /\ fde <= Len(obj.fdes) /\ search = <<>> /\ current # NULL
      /\ cu' = NextCu.cu
      /\ UNCHANGED <<run, m, cu_count, stack, die_stack, range, printed>>
  BY DEF NextSearchUnit, PhaseInv
<1>2. /\ cu \in 0..Len(obj.cus) /\ held \in [Handles -> AllDies \cup {None}]
      /\ current \in Handles
      /\ fde \in 1..(Len(obj.fdes) + 1) /\ frame_count \in 0..(fde - 1)
  BY <1>1 DEF Types
<1>3. Owns(<<>>, {current}, held) /\ UnitDie = {current}
  BY <1>1 DEF HandleInv, Running, UnitDie
<1>4. cu' \in 0..Len(obj.cus)
  BY <1>1, NextCuIs
<1>5. CASE NextCu.res # "OK"
  <2>1. phase' = "frames" /\ NextFde /\ UNCHANGED <<held, search, current>>
    BY <1>5 DEF NextSearchUnit, Shown
  <2>2. fde' \in 1..(Len(obj.fdes) + 1) /\ frame_count' \in 0..(fde' - 1)
    BY <1>1, <2>1, NextFdeType
  <2>3. Owns(search', UnitDie', held')
    BY <1>1, <1>3, <2>1 DEF UnitDie
  <2> QED
    BY <1>1, <1>2, <1>4, <2>1, <2>2, <2>3, SearchKeeps
<1>6. CASE NextCu.res = "OK"
  <2> DEFINE d == <<NextCu.cu, 1>>
             ldie == Get(held, d)
  <2>1. /\ Room(held) /\ current' = New(held)
        /\ SearchIn(d, Dealloc(ldie, {current})) /\ UNCHANGED <<names, fde, frame_count>>
    BY <1>6 DEF NextSearchUnit
  <2>2. d \in AllDies /\ d # None
    <3>1. NextCu.cu \in 1..Len(obj.cus)
      BY <1>6, NextCuIs
    <3> QED
      BY <3>1, DiesOf, DieIsNot
  <2> HIDE DEF d
  <2>3. /\ Owns(<<>>, {current} \cup {New(held)}, ldie)
        /\ New(held) \in Handles /\ New(held) \notin {current}
    <3> HIDE DEF ldie
    <3>1. ldie = Get(held, d)
      BY DEF ldie
    <3>2. New(held) \in Handles /\ held[New(held)] = None
      BY <2>1, NewIs
    <3>3. held[current] # None
      BY <1>2, <1>3, NoCalls
    <3>4. Owns(<<>>, {current} \cup {New(held)}, ldie)
      BY <1>2, <1>3, <2>1, <2>2, <3>1, Opened
    <3> QED
      BY <3>2, <3>3, <3>4
  <2>4. ldie \in [Handles -> AllDies \cup {None}]
    BY <1>2, <2>2, HeldTypes
  <2> HIDE DEF ldie
  <2>5. Owns(<<>>, {New(held)}, Dealloc(ldie, {current}))
    <3>1. Owns(<<>>, ({current} \cup {New(held)}) \ {current}, Dealloc(ldie, {current}))
      BY <2>3, Closed
    <3>2. ({current} \cup {New(held)}) \ {current} = {New(held)}
      BY <2>3
    <3> QED
      BY <3>1, <3>2
  <2>6. Dealloc(ldie, {current}) \in [Handles -> AllDies \cup {None}]
    BY <2>4, HeldTypes
  <2>7. /\ held' \in [Handles -> AllDies \cup {None}] /\ Owns(search', {New(held)}, held')
        /\ phase' \in {"search", "next unit"} /\ (phase' = "search" <=> search' # <<>>)
    BY <2>1, <2>2, <2>3, <2>5, <2>6, SearchInIs
  <2>8. current' \in Handles /\ current' # NULL /\ UnitDie' = {New(held)}
    BY <2>1, <2>3, HandlesAssumption DEF UnitDie, NULL
  <2> QED
    BY <1>1, <1>2, <1>4, <2>1, <2>7, <2>8, SearchKeeps
<1> QED
  BY <1>5, <1>6

(* What a step inside get_nested_proc_name() has.                            *)
LEMMA InTheSearch ==
  ASSUME Now, phase = "search"
  PROVE  /\ search # <<>> /\ search \in Seq(Activations) /\ fde <= Len(obj.fdes)
         /\ current \in Handles /\ current # NULL /\ UnitDie = {current}
         /\ Owns(search, {current}, held) /\ held[Call.die] \in AllDies
         /\ held \in [Handles -> AllDies \cup {None}]
         /\ cu \in 0..Len(obj.cus) /\ current \in Handles \cup {NULL}
         /\ fde \in 1..(Len(obj.fdes) + 1) /\ frame_count \in 0..(fde - 1)
<1> USE DEF Now
<1>1. search # <<>> /\ current # NULL /\ fde <= Len(obj.fdes)
  BY DEF PhaseInv
<1>2. /\ cu \in 0..Len(obj.cus) /\ held \in [Handles -> AllDies \cup {None}]
      /\ current \in Handles /\ search \in Seq(Activations)
      /\ fde \in 1..(Len(obj.fdes) + 1) /\ frame_count \in 0..(fde - 1)
  BY <1>1 DEF Types
<1>3. Owns(search, {current}, held) /\ UnitDie = {current}
  BY <1>1 DEF HandleInv, Running, UnitDie
<1>4. held[Call.die] \in AllDies
  BY <1>1, <1>2, <1>3, ActiveCall DEF Call
<1> QED
  BY <1>1, <1>2, <1>3, <1>4

LEMMA FoundNameKeeps ==
  ASSUME Now, FoundName
  PROVE  Types' /\ PhaseInv' /\ HandleInv'
<1>1. /\ phase = "search" /\ NextFde /\ search' = <<>> /\ phase' = "frames"
      /\ held' = Dealloc(held, InSearch)
      /\ UNCHANGED <<run, m, cu, cu_count, stack, die_stack, range, printed, current>>
  BY DEF FoundName, Searching, Shown
<1>2. fde' \in 1..(Len(obj.fdes) + 1) /\ frame_count' \in 0..(fde' - 1)
  BY <1>1, InTheSearch, NextFdeType DEF Now
<1>3. Owns(<<>>, {current}, held')
  BY <1>1, InTheSearch, Released DEF InSearch
<1>4. held' \in [Handles -> AllDies \cup {None}]
  BY <1>1, InTheSearch, HeldTypes
<1>5. UnitDie' = {current}
  BY <1>1, InTheSearch DEF UnitDie
<1> QED
  BY <1>1, <1>2, <1>3, <1>4, <1>5, InTheSearch, SearchKeeps

LEMMA LookInsideKeeps ==
  ASSUME Now, LookInside
  PROVE  Types' /\ PhaseInv' /\ HandleInv'
<1> DEFINE d == held[Call.die]
           visited == [search EXCEPT ![Len(search)].visited = TRUE]
           call == [first |-> New(held), die |-> New(held), visited |-> FALSE]
<1>1. /\ phase = "search" /\ phase' = phase
      /\ UNCHANGED <<run, m, cu, cu_count, stack, die_stack, range, printed, current, fde,
                     frame_count, names>>
  BY DEF LookInside, Searching
<1>2. Owns(visited, {current}, held)
  BY <1>1, InTheSearch, Visited
<1>3. visited # <<>> /\ visited \in Seq(Activations)
  <2>1. visited \in Seq(Activations)
    BY <1>2 DEF Owns
  <2>2. Len(visited) = Len(search) /\ Len(search) # 0
    BY <1>1, InTheSearch
  <2> QED
    BY <2>1, <2>2
<1> HIDE DEF visited
<1>4. \/ search' = visited /\ held' = held
      \/ ChildOf(d) # None /\ Room(held) /\ held' = Get(held, ChildOf(d))
         /\ search' = Append(visited, call)
  BY DEF LookInside, visited
<1>5. /\ Owns(search', {current}, held') /\ search' # <<>>
      /\ held' \in [Handles -> AllDies \cup {None}]
  <2>1. CASE search' = visited /\ held' = held
    BY <1>1, <1>2, <1>3, <2>1, InTheSearch
  <2>2. CASE /\ ChildOf(d) # None /\ Room(held) /\ held' = Get(held, ChildOf(d))
             /\ search' = Append(visited, call)
    <3>1. ChildOf(d) \in AllDies /\ held \in [Handles -> AllDies \cup {None}]
      BY <1>1, <2>2, InTheSearch, AnswersAreDies DEF Now
    <3>2. Owns(search', {current}, held')
      BY <1>2, <2>2, <3>1, Pushed
    <3>3. search' # <<>>
      BY <1>3, <2>2
    <3> QED
      BY <2>2, <3>1, <3>2, <3>3, HeldTypes
  <2> QED
    BY <1>4, <2>1, <2>2
<1>6. UnitDie' = {current}
  BY <1>1, InTheSearch DEF UnitDie
<1> QED
  BY <1>1, <1>5, <1>6, InTheSearch, SearchKeeps

LEMMA SearchSiblingKeeps ==
  ASSUME Now, SearchSibling
  PROVE  Types' /\ PhaseInv' /\ HandleInv'
<1> DEFINE d == held[Call.die]
<1>1. /\ phase = "search" /\ phase' = phase /\ SiblingOf(d) # None /\ Room(held)
      /\ held' = Dealloc(Get(held, SiblingOf(d)), OwnOf(Last(search)))
      /\ search' = [search EXCEPT ![Len(search)].die = New(held),
                                  ![Len(search)].visited = FALSE]
      /\ UNCHANGED <<run, m, cu, cu_count, stack, die_stack, range, printed, current, fde,
                     frame_count, names>>
  BY DEF SearchSibling, Searching, Gotten, OwnOf, Call
<1>2. SiblingOf(d) \in AllDies /\ held \in [Handles -> AllDies \cup {None}]
  BY <1>1, InTheSearch, AnswersAreDies DEF Now
<1> HIDE DEF d
<1>3. Owns(search', {current}, held')
  <2>1. Owns(search, {current}, held) /\ search # <<>>
    BY <1>1, InTheSearch
  <2>2. Owns([search EXCEPT ![Len(search)].die = New(held), ![Len(search)].visited = FALSE],
             {current}, Dealloc(Get(held, SiblingOf(d)), OwnOf(Last(search))))
    BY <1>1, <1>2, <2>1, Moved, Zenon
  <2> QED
    BY <1>1, <2>2, Zenon
<1>4. held' \in [Handles -> AllDies \cup {None}]
  BY <1>1, <1>2, HeldTypes
<1>5. search' # <<>>
  <2>1. Len(search') = Len(search) /\ Len(search) # 0
    BY <1>1, InTheSearch
  <2> QED
    BY <2>1
<1>6. UnitDie' = {current}
  BY <1>1, InTheSearch DEF UnitDie
<1> QED
  BY <1>1, <1>3, <1>4, <1>5, <1>6, InTheSearch, SearchKeeps

LEMMA NotHereKeeps ==
  ASSUME Now, NotHere
  PROVE  Types' /\ PhaseInv' /\ HandleInv'
<1> DEFINE n == Len(search)
<1>1. /\ phase = "search"
      /\ phase' = IF n = 1 THEN "next unit" ELSE phase
      /\ held' = Dealloc(held, OwnOf(Last(search)) \cup {Last(search).first})
      /\ search' = Front(search)
      /\ UNCHANGED <<run, m, cu, cu_count, stack, die_stack, range, printed, current, fde,
                     frame_count, names>>
  BY DEF NotHere, Searching, Gotten, OwnOf, Call
<1> HIDE DEF n
<1>2. Owns(search', {current}, held')
  BY <1>1, InTheSearch, Popped
<1>3. held' \in [Handles -> AllDies \cup {None}]
  BY <1>1, InTheSearch, HeldTypes
<1>4. Len(search') = n - 1 /\ n \in Nat \ {0} /\ search' \in Seq(Activations)
  <2>1. search \in Seq(Activations) /\ n \in Nat \ {0}
    BY <1>1, InTheSearch, LastIs DEF n
  <2>2. search' = Front(search)
    BY <1>1
  <2>3. Front(search) \in Seq(Activations) /\ Len(Front(search)) = n - 1
    BY <2>1, FrontIs DEF n
  <2> QED
    BY <2>1, <2>2, <2>3
<1>5. phase' \in {"search", "next unit"} /\ (phase' = "search" <=> search' # <<>>)
  <2>1. CASE n = 1
    <3>1. phase' = "next unit"
      BY <1>1, <2>1
    <3>2. Len(search') = 0
      BY <1>4, <2>1
    <3>3. search' = <<>>
      BY <1>4, <3>2
    <3> QED
      BY <3>1, <3>3
  <2>2. CASE n # 1
    <3>1. phase' = "search" /\ Len(search') # 0
      BY <1>1, <1>4, <2>2
    <3> QED
      BY <1>4, <3>1
  <2> QED
    BY <2>1, <2>2
<1>6. UnitDie' = {current}
  BY <1>1, InTheSearch DEF UnitDie
<1> QED
  BY <1>1, <1>2, <1>3, <1>5, <1>6, InTheSearch, SearchKeeps

(* The next member has other DIEs, and no handle is in use.                   *)
LEMMA NextMemberKeeps ==
  ASSUME Now, NextMember
  PROVE  Types' /\ PhaseInv' /\ HandleInv'
<1> USE DEF Now
<1>1. /\ phase = "frames" /\ stack = <<>> /\ search = <<>>
      /\ held' = Dealloc(held, {current}) /\ current' = NULL
      /\ UNCHANGED <<run, stack, die_stack, range, search>>
  BY DEF NextMember, PhaseInv
<1>2. held \in [Handles -> AllDies \cup {None}] /\ Mirrors(die_stack, stack)
  BY DEF Types, HandleInv
<1>3. Owns(<<>>, UnitDie, held)
  BY <1>1 DEF HandleInv, Running
<1>4. Owns(<<>>, {}, held')
  <2>1. Owns(<<>>, UnitDie \ {current}, held')
    BY <1>1, <1>3, Closed
  <2>2. UnitDie \ {current} = {}
    BY DEF UnitDie
  <2> QED
    BY <2>1, <2>2
<1>5. held' \in [Handles -> AllDies \cup {None}]
  BY <1>1, <1>2, HeldTypes
<1>6. UnitDie' = {}
  BY <1>1 DEF UnitDie
<1>7. CASE phase' = "done" /\ UNCHANGED <<m, cu, cu_count, printed, fde, frame_count, names>>
  <2>1. Types'
    BY <1>1, <1>5, <1>7, TypesStay DEF Types
  <2>2. PhaseInv'
    BY <1>1, <1>7, DepthAssumption DEF PhaseInv
  <2>3. HandleInv'
    BY <1>1, <1>2, <1>4, <1>6, <1>7 DEF HandleInv, Running
  <2> QED
    BY <2>1, <2>2, <2>3
<1>8. CASE /\ m # Len(run.members) /\ m' = m + 1 /\ phase' = Start /\ cu' = 0 /\ cu_count' = 0
           /\ fde' = 1 /\ frame_count' = 0
  <2>1. phase' \in {"infos", "frames"}
    BY <1>8 DEF Start
  <2>2. run' \in Runs /\ run' = run /\ m' \in 1..Len(run.members)
    <3>1. run \in Runs /\ m \in 1..Len(run.members)
      BY DEF Types
    <3>2. Len(run.members) \in Nat
      BY ObjectType
    <3> QED
      BY <1>1, <1>8, <3>1, <3>2
  <2>3. Len(obj'.cus) \in Nat /\ Len(obj'.fdes) \in Nat
    <3>1. run'.members \in Seq(Objects) /\ obj' = run'.members[m'] /\ m' \in 1..Len(run'.members)
      BY <2>2, RunsAssumption DEF obj
    <3>2. obj' \in Objects
      BY <3>1
    <3> QED
      BY <3>2 DEF Objects
  <2>4. held' \in [Handles -> AllDies' \cup {None}]
    <3>1. \A x \in Handles : held'[x] = None
      BY <1>4, NoCalls
    <3>2. held' = [x \in Handles |-> held'[x]]
      BY <1>5
    <3> QED
      BY <3>1, <3>2
  <2>5. /\ 0 \in 0..Len(obj'.cus) /\ fde' \in 1..(Len(obj'.fdes) + 1)
        /\ frame_count' \in 0..(fde' - 1)
    BY <1>8, <2>3
  <2>6. Types'
    BY <1>1, <1>8, <2>1, <2>2, <2>4, <2>5 DEF Types
  <2>7. PhaseInv'
    <3>1. Len(stack') <= DIE_STACK_SIZE /\ cu_count' <= cu'
      BY <1>1, <1>8, DepthAssumption
    <3> QED
      BY <1>1, <2>1, <3>1 DEF PhaseInv
  <2>8. HandleInv'
    BY <1>1, <1>2, <1>4, <1>6, <2>1 DEF HandleInv, Running
  <2> QED
    BY <2>6, <2>7, <2>8
<1> QED
  BY <1>7, <1>8 DEF NextMember
-------------------------------------------------------------------------------
(* Theorems.                                                               *)

(* dwarfdump starts with no handle in use.                                   *)
THEOREM InitIInv == Init => IInv
  BY StartHolds

(* Every step of dwarfdump, the one that finds no memory too, leaves the       *)
(* handles with their owners.                                              *)
THEOREM DumpKeepsIInv == IInv /\ [Next]_vars => IInv'
<1> SUFFICES ASSUME IInv, [Next]_vars
             PROVE  IInv'
  OBVIOUS
<1>1. phase # "exit" => Now
  BY DEF IInv, Now
<1>2. CASE (NextUnit \/ NextSibling \/ NoSibling) /\ UNCHANGED fvars
  <2>1. Now
    BY <1>1, <1>2 DEF NextUnit, NextSibling, NoSibling
  <2> QED
    BY <1>2, <2>1, NextUnitKeeps, NextSiblingKeeps, NoSiblingKeeps DEF IInv
<1>3. CASE PrintDie /\ UNCHANGED fvars
  <2>1. Now
    BY <1>1, <1>3 DEF PrintDie
  <2> QED
    BY <1>3, <2>1, PrintDieKeeps DEF IInv
<1>4. CASE LeaveOut \/ Unnamed \/ StartSearch \/ NextSearchUnit
  <2>1. Now
    BY <1>1, <1>4 DEF LeaveOut, Unnamed, StartSearch, NextSearchUnit
  <2> QED
    BY <1>4, <2>1, LeaveOutKeeps, StartSearchKeeps, NextSearchUnitKeeps DEF IInv
<1>5. CASE FoundName \/ LookInside \/ SearchSibling \/ NotHere
  <2>1. Now
    BY <1>1, <1>5 DEF FoundName, LookInside, SearchSibling, NotHere, Searching
  <2> QED
    BY <1>5, <2>1, FoundNameKeeps, LookInsideKeeps, SearchSiblingKeeps, NotHereKeeps DEF IInv
<1>6. CASE NextMember
  <2>1. Now
    BY <1>1, <1>6 DEF NextMember
  <2> QED
    BY <1>6, <2>1, NextMemberKeeps DEF IInv
<1>7. CASE NoMemory
  <2>1. /\ phase' = "exit"
        /\ UNCHANGED <<run, m, cu, cu_count, held, stack, die_stack, range, fde, frame_count,
                       current, search>>
    BY <1>7 DEF NoMemory, fvars
  <2>2. Types
    BY DEF IInv
  <2>3. Types'
    BY <2>1, <2>2, TypesStay DEF Types
  <2> QED
    BY <2>1, <2>3 DEF IInv
<1>8. CASE UNCHANGED vars
  <2>1. UNCHANGED <<run, m, phase, cu, cu_count, held, stack, die_stack, range, fde,
                    frame_count, current, search>>
    BY <1>8 DEF vars, ivars, fvars
  <2>2. Types'
    BY <2>1, TypesStay DEF IInv, Types
  <2>3. phase' # "exit" => PhaseInv' /\ HandleInv'
    BY <2>1 DEF IInv, PhaseInv, HandleInv, Running, UnitDie, obj
  <2> QED
    BY <2>2, <2>3 DEF IInv
<1> QED
  BY <1>2, <1>3, <1>4, <1>5, <1>6, <1>7, <1>8 DEF Next

(* So it is in every state that dwarfdump gets to.                            *)
THEOREM SpecKeepsIInv == Spec => []IInv
<1>1. Init => IInv
  BY InitIInv
<1>2. IInv /\ [Next]_vars => IInv'
  BY DumpKeepsIInv
<1> QED
  BY <1>1, <1>2, PTL DEF Spec

LEMMA IInvTyped == IInv => TypeOK
<1> SUFFICES ASSUME IInv
             PROVE  TypeOK
  OBVIOUS
<1>1. Types
  BY DEF IInv
<1>2. /\ run.members \in Seq(Objects) /\ m \in DOMAIN run.members
      /\ phase \in {"infos", "walk", "frames", "search", "next unit", "exit", "done"}
      /\ cu \in 0..Len(obj.cus) /\ cu_count \in 0..Len(obj.cus)
      /\ current \in Handles \cup {NULL} /\ fde \in 1..(Len(obj.fdes) + 1)
  <2>1. run.members \in Seq(Objects)
    BY <1>1, ObjectType
  <2>2. m \in 1..Len(run.members)
    BY <1>1 DEF Types
  <2>3. m \in DOMAIN run.members
    BY <2>1, <2>2
  <2> QED
    BY <1>1, <2>1, <2>3 DEF Types
<1>3. \A h \in Held : held[h][2] \in DOMAIN obj.cus[held[h][1]].dies
  <2>1. held \in [Handles -> AllDies \cup {None}]
    BY <1>1 DEF Types
  <2>2. ASSUME NEW d \in AllDies
        PROVE  d[2] \in DOMAIN obj.cus[d[1]].dies
    BY <1>1, DiesOf DEF AllDies
  <2> QED
    BY <2>1, <2>2 DEF Held
<1>4. phase # "exit" => Len(stack) <= DIE_STACK_SIZE
  BY DEF IInv, PhaseInv
<1>5. \A lev \in DOMAIN die_stack : die_stack[lev].die \in Handles \cup {NULL}
  <2>1. die_stack \in [0..DIE_STACK_SIZE -> [die : Handles \cup {NULL}, printed : BOOLEAN]]
    BY <1>1 DEF Types
  <2> QED
    BY <2>1
<1>6. range = None \/ range[1] <= range[2]
  <2>1. range = None \/ range \in Ranges
    BY <1>1 DEF Types
  <2> QED
    BY <2>1 DEF Ranges
<1>7. frame_count \in 0..Len(obj.fdes)
  BY <1>1, FramesCounted
<1> QED
  BY <1>2, <1>3, <1>4, <1>5, <1>6, <1>7 DEF TypeOK

(* No call of print_die_and_children() is at a level that die_stack does not   *)
(* have; a handle stands for a DIE of the member that is printed; what is      *)
(* counted is there.                                                        *)
THEOREM DumpTyped == Spec => []TypeOK
<1>1. IInv => TypeOK
  BY IInvTyped
<1> QED
  BY <1>1, SpecKeepsIInv, PTL

(* Who has the handles of calls, by the names that HandlesRight uses.          *)
Owners(tag, calls) ==
  {<<tag, i, calls[i].first>> : i \in DOMAIN calls}
    \cup {<<tag, i, calls[i].die>> : i \in DOMAIN calls}

UnitOwner(U) == {<<"current", 0, x>> : x \in U}

LEMMA OwnersAre ==
  ASSUME NEW tag, NEW calls, NEW U, NEW h, Owns(calls, U, h)
  PROVE  /\ \A o \in Owners(tag, calls) :
              \E i \in 1..Len(calls) : \E x \in Of(calls[i]) : o = <<tag, i, x>>
         /\ \A i \in 1..Len(calls) : \A x \in Of(calls[i]) : <<tag, i, x>> \in Owners(tag, calls)
         /\ \A i \in 1..Len(calls) : Of(calls[i]) \subseteq Handles
<1>1. calls \in Seq(Activations) /\ DOMAIN calls = 1..Len(calls)
  BY DEF Owns
<1>2. ASSUME NEW i \in 1..Len(calls)
      PROVE  Of(calls[i]) \subseteq Handles
  <2>1. calls[i] \in Activations
    BY <1>1
  <2> QED
    BY <2>1 DEF Activations, Of
<1>3. \A o \in Owners(tag, calls) :
        \E i \in 1..Len(calls) : \E x \in Of(calls[i]) : o = <<tag, i, x>>
  BY <1>1 DEF Owners, Of
<1>4. \A i \in 1..Len(calls) : \A x \in Of(calls[i]) : <<tag, i, x>> \in Owners(tag, calls)
  BY <1>1 DEF Owners, Of
<1> QED
  BY <1>2, <1>3, <1>4

(* None but one of the owners has a handle, and they have those in use.        *)
LEMMA OwnersApart ==
  ASSUME NEW tag, NEW calls, NEW U \in SUBSET Handles, NEW h, Owns(calls, U, h)
  PROVE  /\ {o[3] : o \in Owners(tag, calls) \cup UnitOwner(U)} = {x \in Handles : h[x] # None}
         /\ \A o, p \in Owners(tag, calls) \cup UnitOwner(U) : o[3] = p[3] => o = p
<1> DEFINE W == Owners(tag, calls)
           V == UnitOwner(U)
<1>1. /\ \A o \in W : \E i \in 1..Len(calls) : \E x \in Of(calls[i]) : o = <<tag, i, x>>
      /\ \A i \in 1..Len(calls) : \A x \in Of(calls[i]) : <<tag, i, x>> \in W
      /\ \A i \in 1..Len(calls) : Of(calls[i]) \subseteq Handles
  BY OwnersAre
<1>2. \A x \in Handles :
        h[x] # None <=> x \in U \/ \E i \in 1..Len(calls) : x \in Of(calls[i])
  BY DEF Owns
<1> HIDE DEF W
<1>3. \A o \in W : \E i \in 1..Len(calls) : o[3] \in Of(calls[i]) /\ o = <<tag, i, o[3]>>
  BY <1>1
<1>4. \A o \in V : o[3] \in U /\ o = <<"current", 0, o[3]>>
  BY DEF UnitOwner
<1>5. ASSUME NEW x \in U
      PROVE  \E o \in V : o[3] = x
  <2>1. <<"current", 0, x>> \in V /\ <<"current", 0, x>>[3] = x
    BY DEF UnitOwner
  <2> QED
    BY <2>1
<1> HIDE DEF V
<1>6. \A i \in 1..Len(calls) : \A x \in Of(calls[i]) : \E o \in W : o[3] = x
  BY <1>1
<1>7. {o[3] : o \in W \cup V} = {x \in Handles : h[x] # None}
  <2>1. ASSUME NEW x
        PROVE  (\E o \in W \cup V : o[3] = x) <=> x \in Handles /\ h[x] # None
    <3>1. (\E o \in W : o[3] = x) <=> \E i \in 1..Len(calls) : x \in Of(calls[i])
      BY <1>3, <1>6
    <3>2. (\E o \in V : o[3] = x) <=> x \in U
      BY <1>4, <1>5
    <3>3. x \in Handles \/ (x \notin U /\ \A i \in 1..Len(calls) : x \notin Of(calls[i]))
      BY <1>1
    <3> QED
      BY <1>2, <3>1, <3>2, <3>3
  <2> QED
    BY <2>1
<1>8. ASSUME NEW o \in W \cup V, NEW p \in W \cup V, o[3] = p[3]
      PROVE  o = p
  <2>1. CASE o \in V /\ p \in V
    BY <1>4, <1>8, <2>1
  <2>2. CASE o \in W /\ p \in W
    <3>1. PICK i \in 1..Len(calls) : o[3] \in Of(calls[i]) /\ o = <<tag, i, o[3]>>
      BY <1>3, <2>2
    <3>2. PICK j \in 1..Len(calls) : p[3] \in Of(calls[j]) /\ p = <<tag, j, p[3]>>
      BY <1>3, <2>2
    <3>3. i = j
      BY <1>8, <3>1, <3>2 DEF Owns
    <3> QED
      BY <1>8, <3>1, <3>2, <3>3
  <2>3. \A a \in W, b \in V : a[3] # b[3]
    BY <1>3, <1>4 DEF Owns
  <2> QED
    BY <1>8, <2>1, <2>2, <2>3
<1> QED
  BY <1>7, <1>8 DEF W, V

LEMMA IInvHandles == IInv => HandlesRight
<1> SUFFICES ASSUME IInv, phase # "exit"
             PROVE  HandlesRight
  BY DEF HandlesRight
<1>1. Types /\ PhaseInv /\ HandleInv
  BY DEF IInv
<1> DEFINE walk == Owners("walk", stack)
           nest == Owners("search", search)
           unit == IF current = NULL THEN {} ELSE {<<"current", 0, current>>}
           owned == walk \cup nest \cup unit
<1>2. UnitDie \in SUBSET Handles /\ unit = UnitOwner(UnitDie)
  BY <1>1 DEF Types, UnitDie, UnitOwner
<1>3. /\ {o[3] : o \in owned} = {x \in Handles : held[x] # None}
      /\ \A o, p \in owned : o[3] = p[3] => o = p
  <2>1. Owns(Running, UnitDie, held)
    BY <1>1 DEF HandleInv
  <2>2. ASSUME NEW tag, NEW calls, Owns(calls, UnitDie, held)
        PROVE  /\ {o[3] : o \in Owners(tag, calls) \cup UnitOwner(UnitDie)}
                    = {x \in Handles : held[x] # None}
               /\ \A o, p \in Owners(tag, calls) \cup UnitOwner(UnitDie) : o[3] = p[3] => o = p
    BY <1>2, <2>2, OwnersApart
  <2>3. Owners("walk", <<>>) = {} /\ Owners("search", <<>>) = {}
    BY DEF Owners
  <2>4. CASE phase = "walk"
    <3>1. Running = stack /\ search = <<>>
      BY <1>1, <2>4 DEF Running, PhaseInv
    <3>2. owned = Owners("walk", stack) \cup unit
      BY <2>3, <3>1
    <3> HIDE DEF owned, unit
    <3>3. Owns(stack, UnitDie, held)
      BY <2>1, <3>1
    <3>4. /\ {o[3] : o \in Owners("walk", stack) \cup unit} = {x \in Handles : held[x] # None}
          /\ \A o, p \in Owners("walk", stack) \cup unit : o[3] = p[3] => o = p
      BY <1>2, <3>3, <2>2
    <3> QED
      BY <3>2, <3>4
  <2>5. CASE phase # "walk"
    <3>1. Running = search /\ stack = <<>>
      BY <1>1, <2>5 DEF Running, PhaseInv
    <3>2. owned = Owners("search", search) \cup unit
      BY <2>3, <3>1
    <3> HIDE DEF owned, unit
    <3>3. Owns(search, UnitDie, held)
      BY <2>1, <3>1
    <3>4. /\ {o[3] : o \in Owners("search", search) \cup unit} = {x \in Handles : held[x] # None}
          /\ \A o, p \in Owners("search", search) \cup unit : o[3] = p[3] => o = p
      BY <1>2, <3>3, <2>2
    <3> QED
      BY <3>2, <3>4
  <2> QED
    BY <2>4, <2>5
<1>4. \A lev \in DOMAIN die_stack :
        IF lev <= indent_level THEN die_stack[lev].die \in {NULL, stack[lev + 1].die}
        ELSE die_stack[lev] = Empty
  <2>1. DOMAIN die_stack = 0..DIE_STACK_SIZE /\ stack \in Seq(Activations)
    BY <1>1 DEF Types
  <2>2. \A lev \in 0..DIE_STACK_SIZE : lev <= indent_level <=> lev < Len(stack)
    BY <2>1 DEF indent_level
  <2> QED
    BY <1>1, <2>1, <2>2 DEF HandleInv, Mirrors
<1> QED
  BY <1>3, <1>4 DEF HandlesRight, Held, Owners

(* No handle has two owners, none is lost when a name is found deep inside     *)
(* the search or there is no memory left, and an entry of die_stack is of the   *)
(* call at its level.                                                       *)
THEOREM HandlesAlwaysRight == Spec => []HandlesRight
<1>1. IInv => HandlesRight
  BY IInvHandles
<1> QED
  BY <1>1, SpecKeepsIInv, PTL
-------------------------------------------------------------------------------
(* Trees: the DIEs of a unit in the order of the section.                    *)

TreeOf(dies) == dies \in Seq(Dies) \ {<<>>} /\ InOrder(dies)

LEMMA TreeFacts ==
  ASSUME NEW dies, TreeOf(dies)
  PROVE  /\ Len(dies) \in Nat \ {0} /\ DOMAIN dies = 1..Len(dies)
         /\ dies[1].parent = 0
         /\ \A j \in 2..Len(dies) : dies[j].parent \in 1..(j - 1)
         /\ \A j \in 1..Len(dies) : dies[j] \in Dies /\ dies[j].parent \in 0..(j - 1)
         /\ \A j, k \in 1..Len(dies) :
              dies[k].parent < j /\ j < k => dies[k].parent <= dies[j].parent
<1>1. Len(dies) \in Nat \ {0} /\ DOMAIN dies = 1..Len(dies)
  BY DEF TreeOf
<1>2. /\ dies[1].parent = 0
      /\ \A j \in 2..Len(dies) : dies[j].parent \in 1..(j - 1)
      /\ \A j, k \in 1..Len(dies) :
           dies[k].parent < j /\ j < k => dies[k].parent <= dies[j].parent
  BY DEF TreeOf, InOrder
<1>3. ASSUME NEW j \in 1..Len(dies) PROVE dies[j] \in Dies /\ dies[j].parent \in 0..(j - 1)
  <2>1. CASE j = 1
    BY <1>2, <2>1 DEF TreeOf
  <2>2. CASE j # 1
    <3>1. j \in 2..Len(dies)
      BY <1>1, <2>2
    <3> QED BY <1>2, <3>1 DEF TreeOf
  <2> QED BY <2>1, <2>2
<1> QED BY <1>1, <1>2, <1>3

LEMMA MinIs ==
  ASSUME NEW S \in SUBSET Nat, S # {}
  PROVE  Min(S) \in S /\ \A k \in S : Min(S) <= k
<1>1. \E least \in S : \A k \in S : least =< k
  BY LeastNatural
<1> QED
  BY <1>1 DEF Min

(* What is over a DIE, one DIE more.                                        *)
OverOf(f, k, dies) == IF k = 0 THEN {} ELSE {k} \cup f[dies[k].parent]

LEMMA OverExists ==
  ASSUME NEW dies, TreeOf(dies), NEW n \in 0..Len(dies)
  PROVE  \E f : f = [k \in 0..n |-> OverOf(f, k, dies)]
<1> DEFINE Has(k) == \E f : f = [i \in 0..k |-> OverOf(f, i, dies)]
           Missing == {k \in 0..Len(dies) : ~Has(k)}
<1>0. Len(dies) \in Nat
  BY TreeFacts
<1>1. Has(0)
  <2> DEFINE f == [i \in 0..0 |-> {}]
  <2>1. f = [i \in 0..0 |-> OverOf(f, i, dies)]
    BY DEF OverOf
  <2> QED BY <2>1
<1>2. ASSUME NEW k \in Nat, k + 1 <= Len(dies), Has(k) PROVE Has(k + 1)
  <2>1. PICK f : f = [i \in 0..k |-> OverOf(f, i, dies)]
    BY <1>2
  <2> DEFINE g == [i \in 0..(k + 1) |-> IF i <= k THEN f[i] ELSE OverOf(f, k + 1, dies)]
  <2>2. \A i \in 0..k : g[i] = f[i]
    OBVIOUS
  <2>3. ASSUME NEW i \in 0..(k + 1) PROVE g[i] = OverOf(g, i, dies)
    <3>1. CASE i = 0
      BY <3>1, <2>1 DEF OverOf
    <3>2. CASE i # 0
      <4>1. dies[i].parent \in 0..k
        <5>1. i \in 1..Len(dies) /\ i - 1 <= k
          BY <1>0, <1>2, <3>2
        <5>2. dies[i].parent \in 0..(i - 1)
          BY <5>1, TreeFacts
        <5> QED BY <5>1, <5>2
      <4>2. g[dies[i].parent] = f[dies[i].parent]
        BY <4>1, <2>2
      <4>3. OverOf(g, i, dies) = OverOf(f, i, dies)
        BY <4>2, <3>2 DEF OverOf
      <4>4. CASE i <= k
        <5>1. i \in 0..k
          BY <4>4
        <5>2. g[i] = f[i] /\ f[i] = OverOf(f, i, dies)
          BY <5>1, <2>1, <2>2
        <5> QED BY <4>3, <5>2
      <4>5. CASE ~(i <= k)
        <5>1. i = k + 1
          BY <4>5
        <5>2. g[i] = OverOf(f, i, dies)
          BY <5>1
        <5> QED BY <4>3, <5>2
      <4> QED BY <4>4, <4>5
    <3> QED BY <3>1, <3>2
  <2>4. g = [i \in 0..(k + 1) |-> OverOf(g, i, dies)]
    <3> HIDE DEF g
    <3>1. g = [i \in 0..(k + 1) |-> g[i]]
      BY DEF g
    <3> QED BY <3>1, <2>3
  <2> QED BY <2>4
<1>3. Missing = {}
  <2>1. SUFFICES ASSUME Missing # {} PROVE FALSE
    OBVIOUS
  <2>0. Missing \in SUBSET Nat
    BY <1>0
  <2> HIDE DEF Has
  <2>2. PICK k \in Missing : \A i \in Missing : k <= i
    BY <2>0, <2>1, LeastNatural
  <2>3. k # 0
    BY <1>1
  <2>4. k - 1 \in Nat /\ k - 1 \notin Missing /\ k - 1 \in 0..Len(dies) /\ (k - 1) + 1 = k
    BY <1>0, <2>2, <2>3
  <2>5. Has(k - 1)
    BY <2>4
  <2>6. Has((k - 1) + 1)
    BY <1>0, <2>4, <2>5, <1>2
  <2> QED BY <2>4, <2>6
<1> QED BY <1>3

LEMMA OverIs ==
  ASSUME NEW dies, TreeOf(dies), NEW k \in 0..Len(dies)
  PROVE  Over(dies)[k] = IF k = 0 THEN {} ELSE {k} \cup Over(dies)[dies[k].parent]
<1> DEFINE over == Over(dies)
<1>1. over = CHOOSE f : f = [i \in 0..Len(dies) |->
                               IF i = 0 THEN {} ELSE {i} \cup f[dies[i].parent]]
  BY DEF Over
<1> HIDE DEF over
<1>2. \E f : f = [i \in 0..Len(dies) |-> IF i = 0 THEN {} ELSE {i} \cup f[dies[i].parent]]
  <2>1. Len(dies) \in 0..Len(dies)
    BY TreeFacts
  <2>2. \E f : f = [i \in 0..Len(dies) |-> OverOf(f, i, dies)]
    BY <2>1, OverExists
  <2> QED BY <2>2 DEF OverOf
<1>3. over = [i \in 0..Len(dies) |-> IF i = 0 THEN {} ELSE {i} \cup over[dies[i].parent]]
  BY <1>1, <1>2
<1>4. over[k] = IF k = 0 THEN {} ELSE {k} \cup over[dies[k].parent]
  BY <1>3
<1> QED BY <1>4 DEF over

(* A DIE and those over it are no later than it.                             *)
LEMMA OverBelow ==
  ASSUME NEW dies, TreeOf(dies)
  PROVE  \A k \in 0..Len(dies) : Over(dies)[k] \subseteq 1..k
<1> DEFINE Wrong == {k \in 0..Len(dies) : ~(Over(dies)[k] \subseteq 1..k)}
<1>1. SUFFICES ASSUME Wrong # {} PROVE FALSE
  OBVIOUS
<1>2. Wrong \in SUBSET Nat
  BY TreeFacts
<1>3. PICK k \in Wrong : \A i \in Wrong : k <= i
  BY <1>1, <1>2, LeastNatural
<1>4. k \in 0..Len(dies) /\ Len(dies) \in Nat
  BY <1>3, TreeFacts
<1>5. k # 0
  BY <1>3, <1>4, OverIs
<1>6. dies[k].parent \in 0..(k - 1)
  BY <1>4, <1>5, TreeFacts
<1>7. Over(dies)[dies[k].parent] \subseteq 1..dies[k].parent
  <2>1. dies[k].parent \in 0..Len(dies) /\ ~(k <= dies[k].parent)
    BY <1>4, <1>5, <1>6
  <2> QED BY <1>3, <2>1
<1>8. Over(dies)[k] = {k} \cup Over(dies)[dies[k].parent]
  BY <1>4, <1>5, OverIs
<1>9. Over(dies)[k] \subseteq 1..k
  BY <1>4, <1>5, <1>6, <1>7, <1>8
<1> QED BY <1>3, <1>9

LEMMA OverOne ==
  ASSUME NEW dies, TreeOf(dies), NEW k \in 1..Len(dies)
  PROVE  /\ Over(dies)[k] = {k} \cup Over(dies)[dies[k].parent]
         /\ dies[k].parent \in 0..Len(dies)
         /\ k \notin Over(dies)[dies[k].parent]
<1>1. k \in 0..Len(dies) /\ k # 0 /\ dies[k].parent \in 0..(k - 1) /\ Len(dies) \in Nat
  BY TreeFacts
<1>2. dies[k].parent \in 0..Len(dies) /\ k \notin 1..dies[k].parent
  BY <1>1
<1>3. Over(dies)[dies[k].parent] \subseteq 1..dies[k].parent
  BY <1>2, OverBelow
<1> QED BY <1>1, <1>2, <1>3, OverIs

(* What is over a DIE that is over another one is over that one.              *)
LEMMA OverTransitive ==
  ASSUME NEW dies, TreeOf(dies), NEW k \in 0..Len(dies), NEW i \in Over(dies)[k]
  PROVE  Over(dies)[i] \subseteq Over(dies)[k]
<1> DEFINE Right(j) == \A x \in Over(dies)[j] : Over(dies)[x] \subseteq Over(dies)[j]
           Wrong == {j \in 0..Len(dies) : ~Right(j)}
<1>0. Wrong = {}
  <2> SUFFICES ASSUME Wrong # {} PROVE FALSE
    OBVIOUS
  <2>2. Wrong \in SUBSET Nat
    BY TreeFacts
  <2>3. PICK j \in Wrong : \A x \in Wrong : j <= x
    BY <2>2, LeastNatural
  <2>4. j \in 0..Len(dies) /\ Len(dies) \in Nat
    BY <2>3, TreeFacts
  <2>5. j # 0
    <3>1. j = 0 => Over(dies)[j] = {}
      BY <2>4, OverIs
    <3> QED BY <2>3, <3>1
  <2>6. dies[j].parent \in 0..(j - 1)
    BY <2>4, <2>5, TreeFacts
  <2>7. dies[j].parent \in 0..Len(dies) /\ ~(j <= dies[j].parent)
    BY <2>4, <2>5, <2>6
  <2>8. Right(dies[j].parent)
    BY <2>3, <2>7
  <2>9. Over(dies)[j] = {j} \cup Over(dies)[dies[j].parent]
    BY <2>4, <2>5, OverIs
  <2>10. Right(j)
    BY <2>8, <2>9
  <2> QED BY <2>3, <2>10
<1> QED BY <1>0

(* How many are over a DIE.                                                 *)
LEMMA OverCounts ==
  ASSUME NEW dies, TreeOf(dies), NEW k \in 1..Len(dies)
  PROVE  /\ Cardinality(Over(dies)[k]) \in Nat
         /\ Cardinality(Over(dies)[k]) = Cardinality(Over(dies)[dies[k].parent]) + 1
         /\ dies[k].parent = 0 => Cardinality(Over(dies)[k]) = 1
<1> DEFINE above == Over(dies)[dies[k].parent]
<1>1. /\ Over(dies)[k] = above \cup {k} /\ k \notin above
      /\ dies[k].parent \in 0..Len(dies)
  BY OverOne
<1>2. IsFiniteSet(above)
  <2>1. above \subseteq 1..dies[k].parent /\ dies[k].parent \in Int /\ 1 \in Int
    BY <1>1, OverBelow
  <2>2. IsFiniteSet(1..dies[k].parent)
    BY <2>1, FS_Interval
  <2> QED BY <2>1, <2>2, FS_Subset
<1>3. Cardinality(above \cup {k}) = Cardinality(above) + 1 /\ IsFiniteSet(above \cup {k})
  BY <1>1, <1>2, FS_AddElement
<1>4. Cardinality(above) \in Nat
  BY <1>2, FS_CardinalityType
<1>5. dies[k].parent = 0 => Cardinality(above) = 0
  <2>1. dies[k].parent = 0 => above = {}
    BY <1>1, OverIs
  <2> QED BY <2>1, FS_EmptySet
<1> QED BY <1>1, <1>3, <1>4, <1>5

(* The first DIE after d that is not below d, or the end of the unit.         *)
After(dies, d) == Min({k \in (d + 1)..Len(dies) : dies[k].parent < d} \cup {Len(dies) + 1})

EndsAt(dies, d, a) ==
  /\ a \in (d + 1)..(Len(dies) + 1)
  /\ \A k \in (d + 1)..(a - 1) : dies[k].parent >= d
  /\ a <= Len(dies) => dies[a].parent < d

LEMMA AfterIs ==
  ASSUME NEW dies, TreeOf(dies), NEW d \in 1..Len(dies)
  PROVE  EndsAt(dies, d, After(dies, d))
<1> DEFINE S == {k \in (d + 1)..Len(dies) : dies[k].parent < d} \cup {Len(dies) + 1}
           a == After(dies, d)
<1>1. Len(dies) \in Nat /\ d \in Nat
  BY TreeFacts
<1>2. S \in SUBSET Nat /\ S # {}
  BY <1>1
<1>3. a \in S /\ \A k \in S : a <= k
  BY <1>2, MinIs DEF After
<1>4. a \in (d + 1)..(Len(dies) + 1)
  BY <1>1, <1>3
<1>5. a <= Len(dies) => dies[a].parent < d
  BY <1>1, <1>3
<1>6. ASSUME NEW k \in (d + 1)..(a - 1) PROVE dies[k].parent >= d
  <2>1. k \in (d + 1)..Len(dies) /\ k \in 1..Len(dies) /\ ~(a <= k)
    BY <1>1, <1>4
  <2>2. k \notin S
    BY <1>3, <2>1
  <2>3. ~(dies[k].parent < d)
    BY <2>1, <2>2
  <2>4. dies[k].parent \in 0..(k - 1)
    BY <2>1, TreeFacts
  <2> QED BY <1>1, <2>3, <2>4
<1> QED BY <1>4, <1>5, <1>6 DEF EndsAt

LEMMA EndIsOne ==
  ASSUME NEW dies, TreeOf(dies), NEW d \in 1..Len(dies), NEW a, EndsAt(dies, d, a)
  PROVE  a = After(dies, d)
<1>1. EndsAt(dies, d, After(dies, d)) /\ Len(dies) \in Nat
  BY AfterIs, TreeFacts
<1>2. ASSUME NEW x, NEW y, EndsAt(dies, d, x), EndsAt(dies, d, y), x < y PROVE FALSE
  <2>1. x \in (d + 1)..(Len(dies) + 1) /\ y \in (d + 1)..(Len(dies) + 1)
    BY <1>2 DEF EndsAt
  <2>2. x \in (d + 1)..(y - 1) /\ x <= Len(dies) /\ x \in 1..Len(dies)
    BY <1>1, <1>2, <2>1
  <2>3. dies[x].parent >= d /\ dies[x].parent < d
    BY <1>2, <2>2 DEF EndsAt
  <2>4. dies[x].parent \in 0..(x - 1)
    BY <2>2, TreeFacts
  <2> QED BY <1>1, <2>3, <2>4
<1> DEFINE b == After(dies, d)
<1>3. a \in Int /\ b \in Int
  BY <1>1 DEF EndsAt
<1> HIDE DEF b
<1>4. EndsAt(dies, d, b)
  BY <1>1 DEF b
<1>5. ~(a < b) /\ ~(b < a)
  BY <1>2, <1>4
<1>6. a = b
  BY <1>3, <1>5
<1> QED BY <1>6 DEF b

(* What stands before that one is below d.                                  *)
LEMMA BelowIt ==
  ASSUME NEW dies, TreeOf(dies), NEW d \in 1..Len(dies), NEW k, d <= k, k \in Nat,
         k < After(dies, d)
  PROVE  k \in 1..Len(dies) /\ d \in Over(dies)[k]
<1> DEFINE a == After(dies, d)
           Wrong == {x \in d..(a - 1) : d \notin Over(dies)[x]}
<1>1. /\ a \in (d + 1)..(Len(dies) + 1) /\ Len(dies) \in Nat
      /\ \A x \in (d + 1)..(a - 1) : dies[x].parent >= d
  BY AfterIs, TreeFacts DEF EndsAt
<1> HIDE DEF a
<1>2. \A x \in d..(a - 1) : x \in 1..Len(dies)
  BY <1>1
<1>3. Wrong = {}
  <2> SUFFICES ASSUME Wrong # {} PROVE FALSE
    OBVIOUS
  <2>1. Wrong \in SUBSET Nat
    BY <1>2
  <2>2. PICK x \in Wrong : \A y \in Wrong : x <= y
    BY <2>1, LeastNatural
  <2>3. x \in d..(a - 1) /\ x \in 1..Len(dies)
    BY <1>2, <2>2
  <2>4. Over(dies)[x] = {x} \cup Over(dies)[dies[x].parent]
    BY <2>3, OverOne
  <2>5. x # d
    BY <2>2, <2>4
  <2>6. dies[x].parent >= d /\ dies[x].parent \in 0..(x - 1)
    BY <1>1, <2>3, <2>5, TreeFacts
  <2>7. dies[x].parent \in d..(a - 1) /\ ~(x <= dies[x].parent)
    BY <1>1, <2>3, <2>6
  <2>8. d \in Over(dies)[dies[x].parent]
    BY <2>2, <2>7
  <2> QED BY <2>2, <2>4, <2>8
<1>4. k \in d..(a - 1)
  BY <1>1 DEF a
<1> QED BY <1>2, <1>3, <1>4

(* A DIE that is over another one is not after it, nor past its end.          *)
LEMMA OverIsBefore ==
  ASSUME NEW dies, TreeOf(dies), NEW k \in 1..Len(dies), NEW d \in Over(dies)[k]
  PROVE  d \in 1..Len(dies) /\ d <= k /\ k < After(dies, d)
<1> DEFINE Right(x) == \A y \in Over(dies)[x] : x < After(dies, y)
           Wrong == {x \in 1..Len(dies) : ~Right(x)}
<1>1. Len(dies) \in Nat
  BY TreeFacts
<1>2. \A x \in 1..Len(dies) : Over(dies)[x] \subseteq 1..x
  BY <1>1, OverBelow
<1>3. Wrong = {}
  <2> SUFFICES ASSUME Wrong # {} PROVE FALSE
    OBVIOUS
  <2>1. Wrong \in SUBSET Nat
    BY <1>1
  <2>2. PICK x \in Wrong : \A y \in Wrong : x <= y
    BY <2>1, LeastNatural
  <2>3. x \in 1..Len(dies) /\ dies[x].parent \in 0..(x - 1)
    BY <2>2, TreeFacts
  <2>4. ASSUME NEW y \in Over(dies)[x] PROVE x < After(dies, y)
    <3>1. y \in 1..x /\ y \in 1..Len(dies)
      BY <1>1, <1>2, <2>3
    <3>2. EndsAt(dies, y, After(dies, y))
      BY <3>1, AfterIs
    <3>3. CASE y = x
      BY <1>1, <3>1, <3>2, <3>3 DEF EndsAt
    <3>4. CASE y # x
      <4>1. y \in Over(dies)[dies[x].parent]
        BY <2>3, <3>4, OverOne
      <4>2. dies[x].parent # 0
        <5>1. Over(dies)[0] = {}
          <6>1. 0 \in 0..Len(dies)
            BY <1>1
          <6>2. Over(dies)[0] = IF 0 = 0 THEN {} ELSE {0} \cup Over(dies)[dies[0].parent]
            BY <6>1, OverIs
          <6> QED BY <6>2
        <5> QED BY <4>1, <5>1
      <4>3. dies[x].parent \in 1..Len(dies) /\ ~(x <= dies[x].parent)
        BY <1>1, <2>3, <4>2
      <4>4. Right(dies[x].parent)
        BY <2>2, <4>3
      <4>5. dies[x].parent < After(dies, y) /\ y <= dies[x].parent
        BY <1>2, <4>1, <4>3, <4>4
      <4>6. CASE After(dies, y) > Len(dies)
        BY <1>1, <2>3, <3>2, <4>6 DEF EndsAt
      <4>7. CASE After(dies, y) = x
        BY <1>1, <2>3, <3>1, <3>2, <4>5, <4>7 DEF EndsAt
      <4>8. CASE After(dies, y) < x /\ After(dies, y) <= Len(dies)
        <5> DEFINE a == After(dies, y)
        <5>1. a \in 1..Len(dies) /\ a \in 2..Len(dies)
          BY <1>1, <3>1, <3>2, <4>8 DEF EndsAt
        <5>2. dies[x].parent <= dies[a].parent
          BY <2>3, <4>5, <4>8, <5>1, TreeFacts
        <5>3. dies[a].parent < y /\ dies[a].parent \in 0..(a - 1)
          BY <3>2, <4>8, <5>1, TreeFacts DEF EndsAt
        <5> QED BY <2>3, <3>1, <4>5, <5>2, <5>3
      <4>9. After(dies, y) \in Int
        BY <3>2 DEF EndsAt
      <4> QED BY <1>1, <2>3, <4>6, <4>7, <4>8, <4>9
    <3> QED BY <3>3, <3>4
  <2> QED BY <2>2, <2>4
<1>4. Over(dies)[k] \subseteq 1..k /\ k < After(dies, d)
  BY <1>2, <1>3
<1> QED BY <1>1, <1>4

(* The first child comes right after its parent.                             *)
LEMMA ChildNext ==
  ASSUME NEW dies, TreeOf(dies), NEW d \in 1..Len(dies)
  PROVE  LET S == {j \in 1..Len(dies) : dies[j].parent = d}
         IN /\ S = {} => After(dies, d) = d + 1
            /\ S # {} => /\ Min(S) = d + 1 /\ d + 1 \in 1..Len(dies)
                         /\ dies[d + 1].parent = d
<1> DEFINE S == {j \in 1..Len(dies) : dies[j].parent = d}
<1>1. Len(dies) \in Nat /\ d \in Nat \ {0}
  BY TreeFacts
<1>2. CASE S = {}
  <2>1. d + 1 <= Len(dies) => dies[d + 1].parent < d
    <3> SUFFICES ASSUME d + 1 <= Len(dies) PROVE dies[d + 1].parent < d
      OBVIOUS
    <3>1. d + 1 \in 1..Len(dies) /\ dies[d + 1].parent # d
      BY <1>1, <1>2
    <3>2. dies[d + 1].parent \in 0..((d + 1) - 1)
      BY <3>1, TreeFacts
    <3> QED BY <1>1, <3>1, <3>2
  <2>2. EndsAt(dies, d, d + 1)
    BY <1>1, <2>1 DEF EndsAt
  <2> QED BY <1>2, <2>2, EndIsOne
<1>3. CASE S # {}
  <2>1. S \in SUBSET Nat
    BY <1>1
  <2>2. Min(S) \in S /\ \A k \in S : Min(S) <= k
    BY <1>3, <2>1, MinIs
  <2> DEFINE c == Min(S)
  <2> HIDE DEF c
  <2>3. c \in 1..Len(dies) /\ dies[c].parent = d
    BY <2>2 DEF c
  <2>4. d \in 0..(c - 1)
    BY <2>3, TreeFacts
  <2>5. d + 1 \in 1..Len(dies) /\ d + 1 <= c
    BY <1>1, <2>3, <2>4
  <2>6. dies[d + 1].parent = d
    <3>1. CASE d + 1 = c
      BY <2>3, <3>1
    <3>2. CASE d + 1 < c
      <4>1. dies[c].parent <= dies[d + 1].parent
        BY <1>1, <2>3, <2>5, <3>2, TreeFacts
      <4>2. dies[d + 1].parent \in 0..((d + 1) - 1)
        BY <2>5, TreeFacts
      <4> QED BY <1>1, <2>3, <4>1, <4>2
    <3> QED BY <1>1, <2>3, <2>5, <3>1, <3>2
  <2>7. c <= d + 1
    BY <2>2, <2>5, <2>6 DEF c
  <2>8. c = d + 1
    BY <1>1, <2>3, <2>5, <2>7
  <2> QED BY <1>3, <2>5, <2>6, <2>8 DEF c
<1> QED BY <1>2, <1>3

(* The next sibling comes when all that is below a DIE has come; after the    *)
(* last one, all that is below their parent has.                            *)
LEMMA SiblingNext ==
  ASSUME NEW dies, TreeOf(dies), NEW d \in 1..Len(dies)
  PROVE  LET S == {j \in 1..Len(dies) : j > d /\ dies[j].parent = dies[d].parent}
         IN /\ S # {} => /\ Min(S) = After(dies, d) /\ After(dies, d) \in 1..Len(dies)
                         /\ dies[After(dies, d)].parent = dies[d].parent
                         /\ d # 1
            /\ S = {} => After(dies, d) = IF d = 1 THEN Len(dies) + 1
                                          ELSE After(dies, dies[d].parent)
<1> DEFINE S == {j \in 1..Len(dies) : j > d /\ dies[j].parent = dies[d].parent}
           a == After(dies, d)
           p == dies[d].parent
<1>1. /\ Len(dies) \in Nat /\ d \in Nat \ {0} /\ p \in 0..(d - 1)
      /\ d # 1 => p # 0
      /\ d = 1 => p = 0
  <2>1. d # 1 => d \in 2..Len(dies)
    BY TreeFacts
  <2> QED BY <2>1, TreeFacts
<1>2. /\ a \in (d + 1)..(Len(dies) + 1)
      /\ \A k \in (d + 1)..(a - 1) : dies[k].parent >= d
      /\ a <= Len(dies) => dies[a].parent < d
  BY AfterIs DEF EndsAt
<1> HIDE DEF a, p
<1>3. \A k \in 2..Len(dies) : dies[k].parent # 0
  BY TreeFacts
<1>4. ASSUME a <= Len(dies), d # 1, NEW s \in 1..Len(dies), d < s, dies[s].parent = p
      PROVE  a <= s
  <2> SUFFICES ASSUME s < a PROVE FALSE
    BY <1>2
  <2>1. s \in (d + 1)..(a - 1)
    BY <1>1, <1>2, <1>4
  <2> QED BY <1>1, <1>2, <1>4, <2>1
<1>5. a <= Len(dies) => /\ a \in 1..Len(dies)
                        /\ dies[a].parent <= p /\ dies[a].parent \in 0..(a - 1)
  <2> SUFFICES ASSUME a <= Len(dies)
               PROVE  a \in 1..Len(dies) /\ dies[a].parent <= p /\ dies[a].parent \in 0..(a - 1)
    OBVIOUS
  <2>1. a \in 1..Len(dies) /\ d < a
    BY <1>1, <1>2
  <2>2. dies[a].parent <= dies[d].parent
    BY <1>2, <2>1, TreeFacts
  <2> QED BY <2>1, <2>2, TreeFacts DEF p
<1>6. CASE S # {}
  <2>1. S \in SUBSET Nat
    BY <1>1
  <2>2. Min(S) \in S /\ \A k \in S : Min(S) <= k
    BY <1>6, <2>1, MinIs
  <2> DEFINE s == Min(S)
  <2> HIDE DEF s
  <2>3. s \in 1..Len(dies) /\ s > d /\ dies[s].parent = p
    BY <2>2 DEF s, p
  <2>4. d # 1
    <3>1. s \in 2..Len(dies)
      BY <1>1, <2>3
    <3> QED BY <1>1, <1>3, <2>3, <3>1
  <2>5. a <= s
    <3> SUFFICES ASSUME s < a PROVE FALSE
      BY <1>2, <2>3
    <3>1. s \in (d + 1)..(a - 1)
      BY <1>1, <1>2, <2>3
    <3> QED BY <1>1, <1>2, <2>3, <3>1
  <2>6. a \in 1..Len(dies) /\ dies[a].parent <= p /\ dies[a].parent \in 0..(a - 1)
    BY <1>1, <1>2, <1>5, <2>3, <2>5
  <2>7. dies[a].parent = p
    <3>1. CASE a = s
      BY <2>3, <3>1
    <3>2. CASE a < s
      <4>1. p < a
        BY <1>1, <1>2
      <4>2. dies[s].parent <= dies[a].parent
        BY <2>3, <2>6, <3>2, <4>1, TreeFacts
      <4> QED BY <1>1, <2>3, <2>6, <4>2
    <3> QED BY <2>3, <2>5, <2>6, <3>1, <3>2
  <2>8. a \in S
    BY <1>1, <1>2, <2>6, <2>7 DEF p
  <2>9. s <= a
    BY <2>2, <2>8 DEF s
  <2>10. s = a
    BY <2>3, <2>5, <2>6, <2>9
  <2> QED BY <1>6, <2>4, <2>6, <2>7, <2>10 DEF s, a, p
<1>7. CASE S = {}
  <2>1. a <= Len(dies) => dies[a].parent < p
    <3> SUFFICES ASSUME a <= Len(dies) PROVE dies[a].parent < p
      OBVIOUS
    <3>1. a \notin S /\ a > d
      BY <1>1, <1>2, <1>7
    <3>2. dies[a].parent # p
      BY <1>5, <3>1 DEF p
    <3> QED BY <1>1, <1>5, <3>2
  <2>2. CASE d = 1
    <3>1. ~(a <= Len(dies))
      BY <1>1, <1>5, <2>1, <2>2
    <3>2. a = Len(dies) + 1
      BY <1>1, <1>2, <3>1
    <3> QED BY <1>7, <2>2, <3>2 DEF a
  <2>3. CASE d # 1
    <3>1. p \in 1..Len(dies)
      BY <1>1, <2>3
    <3>2. a \in (p + 1)..(Len(dies) + 1)
      BY <1>1, <1>2
    <3>3. ASSUME NEW k \in (p + 1)..(a - 1) PROVE dies[k].parent >= p
      <4>1. k \in 1..Len(dies) /\ dies[k].parent \in 0..(k - 1)
        <5>1. k \in 1..Len(dies)
          BY <1>1, <1>2
        <5> QED BY <5>1, TreeFacts
      <4>2. CASE k < d
        <5>1. dies[d].parent < k
          BY <1>1 DEF p
        <5>2. dies[d].parent <= dies[k].parent
          BY <4>1, <4>2, <5>1, TreeFacts
        <5> QED BY <1>1, <4>1, <5>2 DEF p
      <4>3. CASE k = d
        BY <1>1, <4>3 DEF p
      <4>4. CASE k > d
        <5>1. k \in (d + 1)..(a - 1)
          BY <1>1, <4>1, <4>4
        <5> QED BY <1>1, <1>2, <4>1, <5>1
      <4> QED BY <1>1, <4>1, <4>2, <4>3, <4>4
    <3>4. EndsAt(dies, p, a)
      BY <2>1, <3>2, <3>3 DEF EndsAt
    <3>5. a = After(dies, p)
      BY <3>1, <3>4, EndIsOne
    <3> QED BY <1>7, <2>3, <3>5 DEF a, p
  <2> QED BY <2>2, <2>3
<1> QED BY <1>6, <1>7

-------------------------------------------------------------------------------
(* What was printed.                                                       *)

(* The calls are about a DIE below root, one below that, and so on; only the  *)
(* last may not have come to its children yet.                             *)
Descends(calls, h, c, root) ==
  /\ \A i \in 1..Len(calls) : h[calls[i].die][1] = c
  /\ \A i \in 1..Len(calls) :
       Die(h[calls[i].die]).parent = IF i = 1 THEN root ELSE h[calls[i - 1].die][2]
  /\ \A i \in 1..(Len(calls) - 1) : calls[i].visited

(* The first DIE that the calls have not come to.                           *)
ComesTo(calls, h) ==
  LET d == h[Last(calls).die]
  IN IF Last(calls).visited THEN After(obj.cus[d[1]].dies, d[2]) ELSE d[2]

Reached ==
  IF phase = "walk" THEN <<cu, ComesTo(stack, held)>>
  ELSE IF phase = "infos" THEN <<cu + 1, 1>> ELSE <<Len(obj.cus) + 1, 1>>

(* The DIEs to print because of those before r.                             *)
DueBefore(r) ==
  {d \in UNION {{c} \X (DOMAIN obj.cus[c].dies) : c \in Walked} :
     IF opt.info THEN Before(d, r)
     ELSE opt.search /\ \E j \in DOMAIN obj.cus[d[1]].dies :
            obj.cus[d[1]].dies[j].match /\ d[2] \in Chain(d[1], j) /\ Before(<<d[1], j>>, r)}

DiesOfEntries(entries) == {e.die : e \in Range(entries)}

UnitsCounted ==
  /\ phase = "infos" => /\ obj.bad # 0 => cu < obj.bad
                        /\ cu_count = Cardinality({b \in Named : b <= cu})
  /\ phase = "walk" => /\ cu \in Walked
                       /\ cu_count = Cardinality({b \in Named : b < cu})

StackTells ==
  phase = "walk" =>
    /\ Descends(stack, held, cu, 0)
    /\ \A i \in 1..Len(stack) : stack[i].visited => die_stack[i - 1].die = stack[i].die
    /\ \A i \in 1..Len(stack) :
         die_stack[i - 1].printed <=> held[stack[i].die] \in DiesOfEntries(printed)

Entries == [die : AllDies, level : Nat]

EntriesRight(entries) ==
  /\ entries \in Seq(Entries)
  /\ \A i \in 1..Len(entries) :
       LET d == entries[i].die
       IN /\ d \in Wanted
          /\ entries[i].level = Cardinality(Chain(d[1], d[2])) - 1
          /\ i > 1 => Before(entries[i - 1].die, d)

PrintedInv ==
  /\ EntriesRight(printed)
  /\ phase # "exit" => /\ UnitsCounted /\ StackTells
                       /\ DiesOfEntries(printed) = DueBefore(Reached)

LEMMA UnitTree ==
  ASSUME Types, NEW c \in 1..Len(obj.cus)
  PROVE  /\ TreeOf(obj.cus[c].dies) /\ DOMAIN obj.cus[c].dies = 1..Len(obj.cus[c].dies)
         /\ Len(obj.cus[c].dies) \in Nat \ {0}
<1>1. obj.cus[c] \in Units
  BY ObjectType
<1>2. TreeOf(obj.cus[c].dies)
  BY <1>1 DEF Units, TreeOf
<1> QED BY <1>2, TreeFacts

LEMMA DieTypes ==
  ASSUME Types, NEW d \in AllDies
  PROVE  /\ d = <<d[1], d[2]>> /\ d[1] \in 1..Len(obj.cus) /\ d[2] \in 1..Len(obj.cus[d[1]].dies)
         /\ TreeOf(obj.cus[d[1]].dies) /\ Die(d) = obj.cus[d[1]].dies[d[2]]
         /\ d[1] \in Nat /\ d[2] \in Nat \ {0}
<1>1. /\ d = <<d[1], d[2]>> /\ d[1] \in 1..Len(obj.cus)
      /\ d[2] \in 1..Len(obj.cus[d[1]].dies) /\ d[1] \in Nat /\ d[2] \in Nat
  BY DEF AllDies
<1>2. TreeOf(obj.cus[d[1]].dies)
  BY <1>1, UnitTree
<1>3. d[2] # 0
  BY <1>1
<1> QED BY <1>1, <1>2, <1>3 DEF Die

(* What dwarf_child() and dwarf_siblingof() find in the tree.                *)
LEMMA ChildFinds ==
  ASSUME Types, NEW d \in AllDies
  PROVE  LET dies == obj.cus[d[1]].dies
         IN /\ ChildOf(d) = None => After(dies, d[2]) = d[2] + 1
            /\ ChildOf(d) # None => /\ ChildOf(d) = <<d[1], d[2] + 1>>
                                    /\ Die(ChildOf(d)).parent = d[2]
<1> DEFINE dies == obj.cus[d[1]].dies
           S == {j \in 1..Len(dies) : dies[j].parent = d[2]}
<1>1. /\ TreeOf(dies) /\ d[2] \in 1..Len(dies) /\ DOMAIN dies = 1..Len(dies)
      /\ d[1] \in 1..Len(obj.cus)
  BY DieTypes, UnitTree
<1>2. ChildOf(d) = Index(d, FirstOf(S))
  <2>1. \A j : Die(<<d[1], j>>) = dies[j]
    BY DEF Die
  <2> QED BY <1>1, <2>1 DEF ChildOf
<1>3. /\ S = {} => After(dies, d[2]) = d[2] + 1
      /\ S # {} => /\ Min(S) = d[2] + 1 /\ d[2] + 1 \in 1..Len(dies)
                   /\ dies[d[2] + 1].parent = d[2]
  BY <1>1, ChildNext
<1>4. CASE S = {}
  <2>1. FirstOf(S) = 0
    BY <1>4 DEF FirstOf
  <2>2. ChildOf(d) = None
    BY <1>2, <2>1 DEF Index
  <2> QED BY <1>3, <1>4, <2>2
<1>5. CASE S # {}
  <2>1. FirstOf(S) = d[2] + 1 /\ d[2] + 1 # 0
    <3>1. Min(S) = d[2] + 1
      BY <1>3, <1>5
    <3>2. FirstOf(S) = Min(S)
      BY <1>5 DEF FirstOf
    <3>3. d[2] + 1 # 0
      BY DieTypes
    <3> QED BY <3>1, <3>2, <3>3
  <2>2. ChildOf(d) = <<d[1], d[2] + 1>>
    BY <1>2, <2>1 DEF Index
  <2>3. ChildOf(d) # None
    BY <2>2 DEF None
  <2>4. Die(ChildOf(d)).parent = d[2]
    BY <1>3, <1>5, <2>2 DEF Die
  <2> QED BY <2>2, <2>3, <2>4
<1> QED BY <1>4, <1>5

LEMMA SiblingFinds ==
  ASSUME Types, NEW d \in AllDies
  PROVE  LET dies == obj.cus[d[1]].dies
         IN /\ SiblingOf(d) # None => /\ SiblingOf(d) = <<d[1], After(dies, d[2])>>
                                      /\ Die(SiblingOf(d)).parent = Die(d).parent
            /\ SiblingOf(d) = None =>
                 After(dies, d[2]) = IF d[2] = 1 THEN Len(dies) + 1
                                     ELSE After(dies, Die(d).parent)
<1> DEFINE dies == obj.cus[d[1]].dies
           S == {j \in 1..Len(dies) : j > d[2] /\ dies[j].parent = dies[d[2]].parent}
<1>1. /\ TreeOf(dies) /\ d[2] \in 1..Len(dies) /\ DOMAIN dies = 1..Len(dies)
      /\ d[1] \in 1..Len(obj.cus) /\ Die(d) = dies[d[2]] /\ Len(dies) \in Nat
  BY DieTypes, UnitTree
<1>2. SiblingOf(d) = Index(d, FirstOf(S))
  <2>1. \A j : Die(<<d[1], j>>) = dies[j]
    BY DEF Die
  <2> QED BY <1>1, <2>1 DEF SiblingOf
<1>3. /\ S # {} => /\ Min(S) = After(dies, d[2]) /\ After(dies, d[2]) \in 1..Len(dies)
                   /\ dies[After(dies, d[2])].parent = dies[d[2]].parent
      /\ S = {} => After(dies, d[2]) = IF d[2] = 1 THEN Len(dies) + 1
                                       ELSE After(dies, dies[d[2]].parent)
  BY <1>1, SiblingNext
<1>4. CASE S = {}
  <2>1. SiblingOf(d) = None
    BY <1>2, <1>4 DEF FirstOf, Index
  <2> QED BY <1>1, <1>3, <1>4, <2>1
<1>5. CASE S # {}
  <2> DEFINE a == After(dies, d[2])
  <2>0. a \in 1..Len(dies) /\ Min(S) = a
    BY <1>3, <1>5
  <2>1. FirstOf(S) = a /\ a # 0
    <3>1. a # 0
      <4> HIDE DEF a, dies
      <4> QED BY <1>1, <2>0
    <3> QED BY <1>5, <2>0, <3>1 DEF FirstOf
  <2> HIDE DEF a
  <2>2. SiblingOf(d) = <<d[1], a>>
    BY <1>2, <2>1 DEF Index
  <2>3. SiblingOf(d) # None
    BY <2>2 DEF None
  <2>4. Die(SiblingOf(d)).parent = Die(d).parent
    <3>1. Die(SiblingOf(d)) = dies[a]
      BY <2>2 DEF Die
    <3>2. dies[a].parent = dies[d[2]].parent
      BY <1>3, <1>5 DEF a
    <3> QED BY <1>1, <3>1, <3>2
  <2> QED BY <2>2, <2>3, <2>4 DEF a
<1> QED BY <1>4, <1>5

-------------------------------------------------------------------------------
(* The calls, and the DIEs they are about.                                   *)

At(calls, h, i) == h[calls[i].die]

LEMMA AtIs ==
  ASSUME Types, NEW calls, NEW U, Owns(calls, U, held), NEW i \in 1..Len(calls)
  PROVE  /\ calls[i] \in Activations /\ calls[i].die \in Handles
         /\ At(calls, held, i) \in AllDies
<1>1. calls[i] \in Activations
  BY DEF Owns
<1>2. calls[i].die \in Handles
  BY <1>1 DEF Activations
<1>3. held[calls[i].die] # None
  BY <1>2 DEF Owns, Of
<1>4. held[calls[i].die] \in AllDies
  BY <1>2, <1>3 DEF Types
<1> QED BY <1>1, <1>2, <1>4 DEF At

(* A handle that is taken or given back is not one of another call.          *)
LEMMA AtStays ==
  ASSUME Types, NEW calls, NEW U, Owns(calls, U, held), NEW i \in 1..Len(calls),
         NEW gone, gone \cap Of(calls[i]) = {}
  PROVE  /\ Dealloc(held, gone)[calls[i].die] = At(calls, held, i)
         /\ Room(held) => \A d : /\ Get(held, d)[calls[i].die] = At(calls, held, i)
                                 /\ Dealloc(Get(held, d), gone)[calls[i].die]
                                      = At(calls, held, i)
<1>1. calls[i].die \in Handles /\ At(calls, held, i) \in AllDies
  BY AtIs
<1>2. calls[i].die \notin gone
  BY DEF Of
<1>3. At(calls, held, i) # None
  BY <1>1, DieIsNot
<1>4. Room(held) => New(held) # calls[i].die
  BY <1>3, NewIs DEF At
<1>5. held \in [Handles -> AllDies \cup {None}]
  BY DEF Types
<1>6. Dealloc(held, gone)[calls[i].die] = At(calls, held, i)
  BY <1>1, <1>2, DeallocIs DEF At
<1>7. ASSUME Room(held), NEW d
      PROVE  Get(held, d)[calls[i].die] = At(calls, held, i)
  BY <1>1, <1>4, <1>5, <1>7, GetIs DEF At
<1>8. ASSUME Room(held), NEW d
      PROVE  Dealloc(Get(held, d), gone)[calls[i].die] = At(calls, held, i)
  BY <1>1, <1>2, <1>7, <1>8, DeallocIs
<1> QED BY <1>6, <1>7, <1>8

(* Calls that descend as far as others do, and one DIE further.               *)
LEMMA DescendsOn ==
  ASSUME NEW calls, NEW h, NEW c, NEW root, Descends(calls, h, c, root), Len(calls) \in Nat,
         NEW now, NEW g, Len(now) \in Nat \ {0}, Len(now) <= Len(calls) + 1,
         \A i \in 1..(Len(now) - 1) : At(now, g, i) = At(calls, h, i) /\ now[i].visited,
         At(now, g, Len(now))[1] = c,
         Die(At(now, g, Len(now))).parent = IF Len(now) = 1 THEN root
                                            ELSE At(calls, h, Len(now) - 1)[2]
  PROVE  Descends(now, g, c, root)
<1> DEFINE n == Len(now)
<1>1. ASSUME NEW i \in 1..n PROVE At(now, g, i)[1] = c
  <2>1. CASE i = n
    BY <2>1
  <2>2. CASE i # n
    <3>1. i \in 1..(n - 1) /\ i \in 1..Len(calls)
      BY <2>2
    <3> QED BY <3>1 DEF Descends, At
  <2> QED BY <2>1, <2>2
<1>2. ASSUME NEW i \in 1..n
      PROVE  Die(At(now, g, i)).parent = IF i = 1 THEN root ELSE At(now, g, i - 1)[2]
  <2>0. i # 1 => i - 1 \in 1..(n - 1)
    OBVIOUS
  <2>3. i # 1 => At(now, g, i - 1) = At(calls, h, i - 1)
    BY <2>0
  <2>1. CASE i = n
    BY <2>1, <2>3
  <2>2. CASE i # n
    <3>1. i \in 1..(n - 1) /\ i \in 1..Len(calls)
      BY <2>2
    <3>2. Die(At(calls, h, i)).parent = IF i = 1 THEN root ELSE At(calls, h, i - 1)[2]
      BY <3>1 DEF Descends, At
    <3> QED BY <2>3, <3>1, <3>2
  <2> QED BY <2>1, <2>2
<1> QED BY <1>1, <1>2 DEF Descends, At

Path(calls, h, i) == {At(calls, h, j)[2] : j \in 1..i}

PathsOver(calls, c, root) ==
  \A i \in 1..Len(calls) :
    Chain(c, At(calls, held, i)[2]) = Over(obj.cus[c].dies)[root] \cup Path(calls, held, i)

(* The DIEs of the calls are those over the last one, down from the root.     *)
LEMMA PathOver ==
  ASSUME Types, NEW calls, NEW U, Owns(calls, U, held), NEW c \in 1..Len(obj.cus), NEW root,
         Descends(calls, held, c, root), root \in 0..Len(obj.cus[c].dies)
  PROVE  PathsOver(calls, c, root)
<1> DEFINE over == Over(obj.cus[c].dies)
           a(i) == At(calls, held, i)[2]
           Right(i) == over[a(i)] = over[root] \cup {a(j) : j \in 1..i}
           Wrong == {i \in 1..Len(calls) : ~Right(i)}
<1>1. Len(calls) \in Nat
  BY DEF Owns
<1>2. TreeOf(obj.cus[c].dies)
  BY UnitTree
<1>3. ASSUME NEW i \in 1..Len(calls)
      PROVE  /\ over[a(i)] = {a(i)} \cup over[IF i = 1 THEN root ELSE a(i - 1)]
  <2>1. At(calls, held, i) \in AllDies /\ At(calls, held, i)[1] = c
    BY AtIs DEF Descends, At
  <2>2. a(i) \in 1..Len(obj.cus[c].dies)
    BY <2>1, DieTypes
  <2>3. Die(At(calls, held, i)) = obj.cus[c].dies[a(i)]
    BY <2>1 DEF Die
  <2>4. Die(At(calls, held, i)).parent = IF i = 1 THEN root ELSE a(i - 1)
    BY DEF Descends, At
  <2> HIDE DEF a
  <2> QED BY <1>2, <2>2, <2>3, <2>4, OverOne
<1>4. Wrong = {}
  <2> SUFFICES ASSUME Wrong # {} PROVE FALSE
    OBVIOUS
  <2>1. Wrong \in SUBSET Nat
    BY <1>1
  <2> HIDE DEF Right
  <2>2. PICK i \in Wrong : \A j \in Wrong : i <= j
    BY <2>1, LeastNatural
  <2>3. i \in 1..Len(calls)
    BY <2>2
  <2>4. CASE i = 1
    <3>1. {a(j) : j \in 1..1} = {a(1)}
      <4> HIDE DEF a
      <4>1. 1..1 = {1}
        OBVIOUS
      <4> QED BY <4>1
    <3>2. over[a(1)] = {a(1)} \cup over[root]
      BY <1>3, <2>3, <2>4
    <3>3. Right(1)
      <4> HIDE DEF a, over
      <4> QED BY <3>1, <3>2 DEF Right
    <3> QED BY <2>2, <2>4, <3>3
  <2>5. CASE i # 1
    <3>1. i - 1 \in 1..Len(calls) /\ ~(i <= i - 1)
      BY <1>1, <2>3, <2>5
    <3>2. Right(i - 1)
      BY <2>2, <3>1
    <3>3. over[a(i)] = {a(i)} \cup over[a(i - 1)]
      BY <1>3, <2>3, <2>5
    <3>4. 1..i = 1..(i - 1) \cup {i}
      BY <2>3, <2>5
    <3>5. Right(i)
      <4> HIDE DEF a, over
      <4> QED BY <3>2, <3>3, <3>4 DEF Right
    <3> QED BY <2>2, <3>5
  <2> QED BY <2>4, <2>5
<1> QED BY <1>4 DEF PathsOver, Chain, Path

(* Each is after the one above it, and its level is what -i and -S print.      *)
LEMMA PathRises ==
  ASSUME Types, NEW calls, NEW U, Owns(calls, U, held), NEW c \in 1..Len(obj.cus), NEW root,
         Descends(calls, held, c, root), root \in 0..Len(obj.cus[c].dies)
  PROVE  /\ \A i, j \in 1..Len(calls) :
              i < j => At(calls, held, i)[2] < At(calls, held, j)[2]
         /\ root = 0 => \A i \in 1..Len(calls) :
              Cardinality(Chain(c, At(calls, held, i)[2])) = i
<1> DEFINE a(i) == At(calls, held, i)[2]
           Rises(j) == \A i \in 1..(j - 1) : a(i) < a(j)
           Deep(i) == Cardinality(Chain(c, a(i))) = i
           Wrong == {j \in 1..Len(calls) : ~Rises(j)}
           Off == {i \in 1..Len(calls) : ~Deep(i)}
<1>1. Len(calls) \in Nat
  BY DEF Owns
<1>2. TreeOf(obj.cus[c].dies)
  BY UnitTree
<1>3. ASSUME NEW i \in 1..Len(calls)
      PROVE  /\ a(i) \in 1..Len(obj.cus[c].dies)
             /\ obj.cus[c].dies[a(i)].parent = IF i = 1 THEN root ELSE a(i - 1)
  <2>1. At(calls, held, i) \in AllDies /\ At(calls, held, i)[1] = c
    BY AtIs DEF Descends, At
  <2>2. a(i) \in 1..Len(obj.cus[c].dies)
    BY <2>1, DieTypes
  <2>3. Die(At(calls, held, i)) = obj.cus[c].dies[a(i)]
    BY <2>1 DEF Die
  <2>4. Die(At(calls, held, i)).parent = IF i = 1 THEN root ELSE a(i - 1)
    BY DEF Descends, At
  <2> QED BY <2>2, <2>3, <2>4
<1> HIDE DEF a
<1>4. \A i \in 1..Len(calls) : i # 1 => a(i - 1) < a(i) /\ a(i) \in Nat /\ a(i - 1) \in Nat
  <2> SUFFICES ASSUME NEW i \in 1..Len(calls), i # 1
               PROVE  a(i - 1) < a(i) /\ a(i) \in Nat /\ a(i - 1) \in Nat
    OBVIOUS
  <2>1. a(i) \in 1..Len(obj.cus[c].dies) /\ obj.cus[c].dies[a(i)].parent = a(i - 1)
    BY <1>3
  <2>2. a(i - 1) \in 0..(a(i) - 1)
    BY <1>2, <2>1, TreeFacts
  <2> QED BY <2>1, <2>2
<1>5. Wrong = {}
  <2> SUFFICES ASSUME Wrong # {} PROVE FALSE
    OBVIOUS
  <2>1. Wrong \in SUBSET Nat
    BY <1>1
  <2> HIDE DEF Rises
  <2>2. PICK j \in Wrong : \A x \in Wrong : j <= x
    BY <2>1, LeastNatural
  <2>3. j \in 1..Len(calls)
    BY <2>2
  <2>4. j # 1
    <3>1. Rises(1)
      BY DEF Rises
    <3> QED BY <2>2, <3>1
  <2>5. j - 1 \in 1..Len(calls) /\ ~(j <= j - 1)
    BY <1>1, <2>3, <2>4
  <2>6. Rises(j - 1)
    BY <2>2, <2>5
  <2>7. ASSUME NEW i \in 1..(j - 1) PROVE a(i) < a(j)
    <3>1. a(j - 1) < a(j) /\ a(j) \in Nat /\ a(j - 1) \in Nat
      BY <1>4, <2>3, <2>4
    <3>2. CASE i = j - 1
      BY <3>1, <3>2
    <3>3. CASE i # j - 1
      <4>1. i \in 1..((j - 1) - 1) /\ i \in 1..Len(calls)
        BY <1>1, <2>3, <3>3
      <4>2. a(i) < a(j - 1) /\ a(i) \in Nat
        <5>1. a(i) \in 1..Len(obj.cus[c].dies)
          BY <1>3, <4>1
        <5> QED BY <2>6, <4>1, <5>1 DEF Rises
      <4> QED BY <3>1, <4>2
    <3> QED BY <3>2, <3>3
  <2> QED BY <2>2, <2>7 DEF Rises
<1>6. root = 0 => Off = {}
  <2> SUFFICES ASSUME root = 0, Off # {} PROVE FALSE
    OBVIOUS
  <2>1. Off \in SUBSET Nat
    BY <1>1
  <2> HIDE DEF Deep
  <2>2. PICK i \in Off : \A x \in Off : i <= x
    BY <2>1, LeastNatural
  <2>3. i \in 1..Len(calls) /\ a(i) \in 1..Len(obj.cus[c].dies)
    BY <1>3, <2>2
  <2>4. CASE i = 1
    <3>1. obj.cus[c].dies[a(i)].parent = 0
      BY <1>3, <2>3, <2>4
    <3>2. Cardinality(Over(obj.cus[c].dies)[a(i)]) = 1
      BY <1>2, <2>3, <3>1, OverCounts
    <3> QED BY <2>2, <2>4, <3>2 DEF Deep, Chain
  <2>5. CASE i # 1
    <3>1. i - 1 \in 1..Len(calls) /\ ~(i <= i - 1)
      BY <1>1, <2>3, <2>5
    <3>2. Deep(i - 1)
      BY <2>2, <3>1
    <3>3. obj.cus[c].dies[a(i)].parent = a(i - 1)
      BY <1>3, <2>3, <2>5
    <3>4. Cardinality(Over(obj.cus[c].dies)[a(i)])
            = Cardinality(Over(obj.cus[c].dies)[a(i - 1)]) + 1
      BY <1>2, <2>3, <3>3, OverCounts
    <3>5. Cardinality(Over(obj.cus[c].dies)[a(i)]) = (i - 1) + 1
      BY <3>2, <3>4 DEF Deep, Chain
    <3>6. (i - 1) + 1 = i
      BY <2>3
    <3> QED BY <2>2, <3>5, <3>6 DEF Deep, Chain
  <2> QED BY <2>4, <2>5
<1>7. ASSUME NEW i \in 1..Len(calls), NEW j \in 1..Len(calls), i < j PROVE a(i) < a(j)
  <2>1. i \in 1..(j - 1)
    BY <1>1, <1>7
  <2> QED BY <1>5, <2>1
<1> QED BY <1>6, <1>7 DEF a

-------------------------------------------------------------------------------
(* What is to be printed, and one entry more.                                *)

(* What is printed when the walk comes to a DIE.                             *)
DueAt(d) ==
  IF opt.info THEN {d}
  ELSE IF opt.search /\ Die(d).match THEN {<<d[1], j>> : j \in Chain(d[1], d[2])} ELSE {}

LEMMA WalkedIs ==
  ASSUME Types
  PROVE  /\ Named \subseteq 1..Len(obj.cus) /\ Walked \subseteq Named
         /\ IsFiniteSet(Named) /\ Len(obj.cus) \in Nat
<1>1. Len(obj.cus) \in Nat /\ DOMAIN obj.cus = 1..Len(obj.cus)
  BY ObjectType
<1>2. Named \subseteq 1..Len(obj.cus) /\ Walked \subseteq Named
  BY <1>1 DEF Named, Walked
<1>3. IsFiniteSet(1..Len(obj.cus))
  BY <1>1, FS_Interval
<1> QED BY <1>1, <1>2, <1>3, FS_Subset

WalkedDies == {d \in AllDies : d[1] \in Walked}

LEMMA DueIs ==
  ASSUME Types, NEW r
  PROVE  /\ DueBefore(r) =
              {d \in WalkedDies :
                 IF opt.info THEN Before(d, r)
                 ELSE opt.search /\ \E j \in 1..Len(obj.cus[d[1]].dies) :
                        /\ obj.cus[d[1]].dies[j].match /\ d[2] \in Chain(d[1], j)
                        /\ Before(<<d[1], j>>, r)}
         /\ Wanted =
              {d \in WalkedDies :
                 opt.info \/ (opt.search /\ \E j \in 1..Len(obj.cus[d[1]].dies) :
                                obj.cus[d[1]].dies[j].match /\ d[2] \in Chain(d[1], j))}
<1>1. ASSUME NEW c \in Walked
      PROVE  /\ DOMAIN obj.cus[c].dies = 1..Len(obj.cus[c].dies) /\ c \in Nat
             /\ c \in 1..Len(obj.cus) /\ Len(obj.cus[c].dies) \in Nat
  BY WalkedIs, UnitTree
<1>2. ASSUME NEW d
      PROVE  d \in UNION {{c} \X (DOMAIN obj.cus[c].dies) : c \in Walked} <=> d \in WalkedDies
  <2>1. ASSUME d \in UNION {{c} \X (DOMAIN obj.cus[c].dies) : c \in Walked}
        PROVE  d \in WalkedDies
    <3>1. PICK c \in Walked : d \in {c} \X (DOMAIN obj.cus[c].dies)
      BY <2>1
    <3>2. d[1] = c /\ d[2] \in 1..Len(obj.cus[c].dies) /\ d = <<d[1], d[2]>>
      BY <1>1, <3>1
    <3>3. d[1] \in Nat /\ d[2] \in Nat
      BY <1>1, <3>2
    <3> QED BY <1>1, <3>2, <3>3 DEF WalkedDies, AllDies
  <2>2. ASSUME d \in WalkedDies
        PROVE  d \in UNION {{c} \X (DOMAIN obj.cus[c].dies) : c \in Walked}
    <3>1. d = <<d[1], d[2]>> /\ d[1] \in Walked /\ d[2] \in 1..Len(obj.cus[d[1]].dies)
      BY <2>2, DieTypes DEF WalkedDies
    <3>2. d \in {d[1]} \X (DOMAIN obj.cus[d[1]].dies)
      BY <1>1, <3>1
    <3> QED BY <3>1, <3>2
  <2> QED BY <2>1, <2>2
<1>3. UNION {{c} \X (DOMAIN obj.cus[c].dies) : c \in Walked} = WalkedDies
  BY <1>2
<1>4. \A d \in WalkedDies : DOMAIN obj.cus[d[1]].dies = 1..Len(obj.cus[d[1]].dies)
  BY <1>1 DEF WalkedDies
<1>5. DueBefore(r) =
        {d \in WalkedDies :
           IF opt.info THEN Before(d, r)
           ELSE opt.search /\ \E j \in 1..Len(obj.cus[d[1]].dies) :
                  /\ obj.cus[d[1]].dies[j].match /\ d[2] \in Chain(d[1], j)
                  /\ Before(<<d[1], j>>, r)}
  BY <1>3, <1>4, Zenon DEF DueBefore
<1>6. Wanted =
        {d \in WalkedDies :
           opt.info \/ (opt.search /\ \E j \in 1..Len(obj.cus[d[1]].dies) :
                          obj.cus[d[1]].dies[j].match /\ d[2] \in Chain(d[1], j))}
  BY <1>3, <1>4, Zenon DEF Wanted
<1> QED BY <1>5, <1>6

(* The same DIEs are before r as before q, or those of no unit walked.        *)
LEMMA DueSame ==
  ASSUME Types, NEW r, NEW q, \A d \in WalkedDies : Before(d, r) <=> Before(d, q)
  PROVE  DueBefore(r) = DueBefore(q)
<1>1. ASSUME NEW d \in WalkedDies, NEW j \in 1..Len(obj.cus[d[1]].dies)
      PROVE  Before(<<d[1], j>>, r) <=> Before(<<d[1], j>>, q)
  <2>1. <<d[1], j>> \in WalkedDies
    <3>1. d[1] \in Walked /\ d[1] \in 1..Len(obj.cus) /\ d[1] \in Nat
      BY DieTypes DEF WalkedDies
    <3>2. j \in Nat
      BY <3>1, UnitTree
    <3> QED BY <3>1, <3>2 DEF WalkedDies, AllDies
  <2> QED BY <2>1
<1>2. ASSUME NEW d \in WalkedDies PROVE d \in DueBefore(r) <=> d \in DueBefore(q)
  BY <1>1, <1>2, DueIs
<1>3. DueBefore(r) \subseteq WalkedDies /\ DueBefore(q) \subseteq WalkedDies
  BY DueIs
<1> QED BY <1>2, <1>3

LEMMA DueAll ==
  ASSUME Types, NEW r, \A d \in WalkedDies : Before(d, r)
  PROVE  DueBefore(r) = Wanted
<1>1. ASSUME NEW d \in WalkedDies, NEW j \in 1..Len(obj.cus[d[1]].dies)
      PROVE  Before(<<d[1], j>>, r)
  <2>1. <<d[1], j>> \in WalkedDies
    <3>1. d[1] \in Walked /\ d[1] \in 1..Len(obj.cus) /\ d[1] \in Nat
      BY DieTypes DEF WalkedDies
    <3>2. j \in Nat
      BY <3>1, UnitTree
    <3> QED BY <3>1, <3>2 DEF WalkedDies, AllDies
  <2> QED BY <2>1
<1>2. ASSUME NEW d \in WalkedDies PROVE d \in DueBefore(r) <=> d \in Wanted
  BY <1>1, <1>2, DueIs
<1>3. DueBefore(r) \subseteq WalkedDies /\ Wanted \subseteq WalkedDies
  BY DueIs
<1> QED BY <1>2, <1>3

(* The walk comes to one DIE more.                                          *)
LEMMA DueGrows ==
  ASSUME Types, NEW d \in WalkedDies
  PROVE  DueBefore(<<d[1], d[2] + 1>>) = DueBefore(d) \cup DueAt(d)
<1> DEFINE c == d[1]
           k == d[2]
           next == <<c, k + 1>>
<1>1. /\ d = <<c, k>> /\ c \in 1..Len(obj.cus) /\ k \in 1..Len(obj.cus[c].dies)
      /\ TreeOf(obj.cus[c].dies) /\ c \in Nat /\ k \in Nat /\ c \in Walked
      /\ Die(d) = obj.cus[c].dies[k]
  BY DieTypes DEF WalkedDies
<1>2. ASSUME NEW e \in Nat \X Nat PROVE Before(e, next) <=> Before(e, d) \/ e = d
  <2>1. e = <<e[1], e[2]>> /\ e[1] \in Nat /\ e[2] \in Nat
    BY <1>2
  <2>2. e = d <=> e[1] = c /\ e[2] = k
    BY <1>1, <2>1
  <2>3. next[1] = c /\ next[2] = k + 1 /\ d[1] = c /\ d[2] = k
    OBVIOUS
  <2>4. e[2] < k + 1 <=> e[2] < k \/ e[2] = k
    BY <1>1, <2>1
  <2> QED BY <2>2, <2>3, <2>4 DEF Before
<1> HIDE DEF next
<1>3. ASSUME NEW e \in WalkedDies PROVE e \in DueBefore(next) <=> e \in DueBefore(d) \cup DueAt(d)
  <2>1. e \in Nat \X Nat /\ e = <<e[1], e[2]>> /\ e[1] \in 1..Len(obj.cus) /\ e \in AllDies
        /\ Len(obj.cus[e[1]].dies) \in Nat
    BY DieTypes, UnitTree DEF WalkedDies, AllDies
  <2>2. CASE opt.info
    BY <1>2, <2>1, <2>2, DueIs DEF DueAt
  <2>3. CASE ~opt.info
    <3>1. e \in DueBefore(next) <=>
            opt.search /\ \E j \in 1..Len(obj.cus[e[1]].dies) :
              /\ obj.cus[e[1]].dies[j].match /\ e[2] \in Chain(e[1], j)
              /\ (Before(<<e[1], j>>, d) \/ <<e[1], j>> = d)
      <4>1. \A j \in 1..Len(obj.cus[e[1]].dies) :
              Before(<<e[1], j>>, next) <=> Before(<<e[1], j>>, d) \/ <<e[1], j>> = d
        <5>1. \A j \in 1..Len(obj.cus[e[1]].dies) : <<e[1], j>> \in Nat \X Nat
          BY <2>1
        <5> QED BY <1>2, <5>1
      <4> QED BY <2>3, <4>1, DueIs
    <3>2. e \in DueBefore(d) <=>
            opt.search /\ \E j \in 1..Len(obj.cus[e[1]].dies) :
              /\ obj.cus[e[1]].dies[j].match /\ e[2] \in Chain(e[1], j)
              /\ Before(<<e[1], j>>, d)
      BY <2>3, DueIs
    <3>3. e \in DueAt(d) <=>
            opt.search /\ \E j \in 1..Len(obj.cus[e[1]].dies) :
              /\ obj.cus[e[1]].dies[j].match /\ e[2] \in Chain(e[1], j)
              /\ <<e[1], j>> = d
      <4>1. e \in DueAt(d) <=> /\ opt.search /\ obj.cus[c].dies[k].match
                               /\ \E x \in Chain(c, k) : e = <<c, x>>
        BY <1>1, <2>3 DEF DueAt
      <4>2. (\E x \in Chain(c, k) : e = <<c, x>>) <=> e[1] = c /\ e[2] \in Chain(c, k)
        BY <2>1
      <4>3. \A j : <<e[1], j>> = d <=> e[1] = c /\ j = k
        BY <1>1
      <4>4. e[1] = c => k \in 1..Len(obj.cus[e[1]].dies)
        BY <1>1
      <4> HIDE DEF c, k
      <4> QED BY <4>1, <4>2, <4>3, <4>4
    <3> QED BY <3>1, <3>2, <3>3
  <2> QED BY <2>2, <2>3
<1>4. DueBefore(next) \subseteq WalkedDies /\ DueBefore(d) \subseteq WalkedDies
  BY DueIs
<1>5. DueAt(d) \subseteq WalkedDies
  <2>1. ASSUME NEW j \in Chain(c, k) PROVE <<c, j>> \in WalkedDies
    <3>1. j \in 1..Len(obj.cus[c].dies) /\ Len(obj.cus[c].dies) \in Nat
      BY <1>1, OverIsBefore, UnitTree DEF Chain
    <3> QED BY <1>1, <3>1 DEF WalkedDies, AllDies
  <2> QED BY <2>1 DEF DueAt
<1> QED BY <1>3, <1>4, <1>5 DEF next

(* Everything printed before is before the DIEs to print now that were not.   *)
LEMMA DueOrder ==
  ASSUME Types, NEW d \in WalkedDies, NEW a \in DueAt(d), a \notin DueBefore(d),
         NEW e \in DueBefore(d)
  PROVE  Before(e, a)
<1> DEFINE c == d[1]
           k == d[2]
           dies == obj.cus[c].dies
<1>1. /\ d = <<c, k>> /\ c \in 1..Len(obj.cus) /\ k \in 1..Len(dies)
      /\ TreeOf(dies) /\ c \in Nat /\ k \in Nat /\ c \in Walked
  BY DieTypes DEF WalkedDies
<1>2. CASE opt.info
  BY <1>2, DueIs DEF DueAt
<1>3. CASE ~opt.info
  <2>1. PICK j \in Chain(c, k) : a = <<c, j>>
    BY <1>3 DEF DueAt
  <2>2. opt.search
    BY <1>3 DEF DueAt
  <2>3. PICK x \in 1..Len(obj.cus[e[1]].dies) :
          /\ obj.cus[e[1]].dies[x].match /\ e[2] \in Chain(e[1], x)
          /\ Before(<<e[1], x>>, d)
    BY <1>3, DueIs
  <2>4. e \in WalkedDies
    BY DueIs
  <2>5. /\ e = <<e[1], e[2]>> /\ e[1] \in 1..Len(obj.cus) /\ e[2] \in 1..Len(obj.cus[e[1]].dies)
        /\ TreeOf(obj.cus[e[1]].dies) /\ e[1] \in Nat /\ e[2] \in Nat
    BY <2>4, DieTypes DEF WalkedDies
  <2>6. e[2] <= x /\ x \in Nat /\ x < After(obj.cus[e[1]].dies, e[2])
    <3>1. e[2] \in Over(obj.cus[e[1]].dies)[x]
      BY <2>3 DEF Chain
    <3>2. Len(obj.cus[e[1]].dies) \in Nat
      BY <2>5, UnitTree
    <3> QED BY <2>3, <2>5, <3>1, <3>2, OverIsBefore
  <2>7. j \in 1..Len(dies) /\ j <= k /\ k < After(dies, j)
    BY <1>1, OverIsBefore DEF Chain
  <2>8. CASE e[1] # c
    BY <1>1, <2>1, <2>3, <2>8 DEF Before
  <2>9. CASE e[1] = c
    <3>1. x < k
      BY <1>1, <2>3, <2>9 DEF Before
    <3>2. ~(j <= e[2])
      <4> SUFFICES ASSUME j <= e[2] PROVE FALSE
        OBVIOUS
      <4>1. j <= x /\ x < After(dies, j)
        <5>1. After(dies, j) \in Int
          BY <1>1, <2>7, AfterIs DEF EndsAt
        <5>2. j \in Nat
          BY <1>1, <2>7, UnitTree
        <5> QED BY <1>1, <2>5, <2>6, <2>7, <3>1, <5>1, <5>2
      <4>2. j \in Over(dies)[x]
        BY <1>1, <2>6, <2>7, <4>1, BelowIt
      <4>3. a \in WalkedDies
        <5>1. j \in Nat
          BY <1>1, <2>7, UnitTree
        <5> QED BY <1>1, <2>1, <2>7, <5>1 DEF WalkedDies, AllDies
      <4>4. a[1] = c /\ a[2] = j
        BY <2>1
      <4>5. a[2] \in Chain(a[1], x)
        BY <4>2, <4>4 DEF Chain
      <4>6. a \in DueBefore(d)
        BY <1>3, <2>2, <2>3, <2>9, <4>3, <4>4, <4>5, DueIs
      <4> QED BY <4>6
    <3>3. e[2] < j
      <4>1. j \in Nat
        BY <1>1, <2>7, UnitTree
      <4> QED BY <2>5, <3>2, <4>1
    <3> QED BY <2>1, <2>9, <3>3 DEF Before
  <2> QED BY <2>8, <2>9
<1> QED BY <1>2, <1>3

LEMMA DueAtIs ==
  ASSUME Types, NEW d \in WalkedDies, NEW a \in DueAt(d), opt.info \/ opt.search
  PROVE  a \in Wanted /\ a \in AllDies
<1>1. d \in AllDies /\ d[1] \in Walked
  BY DEF WalkedDies
<1>2. CASE opt.info
  BY <1>1, <1>2, DueIs DEF DueAt
<1>3. CASE ~opt.info
  <2>1. /\ d[2] \in 1..Len(obj.cus[d[1]].dies) /\ d[1] \in 1..Len(obj.cus)
        /\ TreeOf(obj.cus[d[1]].dies) /\ d[1] \in Nat
    BY <1>1, DieTypes
  <2>2. PICK j \in Chain(d[1], d[2]) : a = <<d[1], j>>
    BY <1>3 DEF DueAt
  <2>3. j \in 1..Len(obj.cus[d[1]].dies)
    BY <2>1, OverIsBefore DEF Chain
  <2>4. j \in Nat
    BY <2>1, <2>3, UnitTree
  <2>5. a \in WalkedDies /\ a[1] = d[1] /\ a[2] = j
    BY <1>1, <2>1, <2>2, <2>3, <2>4 DEF WalkedDies, AllDies
  <2>6. opt.search /\ obj.cus[d[1]].dies[d[2]].match
    BY <1>3 DEF DueAt, Die
  <2> QED BY <2>1, <2>2, <2>5, <2>6, DueIs DEF WalkedDies
<1> QED BY <1>2, <1>3

LEMMA OneEntryMore ==
  ASSUME Types, NEW es, EntriesRight(es), NEW d \in AllDies, d \in Wanted, NEW level \in Nat,
         level = Cardinality(Chain(d[1], d[2])) - 1,
         \A e \in DiesOfEntries(es) : Before(e, d)
  PROVE  LET now == Append(es, [die |-> d, level |-> level])
         IN EntriesRight(now) /\ DiesOfEntries(now) = DiesOfEntries(es) \cup {d}
<1> DEFINE entry == [die |-> d, level |-> level]
           now == Append(es, entry)
<1>1. es \in Seq(Entries) /\ entry \in Entries /\ Len(es) \in Nat
  BY DEF EntriesRight, Entries
<1>2. entry.die = d /\ entry.level = level
  OBVIOUS
<1> HIDE DEF entry
<1>3. /\ now \in Seq(Entries) /\ Len(now) = Len(es) + 1
      /\ now[Len(es) + 1] = entry /\ \A i \in 1..Len(es) : now[i] = es[i]
      /\ DOMAIN now = 1..(Len(es) + 1) /\ DOMAIN es = 1..Len(es)
  BY <1>1
<1> HIDE DEF now
<1>4. DiesOfEntries(now) = DiesOfEntries(es) \cup {d}
  <2>1. Range(now) = Range(es) \cup {entry}
    <3>1. \A i \in 1..(Len(es) + 1) : i \in 1..Len(es) \/ i = Len(es) + 1
      BY <1>1
    <3>2. \A i \in 1..Len(es) : i \in 1..(Len(es) + 1)
      BY <1>1
    <3>3. Len(es) + 1 \in 1..(Len(es) + 1)
      BY <1>1
    <3> QED BY <1>3, <3>1, <3>2, <3>3 DEF Range
  <2> QED BY <1>2, <2>1 DEF DiesOfEntries
<1>5. ASSUME NEW i \in 1..(Len(es) + 1)
      PROVE  /\ now[i].die \in Wanted
             /\ now[i].level = Cardinality(Chain(now[i].die[1], now[i].die[2])) - 1
             /\ i > 1 => Before(now[i - 1].die, now[i].die)
  <2>1. CASE i = Len(es) + 1
    <3>1. now[i] = entry
      BY <1>3, <2>1
    <3>2. i > 1 => now[i - 1] = es[i - 1] /\ es[i - 1].die \in DiesOfEntries(es)
      <4>1. i > 1 => i - 1 \in 1..Len(es)
        BY <1>1, <2>1
      <4> QED BY <1>3, <4>1 DEF DiesOfEntries, Range
    <3> QED BY <1>2, <3>1, <3>2
  <2>2. CASE i # Len(es) + 1
    <3>1. i \in 1..Len(es) /\ (i > 1 => i - 1 \in 1..Len(es))
      BY <1>1, <2>2
    <3> QED BY <1>3, <3>1 DEF EntriesRight
  <2> QED BY <2>1, <2>2
<1>6. EntriesRight(now)
  BY <1>3, <1>5 DEF EntriesRight
<1> QED BY <1>4, <1>6 DEF now, entry

(* The entry of each call is right, and what is printed next comes after all  *)
(* that was.                                                               *)
ReadyToPrint(set) ==
  /\ set.stack \in StackEntries /\ set.printed = printed /\ EntriesRight(printed)
  /\ \A i \in 1..Len(stack) :
       /\ set.stack[i - 1].die = stack[i].die
       /\ set.stack[i - 1].printed <=> At(stack, held, i) \in DiesOfEntries(printed)
  /\ \A i \in 1..Len(stack) : At(stack, held, i) \notin DiesOfEntries(printed) =>
       \A e \in DiesOfEntries(printed) : Before(e, At(stack, held, i))

WalkingUnit ==
  /\ Types /\ Owns(stack, UnitDie, held) /\ Len(stack) \in 1..DIE_STACK_SIZE
  /\ cu \in Walked /\ Descends(stack, held, cu, 0)

LEMMA PathIs ==
  ASSUME WalkingUnit
  PROVE  /\ cu \in 1..Len(obj.cus)
         /\ \A i \in 1..Len(stack) :
              /\ At(stack, held, i) \in WalkedDies /\ At(stack, held, i)[1] = cu
              /\ Cardinality(Chain(cu, At(stack, held, i)[2])) = i
              /\ Chain(cu, At(stack, held, i)[2]) = Path(stack, held, i)
         /\ \A i, j \in 1..Len(stack) :
              i < j => Before(At(stack, held, i), At(stack, held, j))
<1>1. Types /\ Owns(stack, UnitDie, held) /\ Descends(stack, held, cu, 0) /\ cu \in Walked
  BY DEF WalkingUnit
<1>2. cu \in 1..Len(obj.cus)
  BY <1>1, WalkedIs
<1>3. 0 \in 0..Len(obj.cus[cu].dies) /\ TreeOf(obj.cus[cu].dies)
  BY <1>1, <1>2, UnitTree
<1>4. \A i \in 1..Len(stack) :
        At(stack, held, i) \in WalkedDies /\ At(stack, held, i)[1] = cu
  BY <1>1, AtIs DEF WalkedDies, Descends, At
<1>5. \A i \in 1..Len(stack) : Cardinality(Chain(cu, At(stack, held, i)[2])) = i
  BY <1>1, <1>2, <1>3, PathRises
<1>6. \A i, j \in 1..Len(stack) :
        i < j => At(stack, held, i)[2] < At(stack, held, j)[2]
  BY <1>1, <1>2, <1>3, PathRises
<1>7. Over(obj.cus[cu].dies)[0] = {}
  <2>1. Over(obj.cus[cu].dies)[0]
          = IF 0 = 0 THEN {} ELSE {0} \cup Over(obj.cus[cu].dies)[obj.cus[cu].dies[0].parent]
    BY <1>3, OverIs
  <2> QED BY <2>1
<1>8. \A i \in 1..Len(stack) : Chain(cu, At(stack, held, i)[2]) = Path(stack, held, i)
  <2>1. PathsOver(stack, cu, 0)
    BY <1>1, <1>2, <1>3, PathOver
  <2> QED BY <1>7, <2>1 DEF PathsOver
<1> QED BY <1>2, <1>4, <1>5, <1>6, <1>8 DEF Before

LEMMA OneLevelPrinted ==
  ASSUME WalkingUnit, NEW set, ReadyToPrint(set), NEW k \in 1..Len(stack),
         At(stack, held, k) \in Wanted, NEW was, EntriesRight(was.printed),
         NEW above \in SUBSET (1..(k - 1)),
         DiesOfEntries(was.printed)
           = DiesOfEntries(printed) \cup {At(stack, held, j) : j \in above},
         was.stack[k - 1] = set.stack[k - 1]
  PROVE  LET now == print_one_die(was, k - 1)
         IN /\ EntriesRight(now.printed)
            /\ DiesOfEntries(now.printed)
                 = DiesOfEntries(was.printed) \cup {At(stack, held, k)}
<1> DEFINE now == print_one_die(was, k - 1)
           d == At(stack, held, k)
<1>1. /\ set.stack[k - 1].die = stack[k].die
      /\ set.stack[k - 1].printed <=> d \in DiesOfEntries(printed)
  BY DEF ReadyToPrint
<1>2. CASE was.stack[k - 1].printed
  <2>1. now = was /\ d \in DiesOfEntries(was.printed)
    BY <1>1, <1>2 DEF print_one_die
  <2> QED BY <2>1
<1>3. CASE ~was.stack[k - 1].printed
  <2>1. now.printed = Append(was.printed, [die |-> d, level |-> k - 1])
    BY <1>1, <1>3 DEF print_one_die, At
  <2>2. d \notin DiesOfEntries(printed)
    BY <1>1, <1>3
  <2>3. /\ d \in AllDies /\ d[1] = cu /\ Cardinality(Chain(d[1], d[2])) = k
        /\ \A j \in 1..(k - 1) : Before(At(stack, held, j), d)
    <3>1. Len(stack) \in Nat
      BY DEF WalkingUnit
    <3>2. \A j \in 1..(k - 1) : j \in 1..Len(stack) /\ j < k
      BY <3>1
    <3> QED BY <3>2, PathIs DEF WalkedDies
  <2>4. \A e \in DiesOfEntries(was.printed) : Before(e, d)
    <3>1. \A e \in DiesOfEntries(printed) : Before(e, d)
      BY <2>2 DEF ReadyToPrint
    <3> QED BY <2>3, <3>1
  <2>5. Types /\ k - 1 \in Nat
    BY DEF WalkingUnit
  <2> HIDE DEF d
  <2>6. /\ EntriesRight(Append(was.printed, [die |-> d, level |-> k - 1]))
        /\ DiesOfEntries(Append(was.printed, [die |-> d, level |-> k - 1]))
             = DiesOfEntries(was.printed) \cup {d}
    <3>1. d \in Wanted
      BY DEF d
    <3> QED BY <2>3, <2>4, <2>5, <3>1, OneEntryMore
  <2> QED BY <2>1, <2>6 DEF d
<1> QED BY <1>2, <1>3

LEMMA LevelsRight ==
  ASSUME WalkingUnit, NEW set, ReadyToPrint(set),
         \A i \in 1..Len(stack) : At(stack, held, i) \in Wanted
  PROVE  LET now == print_die_stack(set)
         IN /\ EntriesRight(now.printed)
            /\ DiesOfEntries(now.printed)
                 = DiesOfEntries(printed) \cup {At(stack, held, j) : j \in 1..Len(stack)}
<1> DEFINE n == Len(stack)
           after == LevelsPrinted(set)
           Right(k) == /\ EntriesRight(after[k].printed)
                       /\ DiesOfEntries(after[k].printed)
                            = DiesOfEntries(printed) \cup {At(stack, held, j) : j \in 1..k}
           Wrong == {k \in 0..n : ~Right(k)}
<1>1. n \in Nat /\ n <= DIE_STACK_SIZE /\ DIE_STACK_SIZE \in Nat
  BY DepthAssumption DEF WalkingUnit
<1>2. Right(0)
  <2>1. after[0] = set
    BY <1>1, LevelsTurns
  <2>2. {At(stack, held, j) : j \in 1..0} = {}
    OBVIOUS
  <2> QED BY <2>1, <2>2 DEF ReadyToPrint
<1>3. ASSUME NEW k \in 1..n, Right(k - 1) PROVE Right(k)
  <2>1. after[k] = print_one_die(after[k - 1], k - 1)
    BY <1>1, LevelsTurns
  <2>2. after[k - 1].stack[k - 1] = set.stack[k - 1]
    <3>1. MarkedTo(set.stack, after[k - 1].stack, k - 1)
      BY <1>1, LevelsMarked DEF ReadyToPrint
    <3>2. k - 1 \in 0..DIE_STACK_SIZE /\ ~(k - 1 < k - 1)
      BY <1>1
    <3> QED BY <3>1, <3>2 DEF MarkedTo
  <2> HIDE DEF after
  <2>3. /\ EntriesRight(after[k].printed)
        /\ DiesOfEntries(after[k].printed)
             = DiesOfEntries(after[k - 1].printed) \cup {At(stack, held, k)}
    <3>1. 1..(k - 1) \in SUBSET (1..(k - 1))
      OBVIOUS
    <3> QED BY <1>3, <2>1, <2>2, <3>1, OneLevelPrinted
  <2>4. 1..k = 1..(k - 1) \cup {k}
    OBVIOUS
  <2>5. {At(stack, held, j) : j \in 1..k}
          = {At(stack, held, j) : j \in 1..(k - 1)} \cup {At(stack, held, k)}
    BY <2>4
  <2> QED BY <1>3, <2>3, <2>5
<1>4. Wrong = {}
  <2> SUFFICES ASSUME Wrong # {} PROVE FALSE
    OBVIOUS
  <2>1. Wrong \in SUBSET Nat
    BY <1>1
  <2> HIDE DEF Right
  <2>2. PICK k \in Wrong : \A x \in Wrong : k <= x
    BY <2>1, LeastNatural
  <2>3. k # 0
    BY <1>2
  <2>4. k \in 1..n /\ k - 1 \in 0..n /\ ~(k <= k - 1)
    BY <1>1, <2>2, <2>3
  <2>5. Right(k - 1)
    BY <2>2, <2>4
  <2> QED BY <1>3, <2>2, <2>4, <2>5
<1>5. Right(n)
  BY <1>1, <1>4
<1> QED BY <1>5 DEF print_die_stack
-------------------------------------------------------------------------------
(* What is printed: the steps.                                               *)

LEMMA SameMember ==
  ASSUME UNCHANGED <<run, m>>
  PROVE  /\ obj' = obj /\ opt' = opt /\ AllDies' = AllDies /\ Named' = Named /\ Walked' = Walked
         /\ \A c, j : Chain(c, j)' = Chain(c, j)
<1>1. obj' = obj /\ opt' = opt
  BY DEF obj, opt
<1>2. AllDies' = AllDies
  BY <1>1 DEF AllDies
<1>3. Named' = Named
  BY <1>1 DEF Named
<1>4. Walked' = Walked
  BY <1>1, <1>3 DEF Walked
<1>5. ASSUME NEW c, NEW j PROVE Chain(c, j)' = Chain(c, j)
  BY <1>1 DEF Chain
<1> QED BY <1>1, <1>2, <1>3, <1>4, <1>5

LEMMA SameDue ==
  ASSUME UNCHANGED <<run, m>>, NEW r
  PROVE  DueBefore(r)' = DueBefore(r)
  BY SameMember DEF DueBefore

LEMMA SameWanted ==
  ASSUME UNCHANGED <<run, m>>
  PROVE  Wanted' = Wanted
  BY SameMember DEF Wanted

LEMMA SameDescends ==
  ASSUME UNCHANGED <<run, m>>, NEW calls, NEW h, NEW c, NEW root
  PROVE  Descends(calls, h, c, root)' = Descends(calls, h, c, root)
<1>1. obj' = obj
  BY SameMember
<1> QED BY <1>1, ZenonT(30) DEF Descends, Die

(* What is to be shown of a step that stays in the member.                   *)
LEMMA PrintedKept ==
  ASSUME UNCHANGED <<run, m>>, EntriesRight(printed'),
         phase' # "exit" => /\ UnitsCounted' /\ StackTells'
                            /\ DiesOfEntries(printed') = DueBefore(Reached')
  PROVE  PrintedInv'
<1>1. ASSUME NEW r, r = Reached' PROVE DueBefore(Reached)' = DueBefore(r)
  BY <1>1, SameDue DEF DueBefore
<1>2. EntriesRight(printed)' = EntriesRight(printed')
  BY SameMember, SameWanted DEF EntriesRight, Entries
<1> QED BY <1>1, <1>2 DEF PrintedInv

LEMMA StackKept ==
  ASSUME UNCHANGED <<run, m>>,
         phase' = "walk" =>
           /\ Descends(stack', held', cu', 0)
           /\ \A i \in 1..Len(stack') :
                stack'[i].visited => die_stack'[i - 1].die = stack'[i].die
           /\ \A i \in 1..Len(stack') :
                die_stack'[i - 1].printed <=> held'[stack'[i].die] \in DiesOfEntries(printed')
  PROVE  StackTells'
<1>1. Descends(stack, held, cu, 0)' = Descends(stack', held', cu', 0)
  <2>1. obj' = obj
    BY SameMember
  <2> QED BY <2>1, ZenonT(30) DEF Descends, Die
<1> QED BY <1>1 DEF StackTells, DiesOfEntries

(* The DIE that the walk is at is not due: what is due is over, or is, a DIE   *)
(* before.                                                                 *)
LEMMA NotDueYet ==
  ASSUME Types, NEW d \in AllDies
  PROVE  d \notin DueBefore(d)
<1> SUFFICES ASSUME d \in DueBefore(d) PROVE FALSE
  OBVIOUS
<1>1. /\ d[1] \in Nat /\ d[2] \in Nat
      /\ IF opt.info THEN Before(d, d)
         ELSE \E j \in 1..Len(obj.cus[d[1]].dies) :
                d[2] \in Chain(d[1], j) /\ Before(<<d[1], j>>, d)
  BY DueIs, DieTypes
<1>2. ~Before(d, d)
  BY <1>1 DEF Before
<1>3. PICK j \in 1..Len(obj.cus[d[1]].dies) : d[2] \in Chain(d[1], j) /\ Before(<<d[1], j>>, d)
  BY <1>1, <1>2
<1>4. d[2] <= j
  BY <1>3, DieTypes, OverIsBefore DEF Chain
<1>5. ~(j < d[2])
  BY <1>1, <1>4, DieTypes
<1> QED BY <1>1, <1>3, <1>5 DEF Before

LEMMA NothingDue ==
  ASSUME Types, ~opt.info, ~opt.search
  PROVE  Wanted = {} /\ \A r : DueBefore(r) = {}
  BY DueIs

(* The units that -i and -S come to, up to c.                                *)
LEMMA UpTo ==
  ASSUME Types, NEW c \in 0..Len(obj.cus)
  PROVE  /\ Cardinality({b \in Named : b <= c}) \in Nat
         /\ {b \in Named : b < c + 1} = {b \in Named : b <= c}
         /\ c + 1 \notin Named => {b \in Named : b <= c + 1} = {b \in Named : b <= c}
         /\ c + 1 \in Named => Cardinality({b \in Named : b <= c + 1})
                                 = Cardinality({b \in Named : b <= c}) + 1
<1>1. Named \subseteq 1..Len(obj.cus) /\ IsFiniteSet(Named) /\ Len(obj.cus) \in Nat
  BY WalkedIs
<1> DEFINE S == {b \in Named : b <= c}
<1>2. IsFiniteSet(S) /\ Cardinality(S) \in Nat
  BY <1>1, FS_Subset, FS_CardinalityType
<1>6. ASSUME NEW b \in Named
      PROVE  /\ b < c + 1 <=> b <= c
             /\ b <= c + 1 <=> b <= c \/ b = c + 1
  <2>1. b \in 1..Len(obj.cus)
    BY <1>1
  <2> QED BY <1>1, <2>1
<1>3. {b \in Named : b < c + 1} = S
  BY <1>6
<1>4. c + 1 \notin Named => {b \in Named : b <= c + 1} = S
  BY <1>6
<1>5. ASSUME c + 1 \in Named
      PROVE  Cardinality({b \in Named : b <= c + 1}) = Cardinality(S) + 1
  <2>1. {b \in Named : b <= c + 1} = S \cup {c + 1} /\ c + 1 \notin S
    <3>1. c \in Int /\ ~(c + 1 <= c)
      BY <1>1
    <3> QED BY <1>5, <1>6, <3>1
  <2> HIDE DEF S
  <2> QED BY <1>2, <2>1, FS_AddElement
<1> QED BY <1>2, <1>3, <1>4, <1>5

(* print_frames() prints no DIE.                                            *)
LEMMA FramesPrinted ==
  ASSUME PrintedInv, UNCHANGED <<run, m, printed>>,
         phase \notin {"infos", "walk", "exit"}, phase' \notin {"infos", "walk", "exit"}
  PROVE  PrintedInv'
<1>1. EntriesRight(printed) /\ DiesOfEntries(printed) = DueBefore(<<Len(obj.cus) + 1, 1>>)
  BY DEF PrintedInv, Reached
<1>2. Reached' = <<Len(obj.cus) + 1, 1>>
  BY SameMember DEF Reached
<1>3. UnitsCounted' /\ StackTells'
  BY DEF UnitsCounted, StackTells
<1> QED BY <1>1, <1>2, <1>3, PrintedKept

(* An error ends it.                                                       *)
LEMMA ExitPrinted ==
  ASSUME UNCHANGED <<run, m>>, EntriesRight(printed'), phase' = "exit"
  PROVE  PrintedInv'
  BY PrintedKept

(* Where print_infos() ends, all units that it is about were walked.           *)
LEMMA LastUnit ==
  ASSUME Types, UnitsCounted, phase = "infos", NextCu.res # "OK" \/ cu_count >= opt.most
  PROVE  \A d \in WalkedDies : Before(d, <<cu + 1, 1>>)
<1> SUFFICES ASSUME NEW d \in WalkedDies PROVE d[1] < cu + 1
  BY DEF Before
<1>1. /\ d[1] \in Named /\ d[1] \in 1..Len(obj.cus) /\ Len(obj.cus) \in Nat
      /\ Cardinality({b \in Named : b < d[1]}) < opt.most
      /\ cu \in 0..Len(obj.cus)
  BY WalkedIs DEF WalkedDies, Walked, Types
<1>2. CASE NextCu.res # "OK"
  <2>1. cu + 1 = obj.bad \/ cu = Len(obj.cus)
    BY <1>2 DEF NextCu
  <2>2. obj.bad # 0 => d[1] < obj.bad
    BY <1>1 DEF Named
  <2> QED BY <1>1, <2>1, <2>2
<1>3. CASE cu_count >= opt.most
  <2> SUFFICES ASSUME d[1] >= cu + 1 PROVE FALSE
    BY <1>1
  <2>1. Named \subseteq 1..Len(obj.cus) /\ IsFiniteSet(Named)
    BY WalkedIs
  <2>2. {b \in Named : b <= cu} \subseteq {b \in Named : b < d[1]}
    <3>1. \A b \in Named : b \in Int /\ (b <= cu => b < d[1])
      BY <1>1, <2>1
    <3> QED BY <3>1
  <2>3. /\ Cardinality({b \in Named : b <= cu}) <= Cardinality({b \in Named : b < d[1]})
        /\ Cardinality({b \in Named : b < d[1]}) \in Nat
        /\ Cardinality({b \in Named : b <= cu}) \in Nat
    <3>1. IsFiniteSet({b \in Named : b < d[1]}) /\ IsFiniteSet({b \in Named : b <= cu})
      BY <2>1, FS_Subset
    <3> QED BY <2>2, <3>1, FS_Subset, FS_CardinalityType
  <2>4. cu_count = Cardinality({b \in Named : b <= cu})
    BY DEF UnitsCounted
  <2>5. opt.most \in Nat
    BY ObjectType
  <2> QED BY <1>1, <1>3, <2>3, <2>4, <2>5
<1> QED BY <1>2, <1>3

LEMMA NextUnitPrints ==
  ASSUME Now, PrintedInv, NextUnit /\ UNCHANGED fvars
  PROVE  PrintedInv'
<1> USE DEF Now
<1>1. /\ phase = "infos" /\ stack = <<>> /\ cu' = NextCu.cu
      /\ UNCHANGED <<run, m, die_stack, printed>>
  BY DEF NextUnit, fvars, PhaseInv
<1>2. /\ EntriesRight(printed) /\ UnitsCounted
      /\ DiesOfEntries(printed) = DueBefore(<<cu + 1, 1>>)
  BY <1>1 DEF PrintedInv, Reached
<1>3. cu \in 0..Len(obj.cus) /\ Len(obj.cus) \in Nat
  BY WalkedIs DEF Types
<1>4. CASE NextCu.res # "OK" \/ cu_count >= opt.most
  <2>1. phase' = "frames"
    BY <1>4 DEF NextUnit
  <2>2. Reached' = <<Len(obj.cus) + 1, 1>>
    BY <1>1, <2>1, SameMember DEF Reached
  <2>3. \A d \in WalkedDies : Before(d, <<cu + 1, 1>>)
    BY <1>1, <1>2, <1>4, LastUnit
  <2>4. \A d \in WalkedDies : Before(d, <<Len(obj.cus) + 1, 1>>)
    BY <1>3, DieTypes DEF WalkedDies, Before
  <2>5. DueBefore(<<cu + 1, 1>>) = DueBefore(<<Len(obj.cus) + 1, 1>>)
    BY <2>3, <2>4, DueSame
  <2>6. UnitsCounted' /\ StackTells'
    BY <2>1 DEF UnitsCounted, StackTells
  <2> QED BY <1>1, <1>2, <2>2, <2>5, <2>6, PrintedKept
<1>5. ASSUME ~(NextCu.res # "OK" \/ cu_count >= opt.most)
      PROVE  /\ cu' = cu + 1 /\ cu' \in 1..Len(obj.cus) /\ cu_count < opt.most
             /\ obj.bad # 0 => cu' < obj.bad
             /\ cu' \in Named <=> ~Skipped(cu')
             /\ DOMAIN obj.cus = 1..Len(obj.cus)
             /\ cu_count = Cardinality({b \in Named : b <= cu})
             /\ cu_count = Cardinality({b \in Named : b < cu'})
  <2>1. cu' = cu + 1 /\ cu' \in 1..Len(obj.cus) /\ cu + 1 # obj.bad
    BY <1>1, <1>5, NextCuIs DEF NextCu
  <2>2. opt.most \in Nat /\ DOMAIN obj.cus = 1..Len(obj.cus) /\ obj.bad \in Nat
        /\ cu_count \in Int
    <3>1. cu_count \in 0..Len(obj.cus)
      BY DEF Types
    <3>2. obj \in Objects /\ opt.most \in Nat /\ obj.cus \in Seq(Units)
      BY ObjectType
    <3>3. obj.bad \in Nat
      BY <3>2 DEF Objects
    <3> QED BY <1>3, <3>1, <3>2, <3>3
  <2>3. obj.bad # 0 => cu' < obj.bad
    BY <1>1, <1>2, <1>3, <2>1, <2>2 DEF UnitsCounted
  <2>4. cu' \in Named <=> ~Skipped(cu')
    BY <2>1, <2>2, <2>3 DEF Named, Skipped
  <2>5. cu_count = Cardinality({b \in Named : b <= cu})
    BY <1>1, <1>2 DEF UnitsCounted
  <2>6. cu_count = Cardinality({b \in Named : b < cu'})
    BY <1>3, <2>1, <2>5, UpTo
  <2> QED BY <1>5, <2>1, <2>2, <2>3, <2>4, <2>5, <2>6
<1>6. CASE /\ ~(NextCu.res # "OK" \/ cu_count >= opt.most)
           /\ phase' = "infos" /\ UNCHANGED cu_count /\ cu' \notin Named
  <2>1. Reached' = <<cu + 2, 1>>
    BY <1>3, <1>5, <1>6 DEF Reached
  <2>2. ASSUME NEW d \in WalkedDies
        PROVE  Before(d, <<cu + 1, 1>>) <=> Before(d, <<cu + 2, 1>>)
    <3>1. d[1] # cu + 1 /\ d[1] \in Nat /\ d[2] \in Nat \ {0}
      BY <1>5, <1>6, WalkedIs, DieTypes DEF WalkedDies
    <3> QED BY <1>3, <3>1 DEF Before
  <2>3. DueBefore(<<cu + 1, 1>>) = DueBefore(<<cu + 2, 1>>)
    BY <2>2, DueSame
  <2>4. UnitsCounted'
    <3>1. cu_count = Cardinality({b \in Named : b <= cu'})
      BY <1>3, <1>5, <1>6, UpTo
    <3>2. Named' = Named /\ obj' = obj
      BY <1>1, SameMember
    <3> QED BY <1>5, <1>6, <3>1, <3>2 DEF UnitsCounted
  <2>5. StackTells'
    BY <1>6 DEF StackTells
  <2> QED BY <1>1, <1>2, <2>1, <2>3, <2>4, <2>5, PrintedKept
<1>7. CASE /\ ~(NextCu.res # "OK" \/ cu_count >= opt.most)
           /\ phase' = "infos" /\ cu_count' = cu_count + 1 /\ cu' \in Named
           /\ ~opt.info /\ ~opt.search
  <2>1. DueBefore(Reached') = DueBefore(<<cu + 1, 1>>)
    BY <1>7, NothingDue
  <2>2. UnitsCounted'
    <3>1. cu_count + 1 = Cardinality({b \in Named : b <= cu'})
      <4>1. cu' = cu + 1 /\ cu + 1 \in Named /\ cu_count = Cardinality({b \in Named : b <= cu})
        BY <1>5, <1>7
      <4>2. Cardinality({b \in Named : b <= cu + 1}) = Cardinality({b \in Named : b <= cu}) + 1
        BY <1>3, <4>1, UpTo
      <4> QED BY <4>1, <4>2
    <3>2. Named' = Named /\ obj' = obj
      BY <1>1, SameMember
    <3> QED BY <1>5, <1>7, <3>1, <3>2 DEF UnitsCounted
  <2>3. StackTells'
    BY <1>7 DEF StackTells
  <2> QED BY <1>1, <1>2, <2>1, <2>2, <2>3, PrintedKept
<1>8. CASE /\ ~(NextCu.res # "OK" \/ cu_count >= opt.most)
           /\ phase' = "walk" /\ UNCHANGED cu_count /\ cu' \in Named
           /\ Room(held) /\ held' = Get(held, <<cu', 1>>)
           /\ stack' = <<[first |-> New(held), die |-> New(held), visited |-> FALSE]>>
  <2> DEFINE d == <<cu', 1>>
  <2>1. d \in AllDies /\ Die(d).parent = 0
    <3>1. d \in AllDies /\ TreeOf(obj.cus[cu'].dies)
      BY <1>5, <1>8, DiesOf, UnitTree
    <3> QED BY <3>1, TreeFacts DEF Die
  <2>2. cu' \in Walked /\ d \in WalkedDies
    BY <1>5, <1>8, <2>1 DEF Walked, WalkedDies
  <2>3. held'[New(held)] = d
    <3>1. held \in [Handles -> AllDies \cup {None}]
      BY DEF Types
    <3> QED BY <1>8, <3>1, NewIs, GetIs
  <2>4. /\ Len(stack') = 1 /\ Last(stack') = stack'[1] /\ stack'[1].die = New(held)
        /\ ~stack'[1].visited
    BY <1>8 DEF Last
  <2>5. Reached' = <<cu + 1, 1>>
    BY <1>5, <1>8, <2>3, <2>4 DEF Reached, ComesTo
  <2>6. UnitsCounted'
    <3>1. Named' = Named /\ Walked' = Walked
      BY <1>1, SameMember
    <3> QED BY <1>5, <1>8, <2>2, <3>1 DEF UnitsCounted
  <2>7. Descends(stack', held', cu', 0)
    <3>1. \A i \in 1..Len(stack') : i = 1
      BY <2>4
    <3>2. 1..(Len(stack') - 1) = {}
      BY <2>4
    <3> QED BY <2>1, <2>3, <2>4, <3>1, <3>2 DEF Descends
  <2>8. ~die_stack'[0].printed
    <3>1. Mirrors(die_stack, stack) /\ Len(stack) = 0 /\ 0 \in 0..DIE_STACK_SIZE
      BY <1>1, DepthAssumption DEF HandleInv
    <3> QED BY <1>1, <3>1 DEF Mirrors, Empty
  <2>9. d \notin DiesOfEntries(printed')
    <3>1. d = <<cu + 1, 1>>
      BY <1>5, <1>8
    <3> QED BY <1>1, <1>2, <2>1, <3>1, NotDueYet
  <2>10. StackTells'
    <3>1. \A i \in 1..Len(stack') : i = 1 /\ i - 1 = 0
      BY <2>4
    <3> QED BY <1>1, <2>3, <2>4, <2>7, <2>8, <2>9, <3>1, StackKept
  <2> QED BY <1>1, <1>2, <2>5, <2>6, <2>10, PrintedKept
<1>9. CASE ~(NextCu.res # "OK" \/ cu_count >= opt.most)
  <2>1. CASE Skipped(cu')
    BY <1>1, <1>5, <1>6, <1>9, <2>1 DEF NextUnit
  <2>2. CASE ~Skipped(cu') /\ (opt.info \/ opt.unit \/ opt.search)
    BY <1>1, <1>5, <1>8, <1>9, <2>2 DEF NextUnit
  <2>3. CASE ~Skipped(cu') /\ ~(opt.info \/ opt.unit \/ opt.search)
    BY <1>1, <1>5, <1>7, <1>9, <2>3 DEF NextUnit
  <2> QED BY <2>1, <2>2, <2>3
<1> QED BY <1>4, <1>9

(* What the invariant says of the walk.                                      *)
LEMMA InTheWalk ==
  ASSUME Now, PrintedInv, phase = "walk"
  PROVE  LET n == Len(stack)
             d == held[Top.die]
         IN /\ WalkingUnit /\ n \in Nat \ {0} /\ Top = stack[n] /\ d = At(stack, held, n)
            /\ d \in WalkedDies /\ d \in AllDies /\ d = <<cu, d[2]>> /\ d[1] = cu
            /\ stack \in Seq(Activations) /\ stack # <<>> /\ indent_level = n - 1
            /\ Owns(stack, UnitDie, held) /\ Descends(stack, held, cu, 0)
            /\ EntriesRight(printed)
            /\ DiesOfEntries(printed)
                 = DueBefore(IF Top.visited THEN <<cu, After(obj.cus[cu].dies, d[2])>> ELSE d)
            /\ cu \in Walked /\ cu_count = Cardinality({b \in Named : b < cu})
            /\ \A i \in 1..(n - 1) : /\ stack[i].visited /\ die_stack[i - 1].die = stack[i].die
                                     /\ i \in 1..n
            /\ \A i \in 1..n : die_stack[i - 1].printed
                                 <=> At(stack, held, i) \in DiesOfEntries(printed)
            /\ die_stack \in StackEntries /\ n - 1 \in 0..DIE_STACK_SIZE
<1> DEFINE n == Len(stack)
           d == held[Top.die]
<1> USE DEF Now
<1>1. stack \in Seq(Activations) /\ stack # <<>> /\ n <= DIE_STACK_SIZE
  BY DEF Types, PhaseInv
<1>2. /\ n \in Nat \ {0} /\ n \in 1..n /\ Top = stack[n] /\ Top = Last(stack)
      /\ indent_level = n - 1 /\ \A i \in 1..(n - 1) : i \in 1..n
  BY <1>1, LastIs DEF Top, indent_level
<1>3. Owns(stack, UnitDie, held)
  BY DEF HandleInv, Running
<1>4. /\ cu \in Walked /\ cu_count = Cardinality({b \in Named : b < cu})
      /\ Descends(stack, held, cu, 0)
      /\ \A i \in 1..n : stack[i].visited => die_stack[i - 1].die = stack[i].die
      /\ \A i \in 1..n : die_stack[i - 1].printed
                           <=> At(stack, held, i) \in DiesOfEntries(printed)
      /\ EntriesRight(printed)
      /\ DiesOfEntries(printed) = DueBefore(Reached)
  BY DEF PrintedInv, UnitsCounted, StackTells, At
<1>5. WalkingUnit
  BY <1>1, <1>2, <1>3, <1>4, DepthAssumption DEF WalkingUnit
<1>6. d = At(stack, held, n)
  BY <1>2 DEF At
<1>7. d \in WalkedDies /\ d[1] = cu
  BY <1>2, <1>5, <1>6, PathIs
<1>8. d \in AllDies /\ d = <<cu, d[2]>>
  BY <1>7, DieTypes DEF WalkedDies
<1>9. Reached = IF Top.visited THEN <<cu, After(obj.cus[cu].dies, d[2])>> ELSE d
  BY <1>2, <1>7, <1>8 DEF Reached, ComesTo
<1>10. \A i \in 1..(n - 1) : stack[i].visited
  BY <1>4 DEF Descends
<1>11. die_stack \in StackEntries /\ n - 1 \in 0..DIE_STACK_SIZE
  BY <1>1, <1>2, DepthAssumption DEF Types, StackEntries
<1> HIDE DEF n, d
<1> QED
  BY <1>1, <1>2, <1>3, <1>4, <1>5, <1>6, <1>7, <1>8, <1>9, <1>10, <1>11, Zenon DEF n, d

LEMMA NextSiblingPrints ==
  ASSUME Now, PrintedInv, NextSibling /\ UNCHANGED fvars
  PROVE  PrintedInv'
<1> DEFINE n == Len(stack)
           d == held[Top.die]
           e == SiblingOf(d)
<1> USE DEF Now
<1>1. /\ phase = "walk" /\ Top.visited /\ e # None /\ Room(held)
      /\ UNCHANGED <<run, m, phase, cu, cu_count, printed>>
      /\ held' = Dealloc(Get(held, e), Own)
      /\ die_stack' = EmptyEntry(die_stack, indent_level)
      /\ stack' = [stack EXCEPT ![n].die = New(held), ![n].visited = FALSE]
  BY DEF NextSibling
<1>2. /\ WalkingUnit /\ n \in Nat \ {0} /\ Top = stack[n] /\ d = At(stack, held, n)
      /\ d \in AllDies /\ d[1] = cu
      /\ stack \in Seq(Activations) /\ stack # <<>> /\ indent_level = n - 1
      /\ Owns(stack, UnitDie, held) /\ Descends(stack, held, cu, 0)
      /\ EntriesRight(printed)
      /\ DiesOfEntries(printed) = DueBefore(<<cu, After(obj.cus[cu].dies, d[2])>>)
      /\ cu \in Walked /\ cu_count = Cardinality({b \in Named : b < cu})
      /\ \A i \in 1..(n - 1) : /\ stack[i].visited /\ die_stack[i - 1].die = stack[i].die
                               /\ i \in 1..n
      /\ \A i \in 1..n : die_stack[i - 1].printed
                           <=> At(stack, held, i) \in DiesOfEntries(printed)
      /\ die_stack \in StackEntries /\ n - 1 \in 0..DIE_STACK_SIZE
  BY <1>1, InTheWalk
<1> HIDE DEF n, d, e
<1>3. /\ e = <<cu, After(obj.cus[cu].dies, d[2])>> /\ e \in AllDies
      /\ Die(e).parent = Die(d).parent /\ e[1] = cu
  <2>1. e \in AllDies
    BY <1>1, <1>2, AnswersAreDies DEF e
  <2>2. e = <<cu, After(obj.cus[cu].dies, d[2])>> /\ Die(e).parent = Die(d).parent
    BY <1>1, <1>2, SiblingFinds DEF e
  <2> QED BY <2>1, <2>2
<1>4. /\ Len(stack') = n /\ stack' # <<>> /\ Last(stack') = stack'[n]
      /\ \A i \in 1..(n - 1) : stack'[i] = stack[i]
      /\ stack'[n].die = New(held) /\ ~stack'[n].visited
  <2>1. n \in DOMAIN stack /\ n = Len(stack) /\ n # 0
    BY <1>2 DEF n
  <2>2. stack[n] \in Activations
    BY <1>2, LastIs DEF n
  <2>3. stack'[n] = [stack[n] EXCEPT !.die = New(held), !.visited = FALSE]
    BY <1>1, <2>1
  <2>4. Len(stack') = n /\ \A i \in 1..(n - 1) : stack'[i] = stack[i]
    BY <1>1, <1>2, <2>1
  <2>5. stack'[n].die = New(held) /\ stack'[n].visited = FALSE
    BY <2>2, <2>3 DEF Activations
  <2> QED BY <2>1, <2>4, <2>5 DEF Last
<1>5. held \in [Handles -> AllDies \cup {None}] /\ New(held) \in Handles /\ New(held) \notin Own
  <2>1. held \in [Handles -> AllDies \cup {None}] /\ New(held) \in Handles
        /\ held[New(held)] = None
    BY <1>1, NewIs DEF Types
  <2>2. Own \subseteq {Top.die}
    BY DEF Own
  <2>3. held[Top.die] # None
    BY <1>2, DieIsNot DEF d
  <2> QED BY <2>1, <2>2, <2>3
<1>6. held'[New(held)] = e
  BY <1>1, <1>5, GetIs, DeallocIs
<1>7. \A i \in 1..(n - 1) : At(stack', held', i) = At(stack, held, i)
  <2> SUFFICES ASSUME NEW i \in 1..(n - 1) PROVE At(stack', held', i) = At(stack, held, i)
    OBVIOUS
  <2>1. i \in 1..Len(stack) /\ n \in 1..Len(stack) /\ i # n
    BY <1>2 DEF n
  <2>2. Own \cap Of(stack[i]) = {}
    <3>1. Of(stack[i]) \cap Of(stack[n]) = {}
      BY <1>2, <2>1 DEF Owns
    <3> QED BY <1>2, <3>1 DEF Own, Of
  <2>3. Dealloc(Get(held, e), Own)[stack[i].die] = At(stack, held, i)
    <3>1. Types
      OBVIOUS
    <3>2. Owns(stack, UnitDie, held) /\ i \in 1..Len(stack)
      BY <1>2, <2>1
    <3>3. Room(held) => \A x : /\ Get(held, x)[stack[i].die] = At(stack, held, i)
                               /\ Dealloc(Get(held, x), Own)[stack[i].die] = At(stack, held, i)
      BY <2>2, <3>1, <3>2, AtStays
    <3> QED BY <1>1, <3>3
  <2> QED BY <1>1, <1>4, <2>3 DEF At
<1>8. At(stack', held', n) = e
  BY <1>4, <1>6 DEF At
<1>9. Descends(stack', held', cu, 0)
  <2>1. Die(e).parent = IF n = 1 THEN 0 ELSE At(stack, held, n - 1)[2]
    <3>1. n \in 1..Len(stack)
      BY <1>2 DEF n
    <3> QED BY <1>2, <1>3, <3>1 DEF Descends, At
  <2>2. Len(stack) = n
    BY DEF n
  <2>3. n \in Nat \ {0} /\ n <= n + 1
    BY <1>2
  <2>4. \A i \in 1..(n - 1) : At(stack', held', i) = At(stack, held, i) /\ stack'[i].visited
    BY <1>2, <1>4, <1>7
  <2>5. /\ Len(stack') = n /\ At(stack', held', n)[1] = cu
        /\ Die(At(stack', held', n)).parent = IF n = 1 THEN 0 ELSE At(stack, held, n - 1)[2]
    BY <1>3, <1>4, <1>8, <2>1
  <2>6. Descends(stack, held, cu, 0) /\ cu' = cu
    BY <1>1, <1>2
  <2>7. /\ Len(stack) \in Nat /\ Len(stack') \in Nat \ {0} /\ Len(stack') <= Len(stack) + 1
        /\ \A i \in 1..(Len(stack') - 1) :
             At(stack', held', i) = At(stack, held, i) /\ stack'[i].visited
        /\ At(stack', held', Len(stack'))[1] = cu
        /\ Die(At(stack', held', Len(stack'))).parent
             = IF Len(stack') = 1 THEN 0 ELSE At(stack, held, Len(stack') - 1)[2]
    BY <2>2, <2>3, <2>4, <2>5
  <2> QED BY <2>6, <2>7, DescendsOn
<1>10. Reached' = e
  <2>1. Reached' = <<cu, held'[stack'[n].die][2]>>
    BY <1>1, <1>4 DEF Reached, ComesTo
  <2>2. held'[stack'[n].die] = e
    BY <1>8 DEF At
  <2> QED BY <1>3, <2>1, <2>2
<1>11. e \notin DiesOfEntries(printed)
  BY <1>2, <1>3, NotDueYet
<1>12. /\ \A i \in 1..(n - 1) : die_stack'[i - 1] = die_stack[i - 1]
       /\ ~die_stack'[n - 1].printed
  <2>1. die_stack' = [die_stack EXCEPT ![n - 1] = Empty]
    BY <1>1, <1>2 DEF EmptyEntry
  <2>2. \A i \in 1..(n - 1) : i - 1 # n - 1
    BY <1>2
  <2> QED BY <1>2, <2>1, <2>2 DEF StackEntries, Empty
<1>13. StackTells'
  <2>1. \A i \in 1..Len(stack') : i \in 1..(n - 1) \/ i = n
    BY <1>2, <1>4
  <2>2. ASSUME NEW i \in 1..Len(stack'), stack'[i].visited
        PROVE  die_stack'[i - 1].die = stack'[i].die
    <3>1. i \in 1..(n - 1)
      BY <1>4, <2>1, <2>2
    <3>2. die_stack'[i - 1] = die_stack[i - 1] /\ stack'[i] = stack[i]
      BY <1>4, <1>12, <3>1
    <3>3. die_stack[i - 1].die = stack[i].die
      BY <1>2, <3>1
    <3> QED BY <3>2, <3>3
  <2>3. ASSUME NEW i \in 1..Len(stack')
        PROVE  die_stack'[i - 1].printed <=> held'[stack'[i].die] \in DiesOfEntries(printed')
    <3>1. CASE i = n
      BY <1>1, <1>8, <1>11, <1>12, <3>1 DEF At
    <3>2. CASE i \in 1..(n - 1)
      BY <1>1, <1>2, <1>7, <1>12, <3>2 DEF At
    <3> QED BY <2>1, <3>1, <3>2
  <2> QED BY <1>1, <1>9, <2>2, <2>3, StackKept
<1>14. UnitsCounted'
  <2>1. Named' = Named /\ Walked' = Walked
    BY <1>1, SameMember
  <2> QED BY <1>1, <1>2, <2>1 DEF UnitsCounted
<1> QED BY <1>1, <1>2, <1>3, <1>10, <1>13, <1>14, PrintedKept

LEMMA NoSiblingPrints ==
  ASSUME Now, PrintedInv, NoSibling /\ UNCHANGED fvars
  PROVE  PrintedInv'
<1> DEFINE n == Len(stack)
           d == held[Top.die]
           gone == Own \cup {Top.first}
           ended == After(obj.cus[cu].dies, d[2])
<1> USE DEF Now
<1>1. /\ phase = "walk" /\ Top.visited /\ SiblingOf(d) = None
      /\ UNCHANGED <<run, m, cu, printed>>
      /\ held' = Dealloc(held, gone)
      /\ die_stack' = EmptyEntry(die_stack, indent_level)
      /\ stack' = Front(stack)
      /\ IF indent_level > 0 THEN UNCHANGED <<phase, cu_count>>
         ELSE phase' = "infos" /\ cu_count' = cu_count + 1
  BY DEF NoSibling
<1>2. /\ WalkingUnit /\ n \in Nat \ {0} /\ Top = stack[n] /\ d = At(stack, held, n)
      /\ d \in WalkedDies /\ d \in AllDies /\ d[1] = cu
      /\ stack \in Seq(Activations) /\ indent_level = n - 1
      /\ Owns(stack, UnitDie, held) /\ Descends(stack, held, cu, 0)
      /\ EntriesRight(printed) /\ DiesOfEntries(printed) = DueBefore(<<cu, ended>>)
      /\ cu \in Walked /\ cu_count = Cardinality({b \in Named : b < cu})
      /\ \A i \in 1..(n - 1) : /\ stack[i].visited /\ die_stack[i - 1].die = stack[i].die
                               /\ i \in 1..n
      /\ \A i \in 1..n : die_stack[i - 1].printed
                           <=> At(stack, held, i) \in DiesOfEntries(printed)
      /\ die_stack \in StackEntries /\ n - 1 \in 0..DIE_STACK_SIZE
  BY <1>1, InTheWalk
<1> HIDE DEF n, d, gone
<1>3. /\ cu \in Named /\ cu \in 1..Len(obj.cus) /\ Len(obj.cus) \in Nat
      /\ TreeOf(obj.cus[cu].dies) /\ Len(obj.cus[cu].dies) \in Nat
      /\ d[2] \in 1..Len(obj.cus[cu].dies) /\ Die(d) = obj.cus[cu].dies[d[2]]
  <2>1. cu \in Named /\ cu \in 1..Len(obj.cus) /\ Len(obj.cus) \in Nat
    BY <1>2, WalkedIs
  <2>2. /\ d[2] \in 1..Len(obj.cus[cu].dies) /\ TreeOf(obj.cus[cu].dies)
        /\ Die(d) = obj.cus[cu].dies[d[2]]
    BY <1>2, DieTypes
  <2> QED BY <2>1, <2>2, UnitTree
<1>4. ended = IF d[2] = 1 THEN Len(obj.cus[cu].dies) + 1
              ELSE After(obj.cus[cu].dies, Die(d).parent)
  BY <1>1, <1>2, SiblingFinds
<1>5. Die(d).parent = IF n = 1 THEN 0 ELSE At(stack, held, n - 1)[2]
  <2>1. n \in 1..Len(stack)
    BY <1>2 DEF n
  <2> QED BY <1>2, <2>1 DEF Descends, At
<1>6. n = 1 <=> d[2] = 1
  <2>1. n # 1 => At(stack, held, n - 1)[2] # 0
    <3>1. n # 1 => n - 1 \in 1..Len(stack)
      BY <1>2 DEF n
    <3>2. Types
      OBVIOUS
    <3> QED BY <1>2, <3>1, <3>2, AtIs, DieTypes
  <2>2. d[2] = 1 <=> Die(d).parent = 0
    <3>1. /\ obj.cus[cu].dies[1].parent = 0
          /\ \A j \in 2..Len(obj.cus[cu].dies) : obj.cus[cu].dies[j].parent \in 1..(j - 1)
      BY <1>3, TreeFacts
    <3>2. d[2] = 1 \/ d[2] \in 2..Len(obj.cus[cu].dies)
      BY <1>3
    <3> QED BY <1>3, <3>1, <3>2
  <2> QED BY <1>5, <2>1, <2>2
<1>7. CASE n = 1
  <2>1. phase' = "infos" /\ cu_count' = cu_count + 1
    BY <1>1, <1>2, <1>7
  <2>2. Reached' = <<cu + 1, 1>>
    BY <1>1, <2>1 DEF Reached
  <2>3. ended = Len(obj.cus[cu].dies) + 1
    BY <1>4, <1>6, <1>7
  <2>4. ASSUME NEW e \in WalkedDies
        PROVE  Before(e, <<cu, ended>>) <=> Before(e, <<cu + 1, 1>>)
    <3>1. e[1] \in Nat /\ e[2] \in Nat \ {0} /\ e[2] \in 1..Len(obj.cus[e[1]].dies)
      BY DieTypes DEF WalkedDies
    <3>2. e[1] = cu => e[2] < ended
      BY <1>3, <2>3, <3>1
    <3> QED BY <1>3, <3>1, <3>2 DEF Before
  <2>5. DueBefore(<<cu, ended>>) = DueBefore(<<cu + 1, 1>>)
    BY <2>4, DueSame
  <2>6. UnitsCounted'
    <3>1. cu - 1 \in 0..Len(obj.cus) /\ cu - 1 + 1 = cu
      BY <1>3
    <3>2. /\ {b \in Named : b < cu - 1 + 1} = {b \in Named : b <= cu - 1}
          /\ cu - 1 + 1 \in Named => Cardinality({b \in Named : b <= cu - 1 + 1})
                                 = Cardinality({b \in Named : b <= cu - 1}) + 1
      BY <3>1, UpTo
    <3>3. cu_count + 1 = Cardinality({b \in Named : b <= cu})
      BY <1>2, <1>3, <3>1, <3>2
    <3>4. Named' = Named /\ obj' = obj
      BY <1>1, SameMember
    <3>5. obj.bad # 0 => cu < obj.bad
      BY <1>3 DEF Named
    <3> QED BY <1>1, <2>1, <3>3, <3>4, <3>5 DEF UnitsCounted
  <2>7. StackTells'
    BY <2>1 DEF StackTells
  <2> QED BY <1>1, <1>2, <2>2, <2>5, <2>6, <2>7, PrintedKept
<1>8. CASE n # 1
  <2>1. /\ phase' = "walk" /\ cu_count' = cu_count /\ n - 1 \in Nat \ {0} /\ n - 1 \in 1..(n - 1)
    BY <1>1, <1>2, <1>8
  <2>2. /\ Len(stack') = n - 1 /\ \A i \in 1..(n - 1) : stack'[i] = stack[i]
        /\ Last(stack') = stack'[n - 1]
    <3>1. Len(Front(stack)) = n - 1 /\ \A i \in 1..(n - 1) : Front(stack)[i] = stack[i]
      BY <1>2, FrontIs DEF n
    <3> QED BY <1>1, <3>1 DEF Last
  <2>3. \A i \in 1..(n - 1) : At(stack', held', i) = At(stack, held, i)
    <3> SUFFICES ASSUME NEW i \in 1..(n - 1) PROVE At(stack', held', i) = At(stack, held, i)
      OBVIOUS
    <3>1. i \in 1..Len(stack) /\ n \in 1..Len(stack) /\ i # n
      BY <1>2 DEF n
    <3>2. gone \cap Of(stack[i]) = {}
      <4>1. Of(stack[i]) \cap Of(stack[n]) = {}
        BY <1>2, <3>1 DEF Owns
      <4> QED BY <1>2, <4>1 DEF Own, Of, gone
    <3>3. Types /\ Owns(stack, UnitDie, held)
      BY <1>2
    <3>4. Dealloc(held, gone)[stack[i].die] = At(stack, held, i)
      BY <3>1, <3>2, <3>3, AtStays
    <3> QED BY <1>1, <2>2, <3>4 DEF At
  <2>4. At(stack, held, n - 1)[1] = cu
    BY <1>2, <2>1 DEF Descends, At, n
  <2>5. Reached' = <<cu, ended>>
    <3>1. Last(stack').visited /\ held'[Last(stack').die] = At(stack, held, n - 1)
      <4>1. stack'[n - 1].visited
        BY <1>2, <2>1, <2>2
      <4>2. At(stack', held', n - 1) = At(stack, held, n - 1)
        BY <2>1, <2>3
      <4> QED BY <2>2, <4>1, <4>2 DEF At
    <3>2. obj' = obj
      BY <1>1, SameMember
    <3>3. Reached' = <<cu, After(obj.cus[cu].dies, At(stack, held, n - 1)[2])>>
      BY <1>1, <2>1, <2>4, <3>1, <3>2 DEF Reached, ComesTo
    <3> QED BY <1>4, <1>5, <1>6, <1>8, <3>3
  <2>6. Descends(stack', held', cu, 0)
    <3>1. /\ Len(stack) \in Nat /\ Len(stack') \in Nat \ {0} /\ Len(stack') <= Len(stack) + 1
      BY <1>2, <2>1, <2>2 DEF n
    <3>2. \A i \in 1..(Len(stack') - 1) :
             At(stack', held', i) = At(stack, held, i) /\ stack'[i].visited
      <4>1. \A i \in 1..(n - 1 - 1) : i \in 1..(n - 1)
        BY <2>1
      <4> QED BY <1>2, <2>2, <2>3, <4>1
    <3>3. /\ At(stack', held', Len(stack'))[1] = cu
          /\ Die(At(stack', held', Len(stack'))).parent
               = IF Len(stack') = 1 THEN 0 ELSE At(stack, held, Len(stack') - 1)[2]
      <4>1. n - 1 \in 1..Len(stack)
        BY <2>1, <1>2 DEF n
      <4>2. Die(At(stack, held, n - 1)).parent
              = IF n - 1 = 1 THEN 0 ELSE At(stack, held, n - 1 - 1)[2]
        BY <1>2, <4>1 DEF Descends, At
      <4> QED BY <2>1, <2>2, <2>3, <2>4, <4>2
    <3>4. Descends(stack, held, cu, 0)
      BY <1>2
    <3> QED BY <3>1, <3>2, <3>3, <3>4, DescendsOn
  <2>7. \A i \in 1..(n - 1) : die_stack'[i - 1] = die_stack[i - 1]
    <3>1. die_stack' = [die_stack EXCEPT ![n - 1] = Empty]
      BY <1>1, <1>2 DEF EmptyEntry
    <3>2. \A i \in 1..(n - 1) : i - 1 # n - 1
      BY <1>2
    <3> QED BY <1>2, <3>1, <3>2 DEF StackEntries
  <2>8. StackTells'
    <3>1. \A i \in 1..Len(stack') : stack'[i].visited => die_stack'[i - 1].die = stack'[i].die
      BY <1>2, <2>2, <2>7
    <3>2. ASSUME NEW i \in 1..Len(stack')
          PROVE  die_stack'[i - 1].printed <=> held'[stack'[i].die] \in DiesOfEntries(printed')
      BY <1>1, <1>2, <2>2, <2>3, <2>7 DEF At
    <3>3. cu' = cu
      BY <1>1
    <3> QED BY <1>1, <2>6, <3>1, <3>2, <3>3, StackKept
  <2>9. UnitsCounted'
    <3>1. Named' = Named /\ Walked' = Walked
      BY <1>1, SameMember
    <3> QED BY <1>1, <1>2, <2>1, <3>1 DEF UnitsCounted
  <2> QED BY <1>1, <1>2, <2>5, <2>8, <2>9, PrintedKept
<1> QED BY <1>7, <1>8

(* What print_die_and_children() has printed before it comes to the children.  *)
SetNow == [printed |-> printed, stack |-> SetEntry(die_stack, indent_level, Top.die)]
DoneNow == IF opt.info THEN print_one_die(SetNow, indent_level)
           ELSE IF opt.search /\ Die(held[Top.die]).match THEN print_die_stack(SetNow)
           ELSE SetNow

EntriesTell(st) ==
  \A i \in 1..Len(stack) :
    /\ st.stack[i - 1].die = stack[i].die
    /\ st.stack[i - 1].printed <=> At(stack, held, i) \in DiesOfEntries(st.printed)

LEMMA SetIsReady ==
  ASSUME Now, PrintedInv, phase = "walk", ~Top.visited
  PROVE  /\ SetNow.stack \in StackEntries /\ SetNow.printed = printed /\ EntriesTell(SetNow)
         /\ ~SetNow.stack[Len(stack) - 1].printed
<1> DEFINE n == Len(stack)
           d == held[Top.die]
<1> USE DEF Now
<1>1. /\ n \in Nat \ {0} /\ Top = stack[n] /\ d = At(stack, held, n) /\ d \in AllDies
      /\ stack \in Seq(Activations) /\ stack # <<>> /\ indent_level = n - 1
      /\ DiesOfEntries(printed) = DueBefore(d)
      /\ \A i \in 1..(n - 1) : /\ stack[i].visited /\ die_stack[i - 1].die = stack[i].die
                               /\ i \in 1..n
      /\ \A i \in 1..n : die_stack[i - 1].printed
                           <=> At(stack, held, i) \in DiesOfEntries(printed)
      /\ die_stack \in StackEntries /\ n - 1 \in 0..DIE_STACK_SIZE
  BY InTheWalk
<1> HIDE DEF n, d
<1>2. [die |-> Top.die, printed |-> FALSE] \in [die : Handles \cup {NULL}, printed : BOOLEAN]
  <2>1. Top \in Activations
    BY <1>1, LastIs DEF Top
  <2> QED BY <2>1 DEF Activations
<1>3. SetNow.printed = printed /\ SetNow.stack = SetEntry(die_stack, n - 1, Top.die)
  BY <1>1 DEF SetNow
<1>4. /\ SetNow.stack \in StackEntries
      /\ SetNow.stack[n - 1] = [die |-> Top.die, printed |-> FALSE]
      /\ \A i \in 1..(n - 1) : SetNow.stack[i - 1] = die_stack[i - 1]
  <2>1. \A i \in 1..(n - 1) : i - 1 # n - 1
    BY <1>1
  <2>2. SetNow.stack = [die_stack EXCEPT ![n - 1] = [die |-> Top.die, printed |-> FALSE]]
    BY <1>3 DEF SetEntry
  <2>3. \A i \in 1..(n - 1) : i - 1 \in 0..DIE_STACK_SIZE
    BY <1>1, DepthAssumption
  <2> QED BY <1>1, <1>2, <2>1, <2>2, <2>3 DEF StackEntries
<1>5. d \notin DiesOfEntries(printed)
  BY <1>1, NotDueYet
<1>6. ASSUME NEW i \in 1..n
      PROVE  /\ SetNow.stack[i - 1].die = stack[i].die
             /\ SetNow.stack[i - 1].printed <=> At(stack, held, i) \in DiesOfEntries(printed)
  <2>1. CASE i = n
    BY <1>1, <1>4, <1>5, <2>1
  <2>2. CASE i \in 1..(n - 1)
    BY <1>1, <1>4, <2>2
  <2>3. i = n \/ i \in 1..(n - 1)
    BY <1>1
  <2> QED BY <2>1, <2>2, <2>3
<1> QED BY <1>3, <1>4, <1>6 DEF EntriesTell, n

(* All that is due because of this DIE is printed, after what was.             *)
LEMMA DueIsPrinted ==
  ASSUME Now, PrintedInv, phase = "walk", ~Top.visited
  PROVE  LET d == held[Top.die]
         IN /\ EntriesRight(DoneNow.printed)
            /\ DiesOfEntries(DoneNow.printed) = DueBefore(<<cu, d[2] + 1>>)
            /\ DoneNow.stack \in StackEntries /\ EntriesTell(DoneNow)
<1> DEFINE n == Len(stack)
           d == held[Top.die]
<1> USE DEF Now
<1>1. /\ WalkingUnit /\ n \in Nat \ {0} /\ n \in 1..n /\ d = At(stack, held, n)
      /\ d \in WalkedDies /\ d \in AllDies /\ d[1] = cu /\ indent_level = n - 1
      /\ EntriesRight(printed) /\ DiesOfEntries(printed) = DueBefore(d)
      /\ n - 1 \in 0..DIE_STACK_SIZE
  <2>1. n \in Nat \ {0} => n \in 1..n
    OBVIOUS
  <2> QED BY <2>1, InTheWalk
<1>2. /\ SetNow.stack \in StackEntries /\ SetNow.printed = printed /\ EntriesTell(SetNow)
      /\ ~SetNow.stack[n - 1].printed
  BY SetIsReady
<1>3. DueBefore(<<cu, d[2] + 1>>) = DueBefore(d) \cup DueAt(d)
  BY <1>1, DueGrows
<1>4. /\ \A i \in 1..n : At(stack, held, i) \in WalkedDies /\ At(stack, held, i)[1] = cu
      /\ \A i \in 1..n : i # n => Before(At(stack, held, i), d)
      /\ Chain(cu, d[2]) = {At(stack, held, j)[2] : j \in 1..n}
  <2>1. \A i \in 1..n : i # n => i < n
    BY <1>1
  <2>2. Chain(cu, d[2]) = Path(stack, held, n)
    BY <1>1, PathIs
  <2> QED BY <1>1, <2>1, <2>2, PathIs DEF Path
<1> HIDE DEF n, d
<1>5. \A i \in 1..n : At(stack, held, i) = <<cu, At(stack, held, i)[2]>>
  BY <1>4, DieTypes DEF WalkedDies
<1>6. ASSUME NEW i \in 1..n, At(stack, held, i) \in DueAt(d),
             At(stack, held, i) \notin DiesOfEntries(printed),
             NEW e \in DiesOfEntries(printed)
      PROVE  Before(e, At(stack, held, i))
  BY <1>1, <1>6, DueOrder
<1>7. CASE opt.info
  <2>1. DueAt(d) = {d} /\ DoneNow = print_one_die(SetNow, n - 1)
    BY <1>1, <1>7 DEF DueAt, DoneNow
  <2>2. \A i \in 1..n : i # n => At(stack, held, i) \in DiesOfEntries(printed)
    BY <1>1, <1>4, <1>7, DueIs
  <2>3. ReadyToPrint(SetNow)
    <3>1. \A i \in 1..n : At(stack, held, i) \notin DiesOfEntries(printed) =>
            \A e \in DiesOfEntries(printed) : Before(e, At(stack, held, i))
      BY <1>1, <1>6, <2>1, <2>2
    <3> QED BY <1>1, <1>2, <3>1 DEF ReadyToPrint, EntriesTell, n
  <2>4. d \in Wanted
    BY <1>1, <1>7, <2>1, DueAtIs
  <2>5. /\ EntriesRight(DoneNow.printed)
        /\ DiesOfEntries(DoneNow.printed) = DiesOfEntries(printed) \cup {d}
    <3>1. {} \in SUBSET (1..(n - 1)) /\ {At(stack, held, j) : j \in {}} = {}
      OBVIOUS
    <3>2. DiesOfEntries(SetNow.printed)
            = DiesOfEntries(printed) \cup {At(stack, held, j) : j \in {}}
      BY <1>2, <3>1
    <3>3. n \in 1..Len(stack) /\ At(stack, held, n) \in Wanted /\ EntriesRight(SetNow.printed)
          /\ SetNow.stack[n - 1] = SetNow.stack[n - 1]
      BY <1>1, <1>2, <2>4 DEF n
    <3> QED BY <1>1, <1>2, <2>1, <2>3, <3>1, <3>2, <3>3, OneLevelPrinted
  <2>6. /\ DoneNow.stack \in StackEntries
        /\ \A lev \in 0..DIE_STACK_SIZE : DoneNow.stack[lev].die = SetNow.stack[lev].die
        /\ \A lev \in 0..DIE_STACK_SIZE \ {n - 1} : DoneNow.stack[lev] = SetNow.stack[lev]
        /\ DoneNow.stack[n - 1].printed
    BY <1>1, <1>2, <2>1, OnePrinted
  <2>7. ASSUME NEW i \in 1..n
        PROVE  /\ DoneNow.stack[i - 1].die = stack[i].die
               /\ DoneNow.stack[i - 1].printed
                    <=> At(stack, held, i) \in DiesOfEntries(DoneNow.printed)
    <3>1. i - 1 \in 0..DIE_STACK_SIZE /\ (i # n => i - 1 # n - 1)
      BY <1>1, DepthAssumption
    <3>2. SetNow.stack[i - 1].die = stack[i].die
          /\ (SetNow.stack[i - 1].printed <=> At(stack, held, i) \in DiesOfEntries(printed))
      BY <1>2 DEF EntriesTell, n
    <3>3. CASE i = n
      BY <1>1, <2>5, <2>6, <3>1, <3>2, <3>3
    <3>4. CASE i # n
      BY <2>2, <2>5, <2>6, <3>1, <3>2, <3>4
    <3> QED BY <3>3, <3>4
  <2> QED BY <1>1, <1>3, <2>1, <2>5, <2>6, <2>7 DEF EntriesTell, n, d
<1>8. CASE ~opt.info /\ opt.search /\ Die(d).match
  <2>1. DueAt(d) = {At(stack, held, j) : j \in 1..n}
    <3>1. d \in DueAt(d)
      <4>1. d[2] \in Chain(cu, d[2])
        BY <1>1, <1>4
      <4>2. d = <<cu, d[2]>>
        BY <1>1, <1>5
      <4> QED BY <1>1, <1>8, <4>1, <4>2 DEF DueAt
    <3>2. {<<d[1], j>> : j \in Chain(d[1], d[2])} = {At(stack, held, j) : j \in 1..n}
      <4>1. {<<cu, j>> : j \in {At(stack, held, i)[2] : i \in 1..n}}
              = {<<cu, At(stack, held, i)[2]>> : i \in 1..n}
        OBVIOUS
      <4>2. {<<cu, At(stack, held, i)[2]>> : i \in 1..n} = {At(stack, held, i) : i \in 1..n}
        BY <1>5
      <4> QED BY <1>1, <1>4, <4>1, <4>2
    <3> QED BY <1>8, <3>2 DEF DueAt
  <2>2. DoneNow = print_die_stack(SetNow)
    BY <1>8 DEF DoneNow, d
  <2>3. ReadyToPrint(SetNow)
    <3>1. \A i \in 1..n : At(stack, held, i) \notin DiesOfEntries(printed) =>
            \A e \in DiesOfEntries(printed) : Before(e, At(stack, held, i))
      BY <1>6, <2>1
    <3> QED BY <1>1, <1>2, <3>1 DEF ReadyToPrint, EntriesTell, n
  <2>4. \A i \in 1..Len(stack) : At(stack, held, i) \in Wanted
    <3>1. \A i \in 1..n : At(stack, held, i) \in DueAt(d)
      BY <2>1
    <3> QED BY <1>1, <1>8, <3>1, DueAtIs DEF n
  <2>5. /\ EntriesRight(DoneNow.printed)
        /\ DiesOfEntries(DoneNow.printed)
             = DiesOfEntries(printed) \cup {At(stack, held, j) : j \in 1..n}
    BY <1>1, <2>2, <2>3, <2>4, LevelsRight DEF n
  <2>6. MarkedTo(SetNow.stack, DoneNow.stack, n)
    <3>1. Len(stack) \in Nat /\ Len(stack) <= DIE_STACK_SIZE /\ Len(stack) \in 0..Len(stack)
      BY <1>1, DepthAssumption DEF WalkingUnit
    <3> QED BY <1>2, <2>2, <3>1, LevelsMarked DEF print_die_stack, n
  <2>7. ASSUME NEW i \in 1..n
        PROVE  /\ DoneNow.stack[i - 1].die = stack[i].die
               /\ DoneNow.stack[i - 1].printed
               /\ At(stack, held, i) \in DiesOfEntries(DoneNow.printed)
    <3>1. i - 1 \in 0..DIE_STACK_SIZE /\ i - 1 < n
      BY <1>1, DepthAssumption
    <3>2. SetNow.stack[i - 1].die = stack[i].die
      BY <1>2 DEF EntriesTell, n
    <3> QED BY <2>5, <2>6, <3>1, <3>2 DEF MarkedTo
  <2>8. DoneNow.stack \in StackEntries
    BY <2>6 DEF MarkedTo
  <2> QED BY <1>1, <1>3, <2>1, <2>5, <2>7, <2>8 DEF EntriesTell, n, d
<1>9. CASE ~opt.info /\ ~(opt.search /\ Die(d).match)
  <2>1. DueAt(d) = {} /\ DoneNow = SetNow
    BY <1>9 DEF DueAt, DoneNow, d
  <2> QED BY <1>1, <1>2, <1>3, <2>1 DEF d
<1> QED BY <1>7, <1>8, <1>9

LEMMA PrintDiePrints ==
  ASSUME Now, PrintedInv, PrintDie /\ UNCHANGED fvars
  PROVE  PrintedInv'
<1> DEFINE n == Len(stack)
           d == held[Top.die]
           visited == [stack EXCEPT ![n].visited = TRUE]
           next == <<cu, d[2] + 1>>
<1> USE DEF Now
<1>1. /\ phase = "walk" /\ ~Top.visited
      /\ UNCHANGED <<run, m, cu, cu_count>>
      /\ printed' = DoneNow.printed
  BY DEF PrintDie, DoneNow, SetNow
<1>2. /\ n \in Nat \ {0} /\ d = At(stack, held, n) /\ Top = stack[n]
      /\ d \in AllDies /\ d[1] = cu /\ indent_level = n - 1
      /\ stack \in Seq(Activations) /\ stack # <<>>
      /\ Owns(stack, UnitDie, held) /\ Descends(stack, held, cu, 0)
      /\ cu \in Walked /\ cu_count = Cardinality({b \in Named : b < cu})
      /\ \A i \in 1..(n - 1) : stack[i].visited /\ i \in 1..n
  BY <1>1, InTheWalk
<1>3. /\ EntriesRight(printed') /\ DiesOfEntries(printed') = DueBefore(next)
      /\ DoneNow.stack \in StackEntries
      /\ \A i \in 1..n : /\ DoneNow.stack[i - 1].die = stack[i].die
                         /\ DoneNow.stack[i - 1].printed
                              <=> At(stack, held, i) \in DiesOfEntries(printed')
  BY <1>1, DueIsPrinted DEF EntriesTell
<1> HIDE DEF d, n
<1>4. /\ Len(visited) = n
      /\ \A i \in 1..n : /\ visited[i].die = stack[i].die /\ visited[i].visited
                         /\ At(visited, held, i) = At(stack, held, i)
  <2>1. n = Len(stack) /\ n \in DOMAIN stack /\ \A i \in 1..n : stack[i] \in Activations
    BY <1>2, LastIs DEF n
  <2>2. visited = [stack EXCEPT ![n] = [stack[n] EXCEPT !.visited = TRUE]]
    OBVIOUS
  <2>3. [stack[n] EXCEPT !.visited = TRUE].die = stack[n].die
        /\ [stack[n] EXCEPT !.visited = TRUE].visited
    BY <1>2, <2>1 DEF Activations
  <2>4. Len(visited) = n
    BY <1>2, <2>1
  <2>5. ASSUME NEW i \in 1..n
        PROVE  visited[i].die = stack[i].die /\ visited[i].visited
    <3>1. i = n => visited[i] = [stack[n] EXCEPT !.visited = TRUE]
      BY <1>2, <2>1, <2>2
    <3>2. i # n => visited[i] = stack[i] /\ i \in 1..(n - 1)
      BY <1>2, <2>1, <2>2
    <3> QED BY <1>2, <2>3, <3>1, <3>2
  <2> QED BY <2>4, <2>5 DEF At
<1> HIDE DEF visited
<1>5. UnitsCounted' \/ phase' = "exit"
  <2>1. Named' = Named /\ Walked' = Walked
    BY <1>1, SameMember
  <2>2. phase' \in {"walk", "exit"}
    BY <1>1 DEF PrintDie
  <2> QED BY <1>1, <1>2, <2>1, <2>2 DEF UnitsCounted
<1>6. CASE ChildOf(d) = None
  <2>1. die_stack' = DoneNow.stack /\ stack' = visited /\ held' = held /\ phase' = "walk"
    BY <1>1, <1>6 DEF PrintDie, DoneNow, SetNow, visited, d, n
  <2>2. Reached' = next
    <3>1. Last(stack') = stack'[n] /\ stack'[n].visited /\ held'[stack'[n].die] = d
      BY <1>2, <1>4, <2>1 DEF Last, At
    <3>2. obj' = obj
      BY <1>1, SameMember
    <3>3. Reached' = <<cu, After(obj.cus[cu].dies, d[2])>>
      BY <1>1, <1>2, <2>1, <3>1, <3>2 DEF Reached, ComesTo
    <3> QED BY <1>2, <1>6, <3>3, ChildFinds
  <2>3. Descends(stack', held', cu, 0)
    <3>1. Len(stack') = Len(stack)
      BY <1>4, <2>1 DEF n
    <3>2. \A i \in 1..Len(stack) : stack'[i].die = stack[i].die /\ stack'[i].visited
      BY <1>4, <2>1 DEF n
    <3>3. \A i \in 1..(Len(stack) - 1) : i \in 1..Len(stack)
      BY <1>2 DEF n
    <3>4. \A i \in 1..Len(stack) : i # 1 => i - 1 \in 1..Len(stack)
      BY <1>2 DEF n
    <3>5. Descends(stack, held, cu, 0) /\ held' = held
      BY <1>2, <2>1
    <3> QED BY <3>1, <3>2, <3>3, <3>4, <3>5, ZenonT(30) DEF Descends
  <2>4. StackTells'
    <3>1. \A i \in 1..Len(stack') : stack'[i].visited => die_stack'[i - 1].die = stack'[i].die
      BY <1>3, <1>4, <2>1
    <3>2. \A i \in 1..Len(stack') :
             die_stack'[i - 1].printed <=> held'[stack'[i].die] \in DiesOfEntries(printed')
      BY <1>3, <1>4, <2>1 DEF At
    <3>3. cu' = cu
      BY <1>1
    <3> QED BY <1>1, <2>3, <3>1, <3>2, <3>3, StackKept
  <2> QED BY <1>1, <1>3, <1>5, <2>1, <2>2, <2>4, PrintedKept
<1>7. CASE ChildOf(d) # None
  <2> DEFINE e == ChildOf(d)
             call == [first |-> New(held), die |-> New(held), visited |-> FALSE]
  <2>1. /\ Room(held) /\ held' = Get(held, e)
        /\ die_stack' = SetEntry(DoneNow.stack, n, NULL)
        /\ phase' = IF TooDeep(n) THEN "exit" ELSE phase
        /\ stack' = Append(visited, call)
    <3>1. indent_level + 1 = n
      BY <1>2
    <3> QED BY <1>7, <3>1, Zenon DEF PrintDie, DoneNow, SetNow, visited, d, n
  <2>2. CASE TooDeep(n)
    BY <1>1, <1>3, <2>1, <2>2, ExitPrinted
  <2>3. CASE ~TooDeep(n)
    <3>1. phase' = "walk" /\ n \in 0..DIE_STACK_SIZE /\ n + 1 - 1 = n
      BY <1>1, <1>2, <2>1, <2>3, DepthAssumption DEF TooDeep
    <3>2. e = next /\ Die(e).parent = d[2] /\ e \in AllDies
      BY <1>2, <1>7, ChildFinds, AnswersAreDies
    <3> HIDE DEF call, e
    <3>3. /\ Len(stack') = n + 1 /\ stack'[n + 1] = call
          /\ \A i \in 1..n : stack'[i] = visited[i]
      <4>1. visited \in Seq(Activations)
        <5>1. Owns(visited, UnitDie, held)
          BY <1>2, Visited DEF visited, n
        <5> QED BY <5>1 DEF Owns
      <4> QED BY <1>2, <1>4, <2>1, <4>1
    <3>4. Last(stack') = call /\ held'[New(held)] = e
      <4>1. held \in [Handles -> AllDies \cup {None}]
        BY DEF Types
      <4> QED BY <1>2, <2>1, <3>3, <4>1, NewIs, GetIs DEF Last
    <3>5. \A i \in 1..n : At(stack', held', i) = At(stack, held, i)
      <4> SUFFICES ASSUME NEW i \in 1..n PROVE At(stack', held', i) = At(stack, held, i)
        OBVIOUS
      <4>1. Types /\ Owns(stack, UnitDie, held) /\ i \in 1..Len(stack) /\ {} \cap Of(stack[i]) = {}
        BY <1>2 DEF n
      <4>2. Room(held) => \A x : /\ Get(held, x)[stack[i].die] = At(stack, held, i)
                                 /\ Dealloc(Get(held, x), {})[stack[i].die] = At(stack, held, i)
        BY <4>1, AtStays
      <4> QED BY <1>4, <2>1, <3>3, <4>2 DEF At
    <3>6. call.die = New(held) /\ call.visited = FALSE
      BY DEF call
    <3>7. Reached' = next
      <4>1. Reached' = <<cu, e[2]>>
        BY <1>1, <3>1, <3>4, <3>6 DEF Reached, ComesTo
      <4> QED BY <3>2, <4>1
    <3>8. Descends(stack', held', cu, 0)
      <4>1. /\ Len(stack) \in Nat /\ Len(stack') \in Nat \ {0} /\ Len(stack') <= Len(stack) + 1
            /\ Len(stack') = n + 1 /\ Len(stack') # 1 /\ Len(stack') - 1 = n
        BY <1>2, <3>3 DEF n
      <4>2. \A i \in 1..(Len(stack') - 1) :
               At(stack', held', i) = At(stack, held, i) /\ stack'[i].visited
        BY <1>4, <3>3, <3>5, <4>1
      <4>3. At(stack', held', n + 1) = e
        BY <3>3, <3>4, <3>6 DEF At
      <4>4. /\ At(stack', held', Len(stack'))[1] = cu
            /\ Die(At(stack', held', Len(stack'))).parent
                 = IF Len(stack') = 1 THEN 0 ELSE At(stack, held, Len(stack') - 1)[2]
        <5>1. e[1] = cu
          BY <3>2
        <5> QED BY <1>2, <3>2, <4>1, <4>3, <5>1
      <4>5. Descends(stack, held, cu, 0)
        BY <1>2
      <4> QED BY <4>1, <4>2, <4>4, <4>5, DescendsOn
    <3>9. e \notin DiesOfEntries(printed')
      BY <1>3, <3>2, NotDueYet
    <3>10. /\ \A i \in 1..n : die_stack'[i - 1] = DoneNow.stack[i - 1]
           /\ ~die_stack'[n].printed
      <4>1. die_stack' = [DoneNow.stack EXCEPT ![n] = [die |-> NULL, printed |-> FALSE]]
        BY <2>1 DEF SetEntry
      <4>2. \A i \in 1..n : i - 1 # n /\ i - 1 \in 0..DIE_STACK_SIZE
        BY <1>2, <3>1, DepthAssumption
      <4> QED BY <1>3, <3>1, <4>1, <4>2 DEF StackEntries
    <3>11. StackTells'
      <4>1. \A i \in 1..Len(stack') : i \in 1..n \/ i = n + 1
        BY <1>2, <3>3
      <4>2. ASSUME NEW i \in 1..Len(stack')
            PROVE  /\ stack'[i].visited => die_stack'[i - 1].die = stack'[i].die
                   /\ die_stack'[i - 1].printed
                        <=> held'[stack'[i].die] \in DiesOfEntries(printed')
        <5>1. CASE i = n + 1
          BY <1>2, <3>1, <3>3, <3>4, <3>6, <3>9, <3>10, <5>1
        <5>2. CASE i \in 1..n
          BY <1>3, <1>4, <3>3, <3>5, <3>10, <5>2 DEF At
        <5> QED BY <4>1, <5>1, <5>2
      <4>3. cu' = cu
        BY <1>1
      <4> QED BY <1>1, <3>8, <4>2, <4>3, StackKept
    <3>12. UnitsCounted'
      BY <1>5, <3>1
    <3> QED BY <1>1, <1>3, <3>7, <3>11, <3>12, PrintedKept
  <2> QED BY <2>2, <2>3
<1> QED BY <1>6, <1>7

(* Where a member begins, nothing is printed and nothing is due.              *)
Begun == phase = Start /\ cu = 0 /\ cu_count = 0 /\ printed = <<>>

LEMMA BegunPrints == Types /\ Begun => PrintedInv
<1> SUFFICES ASSUME Types, Begun PROVE PrintedInv
  OBVIOUS
<1>1. /\ phase \in {"infos", "frames"} /\ cu = 0 /\ cu_count = 0 /\ printed = <<>>
      /\ phase = "frames" => ~opt.info /\ ~opt.search
  BY DEF Begun, Start
<1>2. EntriesRight(printed) /\ DiesOfEntries(printed) = {}
  <2>1. <<>> \in Seq(Entries) /\ 1..Len(<<>>) = {} /\ DOMAIN <<>> = {}
    OBVIOUS
  <2>2. Range(<<>>) = {}
    BY <2>1 DEF Range
  <2>3. EntriesRight(<<>>) /\ DiesOfEntries(<<>>) = {}
    BY <2>1, <2>2 DEF EntriesRight, DiesOfEntries
  <2> QED BY <1>1, <2>3
<1>3. UnitsCounted
  <2>1. \A b \in Named : ~(b <= 0)
    BY WalkedIs
  <2>2. {b \in Named : b <= 0} = {}
    BY <2>1
  <2>3. Cardinality({b \in Named : b <= 0}) = 0
    BY <2>2, FS_EmptySet
  <2>4. obj.bad \in Nat
    BY ObjectType DEF Objects
  <2> QED BY <1>1, <2>3, <2>4 DEF UnitsCounted
<1>4. StackTells
  BY <1>1 DEF StackTells
<1>5. DueBefore(Reached) = {}
  <2>1. CASE phase = "frames"
    BY <1>1, <2>1, NothingDue
  <2>2. CASE phase = "infos"
    <3>1. Reached = <<1, 1>>
      BY <1>1, <2>2 DEF Reached
    <3>2. ASSUME NEW d \in WalkedDies, NEW j \in Nat \ {0}
          PROVE  ~Before(d, <<1, 1>>) /\ ~Before(<<d[1], j>>, <<1, 1>>)
      <4>1. d[1] \in Nat \ {0} /\ d[2] \in Nat \ {0}
        BY DieTypes DEF WalkedDies
      <4> QED BY <4>1 DEF Before
    <3>3. \A d \in WalkedDies : \A j \in 1..Len(obj.cus[d[1]].dies) : j \in Nat \ {0}
      <4> SUFFICES ASSUME NEW d \in WalkedDies
                   PROVE  \A j \in 1..Len(obj.cus[d[1]].dies) : j \in Nat \ {0}
        OBVIOUS
      <4>1. Len(obj.cus[d[1]].dies) \in Nat
        BY DieTypes, UnitTree DEF WalkedDies
      <4> QED BY <4>1
    <3>4. \A d \in WalkedDies : ~Before(d, <<1, 1>>)
      <4>1. 1 \in Nat \ {0}
        OBVIOUS
      <4> QED BY <3>2, <4>1
    <3> QED BY <3>1, <3>2, <3>3, <3>4, DueIs
  <2> QED BY <1>1, <2>1, <2>2
<1> QED BY <1>2, <1>3, <1>4, <1>5 DEF PrintedInv

LEMMA NextMemberPrints ==
  ASSUME Now, PrintedInv, NextMember, Types'
  PROVE  PrintedInv'
<1>1. phase = "frames" /\ run' = run
  BY DEF NextMember
<1>2. CASE m = Len(run.members)
  <2>1. phase' = "done" /\ UNCHANGED <<run, m, printed>>
    BY <1>2 DEF NextMember
  <2> QED BY <1>1, <2>1, FramesPrinted
<1>3. CASE m # Len(run.members)
  <2>1. Begun'
    BY <1>1, <1>3 DEF NextMember, Begun, Start, opt
  <2>2. Types' /\ Begun' => PrintedInv'
    BY BegunPrints, PTL
  <2> QED BY <2>1, <2>2
<1> QED BY <1>2, <1>3

LEMMA DumpKeepsPrinted == IInv /\ PrintedInv /\ [Next]_vars => PrintedInv'
<1> SUFFICES ASSUME IInv, PrintedInv, [Next]_vars PROVE PrintedInv'
  OBVIOUS
<1>1. /\ phase # "exit" => Now
      /\ Types' /\ EntriesRight(printed)
  <2>1. Types'
    BY DumpKeepsIInv DEF IInv
  <2> QED BY <2>1 DEF IInv, Now, PrintedInv
<1>2. CASE (NextUnit \/ PrintDie \/ NextSibling \/ NoSibling) /\ UNCHANGED fvars
  <2>1. Now
    BY <1>1, <1>2 DEF NextUnit, PrintDie, NextSibling, NoSibling
  <2> QED BY <1>2, <2>1, NextUnitPrints, PrintDiePrints, NextSiblingPrints, NoSiblingPrints
<1>3. CASE LeaveOut \/ Unnamed \/ StartSearch \/ NextSearchUnit
  <2>1. UNCHANGED <<run, m, printed>> /\ phase \in {"frames", "next unit"}
    BY <1>3 DEF LeaveOut, Unnamed, StartSearch, NextSearchUnit, ivars
  <2>2. phase' \in {"frames", "search", "next unit"}
    BY <1>3 DEF LeaveOut, Unnamed, StartSearch, NextSearchUnit, SearchIn, ivars
  <2> QED BY <2>1, <2>2, FramesPrinted
<1>4. CASE FoundName \/ LookInside \/ SearchSibling \/ NotHere
  <2>1. UNCHANGED <<run, m, printed>> /\ phase = "search"
    BY <1>4 DEF FoundName, LookInside, SearchSibling, NotHere, Searching
  <2>2. phase' \in {"frames", "search", "next unit"}
    BY <1>4 DEF FoundName, LookInside, SearchSibling, NotHere, Searching
  <2> QED BY <2>1, <2>2, FramesPrinted
<1>5. CASE NextMember
  <2>1. Now
    BY <1>1, <1>5 DEF NextMember
  <2> QED BY <1>1, <1>5, <2>1, NextMemberPrints
<1>6. CASE NoMemory
  <2>1. phase' = "exit" /\ UNCHANGED <<run, m, printed>>
    BY <1>6 DEF NoMemory
  <2> QED BY <1>1, <2>1, ExitPrinted
<1>7. CASE UNCHANGED vars
  <2>1. UNCHANGED <<run, m, phase, cu, cu_count, held, stack, die_stack, printed>>
    BY <1>7 DEF vars, ivars
  <2>2. CASE phase = "exit"
    BY <1>1, <2>1, <2>2, ExitPrinted
  <2>3. CASE phase # "exit"
    <3>1. /\ EntriesRight(printed) /\ UnitsCounted /\ StackTells
          /\ DiesOfEntries(printed) = DueBefore(Reached)
      BY <2>3 DEF PrintedInv
    <3>2. Reached' = Reached
      BY <2>1, SameMember DEF Reached, ComesTo
    <3>3. UnitsCounted'
      <4>1. Named' = Named /\ Walked' = Walked /\ obj' = obj
        BY <2>1, SameMember
      <4> QED BY <2>1, <3>1, <4>1 DEF UnitsCounted
    <3>4. StackTells'
      <4>1. phase' = "walk" =>
              /\ Descends(stack', held', cu', 0)
              /\ \A i \in 1..Len(stack') :
                   stack'[i].visited => die_stack'[i - 1].die = stack'[i].die
              /\ \A i \in 1..Len(stack') :
                   die_stack'[i - 1].printed
                     <=> held'[stack'[i].die] \in DiesOfEntries(printed')
        BY <2>1, <3>1 DEF StackTells
      <4> QED BY <2>1, <4>1, StackKept
    <3> QED BY <2>1, <3>1, <3>2, <3>3, <3>4, PrintedKept
  <2> QED BY <2>2, <2>3
<1> QED BY <1>2, <1>3, <1>4, <1>5, <1>6, <1>7 DEF Next

LEMMA PrintedSays == IInv /\ PrintedInv => OwnersPrinted
<1> SUFFICES ASSUME IInv, PrintedInv PROVE OwnersPrinted
  OBVIOUS
<1>1. Types /\ EntriesRight(printed)
  BY DEF IInv, PrintedInv
<1>2. /\ printed \in Seq(Entries) /\ DOMAIN printed = 1..Len(printed)
      /\ \A i \in 1..Len(printed) :
           LET d == printed[i].die
           IN /\ d \in Wanted
              /\ printed[i].level = Cardinality(Chain(d[1], d[2])) - 1
              /\ i > 1 => Before(printed[i - 1].die, d)
  BY <1>1 DEF EntriesRight
<1>3. ASSUME phase \notin {"infos", "walk", "exit"}
      PROVE  {e.die : e \in Range(printed)} = Wanted
  <2>1. DiesOfEntries(printed) = DueBefore(<<Len(obj.cus) + 1, 1>>)
    BY <1>3 DEF PrintedInv, Reached
  <2>2. \A d \in WalkedDies : Before(d, <<Len(obj.cus) + 1, 1>>)
    <3> SUFFICES ASSUME NEW d \in WalkedDies PROVE Before(d, <<Len(obj.cus) + 1, 1>>)
      OBVIOUS
    <3>1. d[1] \in 1..Len(obj.cus) /\ Len(obj.cus) \in Nat
      BY <1>1, DieTypes, WalkedIs DEF WalkedDies
    <3> QED BY <3>1 DEF Before
  <2>3. DueBefore(<<Len(obj.cus) + 1, 1>>) = Wanted
    BY <1>1, <2>2, DueAll
  <2> QED BY <2>1, <2>3 DEF DiesOfEntries
<1> QED BY <1>2, <1>3 DEF OwnersPrinted

(* dwarfdump prints the DIEs that the options ask for, all of them, none of   *)
(* them twice, in the order of the section and at their depth: with -S also    *)
(* the owners of what matches, however many match below one, and with -u only  *)
(* in the units it names.                                                  *)
THEOREM OwnersAlwaysPrinted == Spec => []OwnersPrinted
<1>1. Init => PrintedInv
  <2> SUFFICES ASSUME Init PROVE PrintedInv
    OBVIOUS
  <2>1. Types
    BY InitIInv DEF IInv
  <2>2. Begun
    BY DEF Init, InfosInit, Begun
  <2> QED BY <2>1, <2>2, BegunPrints
<1>2. IInv /\ PrintedInv /\ [Next]_vars => PrintedInv'
  BY DumpKeepsPrinted
<1>3. IInv /\ PrintedInv => OwnersPrinted
  BY PrintedSays
<1> QED BY <1>1, <1>2, <1>3, SpecKeepsIInv, PTL DEF Spec
-------------------------------------------------------------------------------
(* The names of the FDEs.                                                   *)

NameEntries == [fde : 1..Len(obj.fdes), name : AllDies \cup {None}]

(* NamesFound, of one FDE; the search for it begins in the unit from.         *)
SearchGoes == opt.names /\ obj.bad = 0 /\ opt.most > Len(obj.cus)

NameRight(x, from) ==
  LET found == Functions(obj.fdes[x.fde].low)
  IN /\ x.name # None => \E t \in found : x.name = <<t[1], t[3]>>
     /\ x.name = None /\ SearchGoes => \A t \in found : t[1] < from

FromAt(ns, i) ==
  IF i = 1 THEN 1 ELSE IF ns[i - 1].name = None THEN 1 ELSE ns[i - 1].name[1]

NamesRight(ns) == \A i \in 1..Len(ns) : NameRight(ns[i], FromAt(ns, i))

From == FromAt(names, Len(names) + 1)

(* No function for the next FDE is before r, where the search has come to.     *)
NoneBefore(r) ==
  \A t \in Functions(obj.fdes[fde].low) : t[1] < From \/ ~Before(<<t[1], t[2]>>, r)

Unit == held[current][1]

SearchPath ==
  /\ current # NULL => held[current] = <<Unit, 1>> /\ Unit \in 1..Len(obj.cus)
  /\ phase = "search" =>
       /\ Descends(search, held, Unit, 1)
       /\ \A i \in 1..(Len(search) - 1) : Die(held[search[i].die]).sub

AllSearched ==
  SearchGoes =>
    /\ current # NULL => cu \in {0, Unit}
    /\ phase = "frames" => IF current = NULL THEN cu = 0 ELSE cu # 0 => From = Unit
    /\ phase = "next unit" => NoneBefore(<<cu + 1, 1>>)
    /\ phase = "search" => cu = 0 \/ NoneBefore(<<cu, ComesTo(search, held)>>)

NamesInv ==
  /\ names \in Seq(NameEntries) /\ NamesRight(names)
  /\ phase \in {"infos", "walk"} => names = <<>>
  /\ phase # "exit" => SearchPath /\ AllSearched

LEMMA FunctionIs ==
  ASSUME Types, NEW low, NEW t \in Functions(low)
  PROVE  /\ t[1] \in 1..Len(obj.cus) /\ t[1] \in Nat
         /\ t[2] \in 1..Len(obj.cus[t[1]].dies) /\ t[2] \in Nat /\ t[2] > 1
         /\ obj.cus[t[1]].dies[t[2]].sub
         /\ \A i \in Chain(t[1], t[2]) \ {1} : obj.cus[t[1]].dies[i].sub
         /\ obj.cus[t[1]].dies[t[2]].low = low
         /\ obj.cus[t[1]].dies[t[2]].name = t[3]
         /\ obj.cus[t[1]].dies[t[3]].name = t[3]
         /\ t[3] \in 1..Len(obj.cus[t[1]].dies)
         /\ <<t[1], t[2]>> \in AllDies
<1> DEFINE dies == obj.cus[t[1]].dies
<1>1. /\ \E c \in DOMAIN obj.cus : t \in {c} \X (DOMAIN obj.cus[c].dies) \X (DOMAIN obj.cus[c].dies)
      /\ t[2] > 1 /\ \A i \in Chain(t[1], t[2]) \ {1} : dies[i].sub
      /\ dies[t[2]].low = low /\ dies[t[2]].name = t[3] /\ dies[t[3]].name = t[3]
  BY DEF Functions
<1>2. t[1] \in DOMAIN obj.cus /\ t[2] \in DOMAIN dies /\ t[3] \in DOMAIN dies
  BY <1>1
<1>3. t[1] \in 1..Len(obj.cus) /\ Len(obj.cus) \in Nat
  BY <1>2, ObjectType
<1>4. t[2] \in 1..Len(dies) /\ t[3] \in 1..Len(dies) /\ Len(dies) \in Nat /\ TreeOf(dies)
  BY <1>2, <1>3, UnitTree
<1>5. t[2] \in Chain(t[1], t[2])
  <2>1. Over(dies)[t[2]] = {t[2]} \cup Over(dies)[dies[t[2]].parent]
    BY <1>4, OverOne
  <2> QED BY <2>1 DEF Chain
<1>6. t[1] \in Nat /\ t[2] \in Nat
  BY <1>3, <1>4
<1>7. <<t[1], t[2]>> \in AllDies
  BY <1>3, <1>4, <1>6 DEF AllDies
<1>8. /\ t[2] > 1 /\ dies[t[2]].sub
      /\ \A i \in Chain(t[1], t[2]) \ {1} : dies[i].sub
  <2>1. t[2] > 1 /\ \A i \in Chain(t[1], t[2]) \ {1} : dies[i].sub
    BY <1>1
  <2>2. t[2] # 1
    BY <1>6, <2>1
  <2> HIDE DEF dies
  <2> QED BY <1>5, <2>1, <2>2
<1> HIDE DEF dies
<1> QED BY <1>1, <1>3, <1>4, <1>6, <1>7, <1>8 DEF dies

(* A function is in nothing but functions.                                   *)
LEMMA PassedOver ==
  ASSUME Types, NEW d \in AllDies, d[2] # 1, ~Die(d).sub, NEW low, NEW t \in Functions(low),
         t[1] = d[1], d[2] <= t[2]
  PROVE  After(obj.cus[d[1]].dies, d[2]) <= t[2]
<1>1. /\ d[2] \in 1..Len(obj.cus[d[1]].dies) /\ TreeOf(obj.cus[d[1]].dies)
      /\ Die(d) = obj.cus[d[1]].dies[d[2]]
  BY DieTypes
<1>2. t[2] \in Nat /\ \A i \in Chain(d[1], t[2]) \ {1} : obj.cus[d[1]].dies[i].sub
  <2>1. t[2] \in Nat /\ \A i \in Chain(t[1], t[2]) \ {1} : obj.cus[t[1]].dies[i].sub
    BY FunctionIs
  <2> QED BY <2>1
<1>3. d[2] \notin Chain(d[1], t[2])
  BY <1>1, <1>2
<1>4. ~(t[2] < After(obj.cus[d[1]].dies, d[2]))
  BY <1>1, <1>2, <1>3, BelowIt DEF Chain
<1>5. After(obj.cus[d[1]].dies, d[2]) \in Int
  <2>1. EndsAt(obj.cus[d[1]].dies, d[2], After(obj.cus[d[1]].dies, d[2]))
    BY <1>1, AfterIs
  <2> QED BY <2>1 DEF EndsAt
<1> QED BY <1>2, <1>4, <1>5

(* One that get_proc_name() does not name is not it.                          *)
LEMMA NotNamed ==
  ASSUME Types, NEW d \in AllDies, Die(d).sub => get_proc_name(d) = None,
         NEW t \in Functions(obj.fdes[fde].low)
  PROVE  <<t[1], t[2]>> # d
<1> SUFFICES ASSUME <<t[1], t[2]>> = d PROVE FALSE
  OBVIOUS
<1>1. d[1] = t[1] /\ d[2] = t[2] /\ Die(d) = obj.cus[d[1]].dies[d[2]]
  BY DieTypes
<1>2. /\ Die(d).sub /\ Die(d).low = obj.fdes[fde].low /\ Die(d).name = t[3]
      /\ t[3] \in 1..Len(obj.cus[t[1]].dies)
      /\ obj.cus[d[1]].dies[t[3]].name = t[3]
  <2>1. /\ obj.cus[t[1]].dies[t[2]].sub /\ obj.cus[t[1]].dies[t[2]].low = obj.fdes[fde].low
        /\ obj.cus[t[1]].dies[t[2]].name = t[3] /\ obj.cus[t[1]].dies[t[3]].name = t[3]
        /\ t[3] \in 1..Len(obj.cus[t[1]].dies)
    BY FunctionIs
  <2> QED BY <1>1, <2>1
<1>3. t[3] # 0
  <2>1. Len(obj.cus[t[1]].dies) \in Nat
    BY FunctionIs, UnitTree
  <2> QED BY <1>2, <2>1
<1>4. get_proc_name(d) = <<d[1], t[3]>>
  <2>1. Die(<<d[1], t[3]>>).name = t[3]
    BY <1>2 DEF Die
  <2>2. NameOf(d) = <<d[1], t[3]>>
    BY <1>2, <1>3, <2>1 DEF NameOf
  <2> QED BY <1>2, <2>2 DEF get_proc_name
<1>5. <<d[1], t[3]>> \in AllDies
  <2>1. d[1] \in 1..Len(obj.cus) /\ d[1] \in Nat /\ Len(obj.cus[d[1]].dies) \in Nat
    BY <1>1, FunctionIs, UnitTree
  <2>2. t[3] \in Nat
    BY <1>1, <1>2, <2>1
  <2> QED BY <1>1, <1>2, <2>1, <2>2 DEF AllDies
<1> QED BY <1>2, <1>4, <1>5, DieIsNot

LEMMA UnitEnds ==
  ASSUME NEW dies, TreeOf(dies)
  PROVE  After(dies, 1) = Len(dies) + 1
<1>1. Len(dies) \in Nat \ {0} /\ \A j \in 2..Len(dies) : dies[j].parent \in 1..(j - 1)
  BY TreeFacts
<1>2. EndsAt(dies, 1, After(dies, 1))
  BY <1>1, AfterIs
<1>3. After(dies, 1) \in 2..(Len(dies) + 1)
  BY <1>1, <1>2 DEF EndsAt
<1>4. ~(After(dies, 1) <= Len(dies))
  <2> SUFFICES ASSUME After(dies, 1) <= Len(dies) PROVE FALSE
    OBVIOUS
  <2>1. After(dies, 1) \in 2..Len(dies) /\ dies[After(dies, 1)].parent < 1
    BY <1>1, <1>2, <1>3 DEF EndsAt
  <2> QED BY <1>1, <2>1
<1> QED BY <1>1, <1>3, <1>4
-------------------------------------------------------------------------------
(* A step that stays in the member.                                         *)

LEMMA SameFunctions ==
  ASSUME UNCHANGED <<run, m>>, NEW low
  PROVE  Functions(low)' = Functions(low)
  BY SameMember DEF Functions

LEMMA NamesKept ==
  ASSUME UNCHANGED <<run, m>>, names' \in Seq(NameEntries), NamesRight(names'),
         phase' \in {"infos", "walk"} => names' = <<>>,
         phase' # "exit" => SearchPath' /\ AllSearched'
  PROVE  NamesInv'
<1>1. NameEntries' = NameEntries /\ obj' = obj /\ opt' = opt
  BY SameMember DEF NameEntries
<1>2. NamesRight(names)' = NamesRight(names')
  BY <1>1, SameFunctions DEF NamesRight, NameRight, FromAt, SearchGoes
<1> QED BY <1>1, <1>2 DEF NamesInv

LEMMA PathKept ==
  ASSUME UNCHANGED <<run, m>>,
         current' # NULL => held'[current'] = <<Unit', 1>> /\ Unit' \in 1..Len(obj.cus),
         phase' = "search" =>
           /\ Descends(search', held', Unit', 1)
           /\ \A i \in 1..(Len(search') - 1) : Die(At(search', held', i)).sub
  PROVE  SearchPath'
<1>1. Descends(search, held, Unit, 1)' = Descends(search', held', Unit', 1)
  <2>1. obj' = obj
    BY SameMember
  <2> QED BY <2>1, ZenonT(30) DEF Descends, Die, Unit
<1>2. obj' = obj
  BY SameMember
<1> QED BY <1>1, <1>2 DEF SearchPath, At, Die

LEMMA SearchKept ==
  ASSUME UNCHANGED <<run, m>>,
         SearchGoes =>
           /\ current' # NULL => cu' \in {0, Unit'}
           /\ phase' = "frames" => IF current' = NULL THEN cu' = 0 ELSE cu' # 0 => From' = Unit'
           /\ phase' = "next unit" => UNCHANGED <<fde, names>> /\ NoneBefore(<<cu' + 1, 1>>)
           /\ phase' = "search" =>
                /\ UNCHANGED <<fde, names>>
                /\ cu' = 0 \/ NoneBefore(<<cu', ComesTo(search', held')>>)
  PROVE  AllSearched'
<1>1. obj' = obj /\ opt' = opt /\ SearchGoes' = SearchGoes
  BY SameMember DEF SearchGoes
<1>2. ASSUME UNCHANGED <<fde, names>>
      PROVE  /\ NoneBefore(<<cu + 1, 1>>)' = NoneBefore(<<cu' + 1, 1>>)
             /\ NoneBefore(<<cu, ComesTo(search, held)>>)'
                  = NoneBefore(<<cu', ComesTo(search', held')>>)
  BY <1>1, <1>2, SameFunctions DEF NoneBefore, From, FromAt, ComesTo
<1> QED BY <1>1, <1>2 DEF AllSearched, Unit

(* One more FDE is printed.                                                  *)
LEMMA OneNameMore ==
  ASSUME Types, names \in Seq(NameEntries), NamesRight(names), fde <= Len(obj.fdes),
         NEW name \in AllDies \cup {None}, NameRight([fde |-> fde, name |-> name], From)
  PROVE  LET now == Append(names, [fde |-> fde, name |-> name])
         IN /\ now \in Seq(NameEntries) /\ NamesRight(now)
            /\ FromAt(now, Len(now) + 1) = IF name = None THEN 1 ELSE name[1]
<1> DEFINE x == [fde |-> fde, name |-> name]
           now == Append(names, x)
           n == Len(names)
<1>1. x \in NameEntries
  BY FramesCounted DEF NameEntries
<1> HIDE DEF x
<1>2. /\ now \in Seq(NameEntries) /\ Len(now) = n + 1 /\ n \in Nat /\ now[n + 1] = x
      /\ \A i \in 1..n : now[i] = names[i]
  BY <1>1
<1> HIDE DEF now, n
<1>3. ASSUME NEW i \in 1..(n + 1)
      PROVE  NameRight(now[i], FromAt(now, i))
  <2>1. FromAt(now, i) = FromAt(names, i)
    <3>1. i # 1 => i - 1 \in 1..n
      BY <1>2
    <3> QED BY <1>2, <3>1 DEF FromAt
  <2>2. CASE i = n + 1
    BY <1>2, <2>1, <2>2 DEF From, n, x
  <2>3. CASE i \in 1..n
    BY <1>2, <2>1, <2>3 DEF NamesRight, n
  <2> QED BY <1>2, <2>2, <2>3
<1>4. NamesRight(now)
  BY <1>2, <1>3 DEF NamesRight
<1>5. FromAt(now, Len(now) + 1) = IF name = None THEN 1 ELSE name[1]
  <2>1. n + 1 + 1 # 1 /\ n + 1 + 1 - 1 = n + 1
    BY <1>2
  <2>2. x.name = name
    BY DEF x
  <2> QED BY <1>2, <2>1, <2>2 DEF FromAt
<1> QED BY <1>2, <1>4, <1>5 DEF now, x

(* The walk and the FDEs that are left out change no name.                     *)
LEMMA NamesStay ==
  ASSUME NamesInv, UNCHANGED <<run, m, names>>, phase' = "exit"
  PROVE  NamesInv'
  BY NamesKept DEF NamesInv

LEMMA WalkNames ==
  ASSUME Now, NamesInv, (NextUnit \/ PrintDie \/ NextSibling \/ NoSibling) /\ UNCHANGED fvars
  PROVE  NamesInv'
<1> USE DEF Now
<1>1. /\ phase \in {"infos", "walk"} /\ UNCHANGED <<run, m, current, names>>
      /\ phase' \in {"infos", "walk", "frames", "exit"}
  BY DEF NextUnit, PrintDie, NextSibling, NoSibling, fvars
<1>2. current = NULL /\ names = <<>> /\ names \in Seq(NameEntries) /\ NamesRight(names)
  BY <1>1 DEF PhaseInv, NamesInv
<1>3. SearchPath'
  BY <1>1, <1>2, PathKept
<1>4. ASSUME SearchGoes, phase' = "frames"
      PROVE  cu' = 0
  <2>1. NextUnit /\ phase = "infos"
    BY <1>1, <1>4 DEF NextUnit, PrintDie, NextSibling, NoSibling
  <2>2. NextCu.res # "OK" \/ cu_count >= opt.most
    BY <1>4, <2>1 DEF NextUnit
  <2>3. cu_count \in Int /\ cu_count <= Len(obj.cus) /\ Len(obj.cus) \in Int /\ cu \in Int
        /\ opt.most \in Int /\ cu + 1 # 0
    <3>1. cu_count \in 0..Len(obj.cus) /\ cu \in 0..Len(obj.cus)
      BY DEF Types
    <3>2. Len(obj.cus) \in Nat /\ opt.most \in Nat
      BY ObjectType
    <3> QED BY <3>1, <3>2
  <2>4. NextCu.res # "OK"
    BY <1>4, <2>2, <2>3 DEF SearchGoes
  <2>5. NextCu.cu = 0
    BY <1>4, <2>3, <2>4 DEF NextCu, SearchGoes
  <2> QED BY <2>1, <2>5 DEF NextUnit
<1>5. AllSearched'
  BY <1>1, <1>2, <1>4, SearchKept
<1> QED BY <1>1, <1>2, <1>3, <1>5, NamesKept
-------------------------------------------------------------------------------
(* The steps of print_frames().                                             *)

LEMMA NatUpTo == \A n \in Nat : \A k \in 0..n : k \in Nat
  OBVIOUS

LEMMA InTheFrames ==
  ASSUME Now, NamesInv, phase \in {"frames", "search", "next unit"}
  PROVE  /\ names \in Seq(NameEntries) /\ NamesRight(names) /\ AllSearched
         /\ held \in [Handles -> AllDies \cup {None}] /\ cu \in 0..Len(obj.cus) /\ cu \in Nat
         /\ Len(obj.cus) \in Nat
         /\ current \in Handles \cup {NULL} /\ NULL \notin Handles
         /\ current # NULL => /\ held[current] = <<Unit, 1>> /\ Unit \in 1..Len(obj.cus)
                              /\ held[current] \in AllDies /\ held[current] # None
<1>1. names \in Seq(NameEntries) /\ NamesRight(names) /\ AllSearched /\ SearchPath
  BY DEF NamesInv
<1>2. /\ held \in [Handles -> AllDies \cup {None}] /\ cu \in 0..Len(obj.cus)
      /\ current \in Handles \cup {NULL}
  BY DEF Now, Types
<1>3. Len(obj.cus) \in Nat /\ NULL \notin Handles /\ cu \in Nat
  <2>1. Len(obj.cus) \in Nat
    BY WalkedIs DEF Now
  <2>2. NULL \notin Handles
    BY HandlesAssumption DEF NULL
  <2>3. cu \in Nat
    BY <1>2, <2>1, NatUpTo, Zenon
  <2> QED BY <2>1, <2>2, <2>3
<1>4. current # NULL => held[current] = <<Unit, 1>> /\ Unit \in 1..Len(obj.cus)
  BY <1>1 DEF SearchPath
<1>5. current # NULL => held[current] \in AllDies /\ held[current] # None
  BY <1>4, DiesOf, DieIsNot DEF Now
<1> QED BY <1>1, <1>2, <1>3, <1>4, <1>5

(* An FDE is done without a search.                                          *)
LEMMA FramesNames ==
  ASSUME Now, NamesInv, LeaveOut \/ Unnamed
  PROVE  NamesInv'
<1> USE DEF Now
<1>1. /\ phase = "frames" /\ fde <= Len(obj.fdes)
      /\ UNCHANGED <<run, m, phase, cu, held, search, current>>
      /\ \/ names' = names
         \/ ~opt.names /\ names' = Append(names, [fde |-> fde, name |-> None])
  BY DEF LeaveOut, Unnamed, Shown, ivars
<1>2. /\ names \in Seq(NameEntries) /\ NamesRight(names) /\ AllSearched
      /\ current # NULL => held[current] = <<Unit, 1>> /\ Unit \in 1..Len(obj.cus)
  BY <1>1, InTheFrames
<1>3. SearchPath'
  BY <1>1, <1>2, PathKept DEF Unit
<1>4. CASE names' = names
  <2>1. From' = From
    BY <1>4 DEF From, FromAt
  <2>2. AllSearched'
    BY <1>1, <1>2, <2>1, SearchKept DEF AllSearched, Unit
  <2> QED BY <1>1, <1>2, <1>3, <1>4, <2>2, NamesKept
<1>5. CASE ~opt.names /\ names' = Append(names, [fde |-> fde, name |-> None])
  <2>1. ~SearchGoes /\ NameRight([fde |-> fde, name |-> None], From)
    BY <1>5 DEF NameRight, SearchGoes
  <2>2. None \in AllDies \cup {None} /\ Types
    OBVIOUS
  <2>3. names' \in Seq(NameEntries) /\ NamesRight(names')
    BY <1>1, <1>2, <1>5, <2>1, <2>2, OneNameMore
  <2>4. AllSearched'
    BY <1>1, <2>1, SearchKept
  <2> QED BY <1>1, <1>3, <2>3, <2>4, NamesKept
<1> QED BY <1>1, <1>4, <1>5

(* The DIE of the unit c is in current, and its children are next.            *)
LEMMA SearchInNames ==
  ASSUME Types, names \in Seq(NameEntries), NamesRight(names),
         UNCHANGED <<run, m, fde, names>>,
         NEW c \in 1..Len(obj.cus), NEW h \in [Handles -> AllDies \cup {None}],
         current' \in Handles, NULL \notin Handles, h[current'] = <<c, 1>>, SearchIn(<<c, 1>>, h),
         cu' \in Nat,
         SearchGoes => cu' \in {0, c} /\ (cu' = c => NoneBefore(<<c, 2>>))
  PROVE  NamesInv'
<1> DEFINE d == <<c, 1>>
           dies == obj.cus[c].dies
<1>1. /\ d \in AllDies /\ d # None /\ TreeOf(dies) /\ Len(dies) \in Nat /\ c \in Nat \ {0}
      /\ After(dies, 1) = Len(dies) + 1 /\ obj' = obj
  <2>1. d \in AllDies /\ TreeOf(dies) /\ Len(dies) \in Nat
    BY DiesOf, UnitTree
  <2>2. Len(obj.cus) \in Nat
    BY WalkedIs
  <2>3. c \in Nat \ {0}
    BY <2>2
  <2> HIDE DEF d, dies
  <2>4. After(dies, 1) = Len(dies) + 1 /\ d # None /\ obj' = obj
    BY <2>1, DieIsNot, UnitEnds, SameMember
  <2> QED BY <2>1, <2>3, <2>4
<1>2. CASE ChildOf(d) = None
  <2>1. phase' = "next unit" /\ held' = h
    BY <1>2 DEF SearchIn
  <2>2. Unit' = c
    <3>1. held'[current'] = <<c, 1>>
      BY <2>1
    <3> QED BY <3>1 DEF Unit
  <2>3. Len(dies) = 1
    <3>1. After(dies, 1) = 1 + 1
      BY <1>1, <1>2, ChildFinds
    <3> HIDE DEF dies
    <3>2. After(dies, 1) = Len(dies) + 1 /\ Len(dies) \in Nat
      BY <1>1
    <3>3. \A n \in Nat : n + 1 = 1 + 1 => n = 1
      OBVIOUS
    <3> QED BY <3>1, <3>2, <3>3
  <2>4. ASSUME SearchGoes
        PROVE  cu' \in {0, c} /\ NoneBefore(<<cu' + 1, 1>>)
    <3>1. ASSUME NEW t \in Functions(obj.fdes[fde].low)
          PROVE  t[1] < From \/ ~Before(<<t[1], t[2]>>, <<cu' + 1, 1>>)
      <4>1. /\ t[1] \in 1..Len(obj.cus) /\ t[2] \in Nat /\ t[2] > 1 /\ t[1] \in Nat /\ t[1] # 0
            /\ t[2] \in 1..Len(obj.cus[t[1]].dies)
        <5>1. /\ t[1] \in 1..Len(obj.cus) /\ t[2] \in Nat /\ t[2] > 1 /\ t[1] \in Nat
              /\ t[2] \in 1..Len(obj.cus[t[1]].dies)
          BY FunctionIs
        <5>2. t[1] # 0
          BY <5>1
        <5> QED BY <5>1, <5>2
      <4>2. t[1] # c
        <5>1. ~(t[2] \in 1..1)
          BY <4>1
        <5> QED BY <2>3, <4>1, <5>1
      <4>3. CASE cu' = 0
        BY <4>1, <4>3 DEF Before
      <4>4. CASE cu' = c
        <5>1. t[1] < From \/ ~Before(<<t[1], t[2]>>, <<c, 2>>)
          BY <2>4, <4>4 DEF NoneBefore
        <5>2. Before(<<t[1], t[2]>>, <<cu' + 1, 1>>) => Before(<<t[1], t[2]>>, <<c, 2>>)
          BY <1>1, <4>1, <4>2, <4>4 DEF Before
        <5> QED BY <5>1, <5>2
      <4> QED BY <2>4, <4>3, <4>4
    <3> QED BY <2>4, <3>1 DEF NoneBefore
  <2>5. SearchPath'
    BY <1>1, <2>1, <2>2, PathKept
  <2>6. AllSearched'
    BY <2>1, <2>2, <2>4, SearchKept
  <2> QED BY <2>1, <2>5, <2>6, NamesKept
<1>3. CASE ChildOf(d) # None
  <2> DEFINE e == ChildOf(d)
             call == [first |-> New(h), die |-> New(h), visited |-> FALSE]
  <2>1. phase' = "search" /\ Room(h) /\ held' = Get(h, e) /\ search' = <<call>>
    BY <1>3 DEF SearchIn
  <2>2. e = <<c, 2>> /\ Die(e).parent = 1
    BY <1>1, <1>3, ChildFinds
  <2> HIDE DEF e
  <2>3. held'[current'] = <<c, 1>> /\ held'[New(h)] = e
    <3>1. New(h) \in Handles /\ h[New(h)] = None /\ New(h) # current'
      BY <1>1, <2>1, NewIs
    <3> QED BY <2>1, <3>1, GetIs
  <2>4. Unit' = c
    BY <2>3 DEF Unit
  <2>5. Len(search') = 1 /\ search'[1] = call /\ Last(search') = call
        /\ call.die = New(h) /\ ~call.visited
    BY <2>1 DEF Last
  <2> HIDE DEF call
  <2>6. \A i \in 1..Len(search') : i = 1
    BY <2>5
  <2>7. 1..(Len(search') - 1) = {}
    BY <2>5
  <2>8. Descends(search', held', c, 1)
    <3>1. held'[search'[1].die] = e /\ e[1] = c
      BY <2>2, <2>3, <2>5
    <3> QED BY <2>2, <2>6, <2>7, <3>1 DEF Descends
  <2>9. ComesTo(search', held') = 2
    BY <2>2, <2>3, <2>5 DEF ComesTo
  <2>10. SearchPath'
    BY <1>1, <2>1, <2>3, <2>4, <2>7, <2>8, PathKept
  <2>11. AllSearched'
    BY <2>1, <2>4, <2>9, SearchKept
  <2> QED BY <2>1, <2>10, <2>11, NamesKept
<1> QED BY <1>2, <1>3

(* Where the library's walk begins again, no function of the units is before.  *)
LEMMA NoneYet ==
  ASSUME Types, NEW c \in {0, 1}
  PROVE  NoneBefore(<<1, c + 1>>)
<1>1. ASSUME NEW t \in Functions(obj.fdes[fde].low)
      PROVE  ~Before(<<t[1], t[2]>>, <<1, c + 1>>)
  <2>1. t[1] \in 1..Len(obj.cus) /\ t[1] \in Nat /\ t[2] \in Nat /\ t[2] > 1
    BY FunctionIs
  <2>2. ~(t[1] < 1)
    BY <2>1
  <2> QED BY <2>1, <2>2 DEF Before
<1> QED BY <1>1 DEF NoneBefore

(* An FDE whose name is nowhere.                                             *)
LEMMA NoNameThere ==
  ASSUME Types, SearchGoes => NoneBefore(<<Len(obj.cus) + 1, 1>>)
  PROVE  NameRight([fde |-> fde, name |-> None], From)
<1>1. ASSUME SearchGoes, NEW t \in Functions(obj.fdes[fde].low)
      PROVE  t[1] < From
  <2>1. t[1] \in 1..Len(obj.cus) /\ Len(obj.cus) \in Nat
    BY FunctionIs, WalkedIs
  <2>2. Before(<<t[1], t[2]>>, <<Len(obj.cus) + 1, 1>>)
    BY <2>1 DEF Before
  <2> QED BY <1>1, <2>2 DEF NoneBefore
<1> QED BY <1>1 DEF NameRight

LEMMA StartSearchNames ==
  ASSUME Now, NamesInv, StartSearch
  PROVE  NamesInv'
<1>1. phase = "frames" /\ fde <= Len(obj.fdes) /\ UNCHANGED <<run, m>> /\ search = <<>>
  BY DEF StartSearch, Now, PhaseInv
<1>2. /\ names \in Seq(NameEntries) /\ NamesRight(names) /\ AllSearched /\ Types
      /\ held \in [Handles -> AllDies \cup {None}] /\ cu \in 0..Len(obj.cus) /\ cu \in Nat
      /\ current \in Handles \cup {NULL} /\ NULL \notin Handles
      /\ current # NULL => /\ held[current] = <<Unit, 1>> /\ Unit \in 1..Len(obj.cus)
                           /\ held[current] \in AllDies
  BY <1>1, InTheFrames DEF Now
<1>3. CASE current # NULL
  <2>1. SearchIn(<<Unit, 1>>, held) /\ UNCHANGED <<cu, current, names, fde>>
    BY <1>2, <1>3 DEF StartSearch
  <2>2. ASSUME SearchGoes
        PROVE  cu \in {0, Unit} /\ (cu = Unit => NoneBefore(<<Unit, 2>>))
    <3>1. cu \in {0, Unit} /\ (cu # 0 => From = Unit)
      BY <1>1, <1>2, <1>3, <2>2 DEF AllSearched
    <3>2. ASSUME cu = Unit, NEW t \in Functions(obj.fdes[fde].low)
          PROVE  t[1] < From \/ ~Before(<<t[1], t[2]>>, <<Unit, 2>>)
      <4>1. t[1] \in Nat /\ t[2] \in Nat /\ t[2] > 1
        BY <1>2, FunctionIs
      <4>2. cu # 0 /\ From = Unit
        BY <1>2, <1>3, <3>1, <3>2
      <4>3. Unit \in Nat
        BY <1>2, <3>2
      <4> QED BY <4>1, <4>2, <4>3 DEF Before
    <3> QED BY <3>1, <3>2 DEF NoneBefore
  <2>3. /\ Unit \in 1..Len(obj.cus) /\ current' \in Handles /\ held[current'] = <<Unit, 1>>
        /\ cu' \in Nat
        /\ SearchGoes => cu' \in {0, Unit} /\ (cu' = Unit => NoneBefore(<<Unit, 2>>))
    BY <1>2, <1>3, <2>1, <2>2
  <2> QED BY <1>1, <1>2, <2>1, <2>3, SearchInNames
<1>4. CASE current = NULL /\ NextCu.res # "OK"
  <2>1. /\ cu' = NextCu.cu /\ UNCHANGED <<phase, current, held>>
        /\ names' = Append(names, [fde |-> fde, name |-> None])
    BY <1>4 DEF StartSearch, Shown
  <2>2. ASSUME SearchGoes PROVE cu' = 0 /\ NoneBefore(<<Len(obj.cus) + 1, 1>>)
    <3>1. cu = 0
      BY <1>1, <1>2, <1>4, <2>2 DEF AllSearched
    <3>2. obj.bad = 0 /\ cu + 1 # 0
      BY <2>2, <3>1 DEF SearchGoes
    <3>3. cu = Len(obj.cus) /\ NextCu.cu = 0
      BY <1>4, <3>2 DEF NextCu
    <3>4. NoneBefore(<<1, 0 + 1>>)
      BY <1>2, NoneYet
    <3> QED BY <2>1, <3>1, <3>3, <3>4
  <2>3. NameRight([fde |-> fde, name |-> None], From)
    BY <1>2, <2>2, NoNameThere
  <2>4. None \in AllDies \cup {None}
    OBVIOUS
  <2>5. names' \in Seq(NameEntries) /\ NamesRight(names')
    BY <1>1, <1>2, <2>1, <2>3, <2>4, OneNameMore
  <2>6. SearchPath'
    BY <1>1, <1>4, <2>1, PathKept
  <2>7. AllSearched'
    BY <1>1, <1>4, <2>1, <2>2, SearchKept
  <2> QED BY <1>1, <2>1, <2>5, <2>6, <2>7, NamesKept
<1>5. CASE current = NULL /\ NextCu.res = "OK"
  <2> DEFINE c == NextCu.cu
             d == <<c, 1>>
             h == Get(held, d)
  <2>1. /\ cu' = c /\ Room(held) /\ current' = New(held)
        /\ SearchIn(d, h) /\ UNCHANGED <<names, fde>>
    BY <1>5 DEF StartSearch
  <2>2. c \in 1..Len(obj.cus) /\ c = cu + 1 /\ c \in Nat /\ d \in AllDies
    BY <1>2, <1>5, NextCuIs, DiesOf
  <2>3. /\ h \in [Handles -> AllDies \cup {None}] /\ New(held) \in Handles
        /\ h[New(held)] = d
    <3> HIDE DEF d
    <3> QED BY <1>2, <2>1, <2>2, HeldTypes, NewIs, GetIs
  <2> HIDE DEF h, c
  <2>4. ASSUME SearchGoes PROVE NoneBefore(<<c, 2>>)
    <3>1. c = 1
      BY <1>1, <1>2, <1>5, <2>2, <2>4 DEF AllSearched
    <3>2. NoneBefore(<<1, 1 + 1>>)
      BY <1>2, NoneYet
    <3> QED BY <3>1, <3>2
  <2> QED BY <1>1, <1>2, <2>1, <2>2, <2>3, <2>4, SearchInNames
<1> QED BY <1>3, <1>4, <1>5

LEMMA NextSearchUnitNames ==
  ASSUME Now, NamesInv, NextSearchUnit
  PROVE  NamesInv'
<1>1. /\ phase = "next unit" /\ UNCHANGED <<run, m>> /\ fde <= Len(obj.fdes)
      /\ current # NULL /\ cu' = NextCu.cu
  BY DEF NextSearchUnit, Now, PhaseInv
<1>2. /\ names \in Seq(NameEntries) /\ NamesRight(names) /\ AllSearched /\ Types
      /\ held \in [Handles -> AllDies \cup {None}] /\ cu \in 0..Len(obj.cus) /\ cu \in Nat
      /\ current \in Handles /\ NULL \notin Handles
      /\ held[current] = <<Unit, 1>> /\ Unit \in 1..Len(obj.cus) /\ held[current] # None
  BY <1>1, InTheFrames DEF Now
<1>3. SearchGoes => NoneBefore(<<cu + 1, 1>>) /\ cu \in {0, Unit}
  BY <1>1, <1>2 DEF AllSearched
<1>4. CASE NextCu.res # "OK"
  <2>1. /\ phase' = "frames" /\ UNCHANGED <<held, current>>
        /\ names' = Append(names, [fde |-> fde, name |-> None])
    BY <1>4 DEF NextSearchUnit, Shown
  <2>2. ASSUME SearchGoes PROVE cu' = 0 /\ NoneBefore(<<Len(obj.cus) + 1, 1>>)
    <3>1. obj.bad = 0 /\ cu + 1 # 0
      BY <1>2, <2>2 DEF SearchGoes
    <3>2. cu = Len(obj.cus) /\ NextCu.cu = 0
      BY <1>4, <3>1 DEF NextCu
    <3> QED BY <1>1, <1>3, <2>2, <3>2
  <2>3. NameRight([fde |-> fde, name |-> None], From)
    BY <1>2, <2>2, NoNameThere
  <2>4. None \in AllDies \cup {None}
    OBVIOUS
  <2>5. names' \in Seq(NameEntries) /\ NamesRight(names')
    BY <1>1, <1>2, <2>1, <2>3, <2>4, OneNameMore
  <2>6. Unit' = Unit
    BY <2>1 DEF Unit
  <2>7. SearchPath'
    BY <1>1, <1>2, <2>1, <2>6, PathKept
  <2>8. AllSearched'
    BY <1>1, <2>1, <2>2, <2>6, SearchKept
  <2> QED BY <1>1, <2>1, <2>5, <2>7, <2>8, NamesKept
<1>5. CASE NextCu.res = "OK"
  <2> DEFINE c == NextCu.cu
             d == <<c, 1>>
             h == Dealloc(Get(held, d), {current})
  <2>1. /\ Room(held) /\ current' = New(held)
        /\ SearchIn(d, h) /\ UNCHANGED <<names, fde>>
    BY <1>5 DEF NextSearchUnit
  <2>2. c \in 1..Len(obj.cus) /\ c = cu + 1 /\ c \in Nat /\ d \in AllDies
    BY <1>2, <1>5, NextCuIs, DiesOf
  <2>3. /\ h \in [Handles -> AllDies \cup {None}] /\ New(held) \in Handles
        /\ h[New(held)] = d
    <3> HIDE DEF d
    <3>1. New(held) \in Handles /\ New(held) \notin {current}
          /\ Get(held, d) \in [Handles -> AllDies \cup {None}]
      BY <1>2, <2>1, <2>2, HeldTypes, NewIs
    <3>2. Get(held, d)[New(held)] = d
      BY <1>2, <2>1, <3>1, GetIs
    <3> QED BY <3>1, <3>2, HeldTypes, DeallocIs
  <2> HIDE DEF h, c
  <2>4. cu' = c
    BY <1>1 DEF c
  <2>5. ASSUME SearchGoes PROVE NoneBefore(<<c, 2>>)
    <3>1. ASSUME NEW t \in Functions(obj.fdes[fde].low)
          PROVE  t[1] < From \/ ~Before(<<t[1], t[2]>>, <<c, 2>>)
      <4>1. t[1] \in Nat /\ t[2] \in Nat /\ t[2] > 1
        BY <1>2, FunctionIs
      <4>2. t[1] < From \/ ~Before(<<t[1], t[2]>>, <<c, 1>>)
        BY <1>3, <2>2, <2>5 DEF NoneBefore
      <4>3. Before(<<t[1], t[2]>>, <<c, 2>>) => Before(<<t[1], t[2]>>, <<c, 1>>)
        BY <4>1 DEF Before
      <4> QED BY <4>2, <4>3
    <3> QED BY <3>1 DEF NoneBefore
  <2> QED BY <1>1, <1>2, <2>1, <2>2, <2>3, <2>4, <2>5, SearchInNames
<1> QED BY <1>4, <1>5

(* What a step inside the search has.                                        *)
LEMMA InTheNest ==
  ASSUME Now, NamesInv, phase = "search"
  PROVE  LET n == Len(search)
             d == held[Call.die]
             dies == obj.cus[Unit].dies
         IN /\ n \in Nat \ {0} /\ n \in 1..n /\ Call = search[n] /\ d = At(search, held, n)
            /\ search \in Seq(Activations) /\ search # <<>> /\ Call \in Activations
            /\ Owns(search, {current}, held) /\ Descends(search, held, Unit, 1)
            /\ held[current] = <<Unit, 1>> /\ current \in Handles
            /\ Unit \in 1..Len(obj.cus) /\ Unit \in Nat \ {0}
            /\ held \in [Handles -> AllDies \cup {None}]
            /\ names \in Seq(NameEntries) /\ NamesRight(names) /\ fde <= Len(obj.fdes)
            /\ d \in AllDies /\ d[1] = Unit /\ d[2] # 1 /\ d[2] \in 1..Len(dies)
            /\ TreeOf(dies) /\ Len(dies) \in Nat \ {0} /\ Die(d) = dies[d[2]]
            /\ Die(d).parent = IF n = 1 THEN 1 ELSE At(search, held, n - 1)[2]
            /\ \A i \in 1..(n - 1) : /\ Die(At(search, held, i)).sub /\ search[i].visited
                                     /\ i \in 1..n
            /\ SearchGoes => /\ cu \in {0, Unit}
                             /\ cu # 0 => NoneBefore(<<cu, IF Call.visited
                                                           THEN After(dies, d[2]) ELSE d[2]>>)
<1> DEFINE n == Len(search)
           d == held[Call.die]
           dies == obj.cus[Unit].dies
<1> USE DEF Now
<1>1. /\ search # <<>> /\ search \in Seq(Activations) /\ fde <= Len(obj.fdes)
      /\ current \in Handles /\ current # NULL /\ Owns(search, {current}, held)
      /\ d \in AllDies /\ held \in [Handles -> AllDies \cup {None}]
  BY InTheSearch
<1>2. /\ n \in Nat \ {0} /\ n \in 1..n /\ Call = search[n] /\ Call \in Activations
      /\ Call = Last(search) /\ \A i \in 1..(n - 1) : i \in 1..n
  BY <1>1, LastIs DEF Call
<1>3. /\ names \in Seq(NameEntries) /\ NamesRight(names)
      /\ held[current] = <<Unit, 1>> /\ Unit \in 1..Len(obj.cus)
      /\ Descends(search, held, Unit, 1)
      /\ \A i \in 1..(n - 1) : Die(At(search, held, i)).sub
      /\ SearchGoes => /\ cu \in {0, Unit}
                       /\ cu = 0 \/ NoneBefore(<<cu, ComesTo(search, held)>>)
  BY <1>1 DEF NamesInv, SearchPath, AllSearched, At
<1>4. d = At(search, held, n)
  BY <1>2 DEF At
<1>5. /\ d[1] = Unit /\ Die(d).parent = IF n = 1 THEN 1 ELSE At(search, held, n - 1)[2]
      /\ \A i \in 1..(n - 1) : search[i].visited
  BY <1>2, <1>3, <1>4 DEF Descends, At
<1>6. /\ d[2] \in 1..Len(dies) /\ TreeOf(dies) /\ Die(d) = dies[d[2]] /\ Len(dies) \in Nat \ {0}
      /\ Unit \in Nat \ {0}
  <2>1. d[2] \in 1..Len(dies) /\ TreeOf(dies) /\ Die(d) = dies[d[2]]
    BY <1>1, <1>5, DieTypes
  <2>2. Len(obj.cus) \in Nat
    BY WalkedIs
  <2> QED BY <1>3, <2>1, <2>2, UnitTree
<1>7. d[2] # 1
  <2>1. n # 1 => At(search, held, n - 1)[2] # 0
    <3>1. n # 1 => n - 1 \in 1..n
      <4> HIDE DEF n
      <4> QED BY <1>2
    <3>2. Types
      OBVIOUS
    <3> QED BY <1>1, <3>1, <3>2, AtIs, DieTypes
  <2>2. dies[1].parent = 0
    BY <1>6, TreeFacts
  <2> QED BY <1>5, <1>6, <2>1, <2>2
<1>8. ComesTo(search, held) = IF Call.visited THEN After(dies, d[2]) ELSE d[2]
  BY <1>2, <1>5 DEF ComesTo
<1> HIDE DEF n, d, dies
<1> QED
  BY <1>1, <1>2, <1>3, <1>4, <1>5, <1>6, <1>7, <1>8, Zenon DEF n, d, dies

(* A step that goes on with the search for the same name, in the same unit.    *)
LEMMA NestKept ==
  ASSUME Now, NamesInv, phase = "search", phase' = "search",
         UNCHANGED <<run, m, cu, current, fde, names>>, held'[current] = held[current],
         Descends(search', held', Unit, 1),
         \A i \in 1..(Len(search') - 1) : Die(At(search', held', i)).sub,
         SearchGoes /\ cu # 0 => NoneBefore(<<cu, ComesTo(search', held')>>)
  PROVE  NamesInv'
<1>1. Unit' = Unit
  BY DEF Unit
<1>2. /\ held[current] = <<Unit, 1>> /\ Unit \in 1..Len(obj.cus)
      /\ names \in Seq(NameEntries) /\ NamesRight(names) /\ (SearchGoes => cu \in {0, Unit})
  BY InTheNest
<1>3. SearchPath'
  BY <1>1, <1>2, PathKept
<1>4. AllSearched'
  BY <1>1, <1>2, SearchKept
<1> QED BY <1>2, <1>3, <1>4, NamesKept

(* The place of the search moves on to r when no function is between.          *)
LEMMA NoneBetween ==
  ASSUME Types, NEW c, NEW j, NEW k, NoneBefore(<<c, j>>),
         \A t \in Functions(obj.fdes[fde].low) : t[1] = c /\ t[2] < k => t[2] < j
  PROVE  NoneBefore(<<c, k>>)
  BY DEF NoneBefore, Before

LEMMA FoundNameNames ==
  ASSUME Now, NamesInv, FoundName
  PROVE  NamesInv'
<1> DEFINE n == Len(search)
           d == held[Call.die]
           dies == obj.cus[Unit].dies
           j == Die(d).name
           low == obj.fdes[fde].low
           name == <<Unit, j>>
<1> USE DEF Now
<1>1. /\ phase = "search" /\ phase' = "frames" /\ UNCHANGED <<run, m, cu, current>>
      /\ Die(d).sub /\ get_proc_name(d) # None /\ held' = Dealloc(held, InSearch)
      /\ names' = Append(names, [fde |-> fde, name |-> get_proc_name(d)])
  BY DEF FoundName, Searching, Shown
<1>2. /\ n \in Nat \ {0} /\ d = At(search, held, n) /\ search \in Seq(Activations)
      /\ Owns(search, {current}, held) /\ Descends(search, held, Unit, 1)
      /\ held[current] = <<Unit, 1>> /\ current \in Handles
      /\ Unit \in 1..Len(obj.cus) /\ Unit \in Nat \ {0}
      /\ names \in Seq(NameEntries) /\ NamesRight(names) /\ fde <= Len(obj.fdes)
      /\ d \in AllDies /\ d[1] = Unit /\ d[2] # 1 /\ d[2] \in 1..Len(dies)
      /\ TreeOf(dies) /\ Len(dies) \in Nat \ {0} /\ Die(d) = dies[d[2]]
      /\ \A i \in 1..(n - 1) : Die(At(search, held, i)).sub
      /\ SearchGoes => cu \in {0, Unit}
  BY <1>1, InTheNest
<1> HIDE DEF n, d
<1>3. /\ Die(d).low = low /\ j # 0 /\ dies[j].name = j /\ get_proc_name(d) = name
  <2>1. Die(d).low = low /\ get_proc_name(d) = NameOf(d)
    BY <1>1 DEF get_proc_name
  <2>2. j # 0 /\ Die(<<d[1], j>>).name = j /\ NameOf(d) = <<d[1], j>>
    BY <1>1, <2>1 DEF NameOf
  <2>3. Die(<<d[1], j>>) = dies[j]
    BY <1>2 DEF Die
  <2> QED BY <1>2, <2>1, <2>2, <2>3
<1>4. j \in 1..Len(dies)
  <2>1. j \in Nat /\ j <= Len(dies)
    <3>0. TreeOf(dies) /\ d[2] \in 1..Len(dies) /\ j = dies[d[2]].name
      BY <1>2
    <3>1. dies[d[2]] \in Dies
      BY <3>0 DEF TreeOf
    <3>2. dies[d[2]].name <= Len(dies)
      BY <3>0 DEF TreeOf, InOrder
    <3>3. dies[d[2]].name \in Nat
      BY <3>1 DEF Dies
    <3> QED BY <3>0, <3>2, <3>3
  <2>2. Len(dies) \in Nat /\ j # 0
    BY <1>2, <1>3
  <2> HIDE DEF dies, j
  <2> QED BY <2>1, <2>2
<1>5. ASSUME NEW i \in Chain(Unit, d[2]) \ {1} PROVE dies[i].sub
  <2>1. Chain(Unit, d[2]) = Over(dies)[1] \cup Path(search, held, n)
    <3>1. 1 \in 0..Len(dies) /\ n \in 1..Len(search)
      BY <1>2 DEF n
    <3>2. Types
      OBVIOUS
    <3>3. PathsOver(search, Unit, 1)
      BY <1>2, <3>1, <3>2, PathOver
    <3> QED BY <1>2, <3>1, <3>3 DEF PathsOver
  <2>2. Over(dies)[1] = {1}
    <3>1. 1 \in 1..Len(dies) /\ 0 \in 0..Len(dies) /\ dies[1].parent = 0
      BY <1>2, TreeFacts
    <3>2. Over(dies)[1] = {1} \cup Over(dies)[0]
      BY <1>2, <3>1, OverOne
    <3>3. Over(dies)[0] = {}
      BY <1>2, <3>1, OverIs
    <3> QED BY <3>2, <3>3
  <2>3. PICK k \in 1..n : i = At(search, held, k)[2]
    BY <2>1, <2>2 DEF Path
  <2>4. Die(At(search, held, k)).sub
    <3>1. k = n \/ k \in 1..(n - 1)
      BY <1>2
    <3> QED BY <1>1, <1>2, <3>1
  <2>5. At(search, held, k)[1] = Unit
    <3>1. k \in 1..Len(search)
      BY DEF n
    <3> QED BY <1>2, <3>1 DEF Descends, At
  <2> QED BY <2>3, <2>4, <2>5 DEF Die
<1>6. <<Unit, d[2], j>> \in Functions(low)
  <2> DEFINE t == <<Unit, d[2], j>>
  <2>1. Unit \in DOMAIN obj.cus /\ DOMAIN dies = 1..Len(dies)
    <3>1. DOMAIN obj.cus = 1..Len(obj.cus)
      BY WalkedIs, ObjectType
    <3> QED BY <1>2, <3>1, TreeFacts
  <2>2. t \in {Unit} \X (DOMAIN dies) \X (DOMAIN dies)
    BY <1>2, <1>4, <2>1
  <2>3. t[1] = Unit /\ t[2] = d[2] /\ t[3] = j
    OBVIOUS
  <2>4. d[2] > 1
    BY <1>2
  <2> HIDE DEF t, j, low, dies
  <2>5. t \in UNION {{c} \X (DOMAIN obj.cus[c].dies) \X (DOMAIN obj.cus[c].dies) :
                       c \in DOMAIN obj.cus}
    BY <2>1, <2>2 DEF dies
  <2>6. dies[d[2]].low = low /\ dies[d[2]].name = j
    BY <1>2, <1>3 DEF j
  <2>7. /\ t[2] > 1 /\ \A i \in Chain(t[1], t[2]) \ {1} : obj.cus[t[1]].dies[i].sub
        /\ obj.cus[t[1]].dies[t[2]].low = low /\ obj.cus[t[1]].dies[t[2]].name = t[3]
        /\ obj.cus[t[1]].dies[t[3]].name = t[3]
    BY <1>3, <1>5, <2>3, <2>4, <2>6 DEF dies
  <2>8. t \in Functions(low)
    BY <2>5, <2>7 DEF Functions
  <2> QED BY <2>8 DEF t
<1> HIDE DEF dies, j
<1>7. NameRight([fde |-> fde, name |-> name], From)
  <2>1. name # None
    BY DEF None
  <2>2. name = <<<<Unit, d[2], j>>[1], <<Unit, d[2], j>>[3]>>
    OBVIOUS
  <2> QED BY <1>6, <2>1, <2>2 DEF NameRight
<1>8. names' \in Seq(NameEntries) /\ NamesRight(names') /\ From' = Unit
  <2>1. name \in AllDies /\ name # None /\ name[1] = Unit /\ Types
    <3>1. j \in Nat
      BY <1>2, <1>4
    <3>2. name \in AllDies
      BY <1>2, <1>4, <3>1 DEF AllDies, dies
    <3> QED BY <3>2, DieIsNot
  <2> HIDE DEF name
  <2>2. /\ names' \in Seq(NameEntries) /\ NamesRight(names')
        /\ FromAt(names', Len(names') + 1) = IF name = None THEN 1 ELSE name[1]
    BY <1>1, <1>2, <1>3, <1>7, <2>1, OneNameMore
  <2>3. From' = FromAt(names', Len(names') + 1)
    BY DEF From, FromAt
  <2> QED BY <2>1, <2>2, <2>3
<1>9. held'[current'] = <<Unit, 1>> /\ Unit' = Unit
  <2>1. current \notin InSearch
    <3> SUFFICES ASSUME current \in InSearch PROVE FALSE
      OBVIOUS
    <3>1. PICK i \in 1..Len(search) : current \in Of(search[i])
      BY <1>2 DEF InSearch, Range, Of
    <3> QED BY <1>2, <3>1 DEF Owns
  <2>2. held'[current] = held[current]
    BY <1>1, <1>2, <2>1, DeallocIs
  <2> QED BY <1>1, <1>2, <2>2 DEF Unit
<1>10. SearchPath'
  BY <1>1, <1>2, <1>9, PathKept
<1>11. AllSearched'
  <2>1. current # NULL
    BY <1>1, InTheSearch
  <2> QED BY <1>1, <1>2, <1>8, <1>9, <2>1, SearchKept
<1> QED BY <1>1, <1>8, <1>10, <1>11, NamesKept

LEMMA LookInsideNames ==
  ASSUME Now, NamesInv, LookInside
  PROVE  NamesInv'
<1> DEFINE n == Len(search)
           d == held[Call.die]
           dies == obj.cus[Unit].dies
           low == obj.fdes[fde].low
           visited == [search EXCEPT ![n].visited = TRUE]
           e == ChildOf(d)
           call == [first |-> New(held), die |-> New(held), visited |-> FALSE]
<1> USE DEF Now
<1>1. /\ phase = "search" /\ phase' = "search" /\ UNCHANGED <<run, m, cu, current, fde, names>>
      /\ ~Call.visited /\ (Die(d).sub => get_proc_name(d) = None)
      /\ IF Die(d).sub /\ e # None
         THEN Room(held) /\ held' = Get(held, e) /\ search' = Append(visited, call)
         ELSE search' = visited /\ held' = held
  BY DEF LookInside, Searching
<1>2. /\ n \in Nat \ {0} /\ n \in 1..n /\ Call = search[n] /\ d = At(search, held, n)
      /\ search \in Seq(Activations) /\ search # <<>>
      /\ Owns(search, {current}, held) /\ Descends(search, held, Unit, 1)
      /\ held[current] = <<Unit, 1>> /\ current \in Handles
      /\ held \in [Handles -> AllDies \cup {None}]
      /\ d \in AllDies /\ d[1] = Unit /\ d[2] # 1 /\ d[2] \in 1..Len(dies)
      /\ TreeOf(dies) /\ Len(dies) \in Nat \ {0} /\ Die(d) = dies[d[2]]
      /\ \A i \in 1..(n - 1) : /\ Die(At(search, held, i)).sub /\ search[i].visited
                               /\ i \in 1..n
      /\ SearchGoes => cu \in {0, Unit} /\ (cu # 0 => NoneBefore(<<cu, d[2]>>))
  BY <1>1, InTheNest
<1> HIDE DEF n, d
<1>3. ASSUME NEW t \in Functions(low), t[1] = Unit
      PROVE  t[2] # d[2] /\ t[2] \in Nat /\ d[2] \in Nat
  <2>1. <<t[1], t[2]>> # d
    BY <1>1, <1>2, NotNamed
  <2>2. d = <<d[1], d[2]>>
    BY <1>2, DieTypes
  <2>3. t[2] \in Nat
    BY FunctionIs
  <2> QED BY <1>2, <1>3, <2>1, <2>2, <2>3
<1>4. SearchGoes /\ cu # 0 => NoneBefore(<<cu, d[2] + 1>>)
  <2> SUFFICES ASSUME SearchGoes, cu # 0 PROVE NoneBefore(<<cu, d[2] + 1>>)
    OBVIOUS
  <2>1. cu = Unit /\ NoneBefore(<<cu, d[2]>>) /\ Types
    BY <1>2
  <2>2. \A t \in Functions(low) : t[1] = cu /\ t[2] < d[2] + 1 => t[2] < d[2]
    BY <1>3, <2>1
  <2> QED BY <2>1, <2>2, NoneBetween
<1>5. /\ visited \in Seq(Activations) /\ Len(visited) = n /\ visited[n].visited
      /\ visited[n].die = search[n].die /\ visited[n].visited = TRUE
      /\ \A i \in 1..(n - 1) : visited[i] = search[i]
  <2>1. Owns(visited, {current}, held)
    BY <1>2, Visited DEF n
  <2>2. visited \in Seq(Activations)
    BY <2>1 DEF Owns
  <2>3. n \in DOMAIN search
    BY <1>2 DEF n
  <2>4. search[n] \in Activations
    BY <1>2 DEF n
  <2>5. visited[n] = [search[n] EXCEPT !.visited = TRUE]
    BY <2>3
  <2>6. Len(visited) = n /\ \A i \in 1..(n - 1) : visited[i] = search[i]
    BY <1>2 DEF n
  <2> QED BY <2>2, <2>4, <2>5, <2>6 DEF Activations
<1> HIDE DEF visited, e, call
<1>6. CASE Die(d).sub /\ e # None
  <2>1. Room(held) /\ held' = Get(held, e) /\ search' = Append(visited, call)
    BY <1>1, <1>6
  <2>2. e = <<Unit, d[2] + 1>> /\ Die(e).parent = d[2]
    BY <1>2, <1>6, ChildFinds DEF e
  <2>3. /\ Len(search') = n + 1 /\ search'[n + 1] = call
        /\ \A i \in 1..n : search'[i] = visited[i] /\ search'[i].die = search[i].die
    <3>1. \A i \in 1..n : i \in 1..(n - 1) \/ i = n
      BY <1>2
    <3>2. \A i \in 1..n : visited[i].die = search[i].die
      BY <1>5, <3>1
    <3>3. Len(search') = n + 1 /\ search'[n + 1] = call /\ \A i \in 1..n : search'[i] = visited[i]
      BY <1>2, <1>5, <2>1
    <3> QED BY <3>2, <3>3
  <2>4. New(held) \in Handles /\ held[New(held)] = None
    BY <2>1, NewIs
  <2>5. held'[New(held)] = e /\ held'[current] = held[current]
    <3>1. New(held) # current
      BY <1>2, <2>4 DEF None
    <3>2. held'[New(held)] = e
      BY <1>2, <2>1, <2>4, GetIs
    <3>3. held'[current] = held[current]
      BY <1>2, <2>1, <3>1, GetIs
    <3> QED BY <3>2, <3>3
  <2>6. \A i \in 1..n : At(search', held', i) = At(search, held, i)
    <3> SUFFICES ASSUME NEW i \in 1..n PROVE At(search', held', i) = At(search, held, i)
      OBVIOUS
    <3>1. Types /\ Owns(search, {current}, held) /\ i \in 1..Len(search)
          /\ {} \cap Of(search[i]) = {}
      BY <1>2 DEF n
    <3>2. Room(held) => \A x : /\ Get(held, x)[search[i].die] = At(search, held, i)
                               /\ Dealloc(Get(held, x), {})[search[i].die] = At(search, held, i)
      BY <3>1, AtStays
    <3> QED BY <2>1, <2>3, <3>2 DEF At
  <2>7. At(search', held', n + 1) = e /\ call.visited = FALSE /\ call.die = New(held)
    <3>1. call.visited = FALSE /\ call.die = New(held)
      BY DEF call
    <3> QED BY <2>3, <2>5, <3>1 DEF At
  <2>8. Descends(search', held', Unit, 1)
    <3>1. /\ Len(search) \in Nat /\ Len(search') \in Nat \ {0}
          /\ Len(search') <= Len(search) + 1
          /\ Len(search') = n + 1 /\ Len(search') # 1 /\ Len(search') - 1 = n
      BY <1>2, <2>3 DEF n
    <3>2. \A i \in 1..(Len(search') - 1) :
             At(search', held', i) = At(search, held, i) /\ search'[i].visited
      <4>1. \A i \in 1..n : i \in 1..(n - 1) \/ i = n
        BY <1>2
      <4>2. \A i \in 1..n : visited[i].visited
        BY <1>2, <1>5, <4>1
      <4> QED BY <2>3, <2>6, <3>1, <4>2
    <3>3. /\ At(search', held', Len(search'))[1] = Unit
          /\ Die(At(search', held', Len(search'))).parent
               = IF Len(search') = 1 THEN 1 ELSE At(search, held, Len(search') - 1)[2]
      <4>1. e[1] = Unit
        BY <2>2
      <4> QED BY <1>2, <2>2, <2>7, <3>1, <4>1
    <3>4. Descends(search, held, Unit, 1)
      BY <1>2
    <3> QED BY <3>1, <3>2, <3>3, <3>4, DescendsOn
  <2>9. \A i \in 1..(Len(search') - 1) : Die(At(search', held', i)).sub
    <3>1. \A i \in 1..n : i \in 1..(n - 1) \/ i = n
      BY <1>2
    <3>2. Len(search') - 1 = n
      BY <1>2, <2>3
    <3>3. \A i \in 1..n : Die(At(search, held, i)).sub
      BY <1>2, <1>6, <3>1
    <3> QED BY <2>6, <3>2, <3>3
  <2>10. ComesTo(search', held') = d[2] + 1
    <3>1. Last(search') = call
      BY <2>3 DEF Last
    <3>2. ComesTo(search', held') = e[2]
      BY <2>5, <2>7, <3>1 DEF ComesTo
    <3> QED BY <2>2, <3>2
  <2> QED BY <1>1, <1>4, <2>5, <2>8, <2>9, <2>10, NestKept
<1>7. CASE ~(Die(d).sub /\ e # None)
  <2>1. search' = visited /\ held' = held
    BY <1>1, <1>7
  <2>2. \A i \in 1..n : search'[i].die = search[i].die /\ search'[i].visited
    <3>1. \A i \in 1..n : i \in 1..(n - 1) \/ i = n
      BY <1>2
    <3> QED BY <1>2, <1>5, <2>1, <3>1
  <2>3. Len(search') = Len(search) /\ Len(search') = n /\ Last(search') = search'[n]
    BY <1>5, <2>1 DEF n, Last
  <2>4. Descends(search', held', Unit, 1)
    <3>1. \A i \in 1..(Len(search) - 1) : i \in 1..Len(search)
      BY <1>2 DEF n
    <3>2. \A i \in 1..Len(search) : i # 1 => i - 1 \in 1..Len(search)
      BY <1>2 DEF n
    <3>3. \A i \in 1..Len(search) : search'[i].die = search[i].die /\ search'[i].visited
      BY <2>2 DEF n
    <3>4. Len(search') = Len(search) /\ held' = held /\ Descends(search, held, Unit, 1)
      BY <1>2, <2>1, <2>3
    <3> QED BY <3>1, <3>2, <3>3, <3>4 DEF Descends
  <2>5. \A i \in 1..(Len(search') - 1) : Die(At(search', held', i)).sub
    BY <1>2, <2>1, <2>2, <2>3 DEF At
  <2>6. ComesTo(search', held') = After(dies, d[2])
    <3>1. Last(search').visited /\ held'[Last(search').die] = d
      <4>1. search'[n].visited /\ search'[n].die = search[n].die
        BY <1>2, <2>2
      <4>2. d = held[search[n].die] /\ held' = held
        BY <1>2, <2>1 DEF At
      <4> QED BY <2>3, <4>1, <4>2
    <3>2. obj' = obj
      BY <1>1, SameMember
    <3> QED BY <1>2, <3>1, <3>2 DEF ComesTo
  <2>7. SearchGoes /\ cu # 0 => NoneBefore(<<cu, After(dies, d[2])>>)
    <3>1. CASE Die(d).sub
      <4>1. After(dies, d[2]) = d[2] + 1
        BY <1>2, <1>7, <3>1, ChildFinds DEF e
      <4> QED BY <1>4, <4>1
    <3>2. ASSUME SearchGoes, cu # 0, ~Die(d).sub
          PROVE  NoneBefore(<<cu, After(dies, d[2])>>)
      <4>1. cu = Unit /\ NoneBefore(<<cu, d[2]>>) /\ Types
        BY <1>2, <3>2
      <4>2. After(dies, d[2]) \in Int
        <5>1. EndsAt(dies, d[2], After(dies, d[2]))
          BY <1>2, AfterIs
        <5> QED BY <5>1 DEF EndsAt
      <4>3. ASSUME NEW t \in Functions(low), t[1] = cu, t[2] < After(dies, d[2])
            PROVE  t[2] < d[2]
        <5>1. t[2] \in Nat /\ d[2] \in Nat
          BY <1>3, <4>1, <4>3
        <5>2. d[2] <= t[2] => After(dies, d[2]) <= t[2]
          BY <1>2, <3>2, <4>1, <4>3, PassedOver
        <5> QED BY <4>2, <4>3, <5>1, <5>2
      <4> QED BY <4>1, <4>3, NoneBetween
    <3> QED BY <3>1, <3>2
  <2>8. held'[current] = held[current]
    BY <2>1
  <2> QED BY <1>1, <2>4, <2>5, <2>6, <2>7, <2>8, NestKept
<1> QED BY <1>6, <1>7

LEMMA SearchSiblingNames ==
  ASSUME Now, NamesInv, SearchSibling
  PROVE  NamesInv'
<1> DEFINE n == Len(search)
           d == held[Call.die]
           dies == obj.cus[Unit].dies
           e == SiblingOf(d)
<1> USE DEF Now
<1>1. /\ phase = "search" /\ phase' = "search" /\ UNCHANGED <<run, m, cu, current, fde, names>>
      /\ Call.visited /\ e # None /\ Room(held)
      /\ held' = Dealloc(Get(held, e), Gotten)
      /\ search' = [search EXCEPT ![n].die = New(held), ![n].visited = FALSE]
  BY DEF SearchSibling, Searching
<1>2. /\ n \in Nat \ {0} /\ n \in 1..n /\ Call = search[n] /\ d = At(search, held, n)
      /\ search \in Seq(Activations) /\ search # <<>> /\ Call \in Activations
      /\ Owns(search, {current}, held) /\ Descends(search, held, Unit, 1)
      /\ held[current] = <<Unit, 1>> /\ current \in Handles
      /\ held \in [Handles -> AllDies \cup {None}]
      /\ d \in AllDies /\ d[1] = Unit
      /\ Die(d).parent = IF n = 1 THEN 1 ELSE At(search, held, n - 1)[2]
      /\ \A i \in 1..(n - 1) : /\ Die(At(search, held, i)).sub /\ search[i].visited
                               /\ i \in 1..n
      /\ SearchGoes => (cu # 0 => NoneBefore(<<cu, After(dies, d[2])>>))
  BY <1>1, InTheNest
<1> HIDE DEF n, d
<1>3. e = <<Unit, After(dies, d[2])>> /\ Die(e).parent = Die(d).parent
  BY <1>1, <1>2, SiblingFinds
<1> HIDE DEF e
<1>4. /\ Len(search') = n /\ \A i \in 1..(n - 1) : search'[i] = search[i]
      /\ search'[n].die = New(held) /\ search'[n].visited = FALSE /\ Last(search') = search'[n]
  <2>1. n \in DOMAIN search /\ search[n] \in Activations
    BY <1>2 DEF n
  <2>2. search'[n] = [search[n] EXCEPT !.die = New(held), !.visited = FALSE]
    BY <1>1, <2>1
  <2>3. Len(search') = n /\ \A i \in 1..(n - 1) : search'[i] = search[i]
    BY <1>1, <1>2 DEF n
  <2> QED BY <2>1, <2>2, <2>3 DEF Activations, Last
<1>5. /\ New(held) \in Handles /\ held[New(held)] = None /\ New(held) \notin Gotten
      /\ New(held) # current /\ current \notin Gotten /\ Gotten \subseteq Of(search[n])
  <2>1. New(held) \in Handles /\ held[New(held)] = None
    BY <1>1, NewIs
  <2>2. Gotten \subseteq {Call.die} /\ Gotten \subseteq Of(search[n])
    BY <1>2 DEF Gotten, Of
  <2>3. held[Call.die] # None
    BY <1>2, DieIsNot DEF d
  <2>4. held[current] # None
    BY <1>2 DEF None
  <2>5. Of(search[n]) \cap {current} = {}
    BY <1>2 DEF Owns, n
  <2> QED BY <2>1, <2>2, <2>3, <2>4, <2>5
<1>6. held'[New(held)] = e /\ held'[current] = held[current]
  <2>1. Get(held, e)[New(held)] = e
    BY <1>1, <1>2, <1>5, GetIs
  <2>2. Get(held, e)[current] = held[current]
    BY <1>1, <1>2, <1>5, GetIs
  <2> QED BY <1>1, <1>2, <1>5, <2>1, <2>2, DeallocIs
<1>7. \A i \in 1..(n - 1) : At(search', held', i) = At(search, held, i)
  <2> SUFFICES ASSUME NEW i \in 1..(n - 1) PROVE At(search', held', i) = At(search, held, i)
    OBVIOUS
  <2>1. i \in 1..Len(search) /\ n \in 1..Len(search) /\ i # n
    BY <1>2 DEF n
  <2>2. Gotten \cap Of(search[i]) = {}
    <3>1. Of(search[i]) \cap Of(search[n]) = {}
      BY <1>2, <2>1 DEF Owns
    <3> QED BY <1>5, <3>1
  <2>3. Types
    OBVIOUS
  <2>4. Owns(search, {current}, held) /\ i \in 1..Len(search)
    BY <1>2, <2>1
  <2>5. Room(held) => \A x : /\ Get(held, x)[search[i].die] = At(search, held, i)
                             /\ Dealloc(Get(held, x), Gotten)[search[i].die]
                                  = At(search, held, i)
    BY <2>2, <2>3, <2>4, AtStays
  <2> QED BY <1>1, <1>4, <2>5 DEF At
<1>8. At(search', held', n) = e
  BY <1>4, <1>6 DEF At
<1>9. Descends(search', held', Unit, 1)
  <2>1. /\ Len(search) \in Nat /\ Len(search') \in Nat \ {0} /\ Len(search') <= Len(search) + 1
        /\ Len(search') = n
    BY <1>2, <1>4 DEF n
  <2>2. \A i \in 1..(Len(search') - 1) :
           At(search', held', i) = At(search, held, i) /\ search'[i].visited
    BY <1>2, <1>4, <1>7, <2>1
  <2>3. /\ At(search', held', Len(search'))[1] = Unit
        /\ Die(At(search', held', Len(search'))).parent
             = IF Len(search') = 1 THEN 1 ELSE At(search, held, Len(search') - 1)[2]
    <3>1. e[1] = Unit
      BY <1>3
    <3> QED BY <1>2, <1>3, <1>8, <2>1, <3>1
  <2>4. Descends(search, held, Unit, 1)
    BY <1>2
  <2> QED BY <2>1, <2>2, <2>3, <2>4, DescendsOn
<1>10. \A i \in 1..(Len(search') - 1) : Die(At(search', held', i)).sub
  BY <1>2, <1>4, <1>7
<1>11. ComesTo(search', held') = After(dies, d[2])
  <2>1. ComesTo(search', held') = e[2]
    BY <1>4, <1>6 DEF ComesTo
  <2> QED BY <1>3, <2>1
<1> QED BY <1>1, <1>2, <1>6, <1>9, <1>10, <1>11, NestKept

LEMMA NotHereNames ==
  ASSUME Now, NamesInv, NotHere
  PROVE  NamesInv'
<1> DEFINE n == Len(search)
           d == held[Call.die]
           dies == obj.cus[Unit].dies
           gone == Gotten \cup {Call.first}
<1> USE DEF Now
<1>1. /\ phase = "search" /\ phase' = (IF n = 1 THEN "next unit" ELSE "search")
      /\ UNCHANGED <<run, m, cu, current, fde, names>>
      /\ Call.visited /\ SiblingOf(d) = None
      /\ held' = Dealloc(held, gone) /\ search' = Front(search)
  BY DEF NotHere, Searching
<1>2. /\ n \in Nat \ {0} /\ n \in 1..n /\ Call = search[n] /\ d = At(search, held, n)
      /\ search \in Seq(Activations) /\ search # <<>>
      /\ Owns(search, {current}, held) /\ Descends(search, held, Unit, 1)
      /\ held[current] = <<Unit, 1>> /\ current \in Handles
      /\ Unit \in 1..Len(obj.cus) /\ Unit \in Nat \ {0}
      /\ d \in AllDies /\ d[1] = Unit /\ d[2] # 1
      /\ TreeOf(dies) /\ Len(dies) \in Nat \ {0}
      /\ Die(d).parent = IF n = 1 THEN 1 ELSE At(search, held, n - 1)[2]
      /\ \A i \in 1..(n - 1) : /\ Die(At(search, held, i)).sub /\ search[i].visited
                               /\ i \in 1..n
      /\ SearchGoes => cu \in {0, Unit} /\ (cu # 0 => NoneBefore(<<cu, After(dies, d[2])>>))
      /\ names \in Seq(NameEntries) /\ NamesRight(names)
  BY <1>1, InTheNest
<1> HIDE DEF n, d
<1>3. After(dies, d[2]) = After(dies, Die(d).parent)
  BY <1>1, <1>2, SiblingFinds
<1>4. held'[current] = held[current]
  <2>1. gone \subseteq Of(search[n])
    BY <1>2 DEF Gotten, Of, gone
  <2>2. Of(search[n]) \cap {current} = {}
    BY <1>2 DEF Owns, n
  <2> HIDE DEF gone
  <2>3. current \notin gone
    BY <2>1, <2>2
  <2>4. Dealloc(held, gone)[current] = held[current]
    BY <1>2, <2>3, DeallocIs
  <2> QED BY <1>1, <2>4
<1> HIDE DEF gone
<1>5. CASE n = 1
  <2>1. phase' = "next unit" /\ After(dies, d[2]) = Len(dies) + 1
    BY <1>1, <1>2, <1>3, <1>5, UnitEnds
  <2>2. ASSUME SearchGoes PROVE NoneBefore(<<cu + 1, 1>>)
    <3>1. CASE cu = 0
      <4>1. NoneBefore(<<1, 0 + 1>>)
        BY NoneYet
      <4> QED BY <3>1, <4>1
    <3>2. CASE cu = Unit
      <4>1. NoneBefore(<<Unit, Len(dies) + 1>>)
        BY <1>2, <2>1, <2>2, <3>2
      <4>2. ASSUME NEW t \in Functions(obj.fdes[fde].low)
            PROVE  Before(<<t[1], t[2]>>, <<Unit + 1, 1>>)
                     => Before(<<t[1], t[2]>>, <<Unit, Len(dies) + 1>>)
        <5>1. /\ t[1] \in Nat /\ t[2] \in Nat /\ t[2] > 1
              /\ t[2] \in 1..Len(obj.cus[t[1]].dies)
          BY FunctionIs
        <5>2. t[1] = Unit => t[2] < Len(dies) + 1
          <6> HIDE DEF dies
          <6>1. t[1] = Unit => t[2] \in 1..Len(dies)
            BY <5>1 DEF dies
          <6> QED BY <1>2, <6>1
        <5> QED BY <1>2, <5>1, <5>2 DEF Before
      <4> QED BY <3>2, <4>1, <4>2 DEF NoneBefore
    <3> QED BY <1>2, <2>2, <3>1, <3>2
  <2>3. Unit' = Unit
    BY <1>1, <1>4 DEF Unit
  <2>4. SearchPath'
    BY <1>1, <1>2, <1>4, <2>1, <2>3, PathKept
  <2>5. AllSearched'
    BY <1>1, <1>2, <2>1, <2>2, <2>3, SearchKept
  <2> QED BY <1>1, <1>2, <2>1, <2>4, <2>5, NamesKept
<1>6. CASE n # 1
  <2>1. phase' = "search" /\ n - 1 \in Nat \ {0} /\ n - 1 \in 1..(n - 1)
    BY <1>1, <1>2, <1>6
  <2>2. /\ Len(search') = n - 1 /\ \A i \in 1..(n - 1) : search'[i] = search[i]
        /\ Last(search') = search'[n - 1]
    <3>1. Len(Front(search)) = n - 1 /\ \A i \in 1..(n - 1) : Front(search)[i] = search[i]
      BY <1>2, FrontIs DEF n
    <3> QED BY <1>1, <3>1 DEF Last
  <2>3. \A i \in 1..(n - 1) : At(search', held', i) = At(search, held, i)
    <3> SUFFICES ASSUME NEW i \in 1..(n - 1) PROVE At(search', held', i) = At(search, held, i)
      OBVIOUS
    <3>1. i \in 1..Len(search) /\ n \in 1..Len(search) /\ i # n
      BY <1>2 DEF n
    <3>2. gone \cap Of(search[i]) = {}
      <4>1. Of(search[i]) \cap Of(search[n]) = {}
        BY <1>2, <3>1 DEF Owns
      <4> QED BY <1>2, <4>1 DEF Gotten, Of, gone
    <3>3. Types
      OBVIOUS
    <3>4. Owns(search, {current}, held) /\ i \in 1..Len(search)
      BY <1>2, <3>1
    <3>5. Dealloc(held, gone)[search[i].die] = At(search, held, i)
      BY <3>2, <3>3, <3>4, AtStays
    <3> QED BY <1>1, <2>2, <3>5 DEF At
  <2>4. Descends(search', held', Unit, 1)
    <3>1. /\ Len(search) \in Nat /\ Len(search') \in Nat \ {0}
          /\ Len(search') <= Len(search) + 1
      BY <1>2, <2>1, <2>2 DEF n
    <3>2. \A i \in 1..(Len(search') - 1) :
             At(search', held', i) = At(search, held, i) /\ search'[i].visited
      <4>1. \A i \in 1..(n - 1 - 1) : i \in 1..(n - 1)
        BY <2>1
      <4> QED BY <1>2, <2>2, <2>3, <4>1
    <3>3. /\ At(search', held', Len(search'))[1] = Unit
          /\ Die(At(search', held', Len(search'))).parent
               = IF Len(search') = 1 THEN 1 ELSE At(search, held, Len(search') - 1)[2]
      <4>1. n - 1 \in 1..Len(search)
        BY <2>1, <1>2 DEF n
      <4>2. /\ Die(At(search, held, n - 1)).parent
                 = IF n - 1 = 1 THEN 1 ELSE At(search, held, n - 1 - 1)[2]
            /\ At(search, held, n - 1)[1] = Unit
        BY <1>2, <4>1 DEF Descends, At
      <4> QED BY <2>1, <2>2, <2>3, <4>2
    <3>4. Descends(search, held, Unit, 1)
      BY <1>2
    <3> QED BY <3>1, <3>2, <3>3, <3>4, DescendsOn
  <2>5. \A i \in 1..(Len(search') - 1) : Die(At(search', held', i)).sub
    <3>1. \A i \in 1..(n - 1 - 1) : i \in 1..(n - 1)
      BY <2>1
    <3> QED BY <1>2, <2>2, <2>3, <3>1
  <2>6. ComesTo(search', held') = After(dies, d[2])
    <3>1. Last(search').visited /\ held'[Last(search').die] = At(search, held, n - 1)
      <4>1. search'[n - 1].visited
        BY <1>2, <2>1, <2>2
      <4>2. At(search', held', n - 1) = At(search, held, n - 1)
        BY <2>1, <2>3
      <4> QED BY <2>2, <4>1, <4>2 DEF At
    <3>2. At(search, held, n - 1)[1] = Unit
      <4>1. n - 1 \in 1..Len(search)
        BY <2>1, <1>2 DEF n
      <4> QED BY <1>2, <4>1 DEF Descends, At
    <3>3. obj' = obj
      BY <1>1, SameMember
    <3>4. ComesTo(search', held') = After(dies, At(search, held, n - 1)[2])
      BY <3>1, <3>2, <3>3 DEF ComesTo
    <3> QED BY <1>2, <1>3, <1>6, <3>4
  <2> QED BY <1>1, <1>2, <1>4, <2>1, <2>4, <2>5, <2>6, NestKept
<1> QED BY <1>5, <1>6

(* The next member begins with no names, or dwarfdump is done.               *)
Unsearched == phase \in {"infos", "frames"} /\ current = NULL /\ cu = 0 /\ names = <<>>

LEMMA BegunNames == Unsearched => NamesInv
<1> SUFFICES ASSUME Unsearched PROVE NamesInv
  OBVIOUS
<1> USE DEF Unsearched
<1>1. <<>> \in Seq(NameEntries) /\ 1..Len(<<>>) = {}
  OBVIOUS
<1>2. names \in Seq(NameEntries) /\ NamesRight(names)
  BY <1>1 DEF NamesRight
<1>3. SearchPath /\ AllSearched
  BY DEF SearchPath, AllSearched
<1> QED BY <1>2, <1>3 DEF NamesInv

LEMMA NextMemberNames ==
  ASSUME Now, NamesInv, NextMember
  PROVE  NamesInv'
<1>1. phase = "frames" /\ run' = run /\ current' = NULL
  BY DEF NextMember
<1>2. CASE m = Len(run.members)
  <2>1. phase' = "done" /\ UNCHANGED <<run, m, cu, names>>
    BY <1>2 DEF NextMember
  <2>2. names \in Seq(NameEntries) /\ NamesRight(names)
    BY DEF NamesInv
  <2>3. SearchPath'
    BY <1>1, <2>1, PathKept
  <2>4. AllSearched'
    BY <1>1, <2>1, SearchKept
  <2> QED BY <2>1, <2>2, <2>3, <2>4, NamesKept
<1>3. CASE m # Len(run.members)
  <2>1. Unsearched'
    BY <1>1, <1>3 DEF NextMember, Start, opt, Unsearched
  <2>2. Unsearched' => NamesInv'
    BY BegunNames, PTL
  <2> QED BY <2>1, <2>2
<1> QED BY <1>2, <1>3

LEMMA DumpKeepsNames == IInv /\ NamesInv /\ [Next]_vars => NamesInv'
<1> SUFFICES ASSUME IInv, NamesInv, [Next]_vars PROVE NamesInv'
  OBVIOUS
<1>1. phase # "exit" => Now
  BY DEF IInv, Now
<1>2. CASE (NextUnit \/ PrintDie \/ NextSibling \/ NoSibling) /\ UNCHANGED fvars
  <2>1. Now
    BY <1>1, <1>2 DEF NextUnit, PrintDie, NextSibling, NoSibling
  <2> QED BY <1>2, <2>1, WalkNames
<1>3. CASE LeaveOut \/ Unnamed \/ StartSearch \/ NextSearchUnit
  <2>1. Now
    BY <1>1, <1>3 DEF LeaveOut, Unnamed, StartSearch, NextSearchUnit
  <2> QED BY <1>3, <2>1, FramesNames, StartSearchNames, NextSearchUnitNames
<1>4. CASE FoundName \/ LookInside \/ SearchSibling \/ NotHere
  <2>1. Now
    BY <1>1, <1>4 DEF FoundName, LookInside, SearchSibling, NotHere, Searching
  <2> QED BY <1>4, <2>1, FoundNameNames, LookInsideNames, SearchSiblingNames, NotHereNames
<1>5. CASE NextMember
  <2>1. Now
    BY <1>1, <1>5 DEF NextMember
  <2> QED BY <1>5, <2>1, NextMemberNames
<1>6. CASE NoMemory
  <2>1. phase' = "exit" /\ UNCHANGED <<run, m, names>>
    BY <1>6 DEF NoMemory, fvars
  <2> QED BY <2>1, NamesStay
<1>7. CASE UNCHANGED vars
  <2>1. UNCHANGED <<run, m, phase, cu, held, fde, current, search, names>>
    BY <1>7 DEF vars, ivars, fvars
  <2>2. CASE phase = "exit"
    BY <2>1, <2>2, NamesStay
  <2>3. CASE phase # "exit"
    <3>1. names \in Seq(NameEntries) /\ NamesRight(names) /\ SearchPath /\ AllSearched
          /\ (phase \in {"infos", "walk"} => names = <<>>)
      BY <2>3 DEF NamesInv
    <3>2. Unit' = Unit /\ From' = From
      BY <2>1 DEF Unit, From, FromAt
    <3>3. SearchPath'
      BY <2>1, <3>1, <3>2, PathKept DEF SearchPath, At
    <3>4. AllSearched'
      BY <2>1, <3>1, <3>2, SearchKept DEF AllSearched
    <3> QED BY <2>1, <3>1, <3>3, <3>4, NamesKept
  <2> QED BY <2>2, <2>3
<1> QED BY <1>2, <1>3, <1>4, <1>5, <1>6, <1>7 DEF Next

LEMMA NamesSay == NamesInv => NamesFound
<1> SUFFICES ASSUME NamesInv PROVE NamesFound
  OBVIOUS
<1>1. names \in Seq(NameEntries) /\ NamesRight(names)
  BY DEF NamesInv
<1>2. DOMAIN names = 1..Len(names)
  BY <1>1
<1>3. \A i \in DOMAIN names : NameRight(names[i], FromAt(names, i))
  BY <1>1, <1>2 DEF NamesRight
<1> QED BY <1>3 DEF NamesFound, NameRight, FromAt, SearchGoes

(* The name that print_frames() gives to an FDE is that of a function at its  *)
(* address which stands in nothing but functions, and where the units can all *)
(* be read a function is missed only in a unit before that of the FDE named   *)
(* just before: get_fde_proc_name() goes on from there to the last unit.      *)
THEOREM NamesAlwaysFound == Spec => []NamesFound
<1>1. Init => NamesInv
  <2> SUFFICES ASSUME Init PROVE NamesInv
    OBVIOUS
  <2>1. Unsearched
    BY DEF Init, InfosInit, Start, Unsearched
  <2> QED BY <2>1, BegunNames
<1>2. IInv /\ NamesInv /\ [Next]_vars => NamesInv'
  BY DumpKeepsNames
<1>3. NamesInv => NamesFound
  BY NamesSay
<1> QED BY <1>1, <1>2, <1>3, SpecKeepsIInv, PTL DEF Spec
===============================================================================
