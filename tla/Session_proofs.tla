---------------------------- MODULE Session_proofs ----------------------------
(***************************************************************************)
(* Proofs about Session.tla.                                               *)
(***************************************************************************)
EXTENDS Session, FiniteSetTheorems, TLAPS

(* A set of natural numbers that is not empty has a least element.          *)
LEMMA LeastNatural ==
  ASSUME NEW T, T \subseteq Nat, T # {}
  PROVE  \E n \in T : \A m \in T : n <= m
<1> DEFINE R == OpToRel(<, Nat)
<1>1. IsWellFoundedOn(R, Nat)
  BY NatLessThanWellFounded
<1>2. PICK n \in T : \A m \in T : ~ (<<m, n>> \in R)
  BY <1>1, WFMin
<1>3. \A m \in T : ~(m < n)
  BY <1>2 DEF R, OpToRel
<1> QED BY <1>3

-------------------------------------------------------------------------------
(* What the loop over the section headers gathers.                         *)

Secs == [dss_index : Nat, dss_link : Nat, dss_data : {NULL, "elf", "copy"},
         dss_reloc_index : Nat, dss_reloc_size : Nat, dss_reloc_link : Nat,
         dss_data_was_malloc : BOOLEAN]

Turn(f, i, bad) == IF i = 0 THEN NothingFound ELSE SetupSection(f[i - 1], i, bad)

(* The recursive function exists: one for the turns up to n is extended by  *)
(* the turn n + 1.                                                         *)
LEMMA GatheredExists ==
  ASSUME NEW bad, NEW n \in Nat
  PROVE  \E f : f = [i \in 0..n |-> Turn(f, i, bad)]
<1> DEFINE Has(k) == \E f : f = [i \in 0..k |-> Turn(f, i, bad)]
           Missing == {k \in Nat : ~Has(k)}
<1>1. Has(0)
  <2> DEFINE f == [i \in 0..0 |-> NothingFound]
  <2>1. f = [i \in 0..0 |-> Turn(f, i, bad)]
    BY DEF Turn
  <2> QED BY <2>1
<1>2. ASSUME NEW k \in Nat, Has(k) PROVE Has(k + 1)
  <2>1. PICK f : f = [i \in 0..k |-> Turn(f, i, bad)]
    BY <1>2
  <2> DEFINE g == [i \in 0..(k + 1) |-> IF i <= k THEN f[i] ELSE Turn(f, k + 1, bad)]
  <2>2. \A i \in 0..k : g[i] = f[i]
    OBVIOUS
  <2>3. ASSUME NEW i \in 0..(k + 1) PROVE g[i] = Turn(g, i, bad)
    <3>1. CASE i = 0
      BY <3>1, <2>1 DEF Turn
    <3>2. CASE i # 0
      <4>1. i - 1 \in 0..k
        BY <3>2
      <4>2. g[i - 1] = f[i - 1]
        BY <4>1, <2>2
      <4>3. Turn(g, i, bad) = Turn(f, i, bad)
        BY <4>2, <3>2 DEF Turn
      <4>4. g[i] = Turn(f, i, bad)
        <5>1. CASE i <= k
          <6>1. i \in 0..k
            BY <5>1
          <6>2. g[i] = f[i]
            BY <6>1, <2>2
          <6>3. f[i] = Turn(f, i, bad)
            BY <6>1, <2>1
          <6> QED BY <6>2, <6>3
        <5>2. CASE ~(i <= k)
          <6>1. i = k + 1
            BY <5>2
          <6> QED BY <6>1
        <5> QED BY <5>1, <5>2
      <4> QED BY <4>3, <4>4
    <3> QED BY <3>1, <3>2
  <2>4. g = [i \in 0..(k + 1) |-> Turn(g, i, bad)]
    <3> HIDE DEF g
    <3>1. g = [i \in 0..(k + 1) |-> g[i]]
      BY DEF g
    <3> QED BY <3>1, <2>3
  <2> QED BY <2>4
<1>3. Missing = {}
  <2>1. SUFFICES ASSUME Missing # {} PROVE FALSE
    OBVIOUS
  <2>2. PICK k \in Missing : \A m \in Missing : k <= m
    BY <2>1, LeastNatural
  <2>3. k # 0
    BY <1>1
  <2>4. k - 1 \in Nat /\ k - 1 \notin Missing
    BY <2>2, <2>3
  <2>5. Has(k - 1)
    BY <2>4
  <2>6. Has((k - 1) + 1)
    BY <2>4, <2>5, <1>2
  <2>7. (k - 1) + 1 = k
    BY <2>4
  <2> QED BY <2>6, <2>7
<1> QED BY <1>3

(* What the loop gathers in one turn more.                                  *)
LEMMA GatheredTurns ==
  ASSUME NEW bad, Len(object.sections) \in Nat, NEW i \in 0..Len(object.sections)
  PROVE  Gathered(bad)[i] = IF i = 0 THEN NothingFound
                            ELSE SetupSection(Gathered(bad)[i - 1], i, bad)
<1> DEFINE after == Gathered(bad)
<1>1. after = CHOOSE f : f = [j \in 0..Len(object.sections) |->
         IF j = 0 THEN NothingFound ELSE SetupSection(f[j - 1], j, bad)]
  BY DEF Gathered
<1>2. \E f : f = [j \in 0..Len(object.sections) |->
         IF j = 0 THEN NothingFound ELSE SetupSection(f[j - 1], j, bad)]
  BY GatheredExists DEF Turn
<1> HIDE DEF after
<1>3. after = [j \in 0..Len(object.sections) |->
         IF j = 0 THEN NothingFound ELSE SetupSection(after[j - 1], j, bad)]
  BY <1>1, <1>2
<1>4. after[i] = IF i = 0 THEN NothingFound ELSE SetupSection(after[i - 1], i, bad)
  BY <1>3
<1> QED BY <1>4 DEF after

HeadersTo(n, i) == {j \in Headers(n) : j <= i}
DataTo(n, i)    == {j \in HasData(n) : j <= i}

Gatherings == [res : {"OK", "ERROR"}, found : BOOLEAN, secs : [Names -> Secs]]

NoneLoaded(ss) == \A n \in Names : ss[n].dss_data = NULL /\ ~ss[n].dss_data_was_malloc

(* After i turns that went well, the headers up to i are as SetupIsRight    *)
(* says of all of them.                                                    *)
NameGathered(st, n, i) ==
  /\ \A j \in DataTo(n, i), k \in HeadersTo(n, i) : k <= j
  /\ DataTo(n, i) = {} => st.secs[n].dss_index = 0
  /\ DataTo(n, i) # {} => st.secs[n].dss_index \in DataTo(n, i)
  /\ n \in NeverEmpty => HeadersTo(n, i) = DataTo(n, i)

GatheredInv(st, i) ==
  /\ st \in Gatherings
  /\ NoneLoaded(st.secs)
  /\ st.res = "OK" =>
       /\ st.found <=> \E n \in MarksDwarf : HeadersTo(n, i) # {}
       /\ \A n \in Names : NameGathered(st, n, i)

LEMMA NothingFoundRight ==
  ASSUME object.sections \in Seq(SectionHeaders)
  PROVE  GatheredInv(NothingFound, 0)
<1>1. \A n \in Names : HeadersTo(n, 0) = {} /\ DataTo(n, 0) = {}
  BY DEF HeadersTo, DataTo, Headers, HasData
<1>2. MarksDwarf \subseteq Names
  BY DEF MarksDwarf, Names, DebugNames
<1>3. NoSection \in Secs
  BY DEF NoSection, Secs, NULL
<1>4. NothingFound \in Gatherings
  BY <1>3 DEF NothingFound, Gatherings
<1>5. NoneLoaded(NothingFound.secs)
  BY DEF NoneLoaded, NothingFound, NoSection
<1>6. \A n \in Names : NameGathered(NothingFound, n, 0)
  BY <1>1 DEF NameGathered, NothingFound, NoSection
<1> QED
  BY <1>1, <1>2, <1>4, <1>5, <1>6 DEF GatheredInv, NothingFound

(* The headers up to i are those up to i - 1, and i if it is one.           *)
LEMMA OneHeaderMore ==
  ASSUME object.sections \in Seq(SectionHeaders), NEW i \in 1..Len(object.sections),
         NEW n \in Names
  PROVE  /\ object.sections[i].name = n /\ ~object.sections[i].rela =>
              /\ HeadersTo(n, i) = HeadersTo(n, i - 1) \cup {i}
              /\ object.sections[i].size # 0 => DataTo(n, i) = DataTo(n, i - 1) \cup {i}
              /\ object.sections[i].size = 0 => DataTo(n, i) = DataTo(n, i - 1)
         /\ object.sections[i].name # n \/ object.sections[i].rela =>
              HeadersTo(n, i) = HeadersTo(n, i - 1) /\ DataTo(n, i) = DataTo(n, i - 1)
         /\ \A j \in HeadersTo(n, i - 1) : j \in 1..(i - 1)
         /\ DataTo(n, i - 1) \subseteq HeadersTo(n, i - 1)
<1> DEFINE len == Len(object.sections)
           header == object.sections[i]
<1>1. len \in Nat /\ DOMAIN object.sections = 1..len
  OBVIOUS
<1>2. \A j \in 1..len : j <= i <=> (j <= i - 1 \/ j = i)
  BY <1>1
<1>3. \A j \in 1..len : j <= i - 1 => j # i
  BY <1>1
<1>4. \A j : j \in HeadersTo(n, i) <=>
        (j \in HeadersTo(n, i - 1) \/ (j = i /\ header.name = n /\ ~header.rela))
  BY <1>1, <1>2 DEF HeadersTo, Headers
<1>5. \A j : j \in DataTo(n, i) <=>
        (\/ j \in DataTo(n, i - 1)
         \/ j = i /\ header.name = n /\ ~header.rela /\ header.size # 0)
  BY <1>1, <1>2 DEF DataTo, HasData, Headers
<1>6. \A j \in HeadersTo(n, i - 1) : j \in 1..(i - 1)
  BY <1>1 DEF HeadersTo, Headers
<1>7. DataTo(n, i - 1) \subseteq HeadersTo(n, i - 1)
  BY DEF HeadersTo, DataTo, Headers, HasData
<1> HIDE DEF header, len
<1>8. header.name = n /\ ~header.rela =>
         /\ HeadersTo(n, i) = HeadersTo(n, i - 1) \cup {i}
         /\ header.size # 0 => DataTo(n, i) = DataTo(n, i - 1) \cup {i}
         /\ header.size = 0 => DataTo(n, i) = DataTo(n, i - 1)
  BY <1>4, <1>5
<1>9. header.name # n \/ header.rela =>
         HeadersTo(n, i) = HeadersTo(n, i - 1) /\ DataTo(n, i) = DataTo(n, i - 1)
  BY <1>4, <1>5
<1> QED BY <1>6, <1>7, <1>8, <1>9 DEF header

(* A turn keeps the gathering right.                                        *)
LEMMA TurnRight ==
  ASSUME object.sections \in Seq(SectionHeaders), NEW i \in 1..Len(object.sections),
         NEW bad, NEW st, GatheredInv(st, i - 1)
  PROVE  GatheredInv(SetupSection(st, i, bad), i)
<1> DEFINE header == object.sections[i]
           name   == header.name
           basic  == get_basic_section_data(st.secs[name], header, i, name)
           after  == SetupSection(st, i, bad)
<1>1. header \in SectionHeaders
  OBVIOUS
<1>2. /\ st \in Gatherings
      /\ NoneLoaded(st.secs)
  BY DEF GatheredInv
<1>3. CASE st.res # "OK"
  <2>1. after = st
    BY <1>3 DEF SetupSection
  <2> QED BY <1>2, <1>3, <2>1 DEF GatheredInv
<1>4. CASE st.res = "OK" /\ i = bad
  <2>1. after = [st EXCEPT !.res = "ERROR"]
    BY <1>4 DEF SetupSection
  <2>2. after \in Gatherings /\ after.secs = st.secs /\ after.res = "ERROR"
    BY <1>2, <2>1 DEF Gatherings
  <2> QED BY <1>2, <2>2 DEF GatheredInv
<1>5. CASE st.res = "OK" /\ i # bad /\ name \notin Names
  <2>1. after = st
    BY <1>5 DEF SetupSection
  <2>2. \A n \in Names : HeadersTo(n, i) = HeadersTo(n, i - 1) /\ DataTo(n, i) = DataTo(n, i - 1)
    BY <1>5, OneHeaderMore
  <2>3. MarksDwarf \subseteq Names
    BY DEF MarksDwarf, Names, DebugNames
  <2> QED BY <1>5, <2>1, <2>2, <2>3 DEF GatheredInv, NameGathered
<1>6. CASE st.res = "OK" /\ i # bad /\ name \in Names /\ header.rela
  <2>2. \A n \in Names : HeadersTo(n, i) = HeadersTo(n, i - 1) /\ DataTo(n, i) = DataTo(n, i - 1)
    BY <1>6, OneHeaderMore
  <2>3. MarksDwarf \subseteq Names
    BY DEF MarksDwarf, Names, DebugNames
  <2>4. CASE name \in RelaNames
    <3>1. after = [st EXCEPT !.secs[name] = add_rela_data(@, header, i)]
      BY <1>6, <2>4 DEF SetupSection
    <3>2. add_rela_data(st.secs[name], header, i) \in Secs
      <4>1. st.secs[name] \in Secs
        BY <1>2, <1>6 DEF Gatherings
      <4>2. i \in Nat /\ header.size \in Nat /\ header.link \in Nat
        BY <1>1 DEF SectionHeaders
      <4> QED BY <4>1, <4>2 DEF add_rela_data, Secs
    <3>3. after \in Gatherings /\ after.res = st.res /\ after.found = st.found
      BY <1>2, <1>6, <3>1, <3>2 DEF Gatherings
    <3> DEFINE added == add_rela_data(st.secs[name], header, i)
    <3>40. /\ added.dss_index = st.secs[name].dss_index
           /\ added.dss_data = st.secs[name].dss_data
           /\ added.dss_data_was_malloc = st.secs[name].dss_data_was_malloc
      <4>1. st.secs[name] \in Secs
        BY <1>2, <1>6 DEF Gatherings
      <4> QED BY <4>1 DEF add_rela_data, Secs
    <3>41. name \in Names /\ st.secs \in [Names -> Secs]
      BY <1>2, <1>6 DEF Gatherings
    <3>42. after.secs = [st.secs EXCEPT ![name] = added]
      BY <1>2, <3>1 DEF Gatherings
    <3> HIDE DEF after, added, name
    <3>4. \A n \in Names : /\ after.secs[n].dss_index = st.secs[n].dss_index
                           /\ after.secs[n].dss_data = st.secs[n].dss_data
                           /\ after.secs[n].dss_data_was_malloc = st.secs[n].dss_data_was_malloc
      BY <3>40, <3>41, <3>42
    <3>5. NoneLoaded(after.secs)
      BY <1>2, <3>4 DEF NoneLoaded
    <3>6. \A n \in Names : NameGathered(after, n, i)
      BY <1>6, <2>2, <3>4 DEF GatheredInv, NameGathered
    <3>7. after.found <=> \E n \in MarksDwarf : HeadersTo(n, i) # {}
      BY <1>6, <2>2, <2>3, <3>3 DEF GatheredInv
    <3>8. GatheredInv(after, i)
      BY <3>3, <3>5, <3>6, <3>7 DEF GatheredInv
    <3> QED BY <3>8 DEF after
  <2>5. CASE name \notin RelaNames
    <3>1. after = st
      BY <1>6, <2>5 DEF SetupSection
    <3> QED BY <1>6, <2>2, <2>3, <3>1 DEF GatheredInv, NameGathered
  <2> QED BY <2>4, <2>5
<1>7. CASE st.res = "OK" /\ i # bad /\ name \in Names /\ ~header.rela
  <2>1. after = IF basic.ok THEN [st EXCEPT !.secs[name] = basic.sec,
                                            !.found = @ \/ name \in MarksDwarf]
                ELSE [st EXCEPT !.res = "ERROR"]
    BY <1>7 DEF SetupSection
  <2>2. CASE ~basic.ok
    <3>1. after = [st EXCEPT !.res = "ERROR"]
      BY <2>1, <2>2
    <3>2. after \in Gatherings /\ after.secs = st.secs /\ after.res = "ERROR"
      BY <1>2, <3>1 DEF Gatherings
    <3> QED BY <1>2, <3>2 DEF GatheredInv
  <2>3. CASE basic.ok
    <3>1. after = [st EXCEPT !.secs[name] = basic.sec, !.found = @ \/ name \in MarksDwarf]
      BY <2>1, <2>3
    <3>2. st.secs[name] \in Secs /\ st.secs[name].dss_index = 0
      BY <1>2, <1>7, <2>3 DEF Gatherings, get_basic_section_data
    <3>3. /\ header.size \in Nat /\ header.link \in Nat /\ i \in Nat
      BY <1>1 DEF SectionHeaders
    <3>4. /\ basic.sec \in Secs
          /\ basic.sec.dss_data = st.secs[name].dss_data
          /\ basic.sec.dss_data_was_malloc = st.secs[name].dss_data_was_malloc
          /\ basic.sec.dss_index = IF header.size = 0 THEN 0 ELSE i
      BY <3>2, <3>3, <2>3 DEF get_basic_section_data, Secs
    <3>5. header.size = 0 => name \notin NeverEmpty
      BY <3>2, <2>3 DEF get_basic_section_data
    <3> HIDE DEF basic
    <3>60. name \in Names /\ st.found \in BOOLEAN /\ st.secs \in [Names -> Secs] /\ st.res = "OK"
      BY <1>2, <1>7 DEF Gatherings
    <3>61. st = [res |-> st.res, found |-> st.found, secs |-> st.secs]
      BY <1>2 DEF Gatherings
    <3> HIDE DEF after, name
    <3>6. /\ after \in Gatherings /\ after.res = "OK"
          /\ after.found = (st.found \/ name \in MarksDwarf)
          /\ after.secs[name] = basic.sec
          /\ \A n \in Names \ {name} : after.secs[n] = st.secs[n]
      
      <4>1. after = [res |-> st.res, found |-> st.found \/ name \in MarksDwarf,
                     secs |-> [st.secs EXCEPT ![name] = basic.sec]]
        BY <3>61, <3>1
      <4>2. [st.secs EXCEPT ![name] = basic.sec] \in [Names -> Secs]
        BY <3>60, <3>4
      <4>3. (st.found \/ name \in MarksDwarf) \in BOOLEAN
        OBVIOUS
      <4>4. after \in Gatherings
        BY <4>1, <4>2, <4>3, <3>60 DEF Gatherings
      <4>5. \A n \in Names \ {name} : after.secs[n] = st.secs[n]
        BY <4>1, <3>60
      <4>6. after.secs[name] = basic.sec
        BY <4>1, <3>60
      <4> QED BY <4>1, <4>4, <4>5, <4>6, <3>60
    <3>7. NoneLoaded(after.secs)
      BY <1>2, <1>7, <3>4, <3>6 DEF NoneLoaded
    <3>8. MarksDwarf \subseteq Names
      BY DEF MarksDwarf, Names, DebugNames
    <3>9. after.found <=> \E n \in MarksDwarf : HeadersTo(n, i) # {}
      <4>1. \A n \in MarksDwarf : HeadersTo(n, i) # {} <=> (HeadersTo(n, i - 1) # {} \/ n = name)
        <5> TAKE n \in MarksDwarf
        <5>1. n \in Names
          BY <3>8
        <5>2. CASE n = name
          <6>1. HeadersTo(n, i) = HeadersTo(n, i - 1) \cup {i}
            BY <5>1, <5>2, <1>7, OneHeaderMore DEF name
          <6>2. i \in HeadersTo(n, i)
            BY <6>1
          <6> QED BY <6>2, <5>2
        <5>3. CASE n # name
          <6>1. HeadersTo(n, i) = HeadersTo(n, i - 1)
            BY <5>1, <5>3, OneHeaderMore DEF name
          <6> QED BY <6>1, <5>3
        <5> QED BY <5>2, <5>3
      <4>2. st.found <=> \E n \in MarksDwarf : HeadersTo(n, i - 1) # {}
        BY <1>7 DEF GatheredInv
      <4> QED BY <4>1, <4>2, <3>6
    <3>10. ASSUME NEW n \in Names PROVE NameGathered(after, n, i)
      <4>1. NameGathered(st, n, i - 1)
        BY <1>7 DEF GatheredInv
      <4>2. CASE n # name
        <5>1. HeadersTo(n, i) = HeadersTo(n, i - 1) /\ DataTo(n, i) = DataTo(n, i - 1)
          BY <4>2, OneHeaderMore DEF name
        <5>2. after.secs[n] = st.secs[n]
          BY <4>2, <3>6
        <5> QED BY <4>1, <5>1, <5>2 DEF NameGathered
      <4>3. CASE n = name
        <5>1. /\ HeadersTo(n, i) = HeadersTo(n, i - 1) \cup {i}
              /\ DataTo(n, i) = DataTo(n, i - 1) \cup IF header.size # 0 THEN {i} ELSE {}
              /\ \A j \in HeadersTo(n, i - 1) : j \in 1..(i - 1)
          BY <4>3, <1>7, OneHeaderMore DEF name
        <5>2. DataTo(n, i - 1) = {}
          <6>1. 0 \notin DataTo(n, i - 1)
            BY <5>1, OneHeaderMore
          <6> QED BY <4>1, <4>3, <3>2, <6>1 DEF NameGathered
        <5>3. after.secs[n].dss_index = IF header.size = 0 THEN 0 ELSE i
          BY <4>3, <3>4, <3>6
        <5> HIDE DEF header
        <5>4. /\ \A j \in DataTo(n, i), k \in HeadersTo(n, i) : k <= j
              /\ DataTo(n, i) = {} => after.secs[n].dss_index = 0
              /\ DataTo(n, i) # {} => after.secs[n].dss_index \in DataTo(n, i)
          BY <5>1, <5>2, <5>3
        <5>5. n \in NeverEmpty => HeadersTo(n, i) = DataTo(n, i)
          BY <5>1, <4>1, <4>3, <3>5 DEF NameGathered
        <5> QED BY <5>4, <5>5 DEF NameGathered
      <4> QED BY <4>2, <4>3
    <3>11. GatheredInv(after, i)
      BY <3>6, <3>7, <3>9, <3>10 DEF GatheredInv
    <3> QED BY <3>11 DEF after
  <2> QED BY <2>2, <2>3
<1> QED BY <1>3, <1>4, <1>5, <1>6, <1>7

(* The whole loop.                                                         *)
LEMMA GatheredRight ==
  ASSUME object.sections \in Seq(SectionHeaders), NEW bad
  PROVE  GatheredInv(Gathered(bad)[Len(object.sections)], Len(object.sections))
<1> DEFINE len   == Len(object.sections)
           Wrong == {i \in 0..len : ~GatheredInv(Gathered(bad)[i], i)}
<1>1. len \in Nat
  OBVIOUS
<1>2. SUFFICES ASSUME Wrong # {} PROVE FALSE
  BY <1>1
<1>3. PICK i \in Wrong : \A j \in Wrong : i <= j
  <2>1. Wrong \subseteq Nat
    BY <1>1
  <2> HIDE DEF Wrong
  <2> QED BY <1>2, <2>1, LeastNatural
<1>4. i # 0
  BY GatheredTurns, NothingFoundRight, <1>1
<1>5. i - 1 \in 0..len /\ GatheredInv(Gathered(bad)[i - 1], i - 1)
  BY <1>3, <1>4
<1>6. Gathered(bad)[i] = SetupSection(Gathered(bad)[i - 1], i, bad)
  BY GatheredTurns, <1>1, <1>4
<1>7. GatheredInv(Gathered(bad)[i], i)
  BY TurnRight, <1>5, <1>6, <1>4
<1> QED BY <1>7

-------------------------------------------------------------------------------
(* Loading a section.                                                      *)

Loads == [secs : [Names -> Secs], symtab : BOOLEAN, heap : SUBSET ({"copy", "relas"} \X Names),
          res : {"OK", "NO_ENTRY", "ERROR"}, error : {"none", "dbg"}]

(* A section that is not in the file has no data, and a copy is on the heap *)
(* and known to be, or is none.                                            *)
DataRight(sec, ismade) ==
  /\ sec.dss_index = 0 => sec.dss_data = NULL
  /\ sec.dss_data = "copy" <=> ismade
  /\ sec.dss_data_was_malloc <=> ismade

LoadRight(st) ==
  /\ st \in Loads
  /\ \A n \in Names : DataRight(st.secs[n], <<"copy", n>> \in st.heap)

(* The section stays what the headers made it, and where it is if it is.    *)
Stays(sec, now) ==
  /\ now.dss_index = sec.dss_index
  /\ sec.dss_data # NULL => now.dss_data = sec.dss_data

AllStay(ss, now) == \A n \in Names : Stays(ss[n], now[n])

(* Of the other sections only those of the symbols may be loaded as well.   *)
OthersStay(ss, now, n) == \A m \in Names \ {n, "symtab", "strtab"} : now[m] = ss[m]

InfoAfter(ss) == ss["info"].dss_data # NULL => ss["abbrev"].dss_data # NULL

LEMMA SomeNames ==
  /\ {"info", "abbrev", "symtab", "strtab", "aranges", "loc", "ranges", "macinfo"} \subseteq Names
  /\ RelocatableNames \subseteq Names \ {"symtab", "strtab"}
  BY DEF Names, DebugNames, RelocatableNames

LEMMA StaysOn ==
  ASSUME NEW a, NEW b, NEW c, AllStay(a, b), AllStay(b, c)
  PROVE  AllStay(a, c)
  BY DEF AllStay, Stays

LEMMA LoadDataRight ==
  ASSUME NEW st, LoadRight(st), NEW n \in Names, NEW fails \in BOOLEAN,
         st.secs[n].dss_data = NULL
  PROVE  LET now == LoadData(st, n, fails)
         IN /\ LoadRight(now) /\ AllStay(st.secs, now.secs)
            /\ now.error = st.error /\ now.heap = st.heap /\ now.symtab = st.symtab
            /\ \A m \in Names \ {n} : now.secs[m] = st.secs[m]
            /\ now.res = "OK" => /\ now.secs[n].dss_data = "elf"
                                 /\ st.secs[n].dss_index # 0
            /\ now.res # "OK" => now.secs = st.secs
            /\ st.secs[n].dss_index = 0 => now.res = "NO_ENTRY"
<1> DEFINE now == LoadData(st, n, fails)
<1>1. /\ st \in Loads
      /\ \A m \in Names : DataRight(st.secs[m], <<"copy", m>> \in st.heap)
  BY DEF LoadRight
<1>2. CASE st.secs[n].dss_index = 0
  <2>1. now = [st EXCEPT !.res = "NO_ENTRY"]
    BY <1>2 DEF LoadData
  <2>2. now \in Loads /\ now.secs = st.secs /\ now.heap = st.heap /\ now.symtab = st.symtab
        /\ now.res = "NO_ENTRY" /\ now.error = st.error
    BY <1>1, <2>1 DEF Loads
  <2> HIDE DEF now
  <2> QED
    BY <1>1, <1>2, <2>2 DEF LoadRight, AllStay, Stays, now
<1>3. CASE st.secs[n].dss_index # 0 /\ fails
  <2>1. now = [st EXCEPT !.res = "ERROR"]
    BY <1>3 DEF LoadData
  <2>2. now \in Loads /\ now.secs = st.secs /\ now.heap = st.heap /\ now.symtab = st.symtab
        /\ now.res = "ERROR" /\ now.error = st.error
    BY <1>1, <2>1 DEF Loads
  <2> HIDE DEF now
  <2> QED
    BY <1>1, <1>3, <2>2 DEF LoadRight, AllStay, Stays, now
<1>4. CASE st.secs[n].dss_index # 0 /\ ~fails
  <2> DEFINE sec == [st.secs[n] EXCEPT !.dss_data = "elf"]
  <2>1. now = [st EXCEPT !.secs[n].dss_data = "elf", !.res = "OK"]
    BY <1>4 DEF LoadData, Loaded
  <2>2. st.secs \in [Names -> Secs] /\ st.secs[n] \in Secs
    BY <1>1 DEF Loads
  <2>3. /\ sec \in Secs /\ sec.dss_index = st.secs[n].dss_index /\ sec.dss_data = "elf"
        /\ sec.dss_data_was_malloc = st.secs[n].dss_data_was_malloc
    BY <2>2 DEF Secs
  <2>4. now = [st EXCEPT !.secs = [st.secs EXCEPT ![n] = sec], !.res = "OK"]
    BY <2>1, <2>2, <1>1 DEF Loads
  <2> HIDE DEF sec, now
  <2>5. /\ now \in Loads /\ now.secs = [st.secs EXCEPT ![n] = sec] /\ now.heap = st.heap
        /\ now.symtab = st.symtab /\ now.res = "OK" /\ now.error = st.error
    BY <1>1, <2>2, <2>3, <2>4 DEF Loads
  <2>6. now.secs[n] = sec /\ \A m \in Names \ {n} : now.secs[m] = st.secs[m]
    BY <2>2, <2>5
  <2>7. \A m \in Names : DataRight(now.secs[m], <<"copy", m>> \in now.heap)
    <3> SUFFICES ASSUME NEW m \in Names
                 PROVE  DataRight(now.secs[m], <<"copy", m>> \in now.heap)
      OBVIOUS
    <3>1. CASE m # n
      BY <1>1, <2>5, <2>6, <3>1
    <3>2. CASE m = n
      BY <1>1, <1>4, <2>3, <2>5, <2>6, <3>2 DEF DataRight, NULL
    <3> QED BY <3>1, <3>2
  <2>8. AllStay(st.secs, now.secs)
    BY <2>3, <2>6 DEF AllStay, Stays
  <2> QED
    BY <1>4, <2>3, <2>5, <2>6, <2>7, <2>8 DEF LoadRight, now
<1> QED BY <1>2, <1>3, <1>4

(* The relocations of a section that was loaded just now make it a copy.    *)
LEMMA CopyRight ==
  ASSUME NEW st, LoadRight(st), NEW n \in Names, NEW what,
         st.secs[n].dss_data = "elf"
  PROVE  LET now == LoopThroughRelocations(st, n, what)
         IN /\ LoadRight(now)
            /\ now.error = st.error
            /\ \A m \in Names \ {n} : now.secs[m] = st.secs[m]
            /\ now.secs[n].dss_data # NULL
            /\ now.secs[n].dss_index = st.secs[n].dss_index
<1> DEFINE now == LoopThroughRelocations(st, n, what)
<1>1. /\ st \in Loads
      /\ \A m \in Names : DataRight(st.secs[m], <<"copy", m>> \in st.heap)
  BY DEF LoadRight
<1>2. st.secs \in [Names -> Secs] /\ st.secs[n] \in Secs
  BY <1>1 DEF Loads
<1>3. CASE what = "entries"
  <2>1. now = [st EXCEPT !.res = "ERROR"]
    BY <1>3 DEF LoopThroughRelocations
  <2>2. now \in Loads /\ now.secs = st.secs /\ now.heap = st.heap /\ now.error = st.error
    BY <1>1, <2>1 DEF Loads
  <2> HIDE DEF now
  <2> QED
    BY <1>1, <2>2 DEF LoadRight, NULL, now
<1>4. CASE what # "entries" /\ what = "copy"
  <2>1. now = [st EXCEPT !.res = "ERROR", !.heap = @ \cup {<<"relas", n>>}]
    BY <1>4 DEF LoopThroughRelocations
  <2>2. /\ now \in Loads /\ now.secs = st.secs /\ now.heap = st.heap \cup {<<"relas", n>>}
        /\ now.error = st.error
    <3> HIDE DEF now
    <3>1. st.heap \cup {<<"relas", n>>} \in SUBSET ({"copy", "relas"} \X Names)
      BY <1>1 DEF Loads
    <3>2. now = [secs |-> st.secs, symtab |-> st.symtab, heap |-> st.heap \cup {<<"relas", n>>},
                 res |-> "ERROR", error |-> st.error]
      BY <1>1, <2>1 DEF Loads
    <3> QED BY <1>1, <3>1, <3>2 DEF Loads
  <2> HIDE DEF now
  <2>3. \A m \in Names : <<"copy", m>> \in now.heap <=> <<"copy", m>> \in st.heap
    BY <2>2
  <2>4. \A m \in Names : DataRight(now.secs[m], <<"copy", m>> \in now.heap)
    BY <1>1, <2>2, <2>3 DEF DataRight
  <2> QED
    BY <2>2, <2>4 DEF LoadRight, NULL, now
<1>5. CASE what # "entries" /\ what # "copy"
  <2> DEFINE sec == [st.secs[n] EXCEPT !.dss_data = "copy", !.dss_data_was_malloc = TRUE]
  <2>1. now = [st EXCEPT !.res = "OK", !.heap = @ \cup {<<"copy", n>>},
                         !.secs[n].dss_data = "copy",
                         !.secs[n].dss_data_was_malloc = TRUE]
    BY <1>5 DEF LoopThroughRelocations
  <2>2. /\ sec \in Secs /\ sec.dss_index = st.secs[n].dss_index /\ sec.dss_data = "copy"
        /\ sec.dss_data_was_malloc = TRUE
    BY <1>2 DEF Secs
  <2>3. now = [secs |-> [st.secs EXCEPT ![n] = sec], symtab |-> st.symtab,
               heap |-> st.heap \cup {<<"copy", n>>}, res |-> "OK", error |-> st.error]
    <3> HIDE DEF now
    <3>1. st = [secs |-> st.secs, symtab |-> st.symtab, heap |-> st.heap,
                res |-> st.res, error |-> st.error]
      BY <1>1 DEF Loads
    <3>2. [[st.secs EXCEPT ![n].dss_data = "copy"] EXCEPT ![n].dss_data_was_malloc = TRUE]
            = [st.secs EXCEPT ![n] = sec]
      BY <1>2
    <3> QED BY <2>1, <3>1, <3>2
  <2> HIDE DEF sec, now
  <2>4. /\ now \in Loads /\ now.secs = [st.secs EXCEPT ![n] = sec]
        /\ now.heap = st.heap \cup {<<"copy", n>>} /\ now.error = st.error
    <3>1. [st.secs EXCEPT ![n] = sec] \in [Names -> Secs]
      BY <1>2, <2>2
    <3>2. st.heap \cup {<<"copy", n>>} \in SUBSET ({"copy", "relas"} \X Names)
      BY <1>1 DEF Loads
    <3> QED BY <1>1, <2>3, <3>1, <3>2 DEF Loads
  <2>5. now.secs[n] = sec /\ \A m \in Names \ {n} : now.secs[m] = st.secs[m]
    BY <1>2, <2>4
  <2>6. \A m \in Names : DataRight(now.secs[m], <<"copy", m>> \in now.heap)
    <3> SUFFICES ASSUME NEW m \in Names
                 PROVE  DataRight(now.secs[m], <<"copy", m>> \in now.heap)
      OBVIOUS
    <3>1. CASE m # n
      <4>1. <<"copy", m>> \in now.heap <=> <<"copy", m>> \in st.heap
        BY <2>4, <3>1
      <4> QED BY <1>1, <2>5, <3>1, <4>1 DEF DataRight
    <3>2. CASE m = n
      <4>1. <<"copy", m>> \in now.heap
        BY <2>4, <3>2
      <4>2. st.secs[n].dss_index # 0
        BY <1>1 DEF DataRight, NULL
      <4> QED BY <2>2, <2>5, <3>2, <4>1, <4>2 DEF DataRight
    <3> QED BY <3>1, <3>2
  <2> QED
    BY <2>2, <2>4, <2>5, <2>6 DEF LoadRight, NULL, now
<1> QED BY <1>3, <1>4, <1>5

(* A new result leaves the sections alone.                                  *)
LEMMA OtherResult ==
  ASSUME NEW st, LoadRight(st), NEW res \in {"OK", "NO_ENTRY", "ERROR"},
         NEW error \in {"none", "dbg"}, NEW set \in BOOLEAN,
         NEW now, now = [secs |-> st.secs, symtab |-> set, heap |-> st.heap,
                         res |-> res, error |-> error]
  PROVE  /\ LoadRight(now)
         /\ now.secs = st.secs /\ now.heap = st.heap /\ now.res = res
         /\ now.error = error /\ now.symtab = set
<1>1. now \in Loads
  BY DEF LoadRight, Loads
<1> QED BY <1>1 DEF LoadRight

LEMMA LoadFields ==
  ASSUME NEW st, LoadRight(st)
  PROVE  /\ st = [secs |-> st.secs, symtab |-> st.symtab, heap |-> st.heap,
                  res |-> st.res, error |-> st.error]
         /\ st.secs \in [Names -> Secs] /\ st.symtab \in BOOLEAN
         /\ st.res \in {"OK", "NO_ENTRY", "ERROR"} /\ st.error \in {"none", "dbg"}
  BY DEF LoadRight, Loads

LEMMA SymtabSet ==
  ASSUME NEW st, LoadRight(st)
  PROVE  LET now == [st EXCEPT !.symtab = TRUE]
         IN LoadRight(now) /\ now.secs = st.secs /\ now.error = st.error
<1> DEFINE now == [st EXCEPT !.symtab = TRUE]
<1>1. now \in Loads
  BY DEF LoadRight, Loads
<1>2. now.secs = st.secs /\ now.error = st.error /\ now.heap = st.heap
  BY DEF LoadRight, Loads
<1> QED BY <1>1, <1>2 DEF LoadRight

(* The symbols or their strings, unless they are there.                     *)
UnlessThere(st, m, fails) ==
  IF st.secs[m].dss_data # NULL THEN [st EXCEPT !.res = "OK"] ELSE LoadData(st, m, fails)

LEMMA UnlessThereRight ==
  ASSUME NEW st, LoadRight(st), NEW m \in Names, NEW fails \in BOOLEAN
  PROVE  LET now == UnlessThere(st, m, fails)
         IN /\ LoadRight(now) /\ now.error = st.error
            /\ AllStay(st.secs, now.secs)
            /\ \A k \in Names \ {m} : now.secs[k] = st.secs[k]
<1>1. CASE st.secs[m].dss_data = NULL
  BY <1>1, LoadDataRight DEF UnlessThere
<1>2. CASE st.secs[m].dss_data # NULL
  <2> DEFINE now == UnlessThere(st, m, fails)
  <2>1. now = [secs |-> st.secs, symtab |-> st.symtab, heap |-> st.heap,
               res |-> "OK", error |-> st.error]
    BY <1>2, LoadFields DEF UnlessThere
  <2> HIDE DEF now
  <2>2. LoadRight(now) /\ now.secs = st.secs /\ now.error = st.error
    BY <2>1, OtherResult, LoadFields
  <2> QED BY <2>2 DEF AllStay, Stays, now
<1> QED BY <1>1, <1>2

Relocated(st, now, n) ==
  /\ LoadRight(now) /\ now.error = st.error
  /\ AllStay(st.secs, [now.secs EXCEPT ![n] = st.secs[n]])
  /\ OthersStay(st.secs, now.secs, n)
  /\ now.secs[n].dss_index = st.secs[n].dss_index
  /\ st.secs[n].dss_data # NULL => now.secs[n].dss_data # NULL

LEMMA WithSymbolsRight ==
  ASSUME NEW st, LoadRight(st), NEW n \in Names \ {"symtab", "strtab"}, NEW what,
         st.secs[n].dss_data = "elf"
  PROVE  Relocated(st, WithSymbols(st, n, what), n)
<1> DEFINE sym == UnlessThere(st, "symtab", what = "symtab")
           str == IF sym.res # "OK" THEN sym ELSE UnlessThere(sym, "strtab", what = "strtab")
           now == WithSymbols(st, n, what)
<1>1. /\ LoadRight(sym) /\ sym.error = st.error /\ AllStay(st.secs, sym.secs)
      /\ \A k \in Names \ {"symtab"} : sym.secs[k] = st.secs[k]
  <2> DEFINE fails == what = "symtab"
  <2>1. fails \in BOOLEAN
    OBVIOUS
  <2> HIDE DEF fails
  <2>2. LET then == UnlessThere(st, "symtab", fails)
        IN /\ LoadRight(then) /\ then.error = st.error
           /\ AllStay(st.secs, then.secs)
           /\ \A k \in Names \ {"symtab"} : then.secs[k] = st.secs[k]
    BY <2>1, UnlessThereRight, SomeNames
  <2> QED BY <2>2 DEF fails
<1>2. /\ LoadRight(str) /\ str.error = st.error /\ AllStay(st.secs, str.secs)
      /\ \A k \in Names \ {"symtab", "strtab"} : str.secs[k] = st.secs[k]
  <2>1. CASE sym.res # "OK"
    BY <1>1, <2>1
  <2>2. CASE sym.res = "OK"
    <3> DEFINE next == UnlessThere(sym, "strtab", what = "strtab")
    <3> HIDE DEF sym
    <3>1. /\ LoadRight(next) /\ next.error = sym.error /\ AllStay(sym.secs, next.secs)
          /\ \A k \in Names \ {"strtab"} : next.secs[k] = sym.secs[k]
      <4> DEFINE fails == what = "strtab"
      <4>1. fails \in BOOLEAN
        OBVIOUS
      <4> HIDE DEF fails
      <4>2. LET then == UnlessThere(sym, "strtab", fails)
            IN /\ LoadRight(then) /\ then.error = sym.error
               /\ AllStay(sym.secs, then.secs)
               /\ \A k \in Names \ {"strtab"} : then.secs[k] = sym.secs[k]
        BY <1>1, <4>1, UnlessThereRight, SomeNames
      <4> QED BY <4>2 DEF fails
    <3>2. str = next
      BY <2>2
    <3> HIDE DEF next, str
    <3>3. AllStay(st.secs, next.secs)
      BY <1>1, <3>1, StaysOn
    <3> QED BY <1>1, <3>1, <3>2, <3>3
  <2> QED BY <2>1, <2>2
<1>3. now = IF str.res # "OK" THEN str ELSE LoopThroughRelocations(str, n, what)
  <2>1. CASE sym.res = "OK" /\ sym.secs["strtab"].dss_data # NULL
    <3>1. [sym EXCEPT !.res = "OK"] = sym
      BY <1>1, <2>1, LoadFields
    <3>2. str = sym
      BY <3>1, <2>1 DEF UnlessThere
    <3> QED BY <3>2, <2>1 DEF WithSymbols, UnlessThere
  <2>2. CASE sym.res # "OK" \/ sym.secs["strtab"].dss_data = NULL
    BY <2>2 DEF WithSymbols, UnlessThere
  <2> QED BY <2>1, <2>2
<1> HIDE DEF str, sym, now
<1>4. str.secs[n] = st.secs[n] /\ str.secs \in [Names -> Secs] /\ st.secs \in [Names -> Secs]
  BY <1>2, LoadFields
<1>5. CASE str.res # "OK"
  <2>1. [str.secs EXCEPT ![n] = st.secs[n]] = str.secs
    BY <1>4
  <2>2. now = str
    BY <1>3, <1>5
  <2> QED BY <1>2, <1>4, <2>1, <2>2 DEF Relocated, OthersStay, now
<1>6. CASE str.res = "OK"
  <2>1. now = LoopThroughRelocations(str, n, what)
    BY <1>3, <1>6
  <2>2. /\ LoadRight(now) /\ now.error = str.error
        /\ \A m \in Names \ {n} : now.secs[m] = str.secs[m]
        /\ now.secs[n].dss_data # NULL
        /\ now.secs[n].dss_index = str.secs[n].dss_index
    BY <1>2, <1>4, <2>1, CopyRight
  <2>3. now.secs \in [Names -> Secs]
    BY <2>2, LoadFields
  <2>4. [now.secs EXCEPT ![n] = st.secs[n]] = str.secs
    BY <1>4, <2>2, <2>3
  <2> QED BY <1>2, <1>4, <2>2, <2>4 DEF Relocated, OthersStay, now
<1> QED BY <1>5, <1>6

LEMMA RelocateRight ==
  ASSUME NEW st, LoadRight(st), NEW n \in Names, NEW what,
         st.secs[n].dss_index # 0 => st.secs[n].dss_data = "elf"
  PROVE  LET now == relocate_a_section(st, n, what)
         IN /\ Relocated(st, now, n)
            /\ now.res = "OK" => st.secs[n].dss_index # 0
<1> DEFINE sec == st.secs[n]
           set == [st EXCEPT !.symtab = TRUE]
           now == relocate_a_section(st, n, what)
<1>0. ASSUME NEW same, LoadRight(same), same.secs = st.secs, same.error = st.error
      PROVE  Relocated(st, same, n)
  <2>1. [st.secs EXCEPT ![n] = st.secs[n]] = st.secs
    BY LoadFields
  <2> QED BY <1>0, <2>1 DEF Relocated, AllStay, OthersStay, Stays
<1>1. CASE sec.dss_index = 0
  <2>1. now = [secs |-> st.secs, symtab |-> st.symtab, heap |-> st.heap,
               res |-> "NO_ENTRY", error |-> st.error]
    BY <1>1, LoadFields DEF relocate_a_section
  <2> HIDE DEF now
  <2>2. LoadRight(now) /\ now.secs = st.secs /\ now.error = st.error /\ now.res = "NO_ENTRY"
    BY <2>1, OtherResult, LoadFields
  <2> QED BY <1>0, <2>2 DEF now
<1>2. CASE sec.dss_index # 0 /\ (\/ n \notin RelocatableNames
                                \/ sec.dss_reloc_index = 0
                                \/ what = "relocs")
  <2>1. now = [secs |-> st.secs, symtab |-> st.symtab, heap |-> st.heap,
               res |-> "ERROR", error |-> st.error]
    BY <1>2, LoadFields DEF relocate_a_section
  <2> HIDE DEF now
  <2>2. LoadRight(now) /\ now.secs = st.secs /\ now.error = st.error /\ now.res = "ERROR"
    BY <2>1, OtherResult, LoadFields
  <2> QED BY <1>0, <2>2 DEF now
<1>3. CASE sec.dss_index # 0 /\ ~(\/ n \notin RelocatableNames
                                 \/ sec.dss_reloc_index = 0
                                 \/ what = "relocs")
  <2>1. now = IF \/ st.secs["symtab"].dss_index # sec.dss_reloc_link
                 \/ st.secs["strtab"].dss_index # st.secs["symtab"].dss_link
              THEN [set EXCEPT !.res = "ERROR"]
              ELSE WithSymbols(set, n, what)
    BY <1>3 DEF relocate_a_section
  <2>2. n \in Names \ {"symtab", "strtab"}
    BY <1>3, SomeNames
  <2>3. CASE \/ st.secs["symtab"].dss_index # sec.dss_reloc_link
             \/ st.secs["strtab"].dss_index # st.secs["symtab"].dss_link
    <3>0. LoadRight(set) /\ set.secs = st.secs /\ set.error = st.error
      BY SymtabSet
    <3>1. now = [set EXCEPT !.res = "ERROR"]
      BY <2>1, <2>3
    <3> HIDE DEF now, set
    <3>3. now = [secs |-> set.secs, symtab |-> set.symtab, heap |-> set.heap,
                 res |-> "ERROR", error |-> set.error]
      BY <3>0, <3>1, LoadFields
    <3>2. LoadRight(now) /\ now.secs = st.secs /\ now.error = st.error /\ now.res = "ERROR"
      BY <3>0, <3>3, OtherResult, LoadFields
    <3> QED BY <1>0, <3>2 DEF now
  <2>4. CASE ~(\/ st.secs["symtab"].dss_index # sec.dss_reloc_link
               \/ st.secs["strtab"].dss_index # st.secs["symtab"].dss_link)
    <3>2. LoadRight(set) /\ set.secs = st.secs /\ set.error = st.error
      BY SymtabSet
    <3> HIDE DEF set
    <3>3. Relocated(set, WithSymbols(set, n, what), n)
      BY <1>3, <2>2, <3>2, WithSymbolsRight
    <3>4. now = WithSymbols(set, n, what)
      BY <2>1, <2>4
    <3> HIDE DEF now
    <3>5. Relocated(st, now, n)
      BY <3>2, <3>3, <3>4 DEF Relocated
    <3> QED BY <3>5, <1>3 DEF now
  <2> QED BY <2>3, <2>4
<1> QED BY <1>1, <1>2, <1>3

(* _dwarf_load_section() as a whole.                                       *)
LEMMA LoadSectionRight ==
  ASSUME NEW st, LoadRight(st), NEW n \in Names, NEW fault
  PROVE  LET now == _dwarf_load_section(st, n, fault)
         IN /\ LoadRight(now)
            /\ AllStay(st.secs, now.secs)
            /\ OthersStay(st.secs, now.secs, n)
            /\ now.res = "OK" => now.secs[n].dss_data # NULL
            /\ now.error # st.error => now.res = "ERROR"
<1> DEFINE what == IF fault[1] = n THEN fault[2] ELSE "none"
           data == LoadData(st, n, what = "data")
           now  == _dwarf_load_section(st, n, fault)
<1>1. CASE st.secs[n].dss_data # NULL
  <2>1. now = [st EXCEPT !.res = "OK"]
    BY <1>1 DEF _dwarf_load_section
  <2>2. now = [secs |-> st.secs, symtab |-> st.symtab, heap |-> st.heap,
               res |-> "OK", error |-> st.error]
    BY <2>1, LoadFields
  <2> HIDE DEF now
  <2>3. LoadRight(now) /\ now.secs = st.secs /\ now.error = st.error
    BY <2>2, OtherResult, LoadFields
  <2> QED BY <1>1, <2>3 DEF AllStay, OthersStay, Stays, now
<1>2. CASE st.secs[n].dss_data = NULL
  <2>1. /\ LoadRight(data) /\ AllStay(st.secs, data.secs)
        /\ \A m \in Names \ {n} : data.secs[m] = st.secs[m]
        /\ data.res = "OK" => /\ data.secs[n].dss_data = "elf"
                             /\ st.secs[n].dss_index # 0
        /\ data.res # "OK" => data.secs = st.secs
        /\ st.secs[n].dss_index = 0 => data.res = "NO_ENTRY"
        /\ data.error = st.error
    <3> DEFINE fails == what = "data"
               loaded == LoadData(st, n, fails)
    <3>1. fails \in BOOLEAN
      OBVIOUS
    <3> HIDE DEF fails
    <3>2. /\ LoadRight(loaded) /\ AllStay(st.secs, loaded.secs)
          /\ \A m \in Names \ {n} : loaded.secs[m] = st.secs[m]
          /\ loaded.res = "OK" => /\ loaded.secs[n].dss_data = "elf"
                                 /\ st.secs[n].dss_index # 0
          /\ loaded.res # "OK" => loaded.secs = st.secs
          /\ st.secs[n].dss_index = 0 => loaded.res = "NO_ENTRY"
          /\ loaded.error = st.error
      BY <1>2, <3>1, LoadDataRight
    <3> QED BY <3>2 DEF fails
  <2>2. data.res \in {"OK", "NO_ENTRY", "ERROR"}
    BY <2>1, LoadFields
  <2>3. data.res # "OK" /\ data.res # "ERROR" => st.secs[n].dss_index = 0
    BY <1>2, LoadFields DEF LoadData, Loaded
  <2>4. OthersStay(st.secs, data.secs, n)
    BY <2>1 DEF OthersStay
  <2>5. now = IF data.res = "ERROR" THEN [data EXCEPT !.error = "dbg"]
              ELSE IF ~apply \/ st.secs[n].dss_reloc_size = 0 THEN data
              ELSE relocate_a_section(data, n, what)
    BY <1>2 DEF _dwarf_load_section
  <2> HIDE DEF data, now, what
  <2>6. CASE data.res = "ERROR"
    <3>1. now = [secs |-> data.secs, symtab |-> data.symtab, heap |-> data.heap,
                 res |-> "ERROR", error |-> "dbg"]
      BY <2>1, <2>5, <2>6, LoadFields
    <3>2. LoadRight(now) /\ now.secs = data.secs /\ now.res = "ERROR"
      BY <2>1, <3>1, OtherResult, LoadFields
    <3> QED BY <2>1, <2>4, <3>2 DEF now
  <2>7. CASE data.res # "ERROR" /\ (~apply \/ st.secs[n].dss_reloc_size = 0)
    <3>1. now = data
      BY <2>5, <2>7
    <3>2. now.res = "OK" => now.secs[n].dss_data # NULL
      BY <2>1, <3>1 DEF NULL
    <3> QED BY <2>1, <2>4, <3>1, <3>2 DEF now
  <2>8. CASE data.res # "ERROR" /\ ~(~apply \/ st.secs[n].dss_reloc_size = 0)
    <3>1. now = relocate_a_section(data, n, what)
      BY <2>5, <2>8
    <3>2. data.secs[n].dss_index = st.secs[n].dss_index
      BY <2>1 DEF AllStay, Stays
    <3>3. data.secs[n].dss_index # 0 => data.secs[n].dss_data = "elf"
      BY <2>1, <2>2, <2>3, <2>8, <3>2
    <3>4. /\ Relocated(data, now, n)
          /\ now.res = "OK" => data.secs[n].dss_index # 0
      BY <2>1, <3>1, <3>3, RelocateRight
    <3>5. now.secs \in [Names -> Secs] /\ data.secs \in [Names -> Secs]
      BY <2>1, <3>4, LoadFields DEF Relocated
    <3>6. AllStay(st.secs, now.secs)
      <4> SUFFICES ASSUME NEW m \in Names PROVE Stays(st.secs[m], now.secs[m])
        BY DEF AllStay
      <4>1. CASE m = n
        BY <4>1, <1>2, <3>2, <3>4 DEF Relocated, Stays
      <4>2. CASE m # n
        <5>1. [now.secs EXCEPT ![n] = data.secs[n]][m] = now.secs[m]
          BY <4>2, <3>5
        <5>2. Stays(data.secs[m], now.secs[m])
          BY <3>4, <5>1 DEF Relocated, AllStay
        <5> QED BY <5>2, <4>2, <2>1
      <4> QED BY <4>1, <4>2
    <3>7. OthersStay(st.secs, now.secs, n)
      BY <2>4, <3>4 DEF Relocated, OthersStay
    <3>8. now.res = "OK" => now.secs[n].dss_data # NULL
      BY <3>3, <3>4 DEF Relocated, NULL
    <3> QED BY <2>1, <3>4, <3>6, <3>7, <3>8 DEF Relocated, now
  <2> QED BY <2>6, <2>7, <2>8
<1> QED BY <1>1, <1>2

(* What one section, or .debug_info with the abbreviations, changes, and    *)
(* that a load that went well leaves data.                                 *)
LoadsOnly(st, now) ==
  /\ LoadRight(now)
  /\ now.error # st.error => now.res = "ERROR"
  /\ AllStay(st.secs, now.secs)
  /\ InfoAfter(now.secs)

LEMMA ThenLoadRight ==
  ASSUME NEW st, LoadRight(st), NEW n \in Names \ {"info"}, NEW fault, InfoAfter(st.secs)
  PROVE  LET now == ThenLoad(st, n, fault)
         IN /\ LoadsOnly(st, now)
            /\ now.res = "OK" => now.secs[n].dss_data # NULL
<1> DEFINE now == ThenLoad(st, n, fault)
<1>1. CASE st.res # "OK"
  BY <1>1 DEF ThenLoad, LoadsOnly, AllStay, Stays
<1>2. CASE st.res = "OK"
  <2>1. now = _dwarf_load_section(st, n, fault)
    BY <1>2 DEF ThenLoad
  <2> HIDE DEF now
  <2>2. /\ LoadRight(now) /\ AllStay(st.secs, now.secs) /\ OthersStay(st.secs, now.secs, n)
        /\ now.res = "OK" => now.secs[n].dss_data # NULL
        /\ now.error # st.error => now.res = "ERROR"
    BY <2>1, LoadSectionRight
  <2>3. now.secs["info"] = st.secs["info"]
    BY <2>2, SomeNames DEF OthersStay
  <2>4. InfoAfter(now.secs)
    BY <2>2, <2>3, SomeNames DEF InfoAfter, AllStay, Stays
  <2> QED BY <2>2, <2>4 DEF LoadsOnly, now
<1> QED BY <1>1, <1>2

LEMMA LoadInfoRight ==
  ASSUME NEW st, LoadRight(st), NEW fault, InfoAfter(st.secs)
  PROVE  LoadsOnly(st, _dwarf_load_debug_info(st, fault))
<1> DEFINE abbrev == ThenLoad(st, "abbrev", fault)
           now    == ThenLoad(abbrev, "info", fault)
<1>1. CASE st.secs["info"].dss_data # NULL
  BY <1>1 DEF _dwarf_load_debug_info, LoadsOnly, AllStay, Stays
<1>2. CASE st.secs["info"].dss_data = NULL
  <2>1. _dwarf_load_debug_info(st, fault) = now
    BY <1>2 DEF _dwarf_load_debug_info
  <2>2. /\ LoadsOnly(st, abbrev)
        /\ abbrev.res = "OK" => abbrev.secs["abbrev"].dss_data # NULL
    BY ThenLoadRight, SomeNames
  <2> HIDE DEF abbrev
  <2>3. CASE abbrev.res # "OK"
    BY <2>1, <2>2, <2>3 DEF ThenLoad
  <2>4. CASE abbrev.res = "OK"
    <3>1. now = _dwarf_load_section(abbrev, "info", fault)
      BY <2>4 DEF ThenLoad
    <3> HIDE DEF now
    <3>2. /\ LoadRight(now) /\ AllStay(abbrev.secs, now.secs)
          /\ now.error # abbrev.error => now.res = "ERROR"
      BY <2>2, <3>1, LoadSectionRight, SomeNames DEF LoadsOnly
    <3>3. AllStay(st.secs, now.secs)
      BY <2>2, <3>2, StaysOn DEF LoadsOnly
    <3>4. now.secs["abbrev"].dss_data # NULL
      BY <2>2, <2>4, <3>2, SomeNames DEF AllStay, Stays
    <3> QED BY <2>1, <2>2, <2>4, <3>2, <3>3, <3>4 DEF LoadsOnly, InfoAfter
  <2> QED BY <2>3, <2>4
<1> QED BY <1>1, <1>2

(* A table's section and .debug_info.                                      *)
LEMMA LoadsWithInfoRight ==
  ASSUME LoadRight(Found), InfoAfter(secs), NEW from \in Names \ {"info"}, NEW fault
  PROVE  LET now == LoadsWithInfo(from, fault)
         IN /\ LoadsOnly(Found, now)
            /\ now.res = "OK" => now.secs[from].dss_data # NULL
<1> DEFINE one == ThenLoad(Found, from, fault)
           now == LoadsWithInfo(from, fault)
<1>1. Found.secs = secs
  BY DEF Found
<1>2. /\ LoadsOnly(Found, one)
      /\ one.res = "OK" => one.secs[from].dss_data # NULL
  BY <1>1, ThenLoadRight
<1>3. now = _dwarf_load_debug_info(one, fault)
  BY DEF LoadsWithInfo
<1>4. now.res = "OK" => one.res = "OK"
  BY <1>3 DEF _dwarf_load_debug_info, ThenLoad
<1> HIDE DEF one, now
<1>5. LoadsOnly(one, now)
  BY <1>2, <1>3, LoadInfoRight DEF LoadsOnly
<1>6. LoadsOnly(Found, now)
  <2>1. now.error # Found.error => now.res = "ERROR"
    <3>1. CASE one.res = "OK"
      BY <1>2, <1>5, <3>1 DEF LoadsOnly
    <3>2. CASE one.res # "OK"
      <4>1. now = one
        BY <1>3, <3>2 DEF _dwarf_load_debug_info, ThenLoad
      <4> QED BY <4>1, <1>2 DEF LoadsOnly
    <3> QED BY <3>1, <3>2
  <2> QED BY <1>2, <1>5, <2>1, StaysOn DEF LoadsOnly
<1>7. now.res = "OK" => now.secs[from].dss_data # NULL
  BY <1>2, <1>4, <1>5 DEF LoadsOnly, AllStay, Stays
<1> QED BY <1>6, <1>7 DEF now

-------------------------------------------------------------------------------
(* Sequences joined by FlattenSeq.                                         *)

Joined(f, seqs, i) == IF i = 1 THEN seqs[i] ELSE f[i - 1] \o seqs[i]

LEMMA JoinedExists ==
  ASSUME NEW seqs, NEW n \in Nat
  PROVE  \E f : f = [i \in 1..n |-> Joined(f, seqs, i)]
<1> DEFINE Has(k) == \E f : f = [i \in 1..k |-> Joined(f, seqs, i)]
           Missing == {k \in Nat : ~Has(k)}
<1>1. Has(0)
  <2> DEFINE f == [i \in 1..0 |-> {}]
  <2>1. f = [i \in 1..0 |-> Joined(f, seqs, i)]
    OBVIOUS
  <2> QED BY <2>1
<1>2. ASSUME NEW k \in Nat, Has(k) PROVE Has(k + 1)
  <2>1. PICK f : f = [i \in 1..k |-> Joined(f, seqs, i)]
    BY <1>2
  <2> DEFINE g == [i \in 1..(k + 1) |-> IF i <= k THEN f[i] ELSE Joined(f, seqs, k + 1)]
  <2>2. \A i \in 1..k : g[i] = f[i]
    OBVIOUS
  <2>3. ASSUME NEW i \in 1..(k + 1) PROVE g[i] = Joined(g, seqs, i)
    <3>1. Joined(g, seqs, i) = Joined(f, seqs, i)
      <4>1. CASE i = 1
        BY <4>1 DEF Joined
      <4>2. CASE i # 1
        <5>1. i - 1 \in 1..k
          BY <4>2
        <5>2. g[i - 1] = f[i - 1]
          BY <5>1, <2>2
        <5> HIDE DEF g
        <5> QED BY <5>2, <4>2 DEF Joined
      <4> QED BY <4>1, <4>2
    <3>2. CASE i <= k
      <4>1. i \in 1..k
        BY <3>2
      <4>2. g[i] = f[i]
        BY <4>1, <2>2
      <4>3. f[i] = Joined(f, seqs, i)
        BY <4>1, <2>1
      <4> QED BY <3>1, <4>2, <4>3
    <3>3. CASE ~(i <= k)
      <4>1. i = k + 1
        BY <3>3
      <4> QED BY <3>1, <4>1
    <3> QED BY <3>2, <3>3
  <2>4. g = [i \in 1..(k + 1) |-> Joined(g, seqs, i)]
    <3> HIDE DEF g
    <3>1. g = [i \in 1..(k + 1) |-> g[i]]
      BY DEF g
    <3> QED BY <3>1, <2>3
  <2> QED BY <2>4
<1>3. Missing = {}
  <2>1. SUFFICES ASSUME Missing # {} PROVE FALSE
    OBVIOUS
  <2>2. PICK k \in Missing : \A m \in Missing : k <= m
    BY <2>1, LeastNatural
  <2>3. k # 0
    BY <1>1
  <2>4. k - 1 \in Nat /\ k - 1 \notin Missing
    BY <2>2, <2>3
  <2>5. Has(k - 1)
    BY <2>4
  <2>6. Has((k - 1) + 1)
    BY <2>4, <2>5, <1>2
  <2>7. (k - 1) + 1 = k
    BY <2>4
  <2> QED BY <2>6, <2>7
<1> QED BY <1>3

(* FlattenSeq() joins one sequence after the other.                         *)
LEMMA FlattenSteps ==
  ASSUME NEW seqs, Len(seqs) \in Nat \ {0}
  PROVE  \E f : /\ FlattenSeq(seqs) = f[Len(seqs)]
               /\ \A i \in 1..Len(seqs) : f[i] = Joined(f, seqs, i)
<1> DEFINE flatten == CHOOSE f : f = [i \in 1..Len(seqs) |->
                        IF i = 1 THEN seqs[i] ELSE f[i - 1] \o seqs[i]]
<1>1. FlattenSeq(seqs) = flatten[Len(seqs)]
  BY DEF FlattenSeq
<1>2. \E f : f = [i \in 1..Len(seqs) |-> IF i = 1 THEN seqs[i] ELSE f[i - 1] \o seqs[i]]
  BY JoinedExists DEF Joined
<1>3. flatten = [i \in 1..Len(seqs) |->
                   IF i = 1 THEN seqs[i] ELSE flatten[i - 1] \o seqs[i]]
  BY <1>2
<1> HIDE DEF flatten
<1>4. \A i \in 1..Len(seqs) : flatten[i] = Joined(flatten, seqs, i)
  BY <1>3 DEF Joined
<1> QED BY <1>1, <1>4

(* Sequences over S make a sequence over S.                                 *)
LEMMA FlattenTyped ==
  ASSUME NEW S, NEW seqs, Len(seqs) \in Nat, DOMAIN seqs = 1..Len(seqs),
         \A i \in 1..Len(seqs) : seqs[i] \in Seq(S),
         Len(seqs) = 0 => seqs = <<>>
  PROVE  FlattenSeq(seqs) \in Seq(S)
<1>1. CASE Len(seqs) = 0
  BY <1>1 DEF FlattenSeq
<1>2. CASE Len(seqs) # 0
  <2>1. PICK f : /\ FlattenSeq(seqs) = f[Len(seqs)]
                 /\ \A i \in 1..Len(seqs) : f[i] = Joined(f, seqs, i)
    BY <1>2, FlattenSteps
  <2> DEFINE Wrong == {i \in 1..Len(seqs) : f[i] \notin Seq(S)}
  <2>2. CASE Wrong = {}
    BY <2>1, <2>2, <1>2
  <2>3. CASE Wrong # {}
    <3>1. Wrong \subseteq Nat
      OBVIOUS
    <3>2. PICK i \in Wrong : \A j \in Wrong : i <= j
      <4> HIDE DEF Wrong
      <4> QED BY <2>3, <3>1, LeastNatural
    <3>3. i # 1
      BY <2>1, <3>2 DEF Joined
    <3>4. i - 1 \in 1..Len(seqs) /\ f[i - 1] \in Seq(S)
      BY <3>2, <3>3
    <3>5. f[i] = f[i - 1] \o seqs[i]
      BY <2>1, <3>2, <3>3 DEF Joined
    <3>6. f[i] \in Seq(S)
      BY <3>4, <3>5
    <3> QED BY <3>2, <3>6
  <2> QED BY <2>2, <2>3
<1> QED BY <1>1, <1>2

-------------------------------------------------------------------------------
(* What the readers of tables allocate.                                    *)

Aranges == [ar_address : Nat, ar_length : Nat, ar_info_offset : Nat]
Items   == Nat \cup RangeEntries \cup {"none"} \cup Aranges
Structs == [kind : Kinds, part : Nat, item : Items]

SweepTyped(sweep) ==
  /\ sweep.structs \in Seq(Structs)
  /\ sweep.res \in {"OK", "NO_ENTRY", "ERROR"}

LEMMA StructTyped ==
  ASSUME NEW kind \in Kinds, NEW part \in Nat, NEW item \in Items
  PROVE  Struct(kind, part, item) \in Structs
  BY DEF Struct, Structs

LEMMA ReadPartTyped ==
  ASSUME NEW S, NEW table \in Seq(S)
  PROVE  /\ FlawAt(table) \in 0..Len(table)
         /\ ReadPart(table) \in Seq(S)
         /\ Len(ReadPart(table)) <= Len(table)
         /\ \A i \in 1..Len(ReadPart(table)) : ReadPart(table)[i] = table[i]
         /\ EndsAs(table) \in {"OK", "ERROR"}
         /\ EndsAs(table) = "OK" => ReadPart(table) = table
<1> DEFINE flawed == {i \in 1..Len(table) : table[i].flaw # "none"}
<1>1. flawed # {} => Min(flawed) \in flawed
  <2>1. SUFFICES ASSUME flawed # {} PROVE Min(flawed) \in flawed
    OBVIOUS
  <2>2. \E n \in flawed : \A m \in flawed : n <= m
    <3>1. flawed \subseteq Nat
      OBVIOUS
    <3> HIDE DEF flawed
    <3> QED BY <2>1, <3>1, LeastNatural
  <2> HIDE DEF flawed
  <2> QED BY <2>2 DEF Min
<1>2. FlawAt(table) = IF flawed # {} THEN Min(flawed) ELSE 0
  BY DEF FlawAt, SelectInSeq
<1>3. FlawAt(table) \in 0..Len(table)
  BY <1>1, <1>2
<1> HIDE DEF flawed
<1>4. CASE FlawAt(table) = 0
  BY <1>3, <1>4 DEF ReadPart, EndsAs
<1>5. CASE FlawAt(table) # 0
  <2>1. ReadPart(table) = SubSeq(table, 1, FlawAt(table)) /\ EndsAs(table) = "ERROR"
    BY <1>5 DEF ReadPart, EndsAs
  <2> QED BY <1>3, <1>5, <2>1
<1> QED BY <1>4, <1>5

LEMMA NameSetTyped ==
  ASSUME NEW table \in Seq(NameSets), NEW i \in 1..Len(table)
  PROVE  NameSet(table, i) \in Seq(Structs)
<1> DEFINE dies  == table[i].dies
           pairs == [k \in DOMAIN dies |-> <<Struct("global", i, dies[k]), Struct("chain", i, 0)>>]
<1>1. table[i] \in NameSets /\ i \in Nat
  OBVIOUS
<1>2. dies \in Seq(Nat) /\ table[i].cu \in Nat
  BY <1>1 DEF NameSets
<1>3. Struct("context", i, table[i].cu) \in Structs
  BY <1>1, <1>2, StructTyped DEF Kinds, Items
<1>4. \A k \in 1..Len(dies) : pairs[k] \in Seq(Structs)
  <2> SUFFICES ASSUME NEW k \in 1..Len(dies) PROVE pairs[k] \in Seq(Structs)
    OBVIOUS
  <2>1. Struct("global", i, dies[k]) \in Structs /\ Struct("chain", i, 0) \in Structs
    BY <1>1, <1>2, StructTyped DEF Kinds, Items
  <2>2. pairs[k] = <<Struct("global", i, dies[k]), Struct("chain", i, 0)>>
    BY <1>2
  <2> QED BY <2>1, <2>2
<1>5. DOMAIN pairs = 1..Len(dies) /\ Len(pairs) = Len(dies) /\ Len(dies) \in Nat
  BY <1>2
<1>6. Len(pairs) = 0 => pairs = <<>>
  BY <1>5
<1>7. FlattenSeq(pairs) \in Seq(Structs)
  <2> HIDE DEF pairs
  <2> QED BY <1>4, <1>5, <1>6, FlattenTyped
<1>8. NameSet(table, i) = <<Struct("context", i, table[i].cu)>>
                          \o IF table[i].flaw = "head" THEN <<>> ELSE FlattenSeq(pairs)
  BY DEF NameSet
<1> HIDE DEF pairs, dies
<1> QED BY <1>3, <1>7, <1>8

LEMMA SweepNamesTyped ==
  ASSUME NEW table \in Seq(NameSets)
  PROVE  /\ FlattenSeq([i \in DOMAIN ReadPart(table) |-> NameSet(ReadPart(table), i)])
              \in Seq(Structs)
         /\ SweepTyped(SweepNames(table))
<1> DEFINE read == ReadPart(table)
           sets == [i \in DOMAIN read |-> NameSet(read, i)]
<1>1. read \in Seq(NameSets) /\ EndsAs(table) \in {"OK", "ERROR"}
  BY ReadPartTyped
<1>2. \A i \in 1..Len(read) : sets[i] \in Seq(Structs)
  BY <1>1, NameSetTyped
<1>3. DOMAIN sets = 1..Len(read) /\ Len(sets) = Len(read) /\ Len(read) \in Nat
  BY <1>1
<1>4. Len(sets) = 0 => sets = <<>>
  BY <1>3
<1>5. FlattenSeq(sets) \in Seq(Structs)
  <2> HIDE DEF sets
  <2> QED BY <1>2, <1>3, <1>4, FlattenTyped
<1>6. Struct("list", 0, 0) \in Structs
  BY StructTyped DEF Kinds, Items
<1>7. SweepNames(table).structs = IF EndsAs(table) = "OK"
         THEN Append(FlattenSeq(sets), Struct("list", 0, 0)) ELSE FlattenSeq(sets)
  BY DEF SweepNames
<1>8. SweepNames(table).res = EndsAs(table)
  BY DEF SweepNames
<1> HIDE DEF sets
<1> QED BY <1>1, <1>5, <1>6, <1>7, <1>8 DEF SweepTyped, sets

LEMMA ArangeSetTyped ==
  ASSUME NEW table \in Seq(ArangeSets), NEW i \in 1..Len(table)
  PROVE  ArangeSet(table, i) \in Seq(Structs)
<1> DEFINE ranges == table[i].ranges
           arange(k) == [ar_address |-> ranges[k][1], ar_length |-> ranges[k][2],
                         ar_info_offset |-> table[i].cu]
           pairs == [k \in DOMAIN ranges |-> <<Struct("arange", i, arange(k)),
                                              Struct("chain", i, 0)>>]
<1>1. table[i] \in ArangeSets /\ i \in Nat
  OBVIOUS
<1>2. ranges \in Seq(Nat \X Nat) /\ table[i].cu \in Nat
  BY <1>1 DEF ArangeSets
<1>4. \A k \in 1..Len(ranges) : pairs[k] \in Seq(Structs)
  <2> SUFFICES ASSUME NEW k \in 1..Len(ranges) PROVE pairs[k] \in Seq(Structs)
    OBVIOUS
  <2>0. ranges[k] \in Nat \X Nat
    BY <1>2
  <2>1. arange(k) \in Items
    BY <1>2, <2>0 DEF Items, Aranges
  <2>2. pairs[k] = <<Struct("arange", i, arange(k)), Struct("chain", i, 0)>>
    BY <1>2
  <2> HIDE DEF arange, pairs
  <2>3. Struct("arange", i, arange(k)) \in Structs /\ Struct("chain", i, 0) \in Structs
    BY <1>1, <2>1, StructTyped DEF Kinds, Items
  <2> QED BY <2>2, <2>3
<1>5. DOMAIN pairs = 1..Len(ranges) /\ Len(pairs) = Len(ranges) /\ Len(ranges) \in Nat
  BY <1>2
<1>6. Len(pairs) = 0 => pairs = <<>>
  BY <1>5
<1>7. FlattenSeq(pairs) \in Seq(Structs)
  <2> HIDE DEF pairs
  <2> QED BY <1>4, <1>5, <1>6, FlattenTyped
<1>8. ArangeSet(table, i) = IF table[i].flaw = "head" THEN <<>> ELSE FlattenSeq(pairs)
  BY DEF ArangeSet
<1> HIDE DEF pairs, ranges
<1> QED BY <1>7, <1>8

LEMMA SweepArangesTyped ==
  ASSUME NEW table \in Seq(ArangeSets)
  PROVE  /\ SweepTyped(SweepAranges(table))
         /\ SweepAranges(table).res = "OK" => Len(SweepAranges(table).structs) > 0
<1> DEFINE read == ReadPart(table)
           sets == [i \in DOMAIN read |-> ArangeSet(read, i)]
<1>1. read \in Seq(ArangeSets) /\ EndsAs(table) \in {"OK", "ERROR"}
  BY ReadPartTyped
<1>2. \A i \in 1..Len(read) : sets[i] \in Seq(Structs)
  BY <1>1, ArangeSetTyped
<1>3. DOMAIN sets = 1..Len(read) /\ Len(sets) = Len(read) /\ Len(read) \in Nat
  BY <1>1
<1>4. Len(sets) = 0 => sets = <<>>
  BY <1>3
<1>5. FlattenSeq(sets) \in Seq(Structs)
  <2> HIDE DEF sets
  <2> QED BY <1>2, <1>3, <1>4, FlattenTyped
<1>6. Struct("list", 0, 0) \in Structs
  BY StructTyped DEF Kinds, Items
<1>7. SweepAranges(table).structs = IF EndsAs(table) = "OK"
         THEN Append(FlattenSeq(sets), Struct("list", 0, 0)) ELSE FlattenSeq(sets)
  BY DEF SweepAranges
<1>8. SweepAranges(table).res = EndsAs(table)
  BY DEF SweepAranges
<1> HIDE DEF sets
<1> QED BY <1>1, <1>5, <1>6, <1>7, <1>8 DEF SweepTyped

(* The least of some natural numbers is one of them.                        *)
LEMMA MinIn ==
  ASSUME NEW T, T \subseteq Nat, T # {}
  PROVE  Min(T) \in T
<1>1. \E n \in T : \A m \in T : n <= m
  BY LeastNatural
<1> QED BY <1>1 DEF Min

(* What is read by three from sets of half addresses are again ranges.      *)
LEMMA HalvesTyped ==
  ASSUME NEW ranges \in Seq(Nat \X Nat)
  PROVE  Halves(ranges) \in Seq(Nat)
<1> DEFINE fours == [k \in DOMAIN ranges |-> <<ranges[k][1], 0, ranges[k][2], 0>>]
<1>1. DOMAIN fours = 1..Len(ranges) /\ Len(fours) = Len(ranges) /\ Len(ranges) \in Nat
  OBVIOUS
<1>2. \A k \in 1..Len(ranges) : fours[k] \in Seq(Nat)
  <2> SUFFICES ASSUME NEW k \in 1..Len(ranges) PROVE fours[k] \in Seq(Nat)
    OBVIOUS
  <2>1. ranges[k] \in Nat \X Nat
    OBVIOUS
  <2>2. ranges[k][1] \in Nat /\ ranges[k][2] \in Nat
    BY <2>1
  <2>3. fours[k] = <<ranges[k][1], 0, ranges[k][2], 0>>
    OBVIOUS
  <2> HIDE DEF fours
  <2> QED BY <2>2, <2>3
<1>3. Len(fours) = 0 => fours = <<>>
  BY <1>1
<1>4. FlattenSeq(fours) \in Seq(Nat)
  <2> HIDE DEF fours
  <2> QED BY <1>1, <1>2, <1>3, FlattenTyped
<1>5. Halves(ranges) = FlattenSeq(fours) \o <<0, 0, 0, 0>>
  BY DEF Halves
<1> HIDE DEF fours
<1> QED BY <1>4, <1>5

LEMMA ReadByThreeTyped ==
  ASSUME NEW halves \in Seq(Nat)
  PROVE  ReadByThree(halves) \in Seq(Nat \X Nat)
<1> DEFINE read == ReadByThree(halves)
           n    == Len(halves) \div 3
<1>1. Len(halves) \in Nat /\ n \in Nat /\ 3 * n <= Len(halves)
  <2>1. \A m \in Nat : m \div 3 \in Nat /\ 3 * (m \div 3) <= m
    OBVIOUS
  <2>2. Len(halves) \in Nat
    OBVIOUS
  <2> QED BY <2>1, <2>2
<1> HIDE DEF n
<1>2. \A k \in 1..n : read[k] \in Nat \X Nat
  <2> SUFFICES ASSUME NEW k \in 1..n PROVE read[k] \in Nat \X Nat
    OBVIOUS
  <2>1. 3 * k - 2 \in 1..Len(halves) /\ 3 * k - 1 \in 1..Len(halves) /\ 3 * k \in 1..Len(halves)
    BY <1>1
  <2>2. halves[3 * k - 2] \in Nat /\ halves[3 * k - 1] \in Nat /\ halves[3 * k] \in Nat
    BY <2>1
  <2>3. read[k] = <<halves[3 * k - 2] + UpperHalf * halves[3 * k - 1], halves[3 * k]>>
    BY DEF ReadByThree, n
  <2>4. halves[3 * k - 2] + UpperHalf * halves[3 * k - 1] \in Nat
    <3>1. \A x, y \in Nat : x + UpperHalf * y \in Nat
      BY SMT DEF UpperHalf
    <3> HIDE DEF n
    <3> QED BY <2>2, <3>1, Zenon
  <2> QED BY <2>2, <2>3, <2>4
<1>3. DOMAIN read = 1..n /\ read = [k \in 1..n |-> read[k]]
  BY DEF ReadByThree, n
<1> HIDE DEF read
<1>4. read \in [1..n -> Nat \X Nat]
  BY <1>2, <1>3
<1>5. read \in Seq(Nat \X Nat)
  BY <1>1, <1>4
<1> QED BY <1>5 DEF read

LEMMA NarrowReadTyped ==
  ASSUME NEW set \in ArangeSets
  PROVE  NarrowRead(set) \in ArangeSets
<1> DEFINE read == ReadByThree(Halves(set.ranges))
           ends == {i \in 1..Len(read) : read[i] = <<0, 0>>}
           end  == IF ends # {} THEN Min(ends) ELSE 0
           flaw == IF set.flaw = "none" /\ 3 * end # Len(Halves(set.ranges)) THEN "tail"
                   ELSE set.flaw
<1>1. /\ set.ranges \in Seq(Nat \X Nat) /\ set.flaw \in Flaws
      /\ \E a, b, c, d, e : set = [cu |-> a, ranges |-> b, pad |-> c, flaw |-> d, size |-> e]
  BY DEF ArangeSets
<1>2. read \in Seq(Nat \X Nat)
  BY <1>1, HalvesTyped, ReadByThreeTyped
<1>3. NarrowRead(set) = [set EXCEPT !.ranges = SubSeq(read, 1, end - 1), !.flaw = flaw]
  BY <1>1 DEF NarrowRead, SelectInSeq
<1>4. flaw \in Flaws
  BY <1>1 DEF Flaws
<1> HIDE DEF read, flaw
<1>5. end \in 0..Len(read)
  <2>1. ends \subseteq 1..Len(read) /\ ends \subseteq Nat /\ Len(read) \in Nat
    BY <1>2
  <2>2. ends # {} => Min(ends) \in ends
    <3> HIDE DEF ends
    <3> QED BY <2>1, MinIn
  <2>3. CASE ends # {}
    <3>1. end = Min(ends)
      BY <2>3
    <3>2. end \in 1..Len(read)
      BY <2>1, <2>2, <2>3, <3>1, Zenon
    <3> HIDE DEF end
    <3> QED BY <2>1, <3>2
  <2>4. CASE ends = {}
    <3>1. end = 0
      BY <2>4
    <3> QED BY <2>1, <3>1
  <2> HIDE DEF ends
  <2> QED BY <2>3, <2>4, Zenon
<1> HIDE DEF end
<1>6. SubSeq(read, 1, end - 1) \in Seq(Nat \X Nat)
  BY <1>2, <1>5
<1> QED BY <1>3, <1>4, <1>6 DEF ArangeSets

LEMMA AsOffsetsTyped ==
  ASSUME NEW set \in ArangeSets
  PROVE  AsOffsets(set) \in ArangeSets
<1> DEFINE read == IF set.size = "narrow" THEN NarrowRead(set) ELSE set
<1>1. read \in ArangeSets
  BY NarrowReadTyped
<1>2. AsOffsets(set) = IF set.pad THEN [read EXCEPT !.flaw = IF @ = "head" THEN @ ELSE "tail"]
                       ELSE read
  BY DEF AsOffsets
<1> HIDE DEF read
<1> QED BY <1>1, <1>2 DEF ArangeSets, Flaws

LEMMA AddrOffsetsTyped ==
  ASSUME NEW table \in Seq(ArangeSets)
  PROVE  SweepTyped(AddrOffsets(table))
<1> DEFINE strict == [i \in DOMAIN table |-> AsOffsets(table[i])]
           sweep  == SweepAranges(strict)
<1>1. strict \in Seq(ArangeSets)
  <2>1. \A i \in 1..Len(table) : strict[i] \in ArangeSets
    BY AsOffsetsTyped
  <2>2. DOMAIN strict = 1..Len(table) /\ strict = [i \in 1..Len(table) |-> strict[i]]
    OBVIOUS
  <2> HIDE DEF strict
  <2>3. strict \in [1..Len(table) -> ArangeSets]
    BY <2>1, <2>2
  <2> QED BY <2>3
<1> HIDE DEF strict
<1>2. /\ SweepTyped(sweep)
      /\ sweep.res = "OK" => Len(sweep.structs) > 0
  BY <1>1, SweepArangesTyped
<1>3. \E a, b, c, d : sweep = [structs |-> a, res |-> b, ends |-> c, items |-> d]
  BY DEF SweepAranges
<1> HIDE DEF sweep
<1>4. CASE sweep.res # "OK"
  <2>1. AddrOffsets(table) = sweep
    BY <1>4 DEF AddrOffsets, sweep, strict
  <2> QED BY <1>2, <2>1
<1>5. CASE sweep.res = "OK"
  <2> DEFINE temps == [k \in 1..(Len(sweep.structs) - 1) |->
                         Struct("temporary", sweep.structs[k].part, sweep.structs[k].item)]
             addrs == <<Struct("addr", 0, 0), Struct("addr", 0, 0)>>
             now   == [sweep EXCEPT !.structs = temps \o addrs,
                                    !.items = [k \in DOMAIN @ |-> @[k].ar_address]]
  <2>1. AddrOffsets(table) = now
    BY <1>5 DEF AddrOffsets, sweep, strict
  <2>2. now.structs = temps \o addrs /\ now.res = sweep.res
    <3> HIDE DEF temps, addrs
    <3> QED BY <1>3
  <2>3. temps \in Seq(Structs)
    <3>1. Len(sweep.structs) \in Nat /\ Len(sweep.structs) - 1 \in Nat
      BY <1>2, <1>5 DEF SweepTyped
    <3>2. \A k \in 1..(Len(sweep.structs) - 1) : temps[k] \in Structs
      <4> SUFFICES ASSUME NEW k \in 1..(Len(sweep.structs) - 1) PROVE temps[k] \in Structs
        OBVIOUS
      <4>1. sweep.structs[k] \in Structs
        BY <1>2, <3>1 DEF SweepTyped
      <4>2. sweep.structs[k].part \in Nat /\ sweep.structs[k].item \in Items
        BY <4>1 DEF Structs
      <4>3. temps[k] = Struct("temporary", sweep.structs[k].part, sweep.structs[k].item)
        OBVIOUS
      <4> HIDE DEF temps
      <4> QED BY <4>2, <4>3, StructTyped DEF Kinds
    <3>3. temps \in [1..(Len(sweep.structs) - 1) -> Structs]
      BY <3>2
    <3> HIDE DEF temps
    <3> QED BY <3>1, <3>3
  <2>4. addrs \in Seq(Structs)
    <3>1. Struct("addr", 0, 0) \in Structs
      BY StructTyped DEF Kinds, Items
    <3> QED BY <3>1
  <2> HIDE DEF now, temps, addrs
  <2> QED BY <1>2, <2>1, <2>2, <2>3, <2>4 DEF SweepTyped
<1> QED BY <1>4, <1>5

LEMMA SweepRangesTyped ==
  ASSUME NEW table \in Seq(RangeEntries), table # <<>>
  PROVE  SweepTyped(SweepRanges(table))
<1> DEFINE stops == {i \in 1..Len(table) : table[i] \in {"end", "short"}}
           stop  == IF stops # {} THEN Min(stops) ELSE 0
           read  == IF stop = 0 THEN Append(table, "none") ELSE SubSeq(table, 1, stop)
           each  == [i \in DOMAIN read |-> Struct("calloc", i, read[i])]
           res   == CASE Last(read) = "end"   -> "OK"
                      [] Last(read) = "short" -> "ERROR"
                      [] Last(read) = "none"  -> "NO_ENTRY"
<1>1. stops # {} => Min(stops) \in stops
  <2>1. SUFFICES ASSUME stops # {} PROVE Min(stops) \in stops
    OBVIOUS
  <2>2. \E n \in stops : \A m \in stops : n <= m
    <3>1. stops \subseteq Nat
      OBVIOUS
    <3> HIDE DEF stops
    <3> QED BY <2>1, <3>1, LeastNatural
  <2> HIDE DEF stops
  <2> QED BY <2>2 DEF Min
<1>2. /\ read \in Seq(RangeEntries \cup {"none"})
      /\ Last(read) \in {"end", "short", "none"}
  <2>1. CASE stops = {}
    BY <2>1 DEF Last
  <2>2. CASE stops # {}
    <3>1. stop \in 1..Len(table) /\ table[stop] \in {"end", "short"}
      BY <1>1, <2>2
    <3> HIDE DEF stop
    <3>2. read = SubSeq(table, 1, stop)
      BY <3>1
    <3> HIDE DEF read
    <3>3. read \in Seq(RangeEntries) /\ Len(read) = stop /\ read[stop] = table[stop]
      BY <3>1, <3>2
    <3> QED BY <3>1, <3>3 DEF Last
  <2> QED BY <2>1, <2>2
<1>3. /\ SweepRanges(table).structs = IF res = "OK" THEN Append(each, Struct("ranges", 0, 0))
                                      ELSE each
      /\ SweepRanges(table).res = res
  BY DEF SweepRanges, SelectInSeq
<1> HIDE DEF read, stop, stops
<1>4. res \in {"OK", "NO_ENTRY", "ERROR"}
  BY <1>2
<1> HIDE DEF res
<1>5. each \in Seq(Structs)
  <2>1. \A i \in 1..Len(read) : each[i] \in Structs
    <3> SUFFICES ASSUME NEW i \in 1..Len(read) PROVE each[i] \in Structs
      OBVIOUS
    <3>1. read[i] \in Items /\ i \in Nat
      BY <1>2 DEF Items
    <3>2. each[i] = Struct("calloc", i, read[i])
      BY <1>2
    <3> HIDE DEF each
    <3> QED BY <3>1, <3>2, StructTyped DEF Kinds
  <2>2. DOMAIN read = 1..Len(read) /\ Len(read) \in Nat
    BY <1>2
  <2>3. each = [i \in 1..Len(read) |-> each[i]]
    BY <2>2
  <2> HIDE DEF each
  <2>4. each \in [1..Len(read) -> Structs]
    BY <2>1, <2>3
  <2> QED BY <2>2, <2>4
<1>6. Struct("ranges", 0, 0) \in Structs
  BY StructTyped DEF Kinds, Items
<1> HIDE DEF each
<1> QED BY <1>3, <1>4, <1>5, <1>6 DEF SweepTyped

LEMMA LocdescTyped ==
  ASSUME NEW entry \in Expressions, NEW i \in Nat
  PROVE  Locdesc(entry, i) \in Seq(Structs)
<1> DEFINE chain == [k \in 1..entry.ops |-> Struct("locchain", i, k)]
           rest  == IF entry.flaw # "none" THEN <<>>
                    ELSE <<Struct("locblock", i, entry.ops), Struct("locdesc", i, entry.ops)>>
<1>1. entry.ops \in Nat
  BY DEF Expressions
<1>2. \A k \in 1..entry.ops : Struct("locchain", i, k) \in Structs
  BY <1>1, StructTyped DEF Kinds, Items
<1>3. chain \in [1..entry.ops -> Structs]
  BY <1>2
<1>4. chain \in Seq(Structs)
  <2> HIDE DEF chain
  <2> QED BY <1>1, <1>3
<1>5. Struct("locblock", i, entry.ops) \in Structs /\ Struct("locdesc", i, entry.ops) \in Structs
  BY <1>1, StructTyped DEF Kinds, Items
<1>6. rest \in Seq(Structs)
  BY <1>5
<1>7. Locdesc(entry, i) = chain \o rest
  BY DEF Locdesc
<1> HIDE DEF chain, rest
<1> QED BY <1>4, <1>6, <1>7

LEMMA SweepLocExprTyped ==
  ASSUME NEW entry \in Expressions
  PROVE  SweepTyped(SweepLocExpr(entry))
<1>1. Locdesc(entry, 1) \in Seq(Structs)
  BY LocdescTyped
<1>2. Struct("list", 0, 0) \in Structs
  BY StructTyped DEF Kinds, Items
<1>3. /\ SweepLocExpr(entry).structs = Locdesc(entry, 1)
            \o IF entry.flaw = "none" THEN <<Struct("list", 0, 0)>> ELSE <<>>
      /\ SweepLocExpr(entry).res = IF entry.flaw = "none" THEN "OK" ELSE "ERROR"
  BY DEF SweepLocExpr
<1> QED BY <1>1, <1>2, <1>3 DEF SweepTyped

LEMMA SweepLoclistTyped ==
  ASSUME NEW table \in Seq(Expressions)
  PROVE  SweepTyped(SweepLoclist(table))
<1> DEFINE stops == {i \in 1..Len(table) : \/ table[i].kind = "end"
                                          \/ table[i].flaw \in {"short", "large"}}
           stop  == IF stops # {} THEN Min(stops) ELSE 0
           ended == stop # 0 /\ table[stop].kind = "end"
           large == stop # 0 /\ ~ended /\ table[stop].flaw = "large"
           list  == IF ended THEN SubSeq(table, 1, stop - 1) ELSE <<>>
           read  == ReadPart(list)
           locs  == [i \in DOMAIN read |-> Locdesc(read[i], i)]
<1>1. stop \in 0..Len(table)
  <2>1. stops \subseteq 1..Len(table) /\ stops \subseteq Nat /\ Len(table) \in Nat
    OBVIOUS
  <2>2. stops # {} => Min(stops) \in stops
    <3> HIDE DEF stops
    <3> QED BY <2>1, MinIn
  <2>3. CASE stops # {}
    <3>1. stop = Min(stops)
      BY <2>3
    <3>2. stop \in 1..Len(table)
      BY <2>1, <2>2, <2>3, <3>1, Zenon
    <3> HIDE DEF stop
    <3> QED BY <2>1, <3>2
  <2>4. CASE stops = {}
    <3>1. stop = 0
      BY <2>4
    <3> QED BY <2>1, <3>1
  <2> HIDE DEF stops
  <2> QED BY <2>3, <2>4, Zenon
<1>3. /\ SweepLoclist(table).structs = IF list = <<>> THEN <<>>
                                       ELSE <<Struct("list", 0, 0)>> \o FlattenSeq(locs)
      /\ SweepLoclist(table).res = IF list = <<>> THEN IF large THEN "ERROR" ELSE "NO_ENTRY"
                                   ELSE EndsAs(list)
  BY DEF SweepLoclist, SelectInSeq
<1> HIDE DEF stop
<1>5. list \in Seq(Expressions)
  BY <1>1
<1> HIDE DEF list, large
<1>6. read \in Seq(Expressions) /\ EndsAs(list) \in {"OK", "ERROR"}
  BY <1>5, ReadPartTyped
<1> HIDE DEF read
<1>7. /\ DOMAIN locs = 1..Len(read) /\ Len(locs) = Len(read) /\ Len(read) \in Nat
      /\ Len(locs) = 0 => locs = <<>>
  BY <1>6
<1>8. \A i \in 1..Len(read) : locs[i] \in Seq(Structs)
  <2> SUFFICES ASSUME NEW i \in 1..Len(read) PROVE locs[i] \in Seq(Structs)
    OBVIOUS
  <2>1. read[i] \in Expressions /\ i \in Nat
    BY <1>6
  <2>2. locs[i] = Locdesc(read[i], i)
    BY <1>6
  <2> HIDE DEF locs
  <2> QED BY <2>1, <2>2, LocdescTyped
<1> HIDE DEF locs
<1>9. FlattenSeq(locs) \in Seq(Structs)
  BY <1>7, <1>8, FlattenTyped
<1>10. Struct("list", 0, 0) \in Structs
  BY StructTyped DEF Kinds, Items
<1> QED BY <1>3, <1>6, <1>9, <1>10 DEF SweepTyped

LEMMA SweepMacrosTyped ==
  ASSUME NEW table, NEW starter, NEW failing
  PROVE  SweepTyped(SweepMacros(table, starter, failing))
<1>1. Struct("string", 0, 0) \in Structs
  BY StructTyped DEF Kinds, Items
<1>2. \E res \in {"OK", "NO_ENTRY", "ERROR"} :
        /\ SweepMacros(table, starter, failing).res = res
        /\ SweepMacros(table, starter, failing).structs =
             IF res = "OK" THEN <<Struct("string", 0, 0)>> ELSE <<>>
  BY DEF SweepMacros
<1> QED BY <1>1, <1>2 DEF SweepTyped

-------------------------------------------------------------------------------
(* What a call of a reader does, whichever it is.                           *)

Results == [res : {"OK", "NO_ENTRY", "ERROR"}, error : {"none", "dbg", "special"}]

CallStructs == [call : {calls}, at : Nat, alone : BOOLEAN, kind : Kinds]

(* The sections are loaded as far as they come, and the call ends.          *)
Reads(st) ==
  /\ phase = "open" /\ calls < MaxCalls /\ calls' = calls + 1
  /\ LoadsOnly(Found, st)
  /\ secs' = st.secs /\ symtab' = st.symtab /\ heap' = st.heap
  /\ phase' \in {"open", "aborted", "crashed"} /\ result' \in Results
  /\ UNCHANGED <<object, owned, apply, elf, access, misfreed>>

(* It gives no answer: then it leaves nothing, or there was a fault.        *)
GivesNone ==
  /\ lists' = lists
  /\ structs \subseteq structs' /\ structs' \subseteq structs \cup CallStructs
  /\ faultless' \in BOOLEAN
  /\ faultless' => faultless /\ structs' = structs

(* The answer l.                                                           *)
AnswerTyped(l) ==
  /\ l.from \in Names
  /\ l.structs \in Seq(Structs)
  /\ l.ids = Answered(l)
  /\ l.api \in NameApis =>
       /\ l.from \in NameTables
       /\ EndsAs(object.tables[l.from]) = "OK"
       /\ l.structs = SweepNames(object.tables[l.from]).structs

GivesOne(l) ==
  /\ lists' = lists \cup {l}
  /\ structs' = structs \cup Made(l.ids, l)
  /\ faultless' = faultless
  /\ AnswerTyped(l) /\ l.call = calls
  /\ l.data = secs'[l.from].dss_data /\ l.data # NULL

ReadStep == \E st : Reads(st) /\ (GivesNone \/ \E l : GivesOne(l))

LEMMA MadeTyped ==
  ASSUME NEW sweep, sweep.structs \in Seq(Structs), NEW ids, ids \subseteq 1..Len(sweep.structs)
  PROVE  Made(ids, sweep) \subseteq CallStructs
<1> SUFFICES ASSUME NEW k \in ids
             PROVE  [call |-> calls, at |-> k, kind |-> sweep.structs[k].kind,
                     alone |-> Alone(sweep, k)] \in CallStructs
  BY DEF Made
<1>1. k \in 1..Len(sweep.structs) /\ k \in Nat
  OBVIOUS
<1>2. sweep.structs[k] \in Structs
  BY <1>1
<1>3. Alone(sweep, k) \in BOOLEAN
  BY DEF Alone
<1> QED BY <1>1, <1>2, <1>3 DEF CallStructs, Structs

LEMMA AnErrorTyped == AnError \subseteq CallStructs
  BY DEF AnError, CallStructs, Kinds

(* The loading failed, or the file has not the section.                     *)
LEMMA NotLoadedStep ==
  ASSUME NEW st, LoadsOnly(Found, st), NotLoaded(st), faultless \in BOOLEAN,
         result \in Results
  PROVE  ReadStep
<1>1. st.res \in {"OK", "NO_ENTRY", "ERROR"} /\ st.error \in {"none", "dbg"}
  BY LoadFields DEF LoadsOnly
<1>2. st.res # "OK" /\ lists' = lists /\ faultless' = (faultless /\ st.res # "ERROR")
  BY DEF NotLoaded
<1>3. /\ phase = "open" /\ calls < MaxCalls /\ calls' = calls + 1
      /\ secs' = st.secs /\ symtab' = st.symtab /\ heap' = st.heap
  BY DEF NotLoaded, Loading
<1>4. faultless' \in BOOLEAN /\ (faultless' => faultless /\ st.res # "ERROR")
  BY <1>2
<1>5. CASE st.error = "dbg"
  <2>1. st.res = "ERROR"
    BY <1>5 DEF LoadsOnly, Found
  <2>2. Ends("ERROR", {})
    BY <1>5 DEF NotLoaded
  <2>3. UNCHANGED <<object, owned, apply, elf, access, misfreed>>
    BY <2>2 DEF Ends
  <2>4. \/ phase' = phase /\ result' = [res |-> "ERROR", error |-> "dbg"]
           /\ structs' = structs \cup AnError
        \/ phase' = "aborted" /\ UNCHANGED <<result, structs>>
    BY <2>2 DEF Ends
  <2>5. [res |-> "ERROR", error |-> "dbg"] \in Results
    BY DEF Results
  <2>6. ~faultless'
    BY <2>1, <1>4
  <2>7. structs \subseteq structs' /\ structs' \subseteq structs \cup CallStructs
    BY <2>4, AnErrorTyped
  <2>8. GivesNone
    BY <1>2, <1>4, <2>6, <2>7 DEF GivesNone
  <2>9. CASE phase' = phase /\ result' = [res |-> "ERROR", error |-> "dbg"]
    <3>1. Reads(st)
      BY <1>3, <2>3, <2>5, <2>9 DEF Reads
    <3> QED BY <3>1, <2>8 DEF ReadStep
  <2>10. CASE phase' = "aborted" /\ result' = result
    <3>1. Reads(st)
      BY <1>3, <2>3, <2>10 DEF Reads
    <3> QED BY <3>1, <2>8 DEF ReadStep
  <2> QED BY <2>4, <2>9, <2>10
<1>6. CASE st.error # "dbg"
  <2>1. /\ result' = [res |-> st.res, error |-> "none"]
        /\ UNCHANGED <<object, owned, apply, phase, elf, access, structs, misfreed>>
    BY <1>6 DEF NotLoaded
  <2>2. [res |-> st.res, error |-> "none"] \in Results
    BY <1>1 DEF Results
  <2>3. Reads(st)
    BY <1>3, <2>1, <2>2 DEF Reads
  <2>4. GivesNone
    BY <1>2, <1>4, <2>1 DEF GivesNone
  <2> QED BY <2>3, <2>4 DEF ReadStep
<1> QED BY <1>5, <1>6

(* The table is swept: an answer, or nothing.                               *)
LEMMA SweptStep ==
  ASSUME NEW st, LoadsOnly(Found, st), faultless \in BOOLEAN, result \in Results,
         NEW sweep, SweepTyped(sweep), NEW m \in 0..Len(sweep.structs), NEW gives,
         NEW api, NEW from \in Names,
         st.res = "OK" => st.secs[from].dss_data # NULL,
         api \in NameApis =>
           /\ from \in NameTables
           /\ sweep = SweepNames(object.tables[from]),
         Swept(api, from, sweep, m, gives, st)
  PROVE  ReadStep
<1>1. sweep.structs \in Seq(Structs) /\ sweep.res \in {"OK", "NO_ENTRY", "ERROR"}
  BY DEF SweepTyped
<1>2. /\ phase = "open" /\ calls < MaxCalls /\ calls' = calls + 1
      /\ secs' = st.secs /\ symtab' = st.symtab /\ heap' = st.heap /\ st.res = "OK"
  BY DEF Swept, Loading
<1>3. CASE ~Out(sweep, m) /\ sweep.res = "OK"
  <2> DEFINE l == Answer(api, from, sweep, Answered(sweep), st)
  <2>1. /\ Ends("OK", Made(Answered(sweep), sweep))
        /\ lists' = lists \cup {l}
        /\ faultless' = faultless
    BY <1>3 DEF Swept
  <2>2. /\ phase' = phase /\ result' = [res |-> "OK", error |-> "none"]
        /\ structs' = structs \cup Made(Answered(sweep), sweep)
        /\ UNCHANGED <<object, owned, apply, elf, access, misfreed>>
    BY <2>1 DEF Ends
  <2>3. /\ l.structs = sweep.structs /\ l.ids = Answered(sweep) /\ l.from = from
        /\ l.api = api /\ l.call = calls /\ l.data = st.secs[from].dss_data
    BY DEF Answer
  <2> HIDE DEF l
  <2>4. Answered(l) = Answered(sweep) /\ Made(l.ids, l) = Made(Answered(sweep), sweep)
    BY <2>3 DEF Answered, Made, Alone
  <2>5. api \in NameApis => EndsAs(object.tables[from]) = "OK"
    BY <1>3 DEF SweepNames
  <2>6. AnswerTyped(l)
    BY <1>1, <2>3, <2>4, <2>5 DEF AnswerTyped
  <2>7. GivesOne(l)
    BY <1>2, <2>1, <2>2, <2>3, <2>4, <2>6 DEF GivesOne
  <2>8. Reads(st)
    BY <1>2, <2>2 DEF Reads, Results
  <2> QED BY <2>7, <2>8 DEF ReadStep
<1>4. CASE ~(~Out(sweep, m) /\ sweep.res = "OK")
  <2> DEFINE res  == IF Out(sweep, m) THEN "ERROR" ELSE sweep.res
             kept == Made(((1..m) \ Copied(sweep, m)) \ gives, sweep)
  <2>1. /\ Ends(res, kept) /\ lists' = lists
        /\ faultless' = (faultless /\ sweep.res = "NO_ENTRY" /\ sweep.structs = <<>>)
    BY <1>4 DEF Swept
  <2>2. res \in {"NO_ENTRY", "ERROR"}
    BY <1>1, <1>4
  <2>3. kept \subseteq CallStructs
    BY <1>1, MadeTyped
  <2>4. UNCHANGED <<object, owned, apply, elf, access, misfreed>>
    BY <2>1 DEF Ends
  <2>5. sweep.res = "NO_ENTRY" /\ sweep.structs = <<>> => kept = {} /\ res = "NO_ENTRY"
    BY DEF Out, Made
  <2> HIDE DEF res, kept
  <2>6. \/ phase' = phase /\ result' = [res |-> res, error |-> IF res = "ERROR" THEN "dbg"
                                                               ELSE "none"]
           /\ structs' = structs \cup kept \cup IF res = "ERROR" THEN AnError ELSE {}
        \/ phase' = "aborted" /\ UNCHANGED <<result, structs>>
    BY <2>1 DEF Ends
  <2>7. structs \subseteq structs' /\ structs' \subseteq structs \cup CallStructs
    BY <2>3, <2>6, AnErrorTyped
  <2>8. faultless' \in BOOLEAN
    BY <2>1
  <2>9. faultless' => faultless /\ structs' = structs
    BY <2>1, <2>5, <2>6
  <2>10. GivesNone
    BY <2>1, <2>7, <2>8, <2>9 DEF GivesNone
  <2>11. phase' \in {"open", "aborted", "crashed"} /\ result' \in Results
    BY <1>2, <2>2, <2>6 DEF Results
  <2>12. Reads(st)
    BY <1>2, <2>4, <2>11 DEF Reads
  <2> QED BY <2>10, <2>12 DEF ReadStep
<1> QED BY <1>3, <1>4

LEMMA SweepingStep ==
  ASSUME NEW st, LoadsOnly(Found, st), faultless \in BOOLEAN, result \in Results,
         NEW sweep, SweepTyped(sweep), NEW api, NEW from \in Names,
         st.res = "OK" => st.secs[from].dss_data # NULL,
         api \in NameApis =>
           /\ from \in NameTables
           /\ sweep = SweepNames(object.tables[from]),
         Sweeping(api, from, sweep, st)
  PROVE  ReadStep
<1>1. CASE NotLoaded(st)
  BY <1>1, NotLoadedStep
<1>2. ASSUME NEW m \in 0..Len(sweep.structs), Swept(api, from, sweep, m, {}, st)
      PROVE  ReadStep
  BY <1>2, SweptStep
<1> QED BY <1>1, <1>2 DEF Sweeping

LEMMA SweepingOnlyStep ==
  ASSUME LoadRight(Found), InfoAfter(secs), faultless \in BOOLEAN, result \in Results,
         NEW sweep, SweepTyped(sweep), NEW api, api \notin NameApis,
         NEW from \in Names \ {"info"}, SweepingOnly(api, from, sweep)
  PROVE  ReadStep
<1>1. PICK fault \in Faults({from}) : Sweeping(api, from, sweep, ThenLoad(Found, from, fault))
  BY DEF SweepingOnly
<1>2. Found.secs = secs
  BY DEF Found
<1>3. /\ LoadsOnly(Found, ThenLoad(Found, from, fault))
      /\ LET now == ThenLoad(Found, from, fault)
         IN now.res = "OK" => now.secs[from].dss_data # NULL
  BY <1>2, ThenLoadRight
<1> QED BY <1>1, <1>3, SweepingStep

LEMMA GetNamesStep ==
  ASSUME LoadRight(Found), InfoAfter(secs), faultless \in BOOLEAN, result \in Results,
         object \in Objects, NEW api, NEW from \in NameTables, GetNames(api, from)
  PROVE  ReadStep
<1> DEFINE sweep == SweepNames(object.tables[from])
<1>1. PICK fault \in Faults(WithInfo(from)) : Sweeping(api, from, sweep, LoadsWithInfo(from, fault))
  BY DEF GetNames
<1>2. from \in Names \ {"info"}
  BY DEF NameTables, Names, DebugNames
<1>3. SweepTyped(sweep)
  BY TablesAssumption, SweepNamesTyped
<1>4. LET now == LoadsWithInfo(from, fault)
      IN /\ LoadsOnly(Found, now)
         /\ now.res = "OK" => now.secs[from].dss_data # NULL
  BY <1>2, LoadsWithInfoRight
<1> HIDE DEF sweep
<1> QED BY <1>1, <1>2, <1>3, <1>4, SweepingStep DEF sweep

LEMMA SubTable ==
  ASSUME NEW S, NEW table \in Seq(S), NEW offset \in 0..Len(table)
  PROVE  SubSeq(table, offset + 1, Len(table)) \in Seq(S)
<1>1. \A i \in (offset + 1)..Len(table) : table[i] \in S
  OBVIOUS
<1> QED BY <1>1

GetsNames == \/ GetGlobals \/ GetFuncs \/ GetTypes \/ GetPubtypes \/ GetVars \/ GetWeaks

LEMMA ReadingStep ==
  ASSUME LoadRight(Found), InfoAfter(secs), faultless \in BOOLEAN, result \in Results,
         object \in Objects, Reading
  PROVE  ReadStep
<1>1. /\ object.tables["aranges"] \in Seq(ArangeSets)
      /\ object.tables["ranges"] \in Seq(RangeEntries)
      /\ object.tables["loc"] \in Seq(Expressions)
  BY TablesAssumption
<1>2. {"aranges", "ranges", "loc", "macinfo"} \subseteq Names \ {"info"} /\ "info" \in Names
  BY SomeNames
<1>3. \A api \in {"aranges", "addr_offsets", "ranges", "loclist", "macros"} : api \notin NameApis
  BY DEF NameApis
<1>4. Found.secs = secs /\ Found.res = "OK"
  BY DEF Found
<1>5. CASE GetsNames
  <2>1. \E api, from : from \in NameTables /\ GetNames(api, from)
    BY <1>5 DEF GetsNames, GetGlobals, GetFuncs, GetTypes, GetPubtypes, GetVars, GetWeaks,
       NameTables
  <2> QED BY <2>1, GetNamesStep
<1>6. CASE GetAranges
  <2>1. SweepTyped(SweepAranges(object.tables["aranges"]))
    BY <1>1, SweepArangesTyped
  <2>2. SweepingOnly("aranges", "aranges", SweepAranges(object.tables["aranges"]))
    BY <1>6 DEF GetAranges
  <2> QED BY <1>2, <1>3, <2>1, <2>2, SweepingOnlyStep
<1>7. CASE GetArangesAddrOffsets
  <2>1. SweepTyped(AddrOffsets(object.tables["aranges"]))
    BY <1>1, AddrOffsetsTyped
  <2>2. SweepingOnly("addr_offsets", "aranges", AddrOffsets(object.tables["aranges"]))
    BY <1>7 DEF GetArangesAddrOffsets
  <2> QED BY <1>2, <1>3, <2>1, <2>2, SweepingOnlyStep
<1>8. CASE GetRanges
  <2> DEFINE bad == [structs |-> <<>>, res |-> "ERROR", ends |-> 0, items |-> <<>>]
             rest(o) == SubSeq(object.tables["ranges"], o + 1, Len(object.tables["ranges"]))
             sweep(o) == IF rest(o) = <<>> THEN bad ELSE SweepRanges(rest(o))
  <2>1. PICK o \in 0..Len(object.tables["ranges"]) : SweepingOnly("ranges", "ranges", sweep(o))
    BY <1>8 DEF GetRanges
  <2>2. rest(o) \in Seq(RangeEntries)
    BY <1>1, SubTable
  <2>3. SweepTyped(bad)
    BY DEF SweepTyped
  <2> HIDE DEF rest, bad
  <2>4. SweepTyped(sweep(o))
    BY <2>2, <2>3, SweepRangesTyped
  <2> HIDE DEF sweep
  <2> QED BY <1>2, <1>3, <2>1, <2>4, SweepingOnlyStep
<1>9. CASE LoclistN
  <2> DEFINE sweep(o) == SweepLoclist(SubSeq(object.tables["loc"], o + 1,
                                             Len(object.tables["loc"])))
             st(fault) == ThenLoad(Found, "loc", fault)
  <2>1. PICK o \in 0..Len(object.tables["loc"]), fault \in Faults({"loc"}) :
           \/ NotLoaded(st(fault))
           \/ \E m \in 0..Len(sweep(o).structs) :
                Swept("loclist", "loc", sweep(o), m, GivesBack(sweep(o), m), st(fault))
           \/ EndsSpecially(st(fault))
    BY <1>9 DEF LoclistN
  <2>2. SweepTyped(sweep(o))
    BY <1>1, SubTable, SweepLoclistTyped
  <2>3. /\ LoadsOnly(Found, st(fault))
        /\ st(fault).res = "OK" => st(fault).secs["loc"].dss_data # NULL
    BY <1>2, <1>4, ThenLoadRight
  <2> HIDE DEF sweep, st
  <2>4. CASE NotLoaded(st(fault))
    BY <2>3, <2>4, NotLoadedStep
  <2>5. ASSUME NEW m \in 0..Len(sweep(o).structs),
               Swept("loclist", "loc", sweep(o), m, GivesBack(sweep(o), m), st(fault))
        PROVE  ReadStep
    BY <1>2, <1>3, <2>2, <2>3, <2>5, SweptStep
  <2>6. CASE EndsSpecially(st(fault))
    <3>1. /\ phase' \in {"open", "aborted", "crashed"} /\ result' \in Results
          /\ UNCHANGED <<object, owned, apply, elf, access, structs, lists, faultless, misfreed>>
          /\ Loading(st(fault))
      BY <2>6 DEF EndsSpecially, Loading, Error, Results
    <3>2. Reads(st(fault))
      BY <2>3, <3>1 DEF Reads, Loading
    <3>3. GivesNone
      BY <3>1 DEF GivesNone
    <3> QED BY <3>2, <3>3 DEF ReadStep
  <2> QED BY <2>1, <2>4, <2>5, <2>6
<1>10. CASE LoclistOfBlock
  <2> DEFINE sweep(i) == SweepLocExpr(object.tables["loc"][i])
  <2>1. PICK i \in DOMAIN object.tables["loc"] :
           /\ secs["info"].dss_data # NULL
           /\ \E m \in 0..Len(sweep(i).structs) :
                Swept("loclist", "info", sweep(i), m, GivesBackExpr(sweep(i), m), Found)
    BY <1>10 DEF LoclistOfBlock
  <2>2. SweepTyped(sweep(i))
    <3>1. object.tables["loc"][i] \in Expressions
      BY <1>1
    <3> QED BY <3>1, SweepLocExprTyped
  <2> HIDE DEF sweep
  <2>3. LoadsOnly(Found, Found)
    BY <1>4 DEF LoadsOnly, AllStay, Stays
  <2>4. Found.secs["info"].dss_data # NULL
    BY <1>4, <2>1
  <2>5. PICK m \in 0..Len(sweep(i).structs) :
           Swept("loclist", "info", sweep(i), m, GivesBackExpr(sweep(i), m), Found)
    BY <2>1
  <2> QED BY <1>2, <1>3, <2>2, <2>3, <2>4, <2>5, SweptStep
<1>11. CASE NextCuHeader
  <2> DEFINE st(fault) == _dwarf_load_debug_info(Found, fault)
  <2>1. PICK fault \in Faults({"abbrev", "info"}) :
           \/ NotLoaded(st(fault))
           \/ /\ Loading(st(fault)) /\ st(fault).res = "OK" /\ Ends("OK", {})
              /\ UNCHANGED <<lists, faultless>>
    BY <1>11 DEF NextCuHeader
  <2>2. LoadsOnly(Found, st(fault))
    BY <1>4, LoadInfoRight
  <2> HIDE DEF st
  <2>3. CASE NotLoaded(st(fault))
    BY <2>2, <2>3, NotLoadedStep
  <2>4. CASE /\ Loading(st(fault)) /\ Ends("OK", {})
             /\ UNCHANGED <<lists, faultless>>
    <3>1. /\ phase' = phase /\ result' = [res |-> "OK", error |-> "none"]
          /\ structs' = structs
          /\ UNCHANGED <<object, owned, apply, elf, access, misfreed>>
      BY <2>4 DEF Ends
    <3>2. Reads(st(fault))
      BY <2>2, <2>4, <3>1 DEF Reads, Loading, Results
    <3>3. GivesNone
      BY <2>4, <3>1 DEF GivesNone
    <3> QED BY <3>2, <3>3 DEF ReadStep
  <2> QED BY <2>1, <2>3, <2>4
<1>12. CASE GetMacroDetails
  <2> DEFINE st(fault) == ThenLoad(Found, "macinfo", fault)
             sweep(o, failing) ==
               SweepMacros(SubSeq(object.tables["macinfo"], o + 1,
                                  Len(object.tables["macinfo"])), STARTERMAX, failing)
  <2>1. PICK o \in UnitStarts(object.tables["macinfo"]), fault \in Faults({"macinfo"}),
             failing \in 0..2 :
           \/ NotLoaded(st(fault))
           \/ \E m \in 0..Len(sweep(o, failing).structs) :
                Swept("macros", "macinfo", sweep(o, failing), m, {}, st(fault))
           \/ /\ Loading(st(fault)) /\ st(fault).res = "OK"
              /\ phase' = "crashed"
              /\ UNCHANGED <<object, owned, apply, elf, access, result,
                             structs, lists, faultless, misfreed>>
    BY <1>12, ZenonT(40) DEF GetMacroDetails
  <2>2. /\ LoadsOnly(Found, st(fault))
        /\ st(fault).res = "OK" => st(fault).secs["macinfo"].dss_data # NULL
    BY <1>2, <1>4, ThenLoadRight
  <2>3. SweepTyped(sweep(o, failing))
    BY SweepMacrosTyped
  <2> HIDE DEF st, sweep
  <2>4. CASE NotLoaded(st(fault))
    BY <2>2, <2>4, NotLoadedStep
  <2>5. ASSUME NEW m \in 0..Len(sweep(o, failing).structs),
               Swept("macros", "macinfo", sweep(o, failing), m, {}, st(fault))
        PROVE  ReadStep
    BY <1>2, <1>3, <2>2, <2>3, <2>5, SweptStep
  <2>6. CASE /\ Loading(st(fault))
             /\ phase' = "crashed"
             /\ UNCHANGED <<object, owned, apply, elf, access, result,
                            structs, lists, faultless, misfreed>>
    <3>1. Reads(st(fault))
      BY <2>2, <2>6 DEF Reads, Loading
    <3>2. GivesNone
      BY <2>6 DEF GivesNone
    <3> QED BY <3>1, <3>2 DEF ReadStep
  <2> QED BY <2>1, <2>4, <2>5, <2>6
<1> QED BY <1>5, <1>6, <1>7, <1>8, <1>9, <1>10, <1>11, <1>12 DEF Reading, GetsNames

-------------------------------------------------------------------------------
(* The sections: the invariant of opening, loading and closing.             *)

Phases == {"closed", "open", "finished", "failed", "refused", "aborted", "crashed"}

SectionInv ==
  /\ object \in Objects /\ owned \in BOOLEAN /\ apply \in BOOLEAN /\ access \in BOOLEAN
  /\ phase \in Phases /\ elf \in {"none", "open", "ended"} /\ result \in Results
  /\ LoadRight(Found) /\ InfoAfter(secs)
  /\ phase = "closed" => heap = {} /\ elf = IF owned THEN "none" ELSE "open"
  /\ ~owned => elf = "open"
  /\ SetupIsRight
  /\ NothingLeft

LEMMA NoSections ==
  ASSUME NEW st \in Loads, NoneLoaded(st.secs), \A n \in Names : <<"copy", n>> \notin st.heap
  PROVE  LoadRight(st) /\ InfoAfter(st.secs)
  BY SomeNames DEF LoadRight, DataRight, NoneLoaded, InfoAfter, NULL

LEMMA NoSectionRight ==
  /\ [n \in Names |-> NoSection] \in [Names -> Secs]
  /\ NoneLoaded([n \in Names |-> NoSection])
  BY DEF NoSection, Secs, NoneLoaded, NULL

LEMMA FoundIs ==
  Found = [secs |-> secs, symtab |-> symtab, heap |-> heap, res |-> "OK", error |-> "none"]
  BY DEF Found

LEMMA SectionInit == Init => SectionInv
<1> SUFFICES ASSUME Init PROVE SectionInv
  OBVIOUS
<1>1. /\ object \in Objects /\ owned \in BOOLEAN /\ apply \in BOOLEAN
      /\ phase = "closed"
      /\ secs = [n \in Names |-> NoSection]
      /\ symtab = FALSE
      /\ elf = IF owned THEN "none" ELSE "open"
      /\ access = FALSE
      /\ heap = {}
      /\ result = Ok
  BY DEF Init, SInit
<1>2. Found \in Loads
  BY <1>1, NoSectionRight DEF Found, Loads
<1>3. NoneLoaded(Found.secs)
  BY <1>1, NoSectionRight DEF Found
<1>4. LoadRight(Found) /\ InfoAfter(Found.secs)
  BY <1>1, <1>2, <1>3, NoSections DEF Found
<1>5. InfoAfter(secs)
  BY <1>4 DEF Found
<1>6. SetupIsRight /\ NothingLeft
  BY <1>1 DEF SetupIsRight, NothingLeft
<1> QED BY <1>1, <1>4, <1>5, <1>6 DEF SectionInv, Phases, Results, Ok

(* dwarf_init() that fails or is refused.                                   *)
LEMMA NotOpened ==
  ASSUME SectionInv, OpenRefused \/ OpenNoMemory \/ \E bad \in 0..Len(object.sections) : OpenFails(bad)
  PROVE  SectionInv'
<1>1. phase = "closed" /\ UNCHANGED <<object, owned, apply, secs, symtab, heap>>
  BY DEF OpenRefused, OpenNoMemory, OpenFails
<1>2. LoadRight(Found)' /\ InfoAfter(secs)' /\ heap' = {} /\ object' \in Objects
      /\ owned' \in BOOLEAN /\ apply' \in BOOLEAN
  BY <1>1 DEF SectionInv, Found
<1>3. elf = IF owned THEN "none" ELSE "open"
  BY <1>1 DEF SectionInv
<1>4. access \in BOOLEAN
  BY DEF SectionInv
<1>5. CASE OpenRefused
  <2>1. /\ phase' = "refused" /\ result' = Error(FALSE) /\ access' = access
        /\ elf' \in {"none", "open"} /\ (~owned => elf' = "open")
    BY <1>5 DEF OpenRefused
  <2>2. SetupIsRight' /\ NothingLeft'
    BY <2>1 DEF SetupIsRight, NothingLeft
  <2> QED BY <1>1, <1>2, <1>4, <2>1, <2>2 DEF SectionInv, Phases, Results, Error
<1>6. CASE OpenNoMemory
  <2>1. /\ phase' = "failed" /\ result' = [res |-> "ERROR", error |-> "special"]
        /\ access' = FALSE /\ elf' = IF owned THEN "ended" ELSE elf
    BY <1>6 DEF OpenNoMemory, AccessFinish, Error
  <2>2. SetupIsRight'
    BY <2>1 DEF SetupIsRight
  <2>3. NothingLeft'
    BY <1>1, <1>2, <1>3, <2>1 DEF NothingLeft
  <2> QED BY <1>1, <1>2, <1>3, <2>1, <2>2, <2>3 DEF SectionInv, Phases, Results
<1>7. ASSUME NEW bad \in 0..Len(object.sections), OpenFails(bad) PROVE SectionInv'
  <2> DEFINE setup == _dwarf_setup(bad)
             end   == Gathered(bad)[Len(object.sections)]
  <2>1. /\ phase' = "failed" /\ setup.res # "OK"
        /\ result' = IF setup.res = "NO_ENTRY" THEN NoEntry ELSE [res |-> "ERROR", error |-> "special"]
        /\ access' = FALSE /\ elf' = IF owned THEN "ended" ELSE elf
    BY <1>7 DEF OpenFails, AccessFinish, Error, SizedAtSetup
  <2>2. object.sections \in Seq(SectionHeaders)
    BY ObjectsAssumption DEF SectionInv
  <2>3. GatheredInv(end, Len(object.sections))
    BY <2>2, GatheredRight
  <2>4. setup.res = "NO_ENTRY" => end.res = "OK" /\ ~end.found
    BY <2>3 DEF _dwarf_setup, GatheredInv, Gatherings
  <2>5. MarksDwarf \subseteq Names
    BY DEF MarksDwarf, Names, DebugNames
  <2>6. \A n \in Names : HeadersTo(n, Len(object.sections)) = Headers(n)
    BY <2>2 DEF HeadersTo, Headers
  <2> HIDE DEF setup, end
  <2>7. setup.res = "NO_ENTRY" => \A n \in MarksDwarf : Headers(n) = {}
    BY <2>3, <2>4, <2>5, <2>6 DEF GatheredInv
  <2>8. result'.res = "NO_ENTRY" => setup.res = "NO_ENTRY"
    BY <2>1
  <2>9. SetupIsRight'
    BY <1>1, <2>1, <2>7, <2>8 DEF SetupIsRight, Headers, HasData
  <2>10. NothingLeft'
    BY <1>1, <1>2, <1>3, <2>1 DEF NothingLeft, NoEntry
  <2> QED BY <1>1, <1>2, <1>3, <2>1, <2>9, <2>10 DEF SectionInv, Phases, Results, NoEntry
<1> QED BY <1>5, <1>6, <1>7

(* dwarf_init() that works: the sections are as the headers say.            *)
LEMMA Opened ==
  ASSUME SectionInv, OpenWorks
  PROVE  SectionInv'
<1> DEFINE setup == _dwarf_setup(0)
           end   == Gathered(0)[Len(object.sections)]
           len   == Len(object.sections)
<1>1. /\ phase = "closed" /\ phase' = "open" /\ setup.res = "OK" /\ secs' = setup.secs
      /\ elf' = "open" /\ access' = TRUE /\ result' = Ok
      /\ UNCHANGED <<object, owned, apply, symtab, heap>>
  BY DEF OpenWorks
<1>2. object.sections \in Seq(SectionHeaders)
  BY ObjectsAssumption DEF SectionInv
<1>3. GatheredInv(end, len)
  BY <1>2, GatheredRight
<1>4. end.res = "OK" /\ end.found /\ setup.secs = end.secs
  BY <1>1, <1>3 DEF _dwarf_setup, GatheredInv, Gatherings
<1> HIDE DEF setup, end
<1>5. MarksDwarf \subseteq Names
  BY DEF MarksDwarf, Names, DebugNames
<1>6. \A n \in Names : HeadersTo(n, len) = Headers(n) /\ DataTo(n, len) = HasData(n)
  BY <1>2 DEF HeadersTo, DataTo, Headers, HasData
<1>7. secs' = end.secs /\ end.secs \in [Names -> Secs] /\ NoneLoaded(end.secs)
  BY <1>1, <1>3, <1>4 DEF GatheredInv, Gatherings
<1>8. heap' = {} /\ symtab' \in BOOLEAN
  BY <1>1, LoadFields DEF SectionInv, Found
<1>9. LoadRight(Found') /\ InfoAfter(Found'.secs)
  <2>1. Found' \in Loads
    BY <1>7, <1>8 DEF Found, Loads
  <2>2. NoneLoaded(Found'.secs) /\ Found'.heap = {}
    BY <1>7, <1>8 DEF Found
  <2> QED BY <2>1, <2>2, NoSections
<1>10. LoadRight(Found)' /\ InfoAfter(secs)'
  BY <1>9 DEF Found
<1>11. SetupIsRight'
  <2>1. \E n \in MarksDwarf : Headers(n) # {}
    BY <1>3, <1>4, <1>5, <1>6 DEF GatheredInv
  <2>2. ASSUME NEW n \in Names
        PROVE  /\ \A i \in HasData(n), j \in Headers(n) : j <= i
               /\ end.secs[n].dss_index = IF HasData(n) = {} THEN 0
                                          ELSE CHOOSE i \in HasData(n) : TRUE
               /\ n \in NeverEmpty => Headers(n) = HasData(n)
    <3>1. NameGathered(end, n, len)
      BY <1>3, <1>4 DEF GatheredInv
    <3>2. /\ \A i \in HasData(n), j \in Headers(n) : j <= i
          /\ HasData(n) = {} => end.secs[n].dss_index = 0
          /\ HasData(n) # {} => end.secs[n].dss_index \in HasData(n)
          /\ n \in NeverEmpty => Headers(n) = HasData(n)
      BY <3>1, <1>6 DEF NameGathered
    <3>3. HasData(n) \subseteq Headers(n) /\ HasData(n) \subseteq Nat
      BY <1>2 DEF HasData, Headers
    <3>4. \A i, j \in HasData(n) : i = j
      BY <3>2, <3>3
    <3>5. HasData(n) # {} => (CHOOSE i \in HasData(n) : TRUE) \in HasData(n)
      OBVIOUS
    <3> QED BY <3>2, <3>4, <3>5
  <2>3. result'.res # "NO_ENTRY"
    BY <1>1 DEF Ok
  <2>4. \A n : Headers(n)' = Headers(n) /\ HasData(n)' = HasData(n)
    BY <1>1 DEF Headers, HasData
  <2> QED BY <1>7, <2>1, <2>2, <2>3, <2>4 DEF SetupIsRight
<1>12. NothingLeft'
  BY <1>1 DEF NothingLeft
<1> QED
  BY <1>1, <1>10, <1>11, <1>12 DEF SectionInv, Phases, Results, Ok

(* A call: sections are loaded, and what was loaded stays.                  *)
LEMMA ReadKeepsSections ==
  ASSUME SectionInv, NEW st, Reads(st)
  PROVE  SectionInv'
<1>1. /\ phase = "open" /\ LoadsOnly(Found, st)
      /\ secs' = st.secs /\ symtab' = st.symtab /\ heap' = st.heap
      /\ phase' \in {"open", "aborted", "crashed"} /\ result' \in Results
      /\ UNCHANGED <<object, owned, apply, elf, access>>
  BY DEF Reads
<1>2. LoadRight(Found')
  <2>1. LoadRight(st)
    BY <1>1 DEF LoadsOnly
  <2>2. Found' = [secs |-> st.secs, symtab |-> st.symtab, heap |-> st.heap,
                  res |-> "OK", error |-> "none"]
    BY <1>1, FoundIs DEF Found
  <2> QED BY <2>1, <2>2, OtherResult, LoadFields
<1>3. InfoAfter(secs')
  BY <1>1 DEF LoadsOnly
<1>4. \A n \in Names : secs'[n].dss_index = secs[n].dss_index
  BY <1>1 DEF LoadsOnly, AllStay, Stays, Found
<1>5. \A n : Headers(n)' = Headers(n) /\ HasData(n)' = HasData(n)
  BY <1>1 DEF Headers, HasData
<1>6. SetupIsRight'
  BY <1>1, <1>4, <1>5 DEF SectionInv, SetupIsRight
<1>7. NothingLeft'
  BY <1>1 DEF NothingLeft
<1>8. /\ object' \in Objects /\ owned' \in BOOLEAN /\ apply' \in BOOLEAN /\ access' \in BOOLEAN
      /\ phase' \in Phases /\ elf' \in {"none", "open", "ended"} /\ phase' # "closed"
      /\ ~owned' => elf' = "open"
  BY <1>1 DEF SectionInv, Phases
<1> QED BY <1>1, <1>2, <1>3, <1>6, <1>7, <1>8 DEF SectionInv

(* dwarf_finish().                                                         *)
LEMMA Finished ==
  ASSUME SectionInv, Finish
  PROVE  SectionInv'
<1>1. /\ phase = "open" /\ phase' = "finished"
      /\ elf' = IF owned THEN "ended" ELSE elf
      /\ access' = FALSE
      /\ heap' = heap \ Freed /\ secs' = [n \in Names |-> NoSection] /\ symtab' = FALSE
      /\ result' = Ok /\ UNCHANGED <<object, owned, apply>>
  BY DEF Finish, AccessFinish
<1>2. \A n \in Names : <<"copy", n>> \notin heap'
  <2>1. \A n \in Names : <<"copy", n>> \in heap => secs[n].dss_data_was_malloc
    BY DEF SectionInv, LoadRight, DataRight, Found
  <2> QED BY <1>1, <2>1 DEF Freed
<1>3. Found' \in Loads
  <2>1. heap \in SUBSET ({"copy", "relas"} \X Names)
    BY DEF SectionInv, LoadRight, Found, Loads
  <2>2. heap' \in SUBSET ({"copy", "relas"} \X Names)
    BY <1>1, <2>1
  <2> QED BY <1>1, <2>2, NoSectionRight DEF Found, Loads
<1>4. LoadRight(Found') /\ InfoAfter(secs')
  <2>1. NoneLoaded(Found'.secs) /\ Found'.heap = heap' /\ Found'.secs = secs'
    BY <1>1, NoSectionRight DEF Found
  <2> QED BY <1>2, <1>3, <2>1, NoSections
<1>5. SetupIsRight'
  BY <1>1 DEF SetupIsRight
<1>6. NothingLeft'
  BY <1>1, <1>2 DEF NothingLeft, SectionInv, Ok
<1>7. /\ object' \in Objects /\ owned' \in BOOLEAN /\ apply' \in BOOLEAN /\ access' \in BOOLEAN
      /\ phase' \in Phases /\ elf' \in {"none", "open", "ended"} /\ phase' # "closed"
      /\ ~owned' => elf' = "open"
  BY <1>1 DEF SectionInv, Phases
<1>8. result' \in Results
  BY <1>1 DEF Results, Ok
<1> QED BY <1>4, <1>5, <1>6, <1>7, <1>8 DEF SectionInv

-------------------------------------------------------------------------------
(* The answers and the structs: the invariant.                              *)

(* The struct at k of the answer l.                                        *)
StructOf(l, k) ==
  [call |-> l.call, at |-> k, kind |-> l.structs[k].kind, alone |-> Alone(l, k)]

OfCall(c) == {s \in structs : s.call = c}

(* The consumer owns the structs of its answers, each once, as long as the  *)
(* Dwarf_Debug is there.                                                   *)
ListInv ==
  /\ structs \subseteq [call : 0..MaxCalls, at : Nat, alone : BOOLEAN, kind : Kinds]
  /\ calls \in 0..MaxCalls /\ faultless \in BOOLEAN /\ misfreed \in BOOLEAN
  /\ \A s \in structs : s.call < calls
  /\ \A l \in lists : /\ AnswerTyped(l) /\ l.call \in 0..MaxCalls /\ l.call < calls
                      /\ phase = "open" => OfCall(l.call) = {StructOf(l, k) : k \in l.ids}
                      /\ l.data # NULL
                      /\ phase = "open" => secs[l.from].dss_data = l.data
  /\ \A l, k \in lists : l.call = k.call => l = k
  /\ phase = "closed" => structs = {} /\ lists = {}

(* What is allocated belongs to an answer, or is the context of an empty    *)
(* set.                                                                    *)
Led(s) ==
  \/ s.kind = "context" /\ s.alone
  \/ \E l \in lists : l.call = s.call /\ s.at \in l.ids

NoneStray == ~misfreed /\ (faultless => \A s \in structs : Led(s))

IInv == SectionInv /\ ListInv /\ NoneStray

LEMMA SectionsUnchanged ==
  ASSUME SectionInv, UNCHANGED svars
  PROVE  SectionInv'
<1>1. UNCHANGED <<object, owned, apply, phase, secs, symtab, elf, access, heap, result>>
  BY DEF svars
<1>2. Found' = Found
  BY <1>1 DEF Found
<1>3. \A n : Headers(n)' = Headers(n) /\ HasData(n)' = HasData(n)
  BY <1>1 DEF Headers, HasData
<1>4. SetupIsRight' /\ NothingLeft'
  BY <1>1, <1>3 DEF SectionInv, SetupIsRight, NothingLeft
<1> QED BY <1>1, <1>2, <1>4 DEF SectionInv

LEMMA InvReads ==
  ASSUME SectionInv, ListInv, Reading
  PROVE  ReadStep
  BY ReadingStep DEF SectionInv, ListInv

LEMMA SectionNext ==
  ASSUME SectionInv, ListInv, [Next]_vars
  PROVE  SectionInv'
<1>1. CASE Opening
  <2>1. OpenWorks \/ OpenRefused \/ OpenNoMemory
          \/ \E bad \in 0..Len(object.sections) : OpenFails(bad)
    BY <1>1 DEF Opening
  <2> QED BY <2>1, Opened, NotOpened
<1>2. CASE Reading
  <2>1. PICK st : Reads(st)
    BY <1>2, InvReads DEF ReadStep
  <2> QED BY <2>1, ReadKeepsSections
<1>3. ASSUME NEW list \in lists, Dealloc(list) PROVE SectionInv'
  <2>1. UNCHANGED svars
    BY <1>3 DEF Dealloc
  <2> QED BY <2>1, SectionsUnchanged
<1>4. CASE Close
  <2>1. Finish
    BY <1>4 DEF Close
  <2> QED BY <2>1, Finished
<1>5. CASE UNCHANGED vars
  <2>1. UNCHANGED svars
    BY <1>5 DEF vars
  <2> QED BY <2>1, SectionsUnchanged
<1> QED BY <1>1, <1>2, <1>3, <1>4, <1>5 DEF Next

-------------------------------------------------------------------------------
(* Answers given and taken back.                                           *)

LEMMA AnswersTyped ==
  ASSUME ListInv, NEW l, AnswerTyped(l)
  PROVE  /\ l.ids \subseteq 1..Len(l.structs)
         /\ \A k \in l.ids : l.structs[k].kind \in Kinds \ Passing
<1>1. l.structs \in Seq(Structs) /\ l.ids = Answered(l)
  BY DEF AnswerTyped
<1>2. ASSUME NEW k \in 1..Len(l.structs) PROVE l.structs[k].kind \in Kinds
  <2>1. l.structs[k] \in Structs
    BY <1>1
  <2> QED BY <2>1 DEF Structs
<1> QED BY <1>1, <1>2 DEF Answered

(* An answer that was there before stays right.                             *)
LEMMA AnswerStays ==
  ASSUME ListInv, NEW l \in lists, object' = object, calls' \in {calls, calls + 1},
         phase' = "open" => /\ phase = "open" /\ OfCall(l.call)' = OfCall(l.call)
                            /\ secs'[l.from].dss_data = l.data
  PROVE  /\ AnswerTyped(l)' /\ l.call \in 0..MaxCalls /\ l.call < calls'
         /\ phase' = "open" => OfCall(l.call)' = {StructOf(l, k) : k \in l.ids}
         /\ l.data # NULL
         /\ phase' = "open" => secs'[l.from].dss_data = l.data
<1>1. /\ AnswerTyped(l) /\ l.call \in 0..MaxCalls /\ l.call < calls /\ calls \in 0..MaxCalls
      /\ phase = "open" => OfCall(l.call) = {StructOf(l, k) : k \in l.ids}
      /\ l.data # NULL
  BY DEF ListInv
<1>2. AnswerTyped(l)'
  BY <1>1 DEF AnswerTyped
<1> QED BY <1>1, <1>2, SessionAssumption

LEMMA ReadKeepsLists ==
  ASSUME SectionInv, ListInv, NEW st, Reads(st), GivesNone \/ \E l : GivesOne(l)
  PROVE  ListInv'
<1>1. /\ phase = "open" /\ calls < MaxCalls /\ calls' = calls + 1 /\ LoadsOnly(Found, st)
      /\ secs' = st.secs /\ phase' # "closed" /\ object' = object /\ misfreed' = misfreed
  BY DEF Reads
<1>2. /\ structs \subseteq [call : 0..MaxCalls, at : Nat, alone : BOOLEAN, kind : Kinds]
      /\ calls \in 0..MaxCalls /\ faultless \in BOOLEAN /\ misfreed \in BOOLEAN
      /\ \A s \in structs : s.call < calls
      /\ MaxCalls \in Nat
  BY SessionAssumption DEF ListInv
<1>3. calls' \in 0..MaxCalls /\ misfreed' \in BOOLEAN /\ calls \in Nat /\ calls < calls'
  BY <1>1, <1>2
<1>4. CallStructs \subseteq [call : 0..MaxCalls, at : Nat, alone : BOOLEAN, kind : Kinds]
  BY <1>2 DEF CallStructs
<1>5. \A s \in CallStructs : s.call = calls
  BY DEF CallStructs
<1>6. \A s \in structs : s.call \in 0..MaxCalls /\ s.call < calls
  BY <1>2
<1>7. ASSUME NEW l \in lists PROVE secs'[l.from].dss_data = l.data
  <2>1. secs[l.from].dss_data = l.data /\ l.data # NULL /\ l.from \in Names
    BY <1>1, <1>7 DEF ListInv, AnswerTyped
  <2>2. Stays(secs[l.from], secs'[l.from])
    BY <1>1, <2>1 DEF LoadsOnly, AllStay, Found
  <2> QED BY <2>1, <2>2 DEF Stays
<1>8. ASSUME structs' \subseteq structs \cup CallStructs, structs \subseteq structs'
      PROVE  /\ structs' \subseteq [call : 0..MaxCalls, at : Nat, alone : BOOLEAN, kind : Kinds]
             /\ \A s \in structs' : s.call < calls'
             /\ \A l \in lists : /\ AnswerTyped(l)' /\ l.call \in 0..MaxCalls /\ l.call < calls'
                                 /\ phase' = "open" => OfCall(l.call)' = {StructOf(l, k) : k \in l.ids}
                                 /\ l.data # NULL
                                 /\ phase' = "open" => secs'[l.from].dss_data = l.data
  <2>1. structs' \subseteq [call : 0..MaxCalls, at : Nat, alone : BOOLEAN, kind : Kinds]
    BY <1>2, <1>4, <1>8
  <2>2. \A s \in structs' : s.call < calls'
    BY <1>3, <1>5, <1>6, <1>8
  <2>3. ASSUME NEW l \in lists PROVE OfCall(l.call)' = OfCall(l.call)
    <3>1. l.call < calls /\ l.call \in Nat
      BY DEF ListInv
    <3>2. \A s \in CallStructs : s.call # l.call
      BY <1>3, <1>5, <3>1
    <3> QED BY <1>8, <3>2 DEF OfCall
  <2>4. ASSUME NEW l \in lists
        PROVE  /\ AnswerTyped(l)' /\ l.call \in 0..MaxCalls /\ l.call < calls'
               /\ phase' = "open" => OfCall(l.call)' = {StructOf(l, k) : k \in l.ids}
               /\ l.data # NULL
               /\ phase' = "open" => secs'[l.from].dss_data = l.data
    BY <1>1, <1>7, <2>3, AnswerStays
  <2> QED BY <2>1, <2>2, <2>4
<1>9. CASE GivesNone
  <2>1. /\ lists' = lists /\ structs \subseteq structs' /\ structs' \subseteq structs \cup CallStructs
        /\ faultless' \in BOOLEAN
    BY <1>9 DEF GivesNone
  <2>2. \A l, k \in lists' : l.call = k.call => l = k
    BY <2>1 DEF ListInv
  <2> QED BY <1>1, <1>3, <1>8, <2>1, <2>2 DEF ListInv
<1>10. ASSUME NEW l, GivesOne(l) PROVE ListInv'
  <2>1. /\ lists' = lists \cup {l} /\ structs' = structs \cup Made(l.ids, l)
        /\ faultless' = faultless /\ AnswerTyped(l) /\ l.call = calls
        /\ l.data = secs'[l.from].dss_data /\ l.data # NULL
    BY <1>10 DEF GivesOne
  <2>2. l.ids \subseteq 1..Len(l.structs) /\ l.structs \in Seq(Structs)
    BY <2>1, AnswersTyped DEF AnswerTyped
  <2>3. Made(l.ids, l) \subseteq CallStructs
    BY <2>2, MadeTyped
  <2>4. Made(l.ids, l) = {StructOf(l, k) : k \in l.ids}
    BY <2>1 DEF Made, StructOf
  <2>5. \A s \in structs : s.call # calls
    BY <1>3, <1>6
  <2>6. OfCall(l.call)' = {StructOf(l, k) : k \in l.ids}
    <3>1. OfCall(l.call)' = {s \in structs \cup Made(l.ids, l) : s.call = calls}
      BY <2>1 DEF OfCall
    <3> QED BY <1>5, <2>3, <2>4, <2>5, <3>1
  <2>7. AnswerTyped(l)'
    BY <1>1, <2>1 DEF AnswerTyped
  <2>8. \A k \in lists : k.call < calls /\ k.call \in Nat
    BY DEF ListInv
  <2>9. \A k, m \in lists' : k.call = m.call => k = m
    <3>1. \A k \in lists : k.call # l.call
      BY <1>3, <2>1, <2>8
    <3>2. \A k, m \in lists : k.call = m.call => k = m
      BY DEF ListInv
    <3> QED BY <2>1, <3>1, <3>2
  <2>10. \A k \in lists' : /\ AnswerTyped(k)' /\ k.call \in 0..MaxCalls /\ k.call < calls'
                           /\ phase' = "open" => OfCall(k.call)' = {StructOf(k, i) : i \in k.ids}
                           /\ k.data # NULL
                           /\ phase' = "open" => secs'[k.from].dss_data = k.data
    BY <1>2, <1>3, <1>8, <2>1, <2>3, <2>6, <2>7
  <2> QED BY <1>1, <1>2, <1>3, <1>8, <2>1, <2>3, <2>9, <2>10 DEF ListInv
<1> QED BY <1>9, <1>10

LEMMA ReadStrays ==
  ASSUME ListInv, NoneStray, NEW st, Reads(st), GivesNone \/ \E l : GivesOne(l)
  PROVE  NoneStray'
<1>1. ~misfreed'
  BY DEF Reads, NoneStray
<1>2. CASE GivesNone
  <2>1. lists' = lists /\ (faultless' => faultless /\ structs' = structs)
    BY <1>2 DEF GivesNone
  <2>2. \A s : Led(s)' = Led(s)
    BY <2>1 DEF Led
  <2> QED BY <1>1, <2>1, <2>2 DEF NoneStray
<1>3. ASSUME NEW l, GivesOne(l) PROVE NoneStray'
  <2>1. /\ lists' = lists \cup {l} /\ structs' = structs \cup Made(l.ids, l)
        /\ faultless' = faultless /\ l.call = calls
    BY <1>3 DEF GivesOne
  <2>2. \A s : Led(s) => Led(s)'
    BY <2>1 DEF Led
  <2>3. ASSUME NEW s \in Made(l.ids, l) PROVE Led(s)'
    <3>1. PICK k \in l.ids : s = [call |-> calls, at |-> k, kind |-> l.structs[k].kind,
                                  alone |-> Alone(l, k)]
      BY DEF Made
    <3>2. l.call = s.call /\ s.at \in l.ids
      BY <2>1, <3>1
    <3> QED BY <2>1, <3>2 DEF Led
  <2> QED BY <1>1, <2>1, <2>2, <2>3 DEF NoneStray
<1> QED BY <1>2, <1>3

(* What _dwarf_internal_globals_dealloc() frees is of the answer, nothing   *)
(* of it twice, and all but the contexts of sets without names.            *)
FreesOwned(l, frees) ==
  /\ frees \in Seq(l.ids)
  /\ \A i, j \in 1..Len(frees) : frees[i] = frees[j] => i = j
  /\ \A k \in l.ids \ Range(frees) : l.structs[k].kind = "context" /\ Alone(l, k)

LEMMA OnceEach ==
  ASSUME NEW S, NEW q \in Seq(S), \A i, j \in 1..Len(q) : q[i] = q[j] => i = j
  PROVE  Cardinality(Range(q)) = Len(q)
<1>1. Len(q) \in Nat /\ DOMAIN q = 1..Len(q)
  OBVIOUS
<1>2. IsFiniteSet(1..Len(q)) /\ Cardinality(1..Len(q)) = Len(q)
  BY <1>1, FS_Interval
<1>3. q \in Bijection(1..Len(q), Range(q))
  <2>1. q = [i \in 1..Len(q) |-> q[i]]
    BY <1>1
  <2>2. q \in [1..Len(q) -> Range(q)]
    BY <1>1, <2>1 DEF Range
  <2>3. \A x \in Range(q) : \E i \in 1..Len(q) : q[i] = x
    BY <1>1 DEF Range
  <2> QED BY <2>2, <2>3 DEF Bijection, Injection, Surjection, IsInjective
<1>4. ExistsBijection(1..Len(q), Range(q))
  BY <1>3 DEF ExistsBijection
<1> QED BY <1>2, <1>4, FS_Bijection

(* As many structs as the answer has of them.                               *)
LEMMA StructEach ==
  ASSUME NEW l, NEW ids, IsFiniteSet(ids)
  PROVE  Cardinality({StructOf(l, k) : k \in ids}) = Cardinality(ids)
<1> DEFINE T == {StructOf(l, k) : k \in ids}
           f == [k \in ids |-> StructOf(l, k)]
<1>1. \A k \in ids : f[k].at = k
  BY DEF StructOf
<1>2. f \in Bijection(ids, T)
  <2>1. f \in [ids -> T]
    OBVIOUS
  <2>2. \A i, j \in ids : f[i] = f[j] => i = j
    <3> HIDE DEF f
    <3> QED BY <1>1
  <2>3. \A t \in T : \E k \in ids : f[k] = t
    OBVIOUS
  <2> HIDE DEF f, T
  <2> QED BY <2>1, <2>2, <2>3 DEF Bijection, Injection, Surjection, IsInjective
<1>3. ExistsBijection(ids, T)
  BY <1>2 DEF ExistsBijection
<1> QED BY <1>3, FS_Bijection

LEMMA DeallocKeepsLists ==
  ASSUME ListInv, NEW list \in lists, Dealloc(list)
  PROVE  ListInv'
<1>1. /\ phase = "open" /\ lists' = lists \ {list} /\ structs' \subseteq structs
      /\ \A s \in structs \ structs' : s.call = list.call
      /\ misfreed' \in BOOLEAN
      /\ UNCHANGED <<svars, calls, faultless>>
  BY DEF Dealloc, ListInv
<1>2. /\ object' = object /\ phase' = phase /\ secs' = secs /\ calls' = calls
  BY <1>1 DEF svars
<1>3. ASSUME NEW l \in lists'
      PROVE  /\ AnswerTyped(l)' /\ l.call \in 0..MaxCalls /\ l.call < calls'
             /\ phase' = "open" => OfCall(l.call)' = {StructOf(l, k) : k \in l.ids}
             /\ l.data # NULL
             /\ phase' = "open" => secs'[l.from].dss_data = l.data
  <2>1. l \in lists /\ l # list
    BY <1>1
  <2>2. l.call # list.call
    BY <2>1 DEF ListInv
  <2>3. OfCall(l.call)' = OfCall(l.call)
    BY <1>1, <2>2 DEF OfCall
  <2>4. phase' = "open" => secs'[l.from].dss_data = l.data
    BY <1>2, <2>1 DEF ListInv
  <2> QED BY <1>2, <2>1, <2>3, <2>4, AnswerStays
<1>4. /\ structs' \subseteq [call : 0..MaxCalls, at : Nat, alone : BOOLEAN, kind : Kinds]
      /\ \A s \in structs' : s.call < calls'
      /\ calls' \in 0..MaxCalls /\ faultless' \in BOOLEAN
      /\ \A l, k \in lists' : l.call = k.call => l = k
  BY <1>1 DEF ListInv
<1> QED BY <1>1, <1>2, <1>3, <1>4 DEF ListInv

LEMMA DeallocStrays ==
  ASSUME ListInv, NoneStray, NEW list \in lists, Dealloc(list),
         list.api \in NameApis => FreesOwned(list, globals_dealloc(list))
  PROVE  NoneStray'
<1> DEFINE frees == IF list.api \in NameApis THEN globals_dealloc(list) ELSE <<>>
           ids   == IF list.api \in NameApis THEN Range(frees) ELSE list.ids
           gone  == {s \in structs : s.call = list.call /\ s.at \in ids}
<1>1. /\ lists' = lists \ {list} /\ structs' = structs \ gone /\ faultless' = faultless
      /\ misfreed' = (misfreed \/ Cardinality(gone) # Cardinality(ids)
                               \/ Cardinality(Range(frees)) # Len(frees))
  BY DEF Dealloc
<1>2. list.ids \subseteq 1..Len(list.structs) /\ list.structs \in Seq(Structs)
  BY AnswersTyped DEF ListInv, AnswerTyped
<1>3. /\ frees \in Seq(list.ids)
      /\ \A i, j \in 1..Len(frees) : frees[i] = frees[j] => i = j
  <2>1. CASE list.api \in NameApis
    BY <2>1 DEF FreesOwned
  <2>2. CASE list.api \notin NameApis
    BY <2>2
  <2> QED BY <2>1, <2>2
<1>4. /\ ids \subseteq list.ids
      /\ \A k \in list.ids \ ids : list.structs[k].kind = "context" /\ Alone(list, k)
  <2>1. CASE list.api \in NameApis
    BY <1>3, <2>1 DEF FreesOwned, Range
  <2>2. CASE list.api \notin NameApis
    BY <2>2
  <2> QED BY <2>1, <2>2
<1> HIDE DEF frees, ids
<1>5. IsFiniteSet(ids)
  <2>1. IsFiniteSet(1..Len(list.structs))
    BY <1>2, FS_Interval
  <2> QED BY <1>2, <1>4, <2>1, FS_Subset
<1>6. OfCall(list.call) = {StructOf(list, k) : k \in list.ids}
  BY DEF ListInv, Dealloc
<1>7. \A k : StructOf(list, k).at = k
  BY DEF StructOf
<1>8. gone = {StructOf(list, k) : k \in ids}
  <2>1. gone = {s \in OfCall(list.call) : s.at \in ids}
    BY DEF OfCall
  <2>2. gone = {s \in {StructOf(list, k) : k \in list.ids} : s.at \in ids}
    BY <1>6, <2>1
  <2> HIDE DEF gone
  <2> QED BY <1>4, <1>7, <2>2
<1>9. Cardinality(gone) = Cardinality(ids)
  BY <1>5, <1>8, StructEach
<1>10. Cardinality(Range(frees)) = Len(frees)
  BY <1>3, OnceEach
<1>11. ~misfreed'
  BY <1>1, <1>9, <1>10 DEF NoneStray
<1>12. ASSUME faultless, NEW s \in structs \ gone PROVE Led(s)'
  <2>1. Led(s)
    BY <1>12 DEF NoneStray
  <2>2. CASE s.kind = "context" /\ s.alone
    BY <2>2 DEF Led
  <2>3. ASSUME NEW l \in lists, l.call = s.call, s.at \in l.ids, l # list PROVE Led(s)'
    BY <1>1, <2>3 DEF Led
  <2>4. CASE list.call = s.call
    <3>1. s \in OfCall(list.call)
      BY <2>4 DEF OfCall
    <3>2. PICK k \in list.ids : s = StructOf(list, k)
      BY <1>6, <3>1
    <3>3. k \notin ids
      BY <1>7, <1>12, <2>4, <3>2
    <3>4. list.structs[k].kind = "context" /\ Alone(list, k)
      BY <1>4, <3>3
    <3>5. s.kind = "context" /\ s.alone
      BY <3>2, <3>4 DEF StructOf
    <3> QED BY <3>5 DEF Led
  <2> QED BY <2>1, <2>2, <2>3, <2>4 DEF Led
<1> QED BY <1>1, <1>11, <1>12 DEF NoneStray

LEMMA CloseKeepsLists ==
  ASSUME ListInv, NoneStray, Close
  PROVE  ListInv' /\ NoneStray'
<1>1. /\ phase' = "finished" /\ structs' \subseteq structs /\ lists' = lists
      /\ calls' = calls /\ faultless' = faultless /\ misfreed' = misfreed /\ object' = object
  BY DEF Close, Finish
<1>2. ListInv'
  <2>1. ASSUME NEW l \in lists'
        PROVE  /\ AnswerTyped(l)' /\ l.call \in 0..MaxCalls /\ l.call < calls'
               /\ phase' = "open" => OfCall(l.call)' = {StructOf(l, k) : k \in l.ids}
               /\ l.data # NULL
               /\ phase' = "open" => secs'[l.from].dss_data = l.data
    BY <1>1, AnswerStays
  <2>2. /\ structs' \subseteq [call : 0..MaxCalls, at : Nat, alone : BOOLEAN, kind : Kinds]
        /\ \A s \in structs' : s.call < calls'
        /\ calls' \in 0..MaxCalls /\ faultless' \in BOOLEAN /\ misfreed' \in BOOLEAN
        /\ \A l, k \in lists' : l.call = k.call => l = k
    BY <1>1 DEF ListInv
  <2> QED BY <1>1, <2>1, <2>2 DEF ListInv
<1>3. \A s : Led(s)' = Led(s)
  BY <1>1 DEF Led
<1>4. NoneStray'
  BY <1>1, <1>3 DEF NoneStray
<1> QED BY <1>2, <1>4
-------------------------------------------------------------------------------
(* What dwarf_get_globals() and the like leave: sets one after the other,   *)
(* each its context, then a global and its chain for each name.            *)

(* The globals and chains of the set i.                                     *)
PairsShape(q, i) ==
  /\ q \in Seq(Structs)
  /\ \A j \in 1..Len(q) : q[j].part = i /\ q[j].kind \in {"global", "chain"}
  /\ Len(q) > 0 => q[1].kind = "global"

SetShape(q, i) ==
  /\ q \in Seq(Structs) /\ Len(q) > 0
  /\ \A j \in 1..Len(q) : q[j].part = i
  /\ q[1].kind = "context"
  /\ \A j \in 2..Len(q) : q[j].kind \in {"global", "chain"}
  /\ Len(q) > 1 => q[2].kind = "global"

(* The sets up to i.                                                       *)
NamesShape(q, i) ==
  /\ q \in Seq(Structs)
  /\ \A j \in 1..Len(q) : q[j].part \in 1..i /\ q[j].kind \in {"context", "global", "chain"}
  /\ \A j, k \in 1..Len(q) : j <= k => q[j].part <= q[k].part
  /\ \A j \in 1..Len(q) : \E c \in 1..Len(q) :
       q[c].kind = "context" /\ q[c].part = q[j].part
  /\ \A j, k \in 1..Len(q) :
       q[j].kind = "context" /\ q[k].kind = "context" /\ q[j].part = q[k].part => j = k
  /\ \A j \in 1..Len(q) : q[j].kind = "chain" =>
       \E g \in 1..Len(q) : q[g].kind = "global" /\ q[g].part = q[j].part

LEMMA JoinedAt ==
  ASSUME NEW S, NEW q \in Seq(S), NEW r \in Seq(S)
  PROVE  /\ q \o r \in Seq(S) /\ Len(q \o r) = Len(q) + Len(r)
         /\ \A j \in 1..Len(q) : (q \o r)[j] = q[j]
         /\ \A j \in (Len(q) + 1)..(Len(q) + Len(r)) :
              (q \o r)[j] = r[j - Len(q)] /\ j - Len(q) \in 1..Len(r)
  OBVIOUS

LEMMA PairsJoin ==
  ASSUME NEW i, NEW q, NEW r, PairsShape(q, i), PairsShape(r, i)
  PROVE  PairsShape(q \o r, i)
<1>1. q \in Seq(Structs) /\ r \in Seq(Structs)
  BY DEF PairsShape
<1> DEFINE b == q \o r
<1>2. /\ b \in Seq(Structs) /\ Len(b) = Len(q) + Len(r)
      /\ \A j \in 1..Len(q) : b[j] = q[j]
      /\ \A j \in (Len(q) + 1)..(Len(q) + Len(r)) :
           b[j] = r[j - Len(q)] /\ j - Len(q) \in 1..Len(r)
  BY <1>1, JoinedAt
<1>3. Len(q) \in Nat /\ Len(r) \in Nat
  BY <1>1
<1> HIDE DEF b
<1>4. ASSUME NEW j \in 1..Len(b) PROVE b[j].part = i /\ b[j].kind \in {"global", "chain"}
  <2>1. CASE j <= Len(q)
    BY <1>2, <1>3, <2>1 DEF PairsShape
  <2>2. CASE j > Len(q)
    <3>1. j \in (Len(q) + 1)..(Len(q) + Len(r))
      BY <1>2, <1>3, <2>2
    <3>2. b[j] = r[j - Len(q)] /\ j - Len(q) \in 1..Len(r)
      BY <1>2, <3>1
    <3> QED BY <3>2 DEF PairsShape
  <2> QED BY <1>3, <2>1, <2>2
<1>5. ASSUME Len(b) > 0 PROVE b[1].kind = "global"
  <2>1. CASE Len(q) > 0
    BY <1>2, <1>3, <2>1 DEF PairsShape
  <2>2. CASE Len(q) = 0
    BY <1>2, <1>3, <1>5, <2>2 DEF PairsShape
  <2> QED BY <1>3, <2>1, <2>2
<1> QED BY <1>2, <1>4, <1>5 DEF PairsShape, b

LEMMA NameSetShape ==
  ASSUME NEW table \in Seq(NameSets), NEW i \in 1..Len(table)
  PROVE  SetShape(NameSet(table, i), i)
<1> DEFINE dies  == table[i].dies
           pairs == [k \in DOMAIN dies |-> <<Struct("global", i, dies[k]), Struct("chain", i, 0)>>]
           rest  == IF table[i].flaw = "head" THEN <<>> ELSE FlattenSeq(pairs)
           first == Struct("context", i, table[i].cu)
<1>1. table[i] \in NameSets /\ i \in Nat
  OBVIOUS
<1>2. dies \in Seq(Nat) /\ table[i].cu \in Nat
  BY <1>1 DEF NameSets
<1>3. first \in Structs /\ first.kind = "context" /\ first.part = i
  BY <1>1, <1>2, StructTyped DEF Kinds, Items, Struct
<1>4. \A k \in 1..Len(dies) : PairsShape(pairs[k], i)
  <2> SUFFICES ASSUME NEW k \in 1..Len(dies) PROVE PairsShape(pairs[k], i)
    OBVIOUS
  <2> DEFINE g == Struct("global", i, dies[k])
             c == Struct("chain", i, 0)
  <2>1. g \in Structs /\ c \in Structs
    BY <1>1, <1>2, StructTyped DEF Kinds, Items
  <2>2. pairs[k] = <<g, c>>
    BY <1>2
  <2>3. g.kind = "global" /\ g.part = i /\ c.kind = "chain" /\ c.part = i
    BY DEF Struct
  <2> HIDE DEF g, c
  <2>4. pairs[k][1] = g /\ pairs[k][2] = c /\ Len(pairs[k]) = 2
    BY <2>2
  <2>5. pairs[k] \in Seq(Structs)
    BY <2>1, <2>2
  <2> HIDE DEF pairs
  <2> QED BY <2>3, <2>4, <2>5 DEF PairsShape
<1>5. DOMAIN pairs = 1..Len(dies) /\ Len(pairs) = Len(dies) /\ Len(dies) \in Nat
  BY <1>2
<1>6. PairsShape(<<>>, i)
  BY DEF PairsShape
<1>7. PairsShape(FlattenSeq(pairs), i)
  <2> HIDE DEF pairs
  <2>1. CASE Len(dies) = 0
    <3>1. pairs = <<>>
      BY <1>5, <2>1
    <3> QED BY <3>1, <1>6 DEF FlattenSeq
  <2>2. CASE Len(dies) # 0
    <3>1. PICK f : /\ FlattenSeq(pairs) = f[Len(pairs)]
                   /\ \A k \in 1..Len(pairs) : f[k] = Joined(f, pairs, k)
      BY <1>5, <2>2, FlattenSteps
    <3> DEFINE Wrong == {k \in 1..Len(pairs) : ~PairsShape(f[k], i)}
    <3>2. CASE Wrong = {}
      BY <1>5, <2>2, <3>1, <3>2
    <3>3. CASE Wrong # {}
      <4>1. Wrong \subseteq Nat
        OBVIOUS
      <4>2. PICK k \in Wrong : \A j \in Wrong : k <= j
        <5> HIDE DEF Wrong
        <5> QED BY <3>3, <4>1, LeastNatural
      <4>3. k # 1
        BY <1>4, <1>5, <3>1, <4>2 DEF Joined
      <4>4. k - 1 \in 1..Len(pairs) /\ PairsShape(f[k - 1], i)
        BY <4>2, <4>3
      <4>5. f[k] = f[k - 1] \o pairs[k]
        BY <3>1, <4>2, <4>3 DEF Joined
      <4>6. PairsShape(f[k], i)
        BY <1>4, <1>5, <4>2, <4>4, <4>5, PairsJoin
      <4> QED BY <4>2, <4>6
    <3> QED BY <3>2, <3>3
  <2> QED BY <2>1, <2>2
<1>8. PairsShape(rest, i)
  BY <1>6, <1>7
<1>9. NameSet(table, i) = <<first>> \o rest
  BY DEF NameSet
<1> HIDE DEF rest, first
<1>10. <<first>> \in Seq(Structs) /\ Len(<<first>>) = 1 /\ <<first>>[1] = first
  BY <1>3
<1>11. rest \in Seq(Structs) /\ Len(rest) \in Nat
  BY <1>8 DEF PairsShape
<1> DEFINE q == <<first>> \o rest
<1>12. /\ q \in Seq(Structs) /\ Len(q) = 1 + Len(rest) /\ q[1] = first
       /\ \A j \in 2..Len(q) : q[j] = rest[j - 1] /\ j - 1 \in 1..Len(rest)
  BY <1>10, <1>11
<1> HIDE DEF q
<1>13. SetShape(q, i)
  <2>1. \A j \in 2..Len(q) : q[j].part = i /\ q[j].kind \in {"global", "chain"}
    BY <1>8, <1>12 DEF PairsShape
  <2>2. Len(q) > 1 => q[2].kind = "global"
    <3>1. SUFFICES ASSUME Len(q) > 1 PROVE q[2].kind = "global"
      OBVIOUS
    <3>2. q[2] = rest[1] /\ Len(rest) > 0
      BY <1>11, <1>12, <3>1
    <3> QED BY <1>8, <3>2 DEF PairsShape
  <2>3. \A j \in 1..Len(q) : j = 1 \/ j \in 2..Len(q)
    BY <1>11, <1>12
  <2> QED BY <1>3, <1>11, <1>12, <2>1, <2>2, <2>3 DEF SetShape
<1> QED BY <1>9, <1>13 DEF q

(* A further set.                                                          *)
LEMMA NamesJoin ==
  ASSUME NEW i \in Nat \ {0}, NEW q, NEW r, NamesShape(q, i - 1), SetShape(r, i)
  PROVE  NamesShape(q \o r, i)
<1> DEFINE b == q \o r
           m == Len(q)
<1>1. q \in Seq(Structs) /\ r \in Seq(Structs) /\ m \in Nat /\ Len(r) \in Nat \ {0}
  BY DEF NamesShape, SetShape
<1>2. /\ b \in Seq(Structs) /\ Len(b) = m + Len(r)
      /\ \A j \in 1..m : b[j] = q[j]
      /\ \A j \in (m + 1)..(m + Len(r)) : b[j] = r[j - m] /\ j - m \in 1..Len(r)
  BY <1>1, JoinedAt
<1> HIDE DEF b, m
<1>3. \A j \in 1..Len(b) : j \in 1..m \/ j \in (m + 1)..(m + Len(r))
  BY <1>1, <1>2
<1>4. 1..m \subseteq 1..Len(b) /\ (m + 1)..(m + Len(r)) \subseteq 1..Len(b)
  BY <1>1, <1>2
<1>5. ASSUME NEW j \in 1..m
      PROVE  /\ b[j].part \in 1..(i - 1) /\ b[j].part \in Nat /\ b[j].part < i
             /\ b[j].kind \in {"context", "global", "chain"}
  <2>1. b[j] = q[j] /\ q[j].part \in 1..(i - 1) /\ q[j].kind \in {"context", "global", "chain"}
    BY <1>2 DEF NamesShape, m
  <2> QED BY <2>1
<1>6. ASSUME NEW j \in (m + 1)..(m + Len(r))
      PROVE  /\ b[j].part = i
             /\ j = m + 1 => b[j].kind = "context"
             /\ j # m + 1 => b[j].kind \in {"global", "chain"} /\ b[m + 2].kind = "global"
                             /\ m + 2 \in (m + 1)..(m + Len(r))
  <2>1. b[j] = r[j - m] /\ j - m \in 1..Len(r)
    BY <1>2
  <2>2. r[j - m].part = i
    BY <2>1 DEF SetShape
  <2>3. j = m + 1 => b[j].kind = "context"
    <3>1. j = m + 1 => j - m = 1
      BY <1>1
    <3> QED BY <2>1, <3>1 DEF SetShape
  <2>4. ASSUME j # m + 1
        PROVE  b[j].kind \in {"global", "chain"} /\ b[m + 2].kind = "global"
               /\ m + 2 \in (m + 1)..(m + Len(r))
    <3>1. j - m \in 2..Len(r) /\ Len(r) > 1
      BY <1>1, <2>1, <2>4
    <3>2. m + 2 \in (m + 1)..(m + Len(r)) /\ (m + 2) - m = 2
      BY <1>1, <3>1
    <3>3. b[m + 2] = r[2]
      BY <1>2, <3>2
    <3> QED BY <2>1, <3>1, <3>2, <3>3 DEF SetShape
  <2> QED BY <2>1, <2>2, <2>3, <2>4
<1>7. ASSUME NEW j \in 1..Len(b)
      PROVE  b[j].part \in 1..i /\ b[j].kind \in {"context", "global", "chain"}
  BY <1>3, <1>5, <1>6
<1>8. ASSUME NEW j \in 1..Len(b), NEW k \in 1..Len(b), j <= k
      PROVE  b[j].part <= b[k].part
  <2>1. CASE k \in 1..m
    <3>1. j \in 1..m
      BY <1>1, <1>8, <2>1
    <3>2. q[j].part <= q[k].part
      BY <1>8, <2>1, <3>1 DEF NamesShape, m
    <3> QED BY <1>2, <2>1, <3>1, <3>2
  <2>2. CASE k \in (m + 1)..(m + Len(r))
    <3>1. b[k].part = i
      BY <1>6, <2>2
    <3>2. b[j].part \in 1..i
      BY <1>7
    <3> QED BY <3>1, <3>2
  <2> QED BY <1>3, <2>1, <2>2
<1>9. ASSUME NEW j \in 1..Len(b)
      PROVE  \E c \in 1..Len(b) : b[c].kind = "context" /\ b[c].part = b[j].part
  <2>1. CASE j \in 1..m
    <3>1. PICK c \in 1..m : q[c].kind = "context" /\ q[c].part = q[j].part
      BY <2>1 DEF NamesShape, m
    <3>2. b[c] = q[c] /\ b[j] = q[j] /\ c \in 1..Len(b)
      BY <1>2, <1>4, <2>1
    <3> QED BY <3>1, <3>2
  <2>2. CASE j \in (m + 1)..(m + Len(r))
    <3>1. m + 1 \in (m + 1)..(m + Len(r))
      BY <1>1
    <3>2. b[m + 1].kind = "context" /\ b[m + 1].part = i /\ b[j].part = i
      BY <1>6, <2>2, <3>1
    <3> QED BY <1>4, <3>1, <3>2
  <2> QED BY <1>3, <2>1, <2>2
<1>10. ASSUME NEW j \in 1..Len(b), NEW k \in 1..Len(b),
              b[j].kind = "context", b[k].kind = "context", b[j].part = b[k].part
       PROVE  j = k
  <2>1. CASE j \in 1..m /\ k \in 1..m
    <3>1. b[j] = q[j] /\ b[k] = q[k]
      BY <1>2, <2>1
    <3> QED BY <1>10, <2>1, <3>1 DEF NamesShape, m
  <2>2. CASE j \in (m + 1)..(m + Len(r)) /\ k \in (m + 1)..(m + Len(r))
    BY <1>6, <1>10, <2>2
  <2>3. CASE j \in 1..m /\ k \in (m + 1)..(m + Len(r))
    BY <1>5, <1>6, <1>10, <2>3
  <2>4. CASE k \in 1..m /\ j \in (m + 1)..(m + Len(r))
    BY <1>5, <1>6, <1>10, <2>4
  <2> QED BY <1>3, <2>1, <2>2, <2>3, <2>4
<1>11. ASSUME NEW j \in 1..Len(b), b[j].kind = "chain"
       PROVE  \E g \in 1..Len(b) : b[g].kind = "global" /\ b[g].part = b[j].part
  <2>1. CASE j \in 1..m
    <3>1. b[j] = q[j]
      BY <1>2, <2>1
    <3>2. PICK g \in 1..m : q[g].kind = "global" /\ q[g].part = q[j].part
      BY <1>11, <2>1, <3>1 DEF NamesShape, m
    <3>3. b[g] = q[g] /\ g \in 1..Len(b)
      BY <1>2, <1>4
    <3> QED BY <3>1, <3>2, <3>3
  <2>2. CASE j \in (m + 1)..(m + Len(r))
    <3>1. j # m + 1
      BY <1>6, <1>11, <2>2
    <3>2. b[m + 2].kind = "global" /\ m + 2 \in (m + 1)..(m + Len(r))
      BY <1>6, <2>2, <3>1
    <3>3. b[m + 2].part = i /\ b[j].part = i
      BY <1>6, <2>2, <3>2
    <3> QED BY <1>4, <3>2, <3>3
  <2> QED BY <1>3, <2>1, <2>2
<1>12. NamesShape(b, i)
  BY <1>2, <1>7, <1>8, <1>9, <1>10, <1>11 DEF NamesShape
<1> QED BY <1>12 DEF b

LEMMA NamesTableShape ==
  ASSUME NEW table \in Seq(NameSets)
  PROVE  NamesShape(FlattenSeq([i \in DOMAIN table |-> NameSet(table, i)]), Len(table))
<1> DEFINE sets == [i \in DOMAIN table |-> NameSet(table, i)]
           len  == Len(table)
<1>1. DOMAIN sets = 1..len /\ Len(sets) = len /\ len \in Nat
  OBVIOUS
<1>2. \A i \in 1..len : SetShape(sets[i], i)
  BY NameSetShape
<1>3. NamesShape(<<>>, 0)
  BY DEF NamesShape
<1> HIDE DEF sets
<1>4. CASE len = 0
  <2>1. sets = <<>>
    BY <1>1, <1>4
  <2>2. FlattenSeq(sets) = <<>>
    BY <2>1 DEF FlattenSeq
  <2> QED BY <1>3, <1>4, <2>2 DEF sets
<1>5. CASE len # 0
  <2>1. PICK f : /\ FlattenSeq(sets) = f[len]
                 /\ \A i \in 1..len : f[i] = Joined(f, sets, i)
    BY <1>1, <1>5, FlattenSteps
  <2> DEFINE Wrong == {i \in 1..len : ~NamesShape(f[i], i)}
  <2>2. Wrong = {}
    <3>1. SUFFICES ASSUME Wrong # {} PROVE FALSE
      OBVIOUS
    <3>2. Wrong \subseteq Nat
      OBVIOUS
    <3>3. PICK i \in Wrong : \A j \in Wrong : i <= j
      <4> HIDE DEF Wrong
      <4> QED BY <3>1, <3>2, LeastNatural
    <3>4. i \in 1..len /\ i \in Nat \ {0} /\ SetShape(sets[i], i)
      BY <1>1, <1>2, <3>3
    <3>5. CASE i = 1
      <4>1. f[1] = sets[1] /\ sets[1] \in Seq(Structs)
        BY <2>1, <3>4, <3>5 DEF Joined, SetShape
      <4>2. <<>> \o sets[1] = sets[1]
        BY <4>1
      <4>3. NamesShape(<<>> \o sets[1], 1)
        <5>1. 1 - 1 = 0 /\ 1 \in Nat \ {0}
          OBVIOUS
        <5>2. NamesShape(<<>>, 1 - 1) /\ SetShape(sets[1], 1)
          BY <1>3, <3>4, <3>5, <5>1
        <5> QED BY <5>1, <5>2, NamesJoin
      <4> QED BY <3>3, <3>5, <4>1, <4>2, <4>3
    <3>6. CASE i # 1
      <4>1. i - 1 \in 1..len /\ NamesShape(f[i - 1], i - 1)
        BY <1>1, <3>3, <3>4, <3>6
      <4>2. f[i] = f[i - 1] \o sets[i]
        BY <2>1, <3>4, <3>6 DEF Joined
      <4>3. NamesShape(f[i], i)
        BY <3>4, <4>1, <4>2, NamesJoin
      <4> QED BY <3>3, <4>3
    <3> QED BY <3>5, <3>6
  <2> QED BY <1>1, <1>5, <2>1, <2>2 DEF sets
<1> QED BY <1>4, <1>5

-------------------------------------------------------------------------------
(* _dwarf_internal_globals_dealloc() of such an answer.                     *)

(* The answer's structs: the sets, then the list.                           *)
NamesAnswer(l) ==
  \E q, i : NamesShape(q, i) /\ i \in Nat /\ l.structs = Append(q, Struct("list", 0, 0))

LEMMA AnswerOfNames ==
  ASSUME object \in Objects, NEW l, AnswerTyped(l), l.api \in NameApis
  PROVE  NamesAnswer(l)
<1> DEFINE table == object.tables[l.from]
<1>1. table \in Seq(NameSets)
  BY TablesAssumption DEF AnswerTyped
<1>2. EndsAs(table) = "OK" /\ l.structs = SweepNames(table).structs
  BY DEF AnswerTyped
<1>3. ReadPart(table) = table
  BY <1>1, <1>2, ReadPartTyped
<1> HIDE DEF table
<1> DEFINE q == FlattenSeq([i \in DOMAIN table |-> NameSet(table, i)])
<1>4. l.structs = Append(q, Struct("list", 0, 0))
  BY <1>2, <1>3 DEF SweepNames
<1>5. NamesShape(q, Len(table)) /\ Len(table) \in Nat
  BY <1>1, NamesTableShape
<1> QED BY <1>4, <1>5 DEF NamesAnswer

Globals(l)       == {g \in 1..Len(l.structs) : l.structs[g].kind = "global"}
GlobalsTo(l, n)  == {g \in Globals(l) : g <= n}
FreedTo(l, n)    == GlobalsTo(l, n) \cup {ContextOf(l, g) : g \in GlobalsTo(l, n)}

(* What such an answer looks like.                                         *)
LEMMA AnswerLooks ==
  ASSUME NEW l, NamesAnswer(l)
  PROVE  /\ l.structs \in Seq(Structs) /\ Len(l.structs) \in Nat \ {0}
         /\ l.structs[Len(l.structs)].kind = "list"
         /\ \A g \in Globals(l) : /\ ContextOf(l, g) \in 1..Len(l.structs)
                                  /\ l.structs[ContextOf(l, g)].kind = "context"
                                  /\ l.structs[ContextOf(l, g)].part = l.structs[g].part
         /\ \A g, h \in Globals(l) : g <= h => l.structs[g].part <= l.structs[h].part
         /\ \A g, h \in Globals(l) : l.structs[g].part = l.structs[h].part =>
              ContextOf(l, g) = ContextOf(l, h)
         /\ \A k \in 1..Len(l.structs) : l.structs[k].kind \in {"context", "global", "chain", "list"}
         /\ \A k \in 1..Len(l.structs) : l.structs[k].kind = "list" => k = Len(l.structs)
         /\ \A k \in 1..Len(l.structs) : l.structs[k].kind = "context" =>
              \/ \E g \in Globals(l) : ContextOf(l, g) = k
              \/ Alone(l, k)
<1>1. PICK q, i : NamesShape(q, i) /\ i \in Nat /\ l.structs = Append(q, Struct("list", 0, 0))
  BY DEF NamesAnswer
<1> DEFINE s == l.structs
           m == Len(q)
<1>2. q \in Seq(Structs) /\ m \in Nat
  BY <1>1 DEF NamesShape
<1>3. Struct("list", 0, 0) \in Structs
  BY StructTyped DEF Kinds, Items
<1>4. /\ s \in Seq(Structs) /\ Len(s) = m + 1 /\ s[m + 1] = Struct("list", 0, 0)
      /\ \A j \in 1..m : s[j] = q[j]
      /\ DOMAIN s = 1..(m + 1)
  BY <1>1, <1>2, <1>3
<1>5. s[m + 1].kind = "list" /\ s[m + 1].part = 0
  BY <1>4 DEF Struct
<1>6. \A j \in 1..(m + 1) : j \in 1..m \/ j = m + 1
  BY <1>2
<1>7. 1..m \subseteq 1..(m + 1)
  BY <1>2
<1>8. /\ \A j \in 1..m : s[j].part \in 1..i /\ s[j].kind \in {"context", "global", "chain"}
      /\ \A j, k \in 1..m : j <= k => s[j].part <= s[k].part
      /\ \A j \in 1..m : \E c \in 1..m : s[c].kind = "context" /\ s[c].part = s[j].part
      /\ \A j, k \in 1..m :
           s[j].kind = "context" /\ s[k].kind = "context" /\ s[j].part = s[k].part => j = k
      /\ \A j \in 1..m : s[j].kind = "chain" =>
           \E g \in 1..m : s[g].kind = "global" /\ s[g].part = s[j].part
  BY <1>1, <1>4 DEF NamesShape
<1> HIDE DEF m
<1>9. \A g \in Globals(l) : g \in 1..m /\ s[g].kind = "global"
  BY <1>4, <1>5, <1>6 DEF Globals
<1>10. ASSUME NEW g \in Globals(l)
       PROVE  /\ ContextOf(l, g) \in 1..(m + 1)
              /\ s[ContextOf(l, g)].kind = "context" /\ s[ContextOf(l, g)].part = s[g].part
  <2>1. \E c \in 1..(m + 1) : s[c].kind = "context" /\ s[c].part = s[g].part
    BY <1>7, <1>8, <1>9
  <2>2. \E c \in DOMAIN l.structs :
           l.structs[c].kind = "context" /\ l.structs[c].part = l.structs[g].part
    BY <1>4, <2>1
  <2> QED BY <1>4, <2>2 DEF ContextOf
<1>11. \A k \in 1..(m + 1) : s[k].kind = "context" => k \in 1..m
  BY <1>5, <1>6
<1>12. ASSUME NEW g \in Globals(l), NEW h \in Globals(l), s[g].part = s[h].part
       PROVE  ContextOf(l, g) = ContextOf(l, h)
  BY <1>8, <1>10, <1>11, <1>12
<1>13. ASSUME NEW k \in 1..(m + 1), s[k].kind = "context",
              \A g \in Globals(l) : ContextOf(l, g) # k
       PROVE  Alone(l, k)
  <2>1. k \in 1..m
    BY <1>11, <1>13
  <2>2. \A g \in Globals(l) : s[g].part # s[k].part
    BY <1>8, <1>10, <1>11, <1>13, <2>1
  <2>3. \A g \in 1..m : s[g].kind = "global" => g \in Globals(l)
    BY <1>4, <1>7 DEF Globals
  <2>4. ASSUME NEW j \in 1..(m + 1), s[j].part = s[k].part PROVE j = k
    <3>1. j \in 1..m
      <4>1. s[k].part \in 1..i
        BY <1>8, <2>1
      <4>2. s[k].part # 0
        BY <4>1
      <4> QED BY <1>5, <1>6, <2>4, <4>2
    <3>2. s[j].kind # "global" /\ s[j].kind # "chain"
      BY <1>8, <2>2, <2>3, <2>4, <3>1
    <3>3. s[j].kind = "context"
      BY <1>8, <3>1, <3>2
    <3> QED BY <1>8, <1>13, <2>1, <2>4, <3>1, <3>3
  <2> QED BY <1>4, <2>4 DEF Alone
<1>14. \A g, h \in Globals(l) : g <= h => s[g].part <= s[h].part
  BY <1>8, <1>9
<1>15. \A k \in 1..(m + 1) : s[k].kind \in {"context", "global", "chain", "list"}
  BY <1>5, <1>6, <1>8
<1>16. \A k \in 1..(m + 1) : s[k].kind = "list" => k = m + 1
  BY <1>5, <1>6, <1>8
<1>17. Len(s) = m + 1 /\ m + 1 \in Nat \ {0}
  BY <1>2, <1>4 DEF m
<1> QED
  BY <1>4, <1>5, <1>10, <1>12, <1>13, <1>14, <1>15, <1>16, <1>17

NoFrees == [last |-> 0, frees |-> <<>>]

Release(f, l, i) ==
  IF i = 0 THEN NoFrees
  ELSE IF l.structs[i].kind # "global" THEN f[i - 1]
  ELSE FreeGlobal(f[i - 1], ContextOf(l, i), i)

LEMMA FreesExist ==
  ASSUME NEW l, NEW n \in Nat
  PROVE  \E f : f = [i \in 0..n |-> Release(f, l, i)]
<1> DEFINE Has(k) == \E f : f = [i \in 0..k |-> Release(f, l, i)]
           Missing == {k \in Nat : ~Has(k)}
<1>1. Has(0)
  <2> DEFINE f == [i \in 0..0 |-> NoFrees]
  <2>1. f = [i \in 0..0 |-> Release(f, l, i)]
    BY DEF Release
  <2> QED BY <2>1
<1>2. ASSUME NEW k \in Nat, Has(k) PROVE Has(k + 1)
  <2>1. PICK f : f = [i \in 0..k |-> Release(f, l, i)]
    BY <1>2
  <2> DEFINE g == [i \in 0..(k + 1) |-> IF i <= k THEN f[i] ELSE Release(f, l, k + 1)]
  <2>2. \A i \in 0..k : g[i] = f[i]
    OBVIOUS
  <2>3. ASSUME NEW i \in 0..(k + 1) PROVE g[i] = Release(g, l, i)
    <3>1. CASE i = 0
      BY <3>1, <2>1 DEF Release
    <3>2. CASE i # 0
      <4>1. i - 1 \in 0..k
        BY <3>2
      <4>2. g[i - 1] = f[i - 1]
        BY <4>1, <2>2
      <4>3. Release(g, l, i) = Release(f, l, i)
        BY <4>2, <3>2 DEF Release
      <4>4. g[i] = Release(f, l, i)
        <5>1. CASE i <= k
          <6>1. i \in 0..k
            BY <5>1
          <6>2. g[i] = f[i]
            BY <6>1, <2>2
          <6>3. f[i] = Release(f, l, i)
            BY <6>1, <2>1
          <6> QED BY <6>2, <6>3
        <5>2. CASE ~(i <= k)
          <6>1. i = k + 1
            BY <5>2
          <6> QED BY <6>1
        <5> QED BY <5>1, <5>2
      <4> QED BY <4>3, <4>4
    <3> QED BY <3>1, <3>2
  <2>4. g = [i \in 0..(k + 1) |-> Release(g, l, i)]
    <3> HIDE DEF g
    <3>1. g = [i \in 0..(k + 1) |-> g[i]]
      BY DEF g
    <3> QED BY <3>1, <2>3
  <2> QED BY <2>4
<1>3. Missing = {}
  <2>1. SUFFICES ASSUME Missing # {} PROVE FALSE
    OBVIOUS
  <2>2. PICK k \in Missing : \A m \in Missing : k <= m
    BY <2>1, LeastNatural
  <2>3. k # 0
    BY <1>1
  <2>4. k - 1 \in Nat /\ k - 1 \notin Missing
    BY <2>2, <2>3
  <2>5. Has(k - 1)
    BY <2>4
  <2>6. Has((k - 1) + 1)
    BY <2>4, <2>5, <1>2
  <2>7. (k - 1) + 1 = k
    BY <2>4
  <2> QED BY <2>6, <2>7
<1> QED BY <1>3

(* It goes through the structs one by one.                                  *)
LEMMA FreesTurns ==
  ASSUME NEW l, Len(l.structs) \in Nat
  PROVE  \E f : /\ globals_dealloc(l) = f[Len(l.structs)].frees \o <<Len(l.structs)>>
               /\ \A i \in 0..Len(l.structs) : f[i] = Release(f, l, i)
<1> DEFINE after == CHOOSE f : f = [g \in 0..Len(l.structs) |->
                      IF g = 0 THEN [last |-> 0, frees |-> <<>>]
                      ELSE IF l.structs[g].kind # "global" THEN f[g - 1]
                      ELSE FreeGlobal(f[g - 1], ContextOf(l, g), g)]
<1>1. globals_dealloc(l) = after[Len(l.structs)].frees \o <<Len(l.structs)>>
  BY DEF globals_dealloc
<1>2. \E f : f = [g \in 0..Len(l.structs) |->
                    IF g = 0 THEN [last |-> 0, frees |-> <<>>]
                    ELSE IF l.structs[g].kind # "global" THEN f[g - 1]
                    ELSE FreeGlobal(f[g - 1], ContextOf(l, g), g)]
  BY FreesExist DEF Release, NoFrees
<1>3. after = [g \in 0..Len(l.structs) |->
                 IF g = 0 THEN [last |-> 0, frees |-> <<>>]
                 ELSE IF l.structs[g].kind # "global" THEN after[g - 1]
                 ELSE FreeGlobal(after[g - 1], ContextOf(l, g), g)]
  BY <1>2
<1> HIDE DEF after
<1>4. \A i \in 0..Len(l.structs) : after[i] = Release(after, l, i)
  BY <1>3 DEF Release, NoFrees
<1> QED BY <1>1, <1>4

(* Of the first n structs the globals and their contexts are freed, each    *)
(* once; the last context is that of the last global.                      *)
Covers(q, S) ==
  /\ q \in Seq(S)
  /\ \A x \in S : \E i \in 1..Len(q) : q[i] = x
  /\ \A i, j \in 1..Len(q) : q[i] = q[j] => i = j

FreesInv(l, acc, n) ==
  /\ Covers(acc.frees, FreedTo(l, n))
  /\ GlobalsTo(l, n) = {} => acc.last = 0
  /\ GlobalsTo(l, n) # {} => \E g \in GlobalsTo(l, n) :
       /\ acc.last = ContextOf(l, g)
       /\ \A h \in GlobalsTo(l, n) : l.structs[h].part <= l.structs[g].part

(* A value that is not there yet can be appended.                           *)
LEMMA OnceMore ==
  ASSUME NEW S, NEW q, Covers(q, S), NEW x, x \notin S
  PROVE  Covers(q \o <<x>>, S \cup {x})
<1> DEFINE b == q \o <<x>>
           m == Len(q)
<1>0. /\ q \in Seq(S)
      /\ \A y \in S : \E i \in 1..m : q[i] = y
      /\ \A i, j \in 1..m : q[i] = q[j] => i = j
  BY DEF Covers
<1>1. q \in Seq(S \cup {x}) /\ <<x>> \in Seq(S \cup {x}) /\ m \in Nat
  BY <1>0
<1>2. /\ b \in Seq(S \cup {x}) /\ Len(b) = m + 1 /\ b[m + 1] = x
      /\ \A j \in 1..m : b[j] = q[j] /\ b[j] \in S
  BY <1>0, <1>1
<1> HIDE DEF b
<1>3. \A j \in 1..(m + 1) : j \in 1..m \/ j = m + 1
  BY <1>1
<1>4. 1..m \subseteq 1..(m + 1) /\ m + 1 \in 1..(m + 1)
  BY <1>1
<1>5. ASSUME NEW y \in S \cup {x} PROVE \E i \in 1..(m + 1) : b[i] = y
  <2>1. CASE y = x
    BY <1>2, <1>4, <2>1
  <2>2. CASE y \in S
    <3>1. PICK i \in 1..m : q[i] = y
      BY <1>0, <2>2
    <3> QED BY <1>2, <1>4, <3>1
  <2> QED BY <2>1, <2>2
<1>6. ASSUME NEW i \in 1..(m + 1), NEW j \in 1..(m + 1), b[i] = b[j] PROVE i = j
  <2>1. CASE i \in 1..m /\ j \in 1..m
    BY <1>0, <1>2, <1>6, <2>1
  <2>2. CASE i = m + 1 /\ j = m + 1
    BY <2>2
  <2>3. CASE i \in 1..m /\ j = m + 1
    BY <1>2, <1>6, <2>3
  <2>4. CASE j \in 1..m /\ i = m + 1
    BY <1>2, <1>6, <2>4
  <2> QED BY <1>3, <2>1, <2>2, <2>3, <2>4
<1> QED BY <1>2, <1>5, <1>6 DEF b, Covers

LEMMA FreesStep ==
  ASSUME NEW l, NamesAnswer(l), NEW n \in 1..Len(l.structs), NEW acc,
         FreesInv(l, acc, n - 1)
  PROVE  FreesInv(l, IF l.structs[n].kind # "global" THEN acc
                     ELSE FreeGlobal(acc, ContextOf(l, n), n), n)
<1>1. Len(l.structs) \in Nat /\ n \in Nat
  BY AnswerLooks
<1>2. \A g \in Globals(l) : g \in Nat /\ (g <= n <=> g <= n - 1 \/ g = n)
  BY <1>1 DEF Globals
<1>3. CASE l.structs[n].kind # "global"
  <2>1. n \notin Globals(l)
    BY <1>3 DEF Globals
  <2>2. GlobalsTo(l, n) = GlobalsTo(l, n - 1)
    BY <1>2, <2>1 DEF GlobalsTo
  <2>3. FreedTo(l, n) = FreedTo(l, n - 1)
    BY <2>2 DEF FreedTo
  <2>4. FreesInv(l, acc, n)
    BY <2>2, <2>3 DEF FreesInv
  <2> QED BY <1>3, <2>4
<1>4. CASE l.structs[n].kind = "global"
  <2> DEFINE c   == ContextOf(l, n)
             now == FreeGlobal(acc, c, n)
             A   == GlobalsTo(l, n - 1)
             F   == FreedTo(l, n - 1)
  <2>1. n \in Globals(l)
    BY <1>4 DEF Globals
  <2>2. GlobalsTo(l, n) = A \cup {n} /\ n \notin A /\ A \subseteq Globals(l)
    <3>1. ~(n <= n - 1)
      BY <1>1
    <3> QED BY <1>2, <2>1, <3>1 DEF GlobalsTo
  <2>3. FreedTo(l, n) = F \cup {c, n}
    BY <2>2 DEF FreedTo
  <2>4. /\ c \in 1..Len(l.structs) /\ l.structs[c].kind = "context"
        /\ \A g \in A : l.structs[ContextOf(l, g)].kind = "context"
        /\ \A g \in A : l.structs[g].part <= l.structs[n].part
    <3>1. \A g \in A : g <= n
      BY <1>1, <1>2 DEF GlobalsTo
    <3> QED BY <2>1, <2>2, <3>1, AnswerLooks
  <2>5. n \notin F
    <3>1. n # c /\ \A g \in A : n # ContextOf(l, g)
      BY <1>4, <2>4
    <3> QED BY <2>2, <3>1 DEF FreedTo
  <2>6. c # 0
    BY <1>1, <2>4
  <2>7. c = acc.last <=> c \in F
    <3>1. CASE A = {}
      BY <2>6, <3>1 DEF FreesInv, FreedTo
    <3>2. CASE A # {}
      <4>1. PICK g \in A : /\ acc.last = ContextOf(l, g)
                           /\ \A h \in A : l.structs[h].part <= l.structs[g].part
        BY <3>2 DEF FreesInv
      <4>2. acc.last \in F
        BY <4>1 DEF FreedTo
      <4>3. ASSUME c \in F PROVE c = acc.last
        <5>1. \A k \in Globals(l) : l.structs[k].kind = "global"
          BY DEF Globals
        <5>2. c \notin A
          BY <2>2, <2>4, <5>1
        <5>3. PICK h \in A : c = ContextOf(l, h)
          BY <4>3, <5>2 DEF FreedTo
        <5>4. h \in Globals(l) /\ g \in Globals(l)
          BY <2>2
        <5>5. l.structs[h].part = l.structs[n].part
          BY <2>1, <5>3, <5>4, AnswerLooks
        <5>6. l.structs[g].part <= l.structs[n].part /\ l.structs[h].part <= l.structs[g].part
          BY <2>4, <4>1
        <5>7. l.structs \in Seq(Structs)
          BY AnswerLooks
        <5>8. \A k \in 1..Len(l.structs) : l.structs[k].part \in Nat
          <6>1. \A k \in 1..Len(l.structs) : l.structs[k] \in Structs
            BY <5>7
          <6> QED BY <6>1 DEF Structs
        <5>9. l.structs[g].part = l.structs[n].part
          BY <2>1, <5>4, <5>5, <5>6, <5>8 DEF Globals
        <5> QED BY <2>1, <4>1, <5>4, <5>9, AnswerLooks
      <4> QED BY <4>2, <4>3
    <3> QED BY <3>1, <3>2
  <2>8. Covers(acc.frees, F)
    BY DEF FreesInv
  <2>9. now.last = c /\ now.frees = acc.frees \o IF c = acc.last THEN <<n>> ELSE <<c, n>>
    BY DEF FreeGlobal
  <2> HIDE DEF F, A, now
  <2>10. Covers(now.frees, F \cup {c, n})
    <3>1. CASE c = acc.last
      <4>1. F \cup {c, n} = F \cup {n}
        BY <2>7, <3>1
      <4>2. now.frees = acc.frees \o <<n>>
        BY <2>9, <3>1
      <4> QED BY <2>5, <2>8, <4>1, <4>2, OnceMore
    <3>2. CASE c # acc.last
      <4> DEFINE with == acc.frees \o <<c>>
      <4>1. c \notin F
        BY <2>7, <3>2
      <4>2. Covers(with, F \cup {c})
        BY <2>8, <4>1, OnceMore
      <4>3. now.frees = with \o <<n>>
        <5>1. now.frees = acc.frees \o <<c, n>>
          BY <2>9, <3>2
        <5>2. acc.frees \in Seq(F)
          BY <2>8 DEF Covers
        <5> HIDE DEF c
        <5>3. acc.frees \in Seq(F \cup {c, n}) /\ <<c, n>> = <<c>> \o <<n>>
          BY <5>2
        <5>4. <<c>> \in Seq(F \cup {c, n}) /\ <<n>> \in Seq(F \cup {c, n})
          OBVIOUS
        <5>5. acc.frees \o (<<c>> \o <<n>>) = (acc.frees \o <<c>>) \o <<n>>
          BY <5>3, <5>4
        <5> QED BY <5>1, <5>3, <5>5
      <4>4. n \notin F \cup {c}
        BY <1>4, <2>4, <2>5
      <4> HIDE DEF with
      <4>5. Covers(with \o <<n>>, (F \cup {c}) \cup {n})
        BY <4>2, <4>4, OnceMore
      <4>6. (F \cup {c}) \cup {n} = F \cup {c, n}
        OBVIOUS
      <4> QED BY <4>3, <4>5, <4>6
    <3> QED BY <3>1, <3>2
  <2>11. \E g \in GlobalsTo(l, n) :
           /\ now.last = ContextOf(l, g)
           /\ \A h \in GlobalsTo(l, n) : l.structs[h].part <= l.structs[g].part
    <3>1. l.structs[n].part <= l.structs[n].part
      BY <2>1, AnswerLooks
    <3> QED BY <2>2, <2>4, <2>9, <3>1
  <2>12. FreesInv(l, now, n)
    BY <2>2, <2>3, <2>10, <2>11 DEF FreesInv
  <2> QED BY <1>4, <2>12 DEF now
<1> QED BY <1>3, <1>4

LEMMA FreesRight ==
  ASSUME NEW l, NamesAnswer(l), l.ids = Answered(l)
  PROVE  FreesOwned(l, globals_dealloc(l))
<1> DEFINE len == Len(l.structs)
           all == FreedTo(l, len)
           q   == globals_dealloc(l)
<1>1. len \in Nat \ {0} /\ l.structs[len].kind = "list" /\ l.structs \in Seq(Structs)
  BY AnswerLooks
<1>2. PICK f : /\ q = f[len].frees \o <<len>>
               /\ \A i \in 0..len : f[i] = Release(f, l, i)
  BY <1>1, FreesTurns
<1>3. FreesInv(l, f[0], 0)
  <2>1. GlobalsTo(l, 0) = {}
    BY <1>1 DEF GlobalsTo, Globals
  <2>2. FreedTo(l, 0) = {}
    BY <2>1 DEF FreedTo
  <2>3. f[0] = [last |-> 0, frees |-> <<>>]
    BY <1>1, <1>2 DEF Release, NoFrees
  <2> QED BY <2>1, <2>2, <2>3 DEF FreesInv, Covers
<1> DEFINE Wrong == {i \in 0..len : ~FreesInv(l, f[i], i)}
<1>4. Wrong = {}
  <2>1. SUFFICES ASSUME Wrong # {} PROVE FALSE
    OBVIOUS
  <2>2. Wrong \subseteq Nat
    OBVIOUS
  <2>3. PICK i \in Wrong : \A j \in Wrong : i <= j
    <3> HIDE DEF Wrong
    <3> QED BY <2>1, <2>2, LeastNatural
  <2>4. i # 0 /\ i \in 0..len /\ i \in Nat
    BY <1>3, <2>3
  <2>5. i - 1 \in 0..len /\ i \in 1..Len(l.structs) /\ FreesInv(l, f[i - 1], i - 1)
    BY <1>1, <2>3, <2>4
  <2>6. f[i] = IF l.structs[i].kind # "global" THEN f[i - 1]
               ELSE FreeGlobal(f[i - 1], ContextOf(l, i), i)
    BY <1>2, <2>4 DEF Release
  <2>7. FreesInv(l, f[i], i)
    BY <2>5, <2>6, FreesStep
  <2> QED BY <2>3, <2>7
<1>5. Covers(f[len].frees, all)
  <2>1. FreesInv(l, f[len], len)
    BY <1>1, <1>4
  <2> QED BY <2>1 DEF FreesInv
<1>6. GlobalsTo(l, len) = Globals(l)
  BY <1>1 DEF GlobalsTo, Globals
<1>7. \A g \in Globals(l) : /\ g \in 1..len /\ l.structs[g].kind = "global"
                            /\ ContextOf(l, g) \in 1..len
                            /\ l.structs[ContextOf(l, g)].kind = "context"
  BY AnswerLooks DEF Globals
<1>8. \A x \in all : x \in 1..len /\ l.structs[x].kind \in {"global", "context"}
  BY <1>6, <1>7 DEF FreedTo
<1> HIDE DEF len, q
<1>9. len \notin all
  BY <1>1, <1>8
<1>10. Covers(q, all \cup {len})
  BY <1>2, <1>5, <1>9, OnceMore
<1>11. all \cup {len} \subseteq l.ids
  <2>1. DOMAIN l.structs = 1..len
    BY <1>1 DEF len
  <2>2. len \in 1..len
    BY <1>1
  <2> QED BY <1>1, <1>8, <2>1, <2>2 DEF Answered, Passing
<1>12. q \in Seq(l.ids) /\ Range(q) = all \cup {len}
  <2>1. /\ q \in Seq(all \cup {len}) /\ DOMAIN q = 1..Len(q)
        /\ \A x \in all \cup {len} : \E i \in 1..Len(q) : q[i] = x
    BY <1>10 DEF Covers
  <2>2. Range(q) = all \cup {len}
    <3>1. \A i \in 1..Len(q) : q[i] \in all \cup {len}
      BY <2>1
    <3>2. Range(q) = {q[i] : i \in 1..Len(q)}
      BY <2>1 DEF Range
    <3> HIDE DEF all
    <3> QED BY <2>1, <3>1, <3>2
  <2> QED BY <1>11, <2>1, <2>2
<1>13. ASSUME NEW k \in l.ids \ (all \cup {len})
       PROVE  l.structs[k].kind = "context" /\ Alone(l, k)
  <2>1. k \in 1..len /\ l.structs[k].kind # "chain"
    BY <1>1 DEF Answered, Passing, len
  <2>2. k \notin Globals(l) /\ \A g \in Globals(l) : ContextOf(l, g) # k
    BY <1>6 DEF FreedTo
  <2>3. l.structs[k].kind # "global"
    BY <2>1, <2>2 DEF Globals, len
  <2>4. l.structs[k].kind # "list"
    BY <2>1, AnswerLooks DEF len
  <2>5. l.structs[k].kind = "context"
    BY <2>1, <2>3, <2>4, AnswerLooks DEF len
  <2> QED BY <2>1, <2>2, <2>5, AnswerLooks DEF len
<1> QED BY <1>10, <1>12, <1>13 DEF FreesOwned, Covers, q

-------------------------------------------------------------------------------
(* The invariant of the session.                                            *)

LEMMA SessionInit == Init => IInv
<1> SUFFICES ASSUME Init PROVE IInv
  OBVIOUS
<1>1. SectionInv
  BY SectionInit
<1>2. /\ structs = {} /\ lists = {} /\ calls = 0 /\ faultless = TRUE /\ misfreed = FALSE
      /\ MaxCalls \in Nat
  BY SessionAssumption DEF Init
<1>3. calls \in 0..MaxCalls
  BY <1>2
<1>4. ListInv
  <2>1. faultless \in BOOLEAN /\ misfreed \in BOOLEAN
    BY <1>2
  <2> QED BY <1>2, <1>3, <2>1 DEF ListInv
<1>5. NoneStray
  BY <1>2 DEF NoneStray
<1> QED BY <1>1, <1>4, <1>5 DEF IInv

(* dwarf_init() has nothing to do with them, as there are none yet.         *)
LEMMA OpeningKeepsLists ==
  ASSUME ListInv, NoneStray, Opening
  PROVE  ListInv' /\ NoneStray'
<1>1. UNCHANGED <<structs, lists, calls, faultless, misfreed>>
  BY DEF Opening, rvars
<1>2. phase = "closed"
  BY DEF Opening, OpenRefused, OpenWorks, OpenNoMemory, OpenFails
<1>3. structs = {} /\ lists = {}
  BY <1>2 DEF ListInv
<1> QED BY <1>1, <1>3 DEF ListInv, NoneStray

LEMMA StutterKeepsLists ==
  ASSUME ListInv, NoneStray, UNCHANGED vars
  PROVE  ListInv' /\ NoneStray'
<1>1. UNCHANGED <<structs, lists, calls, faultless, misfreed, object, phase, secs>>
  BY DEF vars, svars, rvars
<1>2. \A c : OfCall(c)' = OfCall(c)
  BY <1>1 DEF OfCall
<1>3. \A l : AnswerTyped(l)' = AnswerTyped(l)
  BY <1>1 DEF AnswerTyped
<1>4. \A s : Led(s)' = Led(s)
  BY <1>1 DEF Led
<1> QED BY <1>1, <1>2, <1>3, <1>4 DEF ListInv, NoneStray

LEMMA SessionNext == IInv /\ [Next]_vars => IInv'
<1> SUFFICES ASSUME SectionInv, ListInv, NoneStray, [Next]_vars PROVE IInv'
  BY DEF IInv
<1>1. SectionInv'
  BY SectionNext
<1>2. CASE Opening
  BY <1>1, <1>2, OpeningKeepsLists DEF IInv
<1>3. CASE Reading
  <2>1. PICK st : Reads(st) /\ (GivesNone \/ \E l : GivesOne(l))
    BY <1>3, InvReads DEF ReadStep
  <2> QED BY <1>1, <2>1, ReadKeepsLists, ReadStrays DEF IInv
<1>4. ASSUME NEW list \in lists, Dealloc(list) PROVE IInv'
  <2>1. AnswerTyped(list) /\ list.ids = Answered(list) /\ object \in Objects
    BY DEF ListInv, SectionInv, AnswerTyped
  <2>2. list.api \in NameApis => FreesOwned(list, globals_dealloc(list))
    BY <2>1, AnswerOfNames, FreesRight
  <2> QED BY <1>1, <1>4, <2>2, DeallocKeepsLists, DeallocStrays DEF IInv
<1>5. CASE Close
  BY <1>1, <1>5, CloseKeepsLists DEF IInv
<1>6. CASE UNCHANGED vars
  BY <1>1, <1>6, StutterKeepsLists DEF IInv
<1> QED BY <1>2, <1>3, <1>4, <1>5, <1>6 DEF Next

LEMMA SessionInvariant == Spec => []IInv
<1>1. Init => IInv
  BY SessionInit
<1>2. IInv /\ [Next]_vars => IInv'
  BY SessionNext
<1> QED BY <1>1, <1>2, PTL DEF Spec

(* _dwarf_setup() gathers what the headers say taken together, and after    *)
(* dwarf_finish() or a dwarf_init() that failed nothing of the sections is  *)
(* left.                                                                   *)
THEOREM SetupRightAlways == Spec => []SetupRight
<1>1. IInv => SetupRight
  BY DEF IInv, SectionInv, SetupRight
<1> QED BY <1>1, SessionInvariant, PTL

(* .debug_info is in memory only with .debug_abbrev, and the heap holds the *)
(* copies the sections point to and no other.                              *)
THEOREM InfoHasAbbrevAlways == Spec => []InfoHasAbbrev
<1>1. IInv => InfoHasAbbrev
  <2>1. SUFFICES ASSUME IInv PROVE InfoHasAbbrev
    OBVIOUS
  <2>2. InfoAfter(secs) /\ LoadRight(Found)
    BY <2>1 DEF IInv, SectionInv
  <2>3. \A n \in Names : DataRight(secs[n], <<"copy", n>> \in heap)
    BY <2>2 DEF LoadRight, Found
  <2>4. \A n \in Names : (secs[n].dss_data = "copy") <=> (<<"copy", n>> \in heap)
    BY <2>3 DEF DataRight
  <2> QED BY <2>2, <2>4 DEF InfoAfter, InfoHasAbbrev
<1> QED BY <1>1, SessionInvariant, PTL

(* The variables of the session have their types.                           *)
THEOREM TypesRight == Spec => []TypeOK
<1>1. IInv => TypeOK
  <2>1. SUFFICES ASSUME IInv PROVE TypeOK
    OBVIOUS
  <2>2. /\ object \in Objects /\ owned \in BOOLEAN /\ apply \in BOOLEAN /\ access \in BOOLEAN
        /\ phase \in Phases /\ elf \in {"none", "open", "ended"} /\ result \in Results
        /\ LoadRight(Found)
    BY <2>1 DEF IInv, SectionInv
  <2>3. /\ secs \in [Names -> Secs] /\ symtab \in BOOLEAN
        /\ heap \in SUBSET ({"copy", "relas"} \X Names)
    <3>1. Found.secs \in [Names -> Secs] /\ Found.symtab \in BOOLEAN
      BY <2>2, LoadFields
    <3>2. Found.heap \in SUBSET ({"copy", "relas"} \X Names)
      <4>1. \A st \in Loads : st.heap \in SUBSET ({"copy", "relas"} \X Names)
        BY DEF Loads
      <4> QED BY <2>2, <4>1 DEF LoadRight
    <3> QED BY <3>1, <3>2 DEF Found
  <2>4. \A n \in Names : secs[n].dss_index = 0 => secs[n].dss_data = NULL
    BY <2>2 DEF LoadRight, DataRight, Found
  <2>5. {owned, apply, symtab, access} \subseteq BOOLEAN
    BY <2>2, <2>3
  <2>6. STypeOK
    BY <2>2, <2>3, <2>4, <2>5 DEF STypeOK, Phases, Secs, Results
  <2>7. /\ structs \subseteq [call : 0..MaxCalls, at : Nat, alone : BOOLEAN, kind : Kinds]
        /\ calls \in 0..MaxCalls /\ {faultless, misfreed} \subseteq BOOLEAN
    BY <2>1 DEF IInv, ListInv
  <2> QED BY <2>6, <2>7 DEF TypeOK
<1> QED BY <1>1, SessionInvariant, PTL

(* An answer keeps its section and its structs until it is given back or    *)
(* the Dwarf_Debug is finished, _dwarf_internal_globals_dealloc() frees what *)
(* the answer is made of and nothing twice, and without a failure all that *)
(* is left allocated, before dwarf_finish() and after it, is of an answer   *)
(* that was not given back, or the context of a set without names.         *)
THEOREM AnswersStayOwnedAlways == Spec => []AnswersStayOwned
<1>1. IInv => AnswersStayOwned
  <2>1. SUFFICES ASSUME IInv PROVE AnswersStayOwned
    OBVIOUS
  <2>2. ASSUME phase = "open", NEW l \in lists
        PROVE  /\ secs[l.from].dss_data = l.data /\ l.data # NULL
               /\ \A k \in l.ids : \E s \in structs : s.call = l.call /\ s.at = k
    <3>1. /\ secs[l.from].dss_data = l.data /\ l.data # NULL
          /\ OfCall(l.call) = {StructOf(l, k) : k \in l.ids}
      BY <2>1, <2>2 DEF IInv, ListInv
    <3>2. ASSUME NEW k \in l.ids PROVE \E s \in structs : s.call = l.call /\ s.at = k
      <4>1. StructOf(l, k) \in OfCall(l.call)
        BY <3>1
      <4>2. StructOf(l, k) \in structs /\ StructOf(l, k).call = l.call
        BY <4>1 DEF OfCall
      <4> QED BY <4>2 DEF StructOf
    <3> QED BY <3>1, <3>2
  <2>3. ListsStayValid
    BY <2>2 DEF ListsStayValid
  <2>4. NothingStrays
    BY <2>1 DEF IInv, NoneStray, Led, NothingStrays
  <2> QED BY <2>3, <2>4 DEF AnswersStayOwned
<1> QED BY <1>1, SessionInvariant, PTL
===============================================================================
