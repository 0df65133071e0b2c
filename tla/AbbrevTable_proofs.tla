--------------------------- MODULE AbbrevTable_proofs ---------------------------
(***************************************************************************)
(* Theorems about the abbreviation table of a CU, for every list of         *)
(* declarations, every sequence of lookups and every allocation that fails. *)
(***************************************************************************)
EXTENDS AbbrevTable, FiniteSetTheorems, WellFoundedInduction, TLAPS

Entry == [ab_code : Nat, ab_abbrev_ptr : Nat]

Made == 1..Len(entries)

(* The chains of a table: an entry is on the chain of its hash, once.         *)
Sound(chains, es) ==
  /\ chains \in Seq(Seq(Nat))
  /\ \A h \in 1..Len(chains) :
       /\ \A i \in 1..Len(chains[h]) :
            /\ chains[h][i] \in 1..Len(es)
            /\ Hash(es[chains[h][i]].ab_code, Len(chains)) + 1 = h
       /\ \A i, j \in 1..Len(chains[h]) : chains[h][i] = chains[h][j] => i = j

Types ==
  /\ entries \in Seq(Entry)
  /\ \A e \in Made : /\ entries[e].ab_abbrev_ptr \in 1..Len(Abbrevs)
                     /\ Abbrevs[entries[e].ab_abbrev_ptr] = entries[e].ab_code
  /\ tb_table_entry_count \in Nat /\ tb_total_abbrev_count \in Nat
  /\ newht = [tb_entries |-> newht.tb_entries,
              tb_total_abbrev_count |-> newht.tb_total_abbrev_count]
  /\ cc_last_abbrev_ptr \in 1..(Len(Abbrevs) + 1) /\ abbrev_ptr \in 1..(Len(Abbrevs) + 1)
  /\ pc \in {"open", "copy", "look", "scan", "finished", "crashed"}
  /\ code \in Nat /\ answer \in 0..Len(entries) /\ held \in SUBSET Made
  /\ short \in BOOLEAN /\ lasted \in BOOLEAN

(* Every entry is on a chain: of the table, or, once it has moved, of the     *)
(* larger one.                                                             *)
TableInv ==
  /\ Sound(tb_entries, entries) /\ Sound(newht.tb_entries, entries)
  /\ On(tb_entries) \cup On(newht.tb_entries) = Made
  /\ On(tb_entries) \cap On(newht.tb_entries) = {}
  /\ tb_entries # <<>> => Len(tb_entries) = tb_table_entry_count
  /\ tb_total_abbrev_count = Len(entries)
  /\ newht.tb_total_abbrev_count = Cardinality(On(newht.tb_entries))
  /\ pc \in {"copy", "look", "scan"} => tb_entries # <<>>
  /\ pc = "copy" => newht.tb_entries # <<>>
  /\ pc # "copy" => newht = NoTable

(* The first abbreviation that has no entry, as far as a scan that fails is    *)
(* to be believed.                                                         *)
Position == IF pc = "scan" THEN abbrev_ptr ELSE cc_last_abbrev_ptr

ScanInv ==
  /\ \A i \in 1..(Position - 1) : \E e \in Made : entries[e].ab_abbrev_ptr = i
  /\ lasted => /\ Len(entries) = Position - 1
               /\ \A e \in Made : entries[e].ab_abbrev_ptr = e
  /\ pc = "scan" =>
       /\ abbrev_ptr <= Len(Abbrevs) /\ cc_last_abbrev_ptr <= abbrev_ptr
       /\ \A i \in 1..(abbrev_ptr - 1) : Abbrevs[i] # code

IInv == Types /\ TableInv /\ ScanInv /\ LookupIsRight
-------------------------------------------------------------------------------
(* Chains.                                                                 *)

LEMMA LeastNatural ==
  ASSUME NEW S \in SUBSET Nat, S # {}
  PROVE  \E m \in S : \A k \in S : m <= k
<1> DEFINE R == OpToRel(<, Nat)
<1>1. IsWellFoundedOn(R, Nat)
  BY NatLessThanWellFounded
<1> HIDE DEF R
<1>2. PICK m \in S : \A k \in S : ~(<<k, m>> \in R)
  BY <1>1, WFMin
<1>3. \A k \in S : k < m => <<k, m>> \in R
  BY DEF R, OpToRel
<1>4. \A k \in S : ~(k < m)
  BY <1>2, <1>3
<1> QED
  BY <1>4

LEMMA HashRange ==
  ASSUME NEW c \in Nat, NEW count \in Nat \ {0}
  PROVE  Hash(c, count) \in 0..(count - 1)
<1>1. c % UnsignedSize \in Nat
  BY AbbrevAssumption
<1> QED
  BY <1>1 DEF Hash

(* A chain with an entry before it, and without its first.                    *)
LEMMA Longer ==
  ASSUME NEW s \in Seq(Nat), NEW e \in Nat
  PROVE  /\ <<e>> \o s \in Seq(Nat) /\ Len(<<e>> \o s) = Len(s) + 1
         /\ \A i \in 1..(Len(s) + 1) : (<<e>> \o s)[i] = IF i = 1 THEN e ELSE s[i - 1]
  OBVIOUS

LEMMA Shorter ==
  ASSUME NEW s \in Seq(Nat), s # <<>>
  PROVE  /\ Tail(s) \in Seq(Nat) /\ Len(Tail(s)) = Len(s) - 1 /\ Len(s) \in Nat \ {0}
         /\ \A i \in 1..(Len(s) - 1) : Tail(s)[i] = s[i + 1]
         /\ Head(s) = s[1] /\ s[1] \in Nat
  OBVIOUS

LEMMA Replaced ==
  ASSUME NEW chains \in Seq(Seq(Nat)), NEW k \in 1..Len(chains), NEW s \in Seq(Nat)
  PROVE  LET new == [chains EXCEPT ![k] = s]
         IN /\ new \in Seq(Seq(Nat)) /\ Len(new) = Len(chains)
            /\ \A h \in 1..Len(chains) : new[h] = IF h = k THEN s ELSE chains[h]
<1> DEFINE T == Seq(Nat)
<1>1. chains \in Seq(T) /\ s \in T
  OBVIOUS
<1> HIDE DEF T
<1>2. /\ [chains EXCEPT ![k] = s] \in Seq(T) /\ Len([chains EXCEPT ![k] = s]) = Len(chains)
      /\ \A h \in 1..Len(chains) : [chains EXCEPT ![k] = s][h] = IF h = k THEN s ELSE chains[h]
  BY <1>1
<1> QED
  BY <1>2 DEF T

(* What is on the chains.                                                    *)
LEMMA OnIs ==
  ASSUME NEW chains, NEW e
  PROVE  e \in On(chains) <=>
           \E h \in 1..Len(chains) : \E i \in 1..Len(chains[h]) : chains[h][i] = e
  BY DEF On

LEMMA HashAt ==
  ASSUME NEW es, NEW chains, Sound(chains, es),
         NEW h \in 1..Len(chains), NEW i \in 1..Len(chains[h])
  PROVE  Hash(es[chains[h][i]].ab_code, Len(chains)) + 1 = h
  BY DEF Sound

LEMMA InsertSound ==
  ASSUME NEW es \in Seq(Entry), NEW chains, Sound(chains, es), chains # <<>>,
         NEW e \in 1..Len(es), e \notin On(chains)
  PROVE  /\ Sound(Insert(chains, e, es[e].ab_code), es)
         /\ On(Insert(chains, e, es[e].ab_code)) = On(chains) \cup {e}
         /\ Len(Insert(chains, e, es[e].ab_code)) = Len(chains)
         /\ Insert(chains, e, es[e].ab_code) # <<>>
<1> DEFINE m == Len(chains)
           k == Hash(es[e].ab_code, m) + 1
           s == chains[k]
           t == <<e>> \o s
           new == [chains EXCEPT ![k] = t]
<1>1. chains \in Seq(Seq(Nat)) /\ m \in Nat \ {0}
  BY DEF Sound
<1>2. es[e].ab_code \in Nat /\ e \in Nat
  <2>1. es[e] \in Entry
    OBVIOUS
  <2> QED
    BY <2>1 DEF Entry
<1>3. k \in 1..m
  <2>1. Hash(es[e].ab_code, m) \in 0..(m - 1)
    BY <1>1, <1>2, HashRange
  <2> HIDE DEF m
  <2> QED
    BY <1>1, <2>1
<1>4. s \in Seq(Nat)
  BY <1>1, <1>3
<1>5. /\ t \in Seq(Nat) /\ Len(t) = Len(s) + 1
      /\ \A i \in 1..(Len(s) + 1) : t[i] = IF i = 1 THEN e ELSE s[i - 1]
  BY <1>2, <1>4, Longer
<1>6. Insert(chains, e, es[e].ab_code) = new
  BY DEF Insert
<1>7. /\ \A i \in 1..Len(s) : /\ s[i] \in 1..Len(es) /\ s[i] # e
                              /\ Hash(es[s[i]].ab_code, m) + 1 = k
      /\ \A i, j \in 1..Len(s) : s[i] = s[j] => i = j
  <2>1. \A i \in 1..Len(s) : s[i] # e
    BY <1>3, OnIs
  <2> QED
    BY <1>3, <2>1 DEF Sound
<1>8. Hash(es[e].ab_code, m) + 1 = k
  OBVIOUS
<1> HIDE DEF k, s, t
<1>9. /\ new \in Seq(Seq(Nat)) /\ Len(new) = m
      /\ \A h \in 1..m : new[h] = IF h = k THEN t ELSE chains[h]
  BY <1>1, <1>3, <1>5, Replaced
<1>10. /\ \A i \in 1..Len(t) : t[i] \in 1..Len(es) /\ Hash(es[t[i]].ab_code, m) + 1 = k
       /\ \A i, j \in 1..Len(t) : t[i] = t[j] => i = j
  <2>1. \A i \in 1..Len(t) : i = 1 \/ i - 1 \in 1..Len(s)
    BY <1>4, <1>5
  <2>2. \A i \in 1..Len(t) : t[i] = IF i = 1 THEN e ELSE s[i - 1]
    BY <1>5
  <2>3. ASSUME NEW i \in 1..Len(t)
        PROVE  t[i] \in 1..Len(es) /\ Hash(es[t[i]].ab_code, m) + 1 = k
    <3>1. CASE i = 1
      BY <1>8, <2>2, <3>1
    <3>2. CASE i # 1
      <4>1. i - 1 \in 1..Len(s) /\ t[i] = s[i - 1]
        BY <2>1, <2>2, <3>2
      <4> HIDE DEF m
      <4> QED
        BY <1>7, <4>1
    <3> QED
      BY <3>1, <3>2
  <2>4. ASSUME NEW i \in 1..Len(t), NEW j \in 1..Len(t), t[i] = t[j]
        PROVE  i = j
    <3>1. CASE i = 1 /\ j = 1
      BY <3>1
    <3>2. CASE i = 1 /\ j # 1
      BY <1>7, <2>1, <2>2, <2>4, <3>2
    <3>3. CASE i # 1 /\ j = 1
      BY <1>7, <2>1, <2>2, <2>4, <3>3
    <3>4. CASE i # 1 /\ j # 1
      <4>1. i - 1 = j - 1
        BY SMTT(30), <1>7, <2>1, <2>2, <2>4, <3>4
      <4> QED
        BY <4>1
    <3> QED
      BY <3>1, <3>2, <3>3, <3>4
  <2> QED
    BY <2>3, <2>4
<1>11. Sound(new, es)
  <2>1. ASSUME NEW h \in 1..m
        PROVE  /\ \A i \in 1..Len(new[h]) : /\ new[h][i] \in 1..Len(es)
                                            /\ Hash(es[new[h][i]].ab_code, m) + 1 = h
               /\ \A i, j \in 1..Len(new[h]) : new[h][i] = new[h][j] => i = j
    <3>1. CASE h = k
      BY <1>9, <1>10, <3>1
    <3>2. CASE h # k
      <4>1. new[h] = chains[h]
        BY <1>9, <3>2
      <4> HIDE DEF new
      <4> QED
        BY <4>1 DEF Sound
    <3> QED
      BY <3>1, <3>2
  <2> HIDE DEF new
  <2> QED
    BY <1>9, <2>1 DEF Sound
<1>12. \A x : x \in On(new) <=> x \in On(chains) \/ x = e
  <2> SUFFICES ASSUME NEW x
               PROVE  x \in On(new) <=> x \in On(chains) \/ x = e
    OBVIOUS
  <2>1. x \in On(new) <=>
           \/ \E i \in 1..Len(t) : t[i] = x
           \/ \E h \in 1..m : h # k /\ \E i \in 1..Len(chains[h]) : chains[h][i] = x
    <3> HIDE DEF new
    <3>1. x \in On(new) <=> \E h \in 1..Len(new) : \E i \in 1..Len(new[h]) : new[h][i] = x
      BY OnIs
    <3>2. Len(new) = m /\ new[k] = t /\ \A h \in 1..m : h # k => new[h] = chains[h]
      BY <1>3, <1>9
    <3> HIDE DEF m
    <3> QED
      BY <1>3, <3>1, <3>2
  <2>2. (\E i \in 1..Len(t) : t[i] = x) <=> x = e \/ \E i \in 1..Len(s) : s[i] = x
    <3>1. Len(s) \in Nat /\ t[1] = e /\ \A i \in 1..Len(s) : i + 1 \in 1..Len(t) /\ t[i + 1] = s[i]
      BY <1>4, <1>5
    <3>2. \A i \in 1..Len(t) : i = 1 \/ (i - 1 \in 1..Len(s) /\ t[i] = s[i - 1])
      BY <1>4, <1>5
    <3>3. ASSUME x = e \/ \E i \in 1..Len(s) : s[i] = x
          PROVE  \E i \in 1..Len(t) : t[i] = x
      <4>1. 1 \in 1..Len(t)
        BY <1>5, <3>1
      <4> QED
        BY <3>1, <3>3, <4>1
    <3>4. ASSUME NEW i \in 1..Len(t), t[i] = x
          PROVE  x = e \/ \E j \in 1..Len(s) : s[j] = x
      BY <3>1, <3>2, <3>4
    <3> QED
      BY <3>3, <3>4
  <2>3. x \in On(chains) <=> \E h \in 1..m : \E i \in 1..Len(chains[h]) : chains[h][i] = x
    BY OnIs
  <2>4. s = chains[k]
    BY DEF s
  <2> QED
    BY <1>3, <2>1, <2>2, <2>3, <2>4
<1>13. On(new) = On(chains) \cup {e}
  BY <1>12
<1>14. Len(new) = Len(chains) /\ new # <<>>
  BY <1>1, <1>9
<1> HIDE DEF new
<1> QED
  BY <1>6, <1>11, <1>13, <1>14

LEMMA TakeSound ==
  ASSUME NEW es \in Seq(Entry), NEW chains, Sound(chains, es),
         NEW k \in 1..Len(chains), chains[k] # <<>>
  PROVE  LET new == [chains EXCEPT ![k] = Tail(@)]
         IN /\ Sound(new, es) /\ Len(new) = Len(chains) /\ new # <<>>
            /\ Head(chains[k]) \in On(chains) /\ Head(chains[k]) \in 1..Len(es)
            /\ On(new) = On(chains) \ {Head(chains[k])}
<1> DEFINE m == Len(chains)
           s == chains[k]
           t == Tail(s)
           e == Head(s)
           new == [chains EXCEPT ![k] = t]
<1>1. chains \in Seq(Seq(Nat)) /\ m \in Nat \ {0} /\ s \in Seq(Nat) /\ s # <<>>
  BY DEF Sound
<1>2. /\ t \in Seq(Nat) /\ Len(t) = Len(s) - 1 /\ Len(s) \in Nat \ {0}
      /\ \A i \in 1..(Len(s) - 1) : t[i] = s[i + 1]
      /\ e = s[1]
  BY <1>1, Shorter
<1>3. /\ \A i \in 1..Len(s) : s[i] \in 1..Len(es) /\ Hash(es[s[i]].ab_code, m) + 1 = k
      /\ \A i, j \in 1..Len(s) : s[i] = s[j] => i = j
  BY DEF Sound
<1>4. 1 \in 1..Len(s) /\ e \in 1..Len(es) /\ e \in On(chains)
  <2>1. 1 \in 1..Len(s)
    BY <1>2
  <2> QED
    BY <1>2, <1>3, <2>1, OnIs
<1>5. s = chains[k] /\ [chains EXCEPT ![k] = Tail(@)] = new
  OBVIOUS
<1> HIDE DEF s, t, e
<1>6. /\ new \in Seq(Seq(Nat)) /\ Len(new) = m
      /\ \A h \in 1..m : new[h] = IF h = k THEN t ELSE chains[h]
  BY SMTT(30), <1>1, <1>2, Replaced
<1> HIDE DEF new
<1>7. \A i \in 1..Len(t) : i + 1 \in 1..Len(s) /\ t[i] = s[i + 1] /\ i + 1 # 1
  BY <1>2
<1>8. /\ \A i \in 1..Len(t) : t[i] \in 1..Len(es) /\ Hash(es[t[i]].ab_code, m) + 1 = k
      /\ \A i, j \in 1..Len(t) : t[i] = t[j] => i = j
  <2>1. \A i \in 1..Len(t) : t[i] \in 1..Len(es) /\ Hash(es[t[i]].ab_code, m) + 1 = k
    <3> HIDE DEF m
    <3> QED
      BY <1>3, <1>7
  <2>2. ASSUME NEW i \in 1..Len(t), NEW j \in 1..Len(t), t[i] = t[j]
        PROVE  i = j
    <3>1. i + 1 = j + 1
      BY <1>3, <1>7, <2>2
    <3> QED
      BY <3>1
  <2> QED
    BY <2>1, <2>2
<1>9. Sound(new, es)
  <2>1. ASSUME NEW h \in 1..m
        PROVE  /\ \A i \in 1..Len(new[h]) : /\ new[h][i] \in 1..Len(es)
                                            /\ Hash(es[new[h][i]].ab_code, m) + 1 = h
               /\ \A i, j \in 1..Len(new[h]) : new[h][i] = new[h][j] => i = j
    <3>1. CASE h = k
      BY SMTT(30), <1>6, <1>8, <3>1
    <3>2. CASE h # k
      <4>1. new[h] = chains[h]
        BY <1>6, <3>2
      <4> QED
        BY <4>1 DEF Sound
    <3> QED
      BY <3>1, <3>2
  <2> QED
    BY <1>6, <2>1 DEF Sound
<1>10. ASSUME NEW x
       PROVE  x \in On(new) <=> x \in On(chains) /\ x # e
  <2>1. x \in On(new) <=> \E h \in 1..Len(new) : \E i \in 1..Len(new[h]) : new[h][i] = x
    BY OnIs
  <2>2. x \in On(chains) <=> \E h \in 1..m : \E i \in 1..Len(chains[h]) : chains[h][i] = x
    BY OnIs
  <2>3. (\E i \in 1..Len(t) : t[i] = x) <=> x # e /\ \E i \in 1..Len(s) : s[i] = x
    <3>1. ASSUME NEW i \in 1..Len(t), t[i] = x
          PROVE  x # e /\ \E j \in 1..Len(s) : s[j] = x
      BY <1>2, <1>3, <1>4, <1>7, <3>1
    <3>2. ASSUME x # e, NEW i \in 1..Len(s), s[i] = x
          PROVE  \E j \in 1..Len(t) : t[j] = x
      <4>1. i - 1 \in 1..Len(t) /\ t[i - 1] = s[i]
        BY <1>2, <3>2
      <4> QED
        BY <3>2, <4>1
    <3> QED
      BY <3>1, <3>2
  <2>4. Len(new) = m /\ new[k] = t /\ \A h \in 1..m : h # k => new[h] = chains[h]
    BY <1>6
  <2>5. ASSUME NEW h \in 1..m, h # k, NEW i \in 1..Len(chains[h])
        PROVE  chains[h][i] # e
    <3>1. /\ Hash(es[chains[h][i]].ab_code, m) + 1 = h
      BY <2>5 DEF Sound
    <3>2. Hash(es[e].ab_code, m) + 1 = k
      BY <1>2, <1>3, <1>4
    <3> QED
      BY <2>5, <3>1, <3>2
  <2> HIDE DEF m
  <2>6. ASSUME x \in On(new)
        PROVE  x \in On(chains) /\ x # e
    <3>1. PICK h \in 1..m : \E i \in 1..Len(new[h]) : new[h][i] = x
      BY <2>1, <2>4, <2>6
    <3>2. CASE h = k
      BY <1>5, <2>2, <2>3, <2>4, <3>1, <3>2
    <3>3. CASE h # k
      BY <2>2, <2>4, <2>5, <3>1, <3>3
    <3> QED
      BY <3>2, <3>3
  <2>7. ASSUME x \in On(chains), x # e
        PROVE  x \in On(new)
    <3>1. PICK h \in 1..m : \E i \in 1..Len(chains[h]) : chains[h][i] = x
      BY <2>2, <2>7
    <3>2. CASE h = k
      <4>1. \E i \in 1..Len(t) : t[i] = x
        BY <1>5, <2>3, <2>7, <3>1, <3>2
      <4> QED
        BY <2>1, <2>4, <3>2, <4>1
    <3>3. CASE h # k
      BY <2>1, <2>4, <3>1, <3>3
    <3> QED
      BY <3>2, <3>3
  <2> QED
    BY <2>6, <2>7
<1>11. On(new) = On(chains) \ {e}
  BY <1>10
<1>12. Len(new) = Len(chains) /\ new # <<>>
  BY <1>1, <1>6
<1>13. e = Head(chains[k])
  BY DEF e, s
<1> QED
  BY <1>4, <1>5, <1>9, <1>11, <1>12, <1>13

(* A table without entries.                                                  *)
LEMMA EmptySound ==
  ASSUME NEW count \in Nat \ {0}, NEW es
  PROVE  /\ Sound(NoChains(count), es) /\ On(NoChains(count)) = {}
         /\ Len(NoChains(count)) = count /\ NoChains(count) # <<>>
<1> DEFINE T == Seq(Nat)
           new == [h \in 1..count |-> <<>>]
<1>1. <<>> \in T /\ Len(<<>>) = 0
  OBVIOUS
<1> HIDE DEF T
<1>2. new \in Seq(T) /\ Len(new) = count /\ \A h \in 1..count : new[h] = <<>>
  BY <1>1
<1>3. Sound(new, es)
  BY <1>1, <1>2 DEF Sound, T
<1>4. \A x : x \notin On(new)
  <2> HIDE DEF new
  <2> QED
    BY <1>1, <1>2 DEF On
<1> QED
  BY <1>2, <1>3, <1>4 DEF NoChains

LEMMA NoneSound ==
  ASSUME NEW es
  PROVE  Sound(<<>>, es) /\ On(<<>>) = {}
  BY DEF Sound, On

(* An entry more is no matter for the chains.                                 *)
LEMMA GrownSound ==
  ASSUME NEW es \in Seq(Entry), NEW x \in Entry, NEW chains, Sound(chains, es)
  PROVE  Sound(chains, Append(es, x))
<1> DEFINE fs == Append(es, x)
<1>1. Len(es) \in Nat /\ Len(fs) = Len(es) + 1 /\ \A e \in 1..Len(es) : fs[e] = es[e]
  OBVIOUS
<1> HIDE DEF fs
<1>2. Sound(chains, fs)
  <2>1. \A e \in 1..Len(es) : e \in 1..Len(fs) /\ fs[e] = es[e]
    BY <1>1
  <2> QED
    BY <2>1 DEF Sound
<1> QED
  BY <1>2 DEF fs

(* All entries with a code are on its chain.                                  *)
LEMMA LookupFinds ==
  ASSUME entries \in Seq(Entry), NEW chains, Sound(chains, entries), chains # <<>>, NEW c \in Nat
  PROVE  /\ Lookup(chains, c) # NULL => /\ Lookup(chains, c) \in Made
                                        /\ entries[Lookup(chains, c)].ab_code = c
         /\ Lookup(chains, c) = NULL => \A e \in On(chains) : entries[e].ab_code # c
<1> DEFINE m == Len(chains)
           k == Hash(c, m) + 1
           s == chains[k]
           match == {i \in 1..Len(s) : entries[s[i]].ab_code = c}
<1>1. chains \in Seq(Seq(Nat)) /\ m \in Nat \ {0}
  BY DEF Sound
<1>2. k \in 1..m
  <2>1. Hash(c, m) \in 0..(m - 1)
    BY <1>1, HashRange
  <2> HIDE DEF m
  <2> QED
    BY <1>1, <2>1
<1>3. Lookup(chains, c) = IF match = {} THEN NULL
                          ELSE s[CHOOSE i \in match : \A j \in match : i <= j]
  BY DEF Lookup
<1>4. \A i \in 1..Len(s) : s[i] \in Made
  BY <1>2 DEF Sound, Made
<1>5. CASE match # {}
  <2>1. match \in SUBSET Nat
    OBVIOUS
  <2> DEFINE f == CHOOSE i \in match : \A j \in match : i <= j
  <2>2. f \in match
    BY <1>5, <2>1, LeastNatural
  <2>3. s[f] \in Made /\ entries[s[f]].ab_code = c
    BY <1>4, <2>2
  <2>4. Lookup(chains, c) = s[f]
    BY <1>3, <1>5
  <2> HIDE DEF f, s
  <2>5. s[f] # NULL
    BY <2>3 DEF Made, NULL
  <2> QED
    BY <2>3, <2>4, <2>5
<1>6. CASE match = {}
  <2>1. Lookup(chains, c) = NULL
    BY <1>3, <1>6
  <2>2. ASSUME NEW e \in On(chains), entries[e].ab_code = c
        PROVE  FALSE
    <3>1. PICK h \in 1..m : \E i \in 1..Len(chains[h]) : chains[h][i] = e
      BY OnIs
    <3>2. PICK i \in 1..Len(chains[h]) : chains[h][i] = e
      BY <3>1
    <3>3. h = k
      BY <2>2, <3>2 DEF Sound
    <3> QED
      BY <1>6, <2>2, <3>2, <3>3
  <2> QED
    BY <2>1, <2>2
<1> QED
  BY <1>5, <1>6

-------------------------------------------------------------------------------
(* The steps.                                                              *)

LEMMA Sizes ==
  /\ Len(Abbrevs) \in Nat /\ HT_MULTIPLE \in Nat \ {0}
  /\ \A i \in 1..Len(Abbrevs) : Abbrevs[i] \in Nat \ {0}
  /\ \A c \in Codes : c \in Nat \ {0}
  BY AbbrevAssumption

LEMMA OnIsFinite ==
  ASSUME IInv
  PROVE  /\ Len(entries) \in Nat /\ IsFiniteSet(Made) /\ Cardinality(Made) = Len(entries)
         /\ IsFiniteSet(On(newht.tb_entries))
<1>1. Len(entries) \in Nat
  BY DEF IInv, Types
<1>2. IsFiniteSet(Made) /\ Cardinality(Made) = Len(entries)
  BY SMTT(30), <1>1, FS_Interval DEF Made
<1> QED
  BY <1>1, <1>2, FS_Subset DEF IInv, TableInv

(* A step that makes no entry: what is said of the entries stays.             *)
LEMMA TypesStay ==
  ASSUME Types, entries' = entries, tb_table_entry_count' \in Nat,
         tb_total_abbrev_count' \in Nat,
         newht' = [tb_entries |-> newht'.tb_entries,
                   tb_total_abbrev_count |-> newht'.tb_total_abbrev_count],
         cc_last_abbrev_ptr' \in 1..(Len(Abbrevs) + 1), abbrev_ptr' \in 1..(Len(Abbrevs) + 1),
         pc' \in {"open", "copy", "look", "scan", "finished", "crashed"},
         code' \in Nat, answer' \in 0..Len(entries), held' \in SUBSET Made,
         short' \in BOOLEAN, lasted' \in BOOLEAN
  PROVE  Types'
  BY DEF Types, Made

LEMMA ScanStays ==
  ASSUME Types, ScanInv, entries' = entries, pc # "scan", pc' # "scan",
         cc_last_abbrev_ptr' = cc_last_abbrev_ptr, lasted' => lasted
  PROVE  ScanInv'
  BY DEF ScanInv, Position, Made

LEMMA GetFirstKeeps ==
  ASSUME IInv, NEW c \in Codes, GetFirst(c)
  PROVE  IInv'
<1> USE DEF IInv
<1>1. /\ pc = "open" /\ tb_entries = <<>> /\ code' = c /\ tb_table_entry_count' = HT_MULTIPLE
      /\ tb_total_abbrev_count' = 0 /\ entries' = entries /\ newht' = newht
      /\ cc_last_abbrev_ptr' = cc_last_abbrev_ptr /\ abbrev_ptr' = abbrev_ptr
      /\ \/ /\ tb_entries' = NoChains(HT_MULTIPLE) /\ pc' = "look"
            /\ answer' = answer /\ short' = short /\ lasted' = lasted
         \/ /\ tb_entries' = <<>> /\ pc' = "open" /\ answer' = NULL /\ short' = TRUE
            /\ lasted' = FALSE
      /\ held' = held
  BY DEF GetFirst, Short, result, scan
<1>2. newht.tb_entries = <<>> /\ Made = {} /\ Len(entries) = 0
  <2>1. newht.tb_entries = <<>>
    BY <1>1 DEF TableInv, NoTable
  <2>2. Made = {}
    BY <1>1, <2>1, NoneSound DEF TableInv
  <2>3. Len(entries) \in Nat
    BY DEF Types
  <2>4. Len(entries) = 0
    BY <2>2, <2>3 DEF Made
  <2> QED
    BY <2>1, <2>2, <2>4
<1>3. Types'
  <2>1. answer' \in 0..Len(entries) /\ short' \in BOOLEAN /\ lasted' \in BOOLEAN
        /\ pc' \in {"open", "copy", "look", "scan", "finished", "crashed"}
    <3>1. answer' \in 0..Len(entries)
      <4>1. Len(entries) \in Nat /\ answer \in 0..Len(entries)
        BY DEF Types
      <4> QED
        BY <1>1, <4>1 DEF NULL
    <3>2. short' \in BOOLEAN /\ lasted' \in BOOLEAN
      BY <1>1 DEF Types
    <3> QED
      BY <1>1, <3>1, <3>2
  <2> QED
    BY <1>1, <2>1, Sizes, TypesStay DEF Types
<1>4. TableInv'
  <2>1. Sound(tb_entries', entries') /\ On(tb_entries') = {}
    BY <1>1, NoneSound, EmptySound, Sizes
  <2>2. tb_entries' # <<>> => Len(tb_entries') = HT_MULTIPLE
    BY <1>1, EmptySound, Sizes
  <2>3. pc' = "look" => tb_entries' # <<>>
    BY <1>1, EmptySound, Sizes
  <2>4. Sound(newht'.tb_entries, entries') /\ On(newht'.tb_entries) = {} /\ Made' = {}
    BY <1>1, <1>2, NoneSound DEF Made
  <2>5. newht'.tb_total_abbrev_count = Cardinality(On(newht'.tb_entries))
    BY <1>1 DEF TableInv
  <2>6. newht' = NoTable /\ pc' \in {"look", "open"}
    BY <1>1 DEF TableInv
  <2> QED
    BY <1>1, <1>2, <2>1, <2>2, <2>3, <2>4, <2>5, <2>6 DEF TableInv
<1>5. ScanInv'
  BY <1>1, ScanStays
<1>6. LookupIsRight'
  BY <1>1 DEF LookupIsRight
<1> QED
  BY <1>3, <1>4, <1>5, <1>6

LEMMA GetLargerKeeps ==
  ASSUME IInv, NEW c \in Codes, GetLarger(c)
  PROVE  IInv'
<1> USE DEF IInv
<1>1. /\ pc = "open" /\ tb_entries # <<>> /\ code' = c /\ Crowded
      /\ entries' = entries /\ tb_entries' = tb_entries
      /\ tb_table_entry_count' = tb_table_entry_count
      /\ tb_total_abbrev_count' = tb_total_abbrev_count
      /\ cc_last_abbrev_ptr' = cc_last_abbrev_ptr /\ abbrev_ptr' = abbrev_ptr
      /\ \/ /\ newht' = [tb_entries |-> NoChains(tb_total_abbrev_count),
                         tb_total_abbrev_count |-> 0]
            /\ pc' = "copy"
            /\ answer' = answer /\ short' = short /\ lasted' = lasted
         \/ /\ newht' = newht /\ pc' = "open" /\ answer' = NULL /\ short' = TRUE
            /\ lasted' = FALSE
      /\ held' = held
  BY DEF GetLarger, Short, result, scan, base
<1>2. tb_total_abbrev_count \in Nat \ {0}
  <2>1. tb_table_entry_count \in Nat /\ tb_total_abbrev_count \in Nat /\ HT_MULTIPLE \in Nat
    BY Sizes DEF Types
  <2>2. tb_table_entry_count * HT_MULTIPLE \in Nat
    BY <2>1
  <2> QED
    BY <1>1, <2>1, <2>2 DEF Crowded
<1>3. Types'
  <2>1. answer' \in 0..Len(entries) /\ short' \in BOOLEAN /\ lasted' \in BOOLEAN
        /\ pc' \in {"open", "copy", "look", "scan", "finished", "crashed"}
    <3>1. answer' \in 0..Len(entries)
      <4>1. Len(entries) \in Nat /\ answer \in 0..Len(entries)
        BY DEF Types
      <4> QED
        BY <1>1, <4>1 DEF NULL
    <3>2. short' \in BOOLEAN /\ lasted' \in BOOLEAN
      BY <1>1 DEF Types
    <3> QED
      BY <1>1, <3>1, <3>2
  <2>2. newht' = [tb_entries |-> newht'.tb_entries,
                  tb_total_abbrev_count |-> newht'.tb_total_abbrev_count]
    BY <1>1 DEF Types
  <2> QED
    BY <1>1, <2>1, <2>2, Sizes, TypesStay DEF Types
<1>4. TableInv'
  <2>1. /\ Sound(tb_entries', entries') /\ On(tb_entries') = On(tb_entries) /\ Made' = Made
        /\ tb_entries' # <<>> /\ Len(tb_entries') = tb_table_entry_count'
        /\ tb_total_abbrev_count' = Len(entries')
    BY <1>1 DEF TableInv, Made
  <2>2. newht.tb_entries = <<>> /\ On(newht.tb_entries) = {}
    BY <1>1, NoneSound DEF TableInv, NoTable
  <2>3. CASE newht' = newht /\ pc' = "open"
    BY <1>1, <2>1, <2>3 DEF TableInv
  <2>4. CASE newht' = [tb_entries |-> NoChains(tb_total_abbrev_count),
                       tb_total_abbrev_count |-> 0] /\ pc' = "copy"
    <3>1. newht'.tb_entries = NoChains(tb_total_abbrev_count) /\ newht'.tb_total_abbrev_count = 0
      BY <2>4
    <3>2. /\ Sound(newht'.tb_entries, entries') /\ On(newht'.tb_entries) = {}
          /\ newht'.tb_entries # <<>>
      BY <1>2, <3>1, EmptySound
    <3>3. Cardinality(On(newht'.tb_entries)) = 0
      BY <3>2, FS_EmptySet
    <3>4. On(tb_entries) = Made
      BY <2>2 DEF TableInv
    <3> QED
      BY <2>1, <2>4, <3>1, <3>2, <3>3, <3>4 DEF TableInv
  <2> QED
    BY <1>1, <2>3, <2>4
<1>5. ScanInv'
  BY <1>1, ScanStays
<1>6. LookupIsRight'
  BY <1>1 DEF LookupIsRight
<1> QED
  BY <1>3, <1>4, <1>5, <1>6

LEMMA GetKeeps ==
  ASSUME IInv, NEW c \in Codes, Get(c)
  PROVE  IInv'
<1> USE DEF IInv
<1>1. /\ pc = "open" /\ tb_entries # <<>> /\ code' = c /\ pc' = "look"
      /\ entries' = entries /\ tb_entries' = tb_entries /\ newht' = newht
      /\ tb_table_entry_count' = tb_table_entry_count
      /\ tb_total_abbrev_count' = tb_total_abbrev_count
      /\ cc_last_abbrev_ptr' = cc_last_abbrev_ptr /\ abbrev_ptr' = abbrev_ptr
      /\ answer' = answer /\ short' = short /\ lasted' = lasted /\ held' = held
  BY DEF Get, result, scan, base
<1>2. Types'
  BY <1>1, Sizes, TypesStay DEF Types
<1>3. TableInv'
  BY <1>1 DEF TableInv, Made
<1>4. ScanInv'
  BY <1>1, ScanStays
<1>5. LookupIsRight'
  BY <1>1 DEF LookupIsRight
<1> QED
  BY <1>2, <1>3, <1>4, <1>5

LEMMA CopyEntryKeeps ==
  ASSUME IInv, CopyEntry
  PROVE  IInv'
<1> USE DEF IInv
<1> DEFINE left == {h \in 1..Len(tb_entries) : tb_entries[h] # <<>>}
           k == CHOOSE h \in left : \A g \in left : h <= g
           e == Head(tb_entries[k])
           new == [tb_entries EXCEPT ![k] = Tail(@)]
           into == Insert(newht.tb_entries, e, entries[e].ab_code)
<1>1. /\ pc = "copy" /\ left # {} /\ tb_entries' = new
      /\ newht' = [tb_entries |-> into,
                   tb_total_abbrev_count |-> newht.tb_total_abbrev_count + 1]
      /\ entries' = entries /\ pc' = pc /\ code' = code
      /\ tb_table_entry_count' = tb_table_entry_count
      /\ tb_total_abbrev_count' = tb_total_abbrev_count
      /\ cc_last_abbrev_ptr' = cc_last_abbrev_ptr /\ abbrev_ptr' = abbrev_ptr
      /\ answer' = answer /\ short' = short /\ lasted' = lasted /\ held' = held
  BY DEF CopyEntry, NextOf, result, scan
<1>2. k \in 1..Len(tb_entries) /\ tb_entries[k] # <<>>
  <2>1. left \in SUBSET Nat
    OBVIOUS
  <2>2. k \in left
    BY <1>1, <2>1, LeastNatural
  <2> HIDE DEF k
  <2> QED
    BY <2>2
<1>3. /\ entries \in Seq(Entry) /\ Sound(tb_entries, entries)
      /\ Sound(newht.tb_entries, entries) /\ newht.tb_entries # <<>>
      /\ On(tb_entries) \cup On(newht.tb_entries) = Made
      /\ On(tb_entries) \cap On(newht.tb_entries) = {}
  BY <1>1 DEF Types, TableInv
<1> HIDE DEF k
<1>4. /\ Sound(new, entries) /\ Len(new) = Len(tb_entries) /\ new # <<>>
      /\ e \in On(tb_entries) /\ e \in 1..Len(entries)
      /\ On(new) = On(tb_entries) \ {e}
  BY <1>2, <1>3, TakeSound
<1> HIDE DEF new, e
<1>5. e \notin On(newht.tb_entries)
  BY <1>3, <1>4
<1>6. Sound(into, entries) /\ On(into) = On(newht.tb_entries) \cup {e} /\ into # <<>>
  BY <1>3, <1>4, <1>5, InsertSound
<1> HIDE DEF into
<1>7. newht'.tb_entries = into
      /\ newht'.tb_total_abbrev_count = newht.tb_total_abbrev_count + 1
  BY <1>1
<1>8. Types'
  BY <1>1, <1>7, Sizes, TypesStay DEF Types
<1>9. TableInv'
  <2>1. Cardinality(On(into)) = Cardinality(On(newht.tb_entries)) + 1
    BY <1>5, <1>6, OnIsFinite, FS_AddElement
  <2>2. newht'.tb_total_abbrev_count = Cardinality(On(newht'.tb_entries))
    BY <1>7, <2>1 DEF TableInv
  <2>3. Sound(tb_entries', entries') /\ Sound(newht'.tb_entries, entries')
    BY <1>1, <1>4, <1>6, <1>7
  <2>4. /\ On(tb_entries') \cup On(newht'.tb_entries) = Made'
        /\ On(tb_entries') \cap On(newht'.tb_entries) = {}
    <3>1. Made' = Made
      BY <1>1 DEF Made
    <3> QED
      BY <1>1, <1>3, <1>4, <1>5, <1>6, <1>7, <3>1
  <2>5. /\ tb_entries' # <<>> /\ Len(tb_entries') = tb_table_entry_count'
        /\ tb_total_abbrev_count' = Len(entries') /\ newht'.tb_entries # <<>>
    BY <1>1, <1>4, <1>6, <1>7 DEF TableInv
  <2> QED
    BY <1>1, <2>2, <2>3, <2>4, <2>5 DEF TableInv
<1>10. ScanInv'
  BY <1>1, ScanStays
<1>11. LookupIsRight'
  BY <1>1 DEF LookupIsRight
<1> QED
  BY <1>8, <1>9, <1>10, <1>11

LEMMA CopyDoneKeeps ==
  ASSUME IInv, CopyDone
  PROVE  IInv'
<1> USE DEF IInv
<1>1. /\ pc = "copy" /\ \A h \in 1..Len(tb_entries) : tb_entries[h] = <<>>
      /\ tb_entries' = newht.tb_entries
      /\ tb_table_entry_count' = Len(newht.tb_entries)
      /\ tb_total_abbrev_count' = newht.tb_total_abbrev_count
      /\ newht' = NoTable /\ pc' = "look" /\ entries' = entries /\ code' = code
      /\ cc_last_abbrev_ptr' = cc_last_abbrev_ptr /\ abbrev_ptr' = abbrev_ptr
      /\ answer' = answer /\ short' = short /\ lasted' = lasted /\ held' = held
  BY DEF CopyDone, NewCount, result, scan
<1>2. On(tb_entries) = {}
  BY <1>1 DEF On
<1>3. On(newht.tb_entries) = Made /\ newht.tb_total_abbrev_count = Len(entries)
  BY <1>2, OnIsFinite DEF TableInv
<1>4. /\ Sound(newht.tb_entries, entries) /\ newht.tb_entries # <<>>
      /\ Len(newht.tb_entries) \in Nat
  BY <1>1 DEF TableInv, Sound
<1>5. newht'.tb_entries = <<>> /\ newht'.tb_total_abbrev_count = 0
      /\ newht' = [tb_entries |-> newht'.tb_entries,
                   tb_total_abbrev_count |-> newht'.tb_total_abbrev_count]
  BY <1>1 DEF NoTable
<1>6. Types'
  BY <1>1, <1>3, <1>4, <1>5, OnIsFinite, TypesStay DEF Types
<1>7. TableInv'
  <2>1. Sound(newht'.tb_entries, entries') /\ On(newht'.tb_entries) = {}
    BY <1>5, NoneSound
  <2>2. newht'.tb_total_abbrev_count = Cardinality(On(newht'.tb_entries))
    BY <1>5, <2>1, FS_EmptySet
  <2>3. Sound(tb_entries', entries') /\ On(tb_entries') = Made'
    BY <1>1, <1>3, <1>4 DEF Made
  <2> QED
    BY <1>1, <1>3, <1>4, <2>1, <2>2, <2>3 DEF TableInv
<1>8. ScanInv'
  BY <1>1, ScanStays
<1>9. LookupIsRight'
  BY <1>1 DEF LookupIsRight
<1> QED
  BY <1>6, <1>7, <1>8, <1>9

LEMMA LookKeeps ==
  ASSUME IInv, Look
  PROVE  IInv'
<1> USE DEF IInv
<1> DEFINE e == Lookup(tb_entries, code)
<1>1. /\ pc = "look" /\ entries' = entries /\ tb_entries' = tb_entries /\ newht' = newht
      /\ tb_table_entry_count' = tb_table_entry_count
      /\ tb_total_abbrev_count' = tb_total_abbrev_count
      /\ cc_last_abbrev_ptr' = cc_last_abbrev_ptr /\ code' = code /\ lasted' = lasted
      /\ \/ /\ e # NULL \/ cc_last_abbrev_ptr > Len(Abbrevs)
            /\ pc' = "open" /\ answer' = e /\ short' = FALSE
            /\ held' = IF e = NULL THEN held ELSE held \cup {e}
            /\ abbrev_ptr' = abbrev_ptr
         \/ /\ e = NULL /\ cc_last_abbrev_ptr <= Len(Abbrevs)
            /\ abbrev_ptr' = cc_last_abbrev_ptr /\ pc' = "scan"
            /\ answer' = answer /\ short' = short /\ held' = held
  BY DEF Look, Answer, result, base
<1>2. /\ e # NULL => e \in Made /\ entries[e].ab_code = code
      /\ e = NULL => \A d \in Made : entries[d].ab_code # code
  <2>1. /\ entries \in Seq(Entry) /\ Sound(tb_entries, entries) /\ tb_entries # <<>>
        /\ code \in Nat
    BY <1>1 DEF Types, TableInv
  <2>2. newht.tb_entries = <<>>
    BY <1>1 DEF TableInv, NoTable
  <2>3. On(tb_entries) = Made
    BY <2>2, NoneSound DEF TableInv
  <2> QED
    BY <2>1, <2>3, LookupFinds
<1> HIDE DEF e
<1>3. Types'
  <2>1. e \in 0..Len(entries)
    BY <1>2, OnIsFinite DEF Made, NULL
  <2>2. answer' \in 0..Len(entries) /\ held' \in SUBSET Made /\ short' \in BOOLEAN
    BY <1>1, <1>2, <2>1 DEF Types
  <2> QED
    BY <1>1, <2>2, TypesStay DEF Types
<1>4. TableInv'
  BY <1>1 DEF TableInv, Made
<1>5. \A i \in 1..(cc_last_abbrev_ptr - 1) : \E d \in Made : entries[d].ab_abbrev_ptr = i
  BY <1>1 DEF ScanInv, Position
<1>6. ScanInv'
  <2>1. CASE pc' = "open"
    BY <1>1, <2>1, ScanStays
  <2>2. CASE pc' = "scan"
    <3>1. e = NULL /\ abbrev_ptr' = cc_last_abbrev_ptr /\ cc_last_abbrev_ptr \in Nat
          /\ cc_last_abbrev_ptr <= Len(Abbrevs)
      BY <1>1, <2>2, Sizes DEF Types
    <3>2. ASSUME NEW i \in 1..(cc_last_abbrev_ptr - 1)
          PROVE  Abbrevs[i] # code
      <4>1. PICK d \in Made : entries[d].ab_abbrev_ptr = i
        BY <1>5
      <4> QED
        BY <1>2, <3>1, <4>1 DEF Types
    <3>3. Position' = cc_last_abbrev_ptr /\ Position = cc_last_abbrev_ptr /\ Made' = Made
      BY <1>1, <2>2, <3>1 DEF Position, Made
    <3>4. lasted => /\ Len(entries) = Position - 1
                    /\ \A d \in Made : entries[d].ab_abbrev_ptr = d
      BY DEF ScanInv
    <3> QED
      BY <1>1, <1>5, <2>2, <3>1, <3>2, <3>3, <3>4 DEF ScanInv
  <2> QED
    BY <1>1, <2>1, <2>2
<1>7. LookupIsRight'
  <2> SUFFICES ASSUME pc' = "open"
               PROVE  IF code \in Declared
                      THEN answer' # NULL /\ Abbrevs[entries[answer'].ab_abbrev_ptr] = code
                      ELSE answer' = NULL
    BY <1>1 DEF LookupIsRight
  <2>1. answer' = e /\ (e # NULL \/ cc_last_abbrev_ptr > Len(Abbrevs))
    BY <1>1
  <2>2. CASE e # NULL
    <3>1. /\ entries[e].ab_abbrev_ptr \in 1..Len(Abbrevs)
          /\ Abbrevs[entries[e].ab_abbrev_ptr] = code
      BY <1>2, <2>2 DEF Types
    <3> QED
      BY <2>1, <2>2, <3>1 DEF Declared
  <2>3. CASE e = NULL
    <3>1. ASSUME NEW i \in 1..Len(Abbrevs)
          PROVE  Abbrevs[i] # code
      <4>1. i \in 1..(cc_last_abbrev_ptr - 1)
        BY <2>1, <2>3, Sizes DEF Types
      <4>2. PICK d \in Made : entries[d].ab_abbrev_ptr = i
        BY <1>5, <4>1
      <4> QED
        BY <1>2, <2>3, <4>2 DEF Types
    <3> QED
      BY <2>1, <2>3, <3>1 DEF Declared
  <2> QED
    BY <2>2, <2>3
<1> QED
  BY <1>3, <1>4, <1>6, <1>7

LEMMA ScanOneKeeps ==
  ASSUME IInv, ScanOne
  PROVE  IInv'
<1> USE DEF IInv
<1>n. PICK n \in Nat : n = Len(entries) + 1
  BY OnIsFinite
<1>c. PICK c \in Nat : c = Abbrevs[abbrev_ptr] /\ abbrev_ptr \in 1..Len(Abbrevs)
  BY Sizes DEF ScanOne, ScanInv, Types
<1> DEFINE x == [ab_code |-> c, ab_abbrev_ptr |-> abbrev_ptr]
           into == Insert(tb_entries, n, c)
<1>1. /\ pc = "scan" /\ entries' = Append(entries, x) /\ tb_entries' = into
      /\ tb_total_abbrev_count' = tb_total_abbrev_count + 1
      /\ abbrev_ptr' = abbrev_ptr + 1
      /\ tb_table_entry_count' = tb_table_entry_count /\ newht' = newht /\ code' = code
      /\ lasted' = lasted
      /\ \/ /\ abbrev_ptr < Len(Abbrevs) /\ c # code
            /\ cc_last_abbrev_ptr' = cc_last_abbrev_ptr /\ pc' = "scan"
            /\ answer' = answer /\ short' = short /\ held' = held
         \/ /\ abbrev_ptr = Len(Abbrevs) \/ c = code
            /\ cc_last_abbrev_ptr' = abbrev_ptr + 1
            /\ pc' = "open" /\ answer' = (IF c = code THEN n ELSE NULL) /\ short' = FALSE
            /\ held' = IF answer' = NULL THEN held ELSE held \cup {answer'}
  BY <1>n, <1>c DEF ScanOne, Answer, AfterStop, result
<1>2. x \in Entry /\ x.ab_code = c /\ x.ab_abbrev_ptr = abbrev_ptr
  BY <1>c DEF Entry, Types
<1> HIDE DEF x
<1>3. /\ entries' \in Seq(Entry) /\ Len(entries') = n /\ entries'[n] = x
      /\ \A e \in Made : entries'[e] = entries[e]
  BY <1>1, <1>2, <1>n DEF Types, Made
<1>4. Made' = Made \cup {n} /\ n \notin Made /\ n # NULL
  BY <1>3, <1>n, OnIsFinite DEF Made, NULL
<1>5. /\ Sound(tb_entries, entries) /\ tb_entries # <<>> /\ newht = NoTable
      /\ On(tb_entries) = Made /\ Sound(tb_entries, entries')
  <2>1. Sound(tb_entries, entries) /\ tb_entries # <<>> /\ newht = NoTable
    BY <1>1 DEF TableInv
  <2>2. On(newht.tb_entries) = {}
    BY <2>1, NoneSound DEF NoTable
  <2>3. Sound(tb_entries, entries')
    BY <1>1, <1>2, <2>1, GrownSound DEF Types
  <2> QED
    BY <2>1, <2>2, <2>3 DEF TableInv
<1>6. /\ Sound(into, entries') /\ On(into) = Made \cup {n} /\ Len(into) = Len(tb_entries)
      /\ into # <<>>
  <2> DEFINE es == entries'
  <2>1. /\ es \in Seq(Entry) /\ Sound(tb_entries, es) /\ n \in 1..Len(es)
        /\ es[n].ab_code = c /\ n \notin On(tb_entries)
    BY <1>2, <1>3, <1>4, <1>5, <1>n, OnIsFinite
  <2> HIDE DEF es
  <2>2. /\ Sound(Insert(tb_entries, n, es[n].ab_code), es)
        /\ On(Insert(tb_entries, n, es[n].ab_code)) = On(tb_entries) \cup {n}
        /\ Len(Insert(tb_entries, n, es[n].ab_code)) = Len(tb_entries)
        /\ Insert(tb_entries, n, es[n].ab_code) # <<>>
    BY <1>5, <2>1, InsertSound
  <2> QED
    BY <1>5, <2>1, <2>2 DEF es
<1> HIDE DEF into
<1>7. Types'
  <2>1. \A e \in Made' : /\ entries'[e].ab_abbrev_ptr \in 1..Len(Abbrevs)
                         /\ Abbrevs[entries'[e].ab_abbrev_ptr] = entries'[e].ab_code
    BY <1>2, <1>3, <1>4, <1>c DEF Types
  <2>2. abbrev_ptr + 1 \in 1..(Len(Abbrevs) + 1)
    BY <1>c, Sizes
  <2>3. answer' \in 0..n /\ held' \in SUBSET Made'
    <3>1. Len(entries) \in Nat /\ answer \in 0..Len(entries) /\ held \in SUBSET Made
      BY OnIsFinite DEF Types
    <3>2. answer' \in {answer, n, NULL}
      BY <1>1
    <3>3. answer' \in 0..n
      BY <1>n, <3>1, <3>2 DEF NULL
    <3>4. held' = held \/ held' = held \cup {n}
      BY <1>1
    <3> QED
      BY <1>4, <3>1, <3>3, <3>4
  <2>4. tb_table_entry_count' \in Nat /\ tb_total_abbrev_count' \in Nat
    BY <1>1 DEF Types
  <2>5. cc_last_abbrev_ptr' \in 1..(Len(Abbrevs) + 1) /\ abbrev_ptr' \in 1..(Len(Abbrevs) + 1)
    BY <1>1, <2>2 DEF Types
  <2>6. newht' = [tb_entries |-> newht'.tb_entries,
                  tb_total_abbrev_count |-> newht'.tb_total_abbrev_count]
    BY <1>1 DEF Types
  <2>7. short' \in BOOLEAN /\ lasted' \in BOOLEAN /\ code' \in Nat
        /\ pc' \in {"open", "copy", "look", "scan", "finished", "crashed"}
    BY <1>1 DEF Types
  <2> QED
    BY <1>3, <2>1, <2>3, <2>4, <2>5, <2>6, <2>7 DEF Types
<1>8. TableInv'
  <2>1. /\ newht'.tb_entries = <<>> /\ On(newht'.tb_entries) = {}
        /\ Sound(newht'.tb_entries, entries')
    BY <1>1, <1>5, NoneSound DEF NoTable
  <2>2. newht'.tb_total_abbrev_count = Cardinality(On(newht'.tb_entries))
    BY <1>1 DEF TableInv
  <2>3. tb_total_abbrev_count' = Len(entries')
    BY <1>1, <1>3, <1>n DEF TableInv
  <2>4. tb_entries' # <<>> /\ Len(tb_entries') = tb_table_entry_count'
    BY <1>1, <1>5, <1>6 DEF TableInv
  <2> QED
    BY <1>1, <1>4, <1>5, <1>6, <2>1, <2>2, <2>3, <2>4 DEF TableInv
<1>9. /\ Position = abbrev_ptr /\ Position' = abbrev_ptr + 1
      /\ abbrev_ptr \in Nat /\ cc_last_abbrev_ptr <= abbrev_ptr /\ cc_last_abbrev_ptr \in Nat
  BY <1>1 DEF Position, ScanInv, Types
<1>10. ScanInv'
  <2>1. ASSUME NEW i \in 1..(Position' - 1)
        PROVE  \E e \in Made' : entries'[e].ab_abbrev_ptr = i
    <3>1. CASE i = abbrev_ptr
      BY <1>2, <1>3, <1>4, <3>1
    <3>2. CASE i # abbrev_ptr
      <4>1. i \in 1..(Position - 1)
        BY <1>9, <3>2
      <4>2. PICK e \in Made : entries[e].ab_abbrev_ptr = i
        BY <4>1 DEF ScanInv
      <4> QED
        BY <1>3, <1>4, <4>2
    <3> QED
      BY <3>1, <3>2
  <2>2. lasted => /\ Len(entries') = Position' - 1
                  /\ \A e \in Made' : entries'[e].ab_abbrev_ptr = e
    <3> SUFFICES ASSUME lasted
                 PROVE  /\ n = Position' - 1
                        /\ \A e \in Made' : entries'[e].ab_abbrev_ptr = e
      BY <1>3
    <3>1. Len(entries) = Position - 1 /\ \A e \in Made : entries[e].ab_abbrev_ptr = e
      BY DEF ScanInv
    <3>2. n = abbrev_ptr
      BY <1>9, <1>n, <3>1
    <3> QED
      BY <1>2, <1>3, <1>4, <1>9, <3>1, <3>2
  <2>3. pc' = "scan" =>
          /\ abbrev_ptr' <= Len(Abbrevs) /\ cc_last_abbrev_ptr' <= abbrev_ptr'
          /\ \A i \in 1..(abbrev_ptr' - 1) : Abbrevs[i] # code
    <3> SUFFICES ASSUME pc' = "scan"
                 PROVE  /\ abbrev_ptr + 1 <= Len(Abbrevs) /\ cc_last_abbrev_ptr <= abbrev_ptr + 1
                        /\ \A i \in 1..abbrev_ptr : Abbrevs[i] # code
      BY <1>1, <1>9
    <3>1. abbrev_ptr < Len(Abbrevs) /\ c # code
      BY <1>1
    <3>2. \A i \in 1..(abbrev_ptr - 1) : Abbrevs[i] # code
      BY <1>1 DEF ScanInv
    <3>3. \A i \in 1..abbrev_ptr : i = abbrev_ptr \/ i \in 1..(abbrev_ptr - 1)
      BY <1>9
    <3> QED
      BY <1>9, <1>c, <3>1, <3>2, <3>3, Sizes
  <2> QED
    BY <1>1, <2>1, <2>2, <2>3 DEF ScanInv
<1>11. LookupIsRight'
  <2> SUFFICES ASSUME pc' = "open"
               PROVE  IF code \in Declared
                      THEN answer' # NULL /\ Abbrevs[entries'[answer'].ab_abbrev_ptr] = code
                      ELSE answer' = NULL
    BY <1>1 DEF LookupIsRight
  <2>1. answer' = (IF c = code THEN n ELSE NULL) /\ (abbrev_ptr = Len(Abbrevs) \/ c = code)
    BY <1>1
  <2>2. CASE c = code
    BY <1>2, <1>3, <1>4, <1>c, <2>1, <2>2 DEF Declared
  <2>3. CASE c # code
    <3>1. \A i \in 1..(abbrev_ptr - 1) : Abbrevs[i] # code
      BY <1>1 DEF ScanInv
    <3>2. \A i \in 1..Len(Abbrevs) : i = abbrev_ptr \/ i \in 1..(abbrev_ptr - 1)
      BY <1>9, <2>1, <2>3
    <3>3. \A i \in 1..Len(Abbrevs) : Abbrevs[i] # code
      BY <1>c, <2>3, <3>1, <3>2
    <3> QED
      BY <2>1, <2>3, <3>3 DEF Declared
  <2> QED
    BY <2>2, <2>3
<1> QED
  BY <1>7, <1>8, <1>10, <1>11

LEMMA ScanShortKeeps ==
  ASSUME IInv, ScanShort
  PROVE  IInv'
<1> USE DEF IInv
<1>1. /\ pc = "scan" /\ pc' = "open" /\ answer' = NULL /\ short' = TRUE /\ lasted' = FALSE
      /\ held' = held /\ entries' = entries /\ tb_entries' = tb_entries /\ newht' = newht
      /\ tb_table_entry_count' = tb_table_entry_count
      /\ tb_total_abbrev_count' = tb_total_abbrev_count
      /\ cc_last_abbrev_ptr' = cc_last_abbrev_ptr /\ abbrev_ptr' = abbrev_ptr /\ code' = code
  BY DEF ScanShort, Short, base, scan
<1>2. Types'
  <2>1. NULL \in 0..Len(entries)
    BY OnIsFinite DEF NULL
  <2> QED
    BY <1>1, <2>1, TypesStay DEF Types
<1>3. TableInv'
  BY <1>1 DEF TableInv, Made
<1>4. ScanInv'
  <2>1. cc_last_abbrev_ptr <= abbrev_ptr /\ Position = abbrev_ptr
        /\ Position' = cc_last_abbrev_ptr
        /\ \A i \in 1..(Position - 1) : \E e \in Made : entries[e].ab_abbrev_ptr = i
    BY <1>1 DEF ScanInv, Position
  <2>2. cc_last_abbrev_ptr \in Nat /\ abbrev_ptr \in Nat /\ Made' = Made
    BY <1>1 DEF Types, Made
  <2>3. \A i \in 1..(Position' - 1) : i \in 1..(Position - 1)
    BY <2>1, <2>2
  <2> QED
    BY <1>1, <2>1, <2>2, <2>3 DEF ScanInv
<1>5. LookupIsRight'
  BY <1>1 DEF LookupIsRight
<1> QED
  BY <1>2, <1>3, <1>4, <1>5

(* What holds of the table and the scan is kept by every step.               *)
LEMMA StepKeeps ==
  ASSUME IInv, [Next]_vars
  PROVE  IInv'
<1>1. CASE Finish \/ UNCHANGED vars
  <2>1. /\ entries' = entries /\ tb_entries' = tb_entries /\ newht' = newht
        /\ tb_table_entry_count' = tb_table_entry_count
        /\ tb_total_abbrev_count' = tb_total_abbrev_count
        /\ cc_last_abbrev_ptr' = cc_last_abbrev_ptr /\ abbrev_ptr' = abbrev_ptr
        /\ code' = code /\ answer' = answer /\ short' = short /\ lasted' = lasted
        /\ held' = held
        /\ pc' = pc \/ (pc = "open" /\ pc' \in {"crashed", "finished"})
    BY <1>1 DEF Finish, vars, base, scan, result
  <2>2. pc' \in {"open", "copy", "look", "scan", "finished", "crashed"}
    BY <2>1 DEF IInv, Types
  <2>3. Types'
    BY <2>1, <2>2, TypesStay DEF IInv, Types
  <2>4. TableInv'
    BY <2>1 DEF IInv, TableInv, Made
  <2>5. ScanInv'
    BY <2>1 DEF IInv, ScanInv, Position, Made
  <2>6. LookupIsRight'
    BY <2>1 DEF IInv, LookupIsRight
  <2> QED
    BY <2>3, <2>4, <2>5, <2>6 DEF IInv
<1>2. CASE \E c \in Codes : GetFirst(c) \/ GetLarger(c) \/ Get(c)
  BY <1>2, GetFirstKeeps, GetLargerKeeps, GetKeeps
<1>3. CASE Inside
  BY <1>3, CopyEntryKeeps, CopyDoneKeeps, LookKeeps, ScanOneKeeps, ScanShortKeeps DEF Inside
<1> QED
  BY <1>1, <1>2, <1>3 DEF Next

LEMMA StartHolds ==
  ASSUME Init
  PROVE  IInv
<1> USE DEF Init
<1>1. Len(entries) = 0 /\ Made = {} /\ entries \in Seq(Entry)
  BY DEF Made
<1>2. Types
  <2>1. newht = [tb_entries |-> newht.tb_entries,
                 tb_total_abbrev_count |-> newht.tb_total_abbrev_count]
    BY DEF NoTable
  <2>2. 1 \in 1..(Len(Abbrevs) + 1) /\ NULL \in 0..Len(entries)
    BY <1>1, Sizes DEF NULL
  <2>3. answer \in 0..Len(entries) /\ short \in BOOLEAN /\ lasted \in BOOLEAN
        /\ code \in Nat /\ tb_table_entry_count \in Nat /\ tb_total_abbrev_count \in Nat
    BY <2>2
  <2> QED
    BY <1>1, <2>1, <2>2, <2>3 DEF Types
<1>3. newht.tb_entries = <<>> /\ newht.tb_total_abbrev_count = 0
  BY DEF NoTable
<1>4. TableInv
  BY <1>1, <1>3, NoneSound, FS_EmptySet DEF TableInv
<1>5. ScanInv
  BY <1>1 DEF ScanInv, Position
<1>6. LookupIsRight
  BY DEF LookupIsRight
<1> QED
  BY <1>2, <1>4, <1>5, <1>6 DEF IInv

-------------------------------------------------------------------------------
(* The theorems.                                                           *)

(* The chains, the counts and the scan stay what every lookup relies on,      *)
(* wherever _dwarf_get_abbrev_for_code() ran out of memory before.           *)
THEOREM LookupsKeepIInv == Spec => []IInv
<1>1. Init => IInv
  BY StartHolds
<1>2. IInv /\ [Next]_vars => IInv'
  BY StepKeeps
<1> QED
  BY <1>1, <1>2, PTL DEF Spec

(* The variables have their types, and tb_total_abbrev_count, which decides    *)
(* when the table moves and how large it becomes, is the number of entries    *)
(* on the chains.                                                          *)
THEOREM TableTyped == Spec => []TypeOK
<1>1. IInv => TypeOK
  <2> SUFFICES ASSUME IInv
               PROVE  TypeOK
    OBVIOUS
  <2> USE DEF IInv
  <2>1. pc # "copy" => tb_total_abbrev_count = Cardinality(On(tb_entries))
    <3> SUFFICES ASSUME pc # "copy"
                 PROVE  tb_total_abbrev_count = Cardinality(On(tb_entries))
      OBVIOUS
    <3>1. newht.tb_entries = <<>>
      BY DEF TableInv, NoTable
    <3>2. On(tb_entries) = Made
      BY <3>1, NoneSound DEF TableInv
    <3> QED
      BY <3>2, OnIsFinite DEF TableInv
  <2>2. /\ tb_entries # <<>> => Len(tb_entries) = tb_table_entry_count
        /\ newht.tb_total_abbrev_count = Cardinality(On(newht.tb_entries))
    BY DEF TableInv
  <2> QED
    BY <2>1, <2>2 DEF TypeOK, Types, Made
<1> QED
  BY <1>1, LookupsKeepIInv, PTL

(* A lookup answers with the abbreviation .debug_abbrev declares for the code,  *)
(* and with NULL only if it declares none, whatever was scanned, moved or     *)
(* left half done for want of memory before; and until memory has run out no  *)
(* abbreviation is read twice.                                             *)
THEOREM LookupsAreRight == Spec => []LookupsRight
<1>1. IInv => LookupIsRight
  BY DEF IInv
<1>2. IInv => ReadOnce
  BY DEF IInv, ScanInv, ReadOnce, Made
<1> QED
  BY <1>1, <1>2, LookupsKeepIInv, PTL DEF LookupsRight

(* At every step of copy_abbrev_table_to_new_table(), and between lookups, an   *)
(* entry that a DIE points to is on exactly one chain, once.                 *)
THEOREM HeldChained == Spec => []HeldStaysChained
<1>1. IInv => HeldStaysChained
  <2> SUFFICES ASSUME IInv, NEW e \in held
               PROVE  /\ \E t \in 1..2 : \E h \in 1..Len(Tables[t]) :
                           \E i \in 1..Len(Tables[t][h]) : IsAt(e, t, h, i)
                      /\ \A t, u \in 1..2 :
                           \A h \in 1..Len(Tables[t]), g \in 1..Len(Tables[u]) :
                             \A i \in 1..Len(Tables[t][h]), j \in 1..Len(Tables[u][g]) :
                               IsAt(e, t, h, i) /\ IsAt(e, u, g, j) => t = u /\ h = g /\ i = j
    BY DEF HeldStaysChained
  <2> USE DEF IInv
  <2>1. /\ Tables[1] = tb_entries /\ Tables[2] = newht.tb_entries
        /\ \A t \in 1..2 : t = 1 \/ t = 2
    BY DEF Tables
  <2>2. /\ \A t \in 1..2 : Sound(Tables[t], entries)
        /\ e \in Made /\ On(Tables[1]) \cup On(Tables[2]) = Made
        /\ On(Tables[1]) \cap On(Tables[2]) = {}
    BY <2>1 DEF TableInv, Types
  <2> HIDE DEF Tables
  <2>3. \A t \in 1..2 : e \in On(Tables[t]) <=>
          \E h \in 1..Len(Tables[t]) : \E i \in 1..Len(Tables[t][h]) : Tables[t][h][i] = e
    BY OnIs
  <2>4. PICK t \in 1..2 : e \in On(Tables[t])
    BY <2>2
  <2>5. \E h \in 1..Len(Tables[t]) : \E i \in 1..Len(Tables[t][h]) : IsAt(e, t, h, i)
    BY <2>3, <2>4 DEF IsAt
  <2>6. ASSUME NEW p \in 1..2, NEW u \in 1..2,
               NEW h \in 1..Len(Tables[p]), NEW g \in 1..Len(Tables[u]),
               NEW i \in 1..Len(Tables[p][h]), NEW j \in 1..Len(Tables[u][g]),
               IsAt(e, p, h, i), IsAt(e, u, g, j)
        PROVE  p = u /\ h = g /\ i = j
    <3>1. Tables[p][h][i] = e /\ Tables[u][g][j] = e
      BY <2>6 DEF IsAt
    <3>2. e \in On(Tables[p]) /\ e \in On(Tables[u])
      BY <2>3, <3>1
    <3>3. p = u
      BY <2>1, <2>2, <3>2
    <3>4. h = g
      <4> DEFINE m == Len(Tables[p])
      <4>1. h \in 1..m /\ g \in 1..m
        BY <3>3
      <4>2. Hash(entries[Tables[p][h][i]].ab_code, m) + 1 = h
        BY <2>2, HashAt
      <4>3. Hash(entries[Tables[p][g][j]].ab_code, m) + 1 = g
        BY <2>2, <3>3, HashAt
      <4> QED
        BY <3>1, <3>3, <4>2, <4>3
    <3>5. i = j
      BY SMTT(30), <2>2, <3>1, <3>3, <3>4 DEF Sound
    <3> QED
      BY <3>3, <3>4, <3>5
  <2> QED
    BY <2>5, <2>6
<1> QED
  BY <1>1, LookupsKeepIInv, PTL
=================================================================================
