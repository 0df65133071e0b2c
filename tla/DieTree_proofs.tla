----------------------------- MODULE DieTree_proofs -----------------------------
(***************************************************************************)
(* What is proved of DieTree, for all DIEs and for CUs of any length: that   *)
(* the producer writes the tree that was linked, at the offsets it counted,  *)
(* and that the reader finds its way in what it has written.                *)
(*                                                                         *)
(* The proof says what the pointers stand for: the DIEs are in lists, each  *)
(* list below one DIE or none (Forest), and the pointers say the same       *)
(* (Linked).  In such a tree the way of the passes is a sequence of keys    *)
(* (Trail): a pass that has come so far has written the entries of a trail  *)
(* (Follows), there is one trail only (OneWay), so that the second pass     *)
(* takes the way of the first; and the lists that are open along it are the *)
(* ancestors (TrailLevels), which makes the nesting the reader needs.       *)
(*                                                                         *)
(* Where a call has lost DIEs the pointers are no longer the lists.  What   *)
(* is left of them (Traced) is enough for the way to come to no DIE twice,  *)
(* so that the two passes still agree.                                     *)
(***************************************************************************)
EXTENDS DieReader_proofs, FiniteSetTheorems


(* The DIEs as the client means them: lists, each DIE in one, each list       *)
(* below one DIE or none, and no two below the same.                        *)
InOne ==
  \A r \in rows, q \in rows : \A i \in 1..Len(r), j \in 1..Len(q) :
    r[i] = q[j] => r = q /\ i = j

Forest ==
  /\ \A r \in rows : r \in Seq(made) /\ r # <<>>
  /\ InOne
  /\ \A d \in made : \E r \in rows : \E i \in 1..Len(r) : r[i] = d
  /\ \A r \in rows : \A i \in 1..Len(r) : under[r[i]] = under[r[1]]
  /\ \A r, q \in rows : under[r[1]] # NULL /\ under[r[1]] = under[q[1]] => r = q
  /\ under \in [Dies -> made \cup {NULL}] /\ made \subseteq Dies
  /\ \A d \in Dies \ made : under[d] = NULL
  /\ under[Root] = NULL
  /\ Root \in made => <<Root>> \in rows

(* The pointers say the same.                                              *)
RowLinked(r) ==
  \A i \in 1..Len(r) :
    /\ di_parent[r[i]] = under[r[1]]
    /\ di_right[r[i]] = IF i = Len(r) THEN NULL ELSE r[i + 1]
    /\ di_left[r[i]] = IF i = 1 THEN NULL ELSE r[i - 1]

EndsLinked(r) ==
  under[r[1]] # NULL => /\ di_child[under[r[1]]] = r[1]
                        /\ r[Len(r)] \in beside \/ di_last_child[under[r[1]]] = r[Len(r)]

NoneUnder(p) == \A r \in rows : under[r[1]] # p

Linked ==
  /\ \A r \in rows : RowLinked(r) /\ EndsLinked(r)
  /\ \A d \in Dies \ made : /\ di_parent[d] = NULL /\ di_child[d] = NULL
                            /\ di_left[d] = NULL /\ di_right[d] = NULL
  /\ \A p \in made : NoneUnder(p) => di_child[p] = NULL

LinkTypes ==
  /\ di_parent \in [Dies -> Dies \cup {NULL}] /\ di_child \in [Dies -> Dies \cup {NULL}]
  /\ di_last_child \in [Dies -> Dies \cup {NULL}] /\ di_left \in [Dies -> Dies \cup {NULL}]
  /\ di_right \in [Dies -> Dies \cup {NULL}]
  /\ made \subseteq Dies /\ beside \subseteq Dies

LEMMA DieTypes == Dies \subseteq Nat /\ Root \in Dies /\ NULL \notin Dies /\ NoSibling \notin Nat
<1>1. IsFiniteSet(Dies) /\ Dies = 1..Cardinality(Dies) /\ Root \in Dies
      /\ NULL \notin Nat /\ NoSibling \notin Nat
  BY DieAssumption
<1>2. Cardinality(Dies) \in Nat
  BY <1>1, FS_CardinalityType
<1>3. Dies \subseteq Nat
  BY <1>1, <1>2
<1> QED BY <1>1, <1>3

LEMMA RowFacts ==
  ASSUME Forest, NEW r \in rows
  PROVE  /\ Len(r) \in Nat \ {0} /\ 1 \in 1..Len(r) /\ Len(r) \in 1..Len(r)
         /\ DOMAIN r = 1..Len(r)
         /\ \A i \in 1..Len(r) : r[i] \in made /\ r[i] \in Dies /\ under[r[i]] = under[r[1]]
         /\ \A i, j \in 1..Len(r) : r[i] = r[j] => i = j
         /\ under[r[1]] \in made \cup {NULL}
<1>1. r \in Seq(made) /\ r # <<>> /\ made \subseteq Dies
  BY DEF Forest
<1>2. Len(r) \in Nat \ {0} /\ DOMAIN r = 1..Len(r) /\ \A i \in 1..Len(r) : r[i] \in made
  BY <1>1
<1>3. \A i \in 1..Len(r) : under[r[i]] = under[r[1]]
  BY DEF Forest
<1>4. ASSUME NEW i \in 1..Len(r), NEW j \in 1..Len(r), r[i] = r[j] PROVE i = j
  <2>1. InOne
    BY DEF Forest
  <2> QED BY <1>4, <2>1 DEF InOne
<1>5. 1 \in 1..Len(r) /\ Len(r) \in 1..Len(r)
  BY <1>2
<1>6. under[r[1]] \in made \cup {NULL}
  BY <1>1, <1>2, <1>5 DEF Forest
<1> QED BY <1>1, <1>2, <1>3, <1>4, <1>5, <1>6

LEMMA RowsApart ==
  ASSUME Forest, NEW r \in rows, NEW q \in rows, r # q
  PROVE  /\ \A i \in 1..Len(r), j \in 1..Len(q) : r[i] # q[j]
         /\ under[r[1]] # NULL => under[r[1]] # under[q[1]]
<1>1. ASSUME NEW i \in 1..Len(r), NEW j \in 1..Len(q), r[i] = q[j] PROVE FALSE
  <2>1. InOne
    BY DEF Forest
  <2> QED BY <1>1, <2>1 DEF InOne
<1>2. under[r[1]] # NULL => under[r[1]] # under[q[1]]
  BY DEF Forest
<1> QED BY <1>1, <1>2

LEMMA AloneIs ==
  ASSUME NEW d
  PROVE  Len(<<d>>) = 1 /\ <<d>>[1] = d /\ 1 \in 1..Len(<<d>>)
OBVIOUS

(* A DIE alone in its list is put into another one.                          *)
Enters(d, r, k, q) ==
  /\ <<d>> \in rows /\ r \in rows /\ r # <<d>> /\ r # <<Root>> /\ d # Root
  /\ d \in made /\ under[d] = NULL
  /\ k \in 1..(Len(r) + 1) /\ q \in Seq(made) /\ Len(q) = Len(r) + 1
  /\ \A x \in 1..(Len(r) + 1) : q[x] = IF x < k THEN r[x] ELSE IF x = k THEN d ELSE r[x - 1]
  /\ rows' = (rows \ {<<d>>, r}) \cup {q}
  /\ under' = [under EXCEPT ![d] = under[r[1]]]
  /\ made' = made

Entered(d, r, k, q) ==
  /\ Len(r) \in Nat \ {0} /\ k \in Nat /\ Len(q) = Len(r) + 1 /\ r \in rows
  /\ \A x \in 1..Len(q) : q[x] \in made
  /\ \A x \in 1..Len(q) : q[x] = d <=> x = k
  /\ \A x, y \in 1..Len(q) : q[x] = q[y] => x = y
  /\ \A x \in 1..Len(q) : x # k => \E y \in 1..Len(r) : q[x] = r[y]
  /\ \A y \in 1..Len(r) : \E x \in 1..Len(q) : q[x] = r[y]
  /\ \A y \in 1..Len(r) : r[y] # d
  /\ \A s \in rows : s # <<d>> => \A y \in 1..Len(s) : s[y] # d /\ under'[s[y]] = under[s[y]]
  /\ \A x \in 1..Len(q) : under'[q[x]] = under[r[1]]
  /\ 1 \in 1..Len(q)

LEMMA EntersFacts ==
  ASSUME Forest, NEW d, NEW r, NEW k, NEW q, Enters(d, r, k, q)
  PROVE  Entered(d, r, k, q)
<1>1. /\ r \in rows /\ <<d>> \in rows /\ r # <<d>>
      /\ k \in 1..(Len(r) + 1) /\ d \in made /\ d \in Dies
      /\ Len(q) = Len(r) + 1 /\ q \in Seq(made)
      /\ \A x \in 1..(Len(r) + 1) : q[x] = IF x < k THEN r[x] ELSE IF x = k THEN d ELSE r[x - 1]
      /\ under' = [under EXCEPT ![d] = under[r[1]]] /\ under \in [Dies -> made \cup {NULL}]
  BY DEF Enters, Forest
<1>2. /\ Len(r) \in Nat \ {0} /\ \A i \in 1..Len(r) : under[r[i]] = under[r[1]] /\ r[i] \in Dies
      /\ \A i, j \in 1..Len(r) : r[i] = r[j] => i = j
  BY <1>1, RowFacts
<1>3. ASSUME NEW s \in rows, s # <<d>>, NEW y \in 1..Len(s)
      PROVE  s[y] # d /\ under'[s[y]] = under[s[y]]
  <2>1. s[y] # <<d>>[1]
    BY <1>1, <1>3, AloneIs, RowsApart
  <2>2. s[y] \in Dies
    BY <1>3, RowFacts
  <2> QED BY <1>1, <2>1, <2>2
<1>4. \A y \in 1..Len(r) : r[y] # d
  BY <1>1, <1>3
<1>5. ASSUME NEW x \in 1..Len(q)
      PROVE  /\ q[x] = d <=> x = k
             /\ x # k => \E y \in 1..Len(r) : q[x] = r[y]
             /\ under'[q[x]] = under[r[1]]
             /\ q[x] \in made
  <2>1. CASE x < k
    <3>1. q[x] = r[x] /\ x \in 1..Len(r)
      BY <1>1, <1>2, <2>1
    <3> QED BY <1>1, <1>2, <1>3, <1>4, <2>1, <3>1
  <2>2. CASE x = k
    BY <1>1, <1>2, <2>2
  <2>3. CASE x > k
    <3>1. q[x] = r[x - 1] /\ x - 1 \in 1..Len(r)
      BY <1>1, <1>2, <2>3
    <3>2. q[x] # d /\ under'[r[x - 1]] = under[r[x - 1]] /\ under[r[x - 1]] = under[r[1]]
      BY <1>1, <1>2, <1>3, <1>4, <3>1
    <3> QED BY <1>1, <1>2, <2>3, <3>1, <3>2
  <2> QED BY <1>1, <1>2, <2>1, <2>2, <2>3
<1>6. ASSUME NEW x \in 1..Len(q), NEW y \in 1..Len(q), q[x] = q[y] PROVE x = y
  <2>1. CASE x = k \/ y = k
    BY <1>5, <1>6, <2>1
  <2>2. CASE x # k /\ y # k
    <3> DEFINE a == IF x < k THEN x ELSE x - 1
               b == IF y < k THEN y ELSE y - 1
    <3>1. a \in 1..Len(r) /\ b \in 1..Len(r) /\ (a = b => x = y)
      BY <1>1, <1>2, <2>2
    <3>2. q[x] = r[a] /\ q[y] = r[b]
      BY <1>1, <1>2, <2>2
    <3> HIDE DEF a, b
    <3> QED BY <1>2, <1>6, <3>1, <3>2
  <2> QED BY <2>1, <2>2
<1>7. ASSUME NEW y \in 1..Len(r) PROVE \E x \in 1..Len(q) : q[x] = r[y]
  <2>1. CASE y < k
    <3>1. y \in 1..Len(q) /\ q[y] = r[y]
      BY <1>1, <1>2, <2>1
    <3> QED BY <3>1
  <2>2. CASE ~(y < k)
    <3>1. y + 1 \in 1..Len(q) /\ q[y + 1] = r[(y + 1) - 1] /\ (y + 1) - 1 = y
      BY <1>1, <1>2, <2>2
    <3> QED BY <3>1
  <2> QED BY <2>1, <2>2
<1> QED BY <1>1, <1>2, <1>3, <1>4, <1>5, <1>6, <1>7 DEF Entered

LEMMA EntersForest ==
  ASSUME Forest, NEW d, NEW r, NEW k, NEW q, Enters(d, r, k, q)
  PROVE  Forest'
<1>1. /\ Len(r) \in Nat \ {0} /\ k \in Nat /\ Len(q) = Len(r) + 1 /\ r \in rows /\ 1 \in 1..Len(q)
      /\ \A x \in 1..Len(q) : q[x] \in made
      /\ \A x \in 1..Len(q) : q[x] = d <=> x = k
      /\ \A x, y \in 1..Len(q) : q[x] = q[y] => x = y
      /\ \A x \in 1..Len(q) : x # k => \E y \in 1..Len(r) : q[x] = r[y]
      /\ \A y \in 1..Len(r) : \E x \in 1..Len(q) : q[x] = r[y]
      /\ \A s \in rows : s # <<d>> => \A y \in 1..Len(s) : s[y] # d /\ under'[s[y]] = under[s[y]]
      /\ \A x \in 1..Len(q) : under'[q[x]] = under[r[1]]
  <2>1. Entered(d, r, k, q)
    BY EntersFacts
  <2> QED BY <2>1 DEF Entered
<1>2. /\ d \in made /\ d # Root /\ r # <<Root>> /\ q \in Seq(made) /\ k \in 1..(Len(r) + 1)
      /\ rows' = (rows \ {<<d>>, r}) \cup {q} /\ made' = made
      /\ under' = [under EXCEPT ![d] = under[r[1]]] /\ under[d] = NULL
  BY DEF Enters
<1>3. \A s \in rows' : s = q \/ (s \in rows /\ s # <<d>> /\ s # r)
  BY <1>2
<1>4. \A s \in rows' : s \in Seq(made') /\ s # <<>>
  <2>1. q # <<>>
    BY <1>1
  <2> QED BY <1>2, <1>3, <2>1 DEF Forest
<1>5. ASSUME NEW s \in rows, s # <<d>>, s # r, NEW i \in 1..Len(q), NEW j \in 1..Len(s)
      PROVE  q[i] # s[j]
  <2>1. CASE i = k
    BY <1>1, <1>5, <2>1
  <2>2. CASE i # k
    <3>1. PICK y \in 1..Len(r) : q[i] = r[y]
      BY <1>1, <2>2
    <3> QED BY <1>1, <1>5, <3>1, RowsApart
  <2> QED BY <2>1, <2>2
<1>6. InOne'
  <2> SUFFICES ASSUME NEW s \in rows', NEW t \in rows',
                      NEW i \in 1..Len(s), NEW j \in 1..Len(t), s[i] = t[j]
               PROVE  s = t /\ i = j
    BY DEF InOne
  <2>1. CASE s = q /\ t = q
    BY <1>1, <2>1
  <2>2. CASE s # q /\ t # q
    <3>1. s \in rows /\ t \in rows /\ s[i] = t[j]
      BY <1>3, <2>2
    <3>2. InOne
      BY DEF Forest
    <3> QED BY <3>1, <3>2 DEF InOne
  <2>3. CASE s = q /\ t # q
    BY <1>3, <1>5, <2>3
  <2>4. CASE s # q /\ t = q
    BY <1>3, <1>5, <2>4
  <2> QED BY <2>1, <2>2, <2>3, <2>4
<1>7. ASSUME NEW e \in made' PROVE \E s \in rows' : \E i \in 1..Len(s) : s[i] = e
  <2>1. PICK s \in rows : \E i \in 1..Len(s) : s[i] = e
    BY <1>2, <1>7 DEF Forest
  <2>2. CASE s = <<d>>
    <3>1. e = d /\ k \in 1..Len(q) /\ q[k] = d /\ q \in rows'
      BY <1>1, <1>2, <2>1, <2>2
    <3> QED BY <3>1
  <2>3. CASE s = r
    BY <1>1, <1>2, <2>1, <2>3
  <2>4. CASE s # <<d>> /\ s # r
    BY <1>2, <2>1, <2>4
  <2> QED BY <2>2, <2>3, <2>4
<1>8. \A s \in rows' : \A i \in 1..Len(s) : under'[s[i]] = under'[s[1]]
  <2> SUFFICES ASSUME NEW s \in rows', NEW i \in 1..Len(s)
               PROVE  under'[s[i]] = under'[s[1]]
    OBVIOUS
  <2>1. CASE s = q
    BY <1>1, <2>1
  <2>2. CASE s # q
    <3>1. s \in rows /\ s # <<d>>
      BY <1>3, <2>2
    <3>2. 1 \in 1..Len(s) /\ under[s[i]] = under[s[1]]
      BY <3>1, RowFacts
    <3> QED BY <1>1, <3>1, <3>2
  <2> QED BY <2>1, <2>2
<1>9. ASSUME NEW s \in rows, s # <<d>> PROVE under'[s[1]] = under[s[1]]
  <2>1. 1 \in 1..Len(s)
    BY RowFacts
  <2> QED BY <1>1, <1>9, <2>1
<1>10. under'[q[1]] = under[r[1]]
  BY <1>1
<1>11. \A s, t \in rows' : under'[s[1]] # NULL /\ under'[s[1]] = under'[t[1]] => s = t
  <2> SUFFICES ASSUME NEW s \in rows', NEW t \in rows', under'[s[1]] # NULL,
                      under'[s[1]] = under'[t[1]]
               PROVE  s = t
    OBVIOUS
  <2>1. CASE s = q /\ t # q
    BY <1>1, <1>3, <1>9, <1>10, <2>1, RowsApart
  <2>2. CASE s # q /\ t = q
    BY <1>1, <1>3, <1>9, <1>10, <2>2, RowsApart
  <2>3. CASE s # q /\ t # q
    BY <1>3, <1>9, <2>3, RowsApart
  <2> QED BY <2>1, <2>2, <2>3
<1>12. /\ under' \in [Dies -> made' \cup {NULL}] /\ made' \subseteq Dies
       /\ \A e \in Dies \ made' : under'[e] = NULL
       /\ under'[Root] = NULL
  <2>1. under[r[1]] \in made \cup {NULL}
    BY <1>1, RowFacts
  <2> QED BY <1>2, <2>1, DieTypes DEF Forest
<1>13. Root \in made' => <<Root>> \in rows'
  <2>1. <<Root>> # <<d>>
    BY <1>2
  <2> QED BY <1>2, <2>1 DEF Forest
<1> QED BY <1>4, <1>6, <1>7, <1>8, <1>11, <1>12, <1>13 DEF Forest

(* Its pointers and those of its new neighbours.                            *)
Prev(r, k) == IF k = 1 THEN NULL ELSE r[k - 1]
Following(r, k) == IF k = Len(r) + 1 THEN NULL ELSE r[k]

LinksIn(d, r, k) ==
  /\ di_right' = [e \in Dies |-> IF e = d THEN Following(r, k)
                                 ELSE IF e = Prev(r, k) THEN d ELSE di_right[e]]
  /\ di_left' = [e \in Dies |-> IF e = d THEN Prev(r, k)
                                ELSE IF e = Following(r, k) THEN d ELSE di_left[e]]
  /\ di_parent' = [di_parent EXCEPT ![d] = under[r[1]]]
  /\ di_child' = di_child
  /\ beside \subseteq beside'
  /\ \A p \in Dies : p # under[r[1]] => di_last_child'[p] = di_last_child[p]
  /\ under[r[1]] # NULL =>
       /\ k # 1
       /\ k # Len(r) + 1 => di_last_child' = di_last_child
       /\ k = Len(r) + 1 => d \in beside' \/ di_last_child'[under[r[1]]] = d

LEMMA EntersLinked ==
  ASSUME Forest, Linked, LinkTypes, NEW d, NEW r, NEW k, NEW q, Enters(d, r, k, q), LinksIn(d, r, k)
  PROVE  Linked'
<1>1. Entered(d, r, k, q)
  BY EntersFacts
<1>2. /\ Len(r) \in Nat \ {0} /\ k \in Nat /\ Len(q) = Len(r) + 1 /\ r \in rows /\ 1 \in 1..Len(q)
      /\ \A x \in 1..Len(q) : q[x] \in made
      /\ \A x \in 1..Len(q) : q[x] = d <=> x = k
      /\ \A x \in 1..Len(q) : under'[q[x]] = under[r[1]]
      /\ \A y \in 1..Len(r) : r[y] # d
  BY <1>1 DEF Entered
<1>3. /\ d \in made /\ q \in Seq(made) /\ k \in 1..(Len(r) + 1) /\ <<d>> \in rows
      /\ rows' = (rows \ {<<d>>, r}) \cup {q} /\ made' = made
      /\ under' = [under EXCEPT ![d] = under[r[1]]] /\ under[d] = NULL
      /\ \A x \in 1..(Len(r) + 1) : q[x] = IF x < k THEN r[x] ELSE IF x = k THEN d ELSE r[x - 1]
  BY DEF Enters
<1>4. /\ di_parent \in [Dies -> Dies \cup {NULL}]
      /\ made \subseteq Dies /\ d \in Dies /\ NULL \notin Dies
  BY <1>3, DieTypes DEF LinkTypes
<1>5. \A s \in rows' : s = q \/ (s \in rows /\ s # <<d>> /\ s # r)
  BY <1>3
<1>6. /\ \A y \in 1..Len(r) : r[y] \in Dies /\ r[y] \in made
      /\ \A x, y \in 1..Len(r) : r[x] = r[y] => x = y
      /\ under[r[1]] \in made \cup {NULL}
  BY <1>2, RowFacts
<1>7. /\ RowLinked(r) /\ EndsLinked(r)
  BY <1>2 DEF Linked
<1>8. /\ k # 1 => Prev(r, k) = r[k - 1] /\ k - 1 \in 1..Len(r)
      /\ k = 1 => Prev(r, k) = NULL
      /\ k # Len(r) + 1 => Following(r, k) = r[k] /\ k \in 1..Len(r)
      /\ k = Len(r) + 1 => Following(r, k) = NULL
  BY <1>2, <1>3 DEF Prev, Following
<1>9. ASSUME NEW e \in Dies
      PROVE  /\ di_right'[e] = (IF e = d THEN Following(r, k)
                                 ELSE IF e = Prev(r, k) THEN d ELSE di_right[e])
             /\ di_left'[e] = (IF e = d THEN Prev(r, k)
                                ELSE IF e = Following(r, k) THEN d ELSE di_left[e])
             /\ di_parent'[e] = (IF e = d THEN under[r[1]] ELSE di_parent[e])
             /\ di_child'[e] = di_child[e]
  BY <1>4 DEF LinksIn
<1>10. RowLinked(q)'
  <2> SUFFICES ASSUME NEW x \in 1..Len(q)
               PROVE  /\ di_parent'[q[x]] = under'[q[1]]
                      /\ di_right'[q[x]] = IF x = Len(q) THEN NULL ELSE q[x + 1]
                      /\ di_left'[q[x]] = IF x = 1 THEN NULL ELSE q[x - 1]
    BY DEF RowLinked
  <2>1. under'[q[1]] = under[r[1]] /\ q[x] \in Dies
    BY <1>2, <1>4
  <2>2. CASE x = k
    <3>1. q[x] = d
      BY <1>2, <2>2
    <3>2. x # Len(q) => q[x + 1] = r[k]
      <4>1. SUFFICES ASSUME x # Len(q) PROVE q[x + 1] = r[k]
        OBVIOUS
      <4>2. x + 1 \in 1..(Len(r) + 1) /\ x + 1 > k /\ (x + 1) - 1 = k
        BY <1>2, <2>2, <4>1
      <4> QED BY <1>2, <1>3, <4>2
    <3>3. x # 1 => q[x - 1] = r[k - 1]
      <4>1. SUFFICES ASSUME x # 1 PROVE q[x - 1] = r[k - 1]
        OBVIOUS
      <4>2. x - 1 \in 1..(Len(r) + 1) /\ x - 1 < k
        BY <1>2, <2>2, <4>1
      <4> QED BY <1>3, <2>2, <4>2
    <3> QED BY <1>2, <1>8, <1>9, <2>1, <2>2, <3>1, <3>2, <3>3
  <2>3. CASE x < k
    <3>1. x \in 1..Len(r) /\ q[x] = r[x] /\ r[x] # d
      BY <1>2, <1>3, <2>3
    <3>2. /\ di_parent[r[x]] = under[r[1]]
          /\ di_right[r[x]] = (IF x = Len(r) THEN NULL ELSE r[x + 1])
          /\ di_left[r[x]] = (IF x = 1 THEN NULL ELSE r[x - 1])
      BY <1>7, <3>1 DEF RowLinked
    <3>3. r[x] = Prev(r, k) <=> x = k - 1
      BY <1>2, <1>3, <1>6, <1>8, <2>3, <3>1
    <3>4. r[x] # Following(r, k)
      BY <1>2, <1>3, <1>4, <1>6, <1>8, <2>3, <3>1
    <3>5. x # 1 => q[x - 1] = r[x - 1]
      <4>1. SUFFICES ASSUME x # 1 PROVE q[x - 1] = r[x - 1]
        OBVIOUS
      <4>2. x - 1 \in 1..(Len(r) + 1) /\ x - 1 < k
        BY <1>2, <2>3, <4>1
      <4> QED BY <1>3, <4>2
    <3>6. CASE x = k - 1
      <4>1. x + 1 = k /\ k \in 1..Len(q) /\ x # Len(q) /\ q[k] = d
        BY <1>2, <1>3, <3>6
      <4> QED BY <1>9, <2>1, <3>1, <3>2, <3>3, <3>4, <3>5, <3>6, <4>1
    <3>7. CASE x # k - 1
      <4>1. x + 1 \in 1..(Len(r) + 1) /\ x + 1 < k /\ x # Len(q) /\ x # Len(r)
        BY <1>2, <1>3, <2>3, <3>7
      <4>2. q[x + 1] = r[x + 1]
        BY <1>3, <4>1
      <4> QED BY <1>9, <2>1, <3>1, <3>2, <3>3, <3>4, <3>5, <3>7, <4>1, <4>2
    <3> QED BY <3>6, <3>7
  <2>4. CASE x > k
    <3>1. x - 1 \in 1..Len(r) /\ q[x] = r[x - 1] /\ r[x - 1] # d
      BY <1>2, <1>3, <2>4
    <3>2. /\ di_parent[r[x - 1]] = under[r[1]]
          /\ di_right[r[x - 1]] = (IF x - 1 = Len(r) THEN NULL ELSE r[(x - 1) + 1])
          /\ di_left[r[x - 1]] = (IF x - 1 = 1 THEN NULL ELSE r[(x - 1) - 1])
      BY <1>7, <3>1 DEF RowLinked
    <3>3. r[x - 1] = Following(r, k) <=> x - 1 = k
      BY <1>2, <1>3, <1>6, <1>8, <2>4, <3>1
    <3>4. r[x - 1] # Prev(r, k)
      BY <1>2, <1>3, <1>4, <1>6, <1>8, <2>4, <3>1
    <3>5. x # Len(q) => q[x + 1] = r[(x - 1) + 1]
      <4>1. SUFFICES ASSUME x # Len(q) PROVE q[x + 1] = r[(x - 1) + 1]
        OBVIOUS
      <4>2. /\ x + 1 \in 1..(Len(r) + 1) /\ ~(x + 1 < k) /\ x + 1 # k
            /\ (x + 1) - 1 = (x - 1) + 1
        BY <1>2, <2>4, <4>1
      <4>3. q[x + 1] = r[(x + 1) - 1]
        BY <1>3, <4>2
      <4> QED BY <4>2, <4>3
    <3>6. x - 1 = Len(r) <=> x = Len(q)
      BY <1>2
    <3>7. x # 1
      BY <1>2, <1>3, <2>4
    <3>8. CASE x - 1 = k
      <4>1. q[x - 1] = d
        BY <1>2, <1>3, <3>8
      <4> QED BY <1>9, <2>1, <3>1, <3>2, <3>3, <3>4, <3>5, <3>6, <3>7, <3>8, <4>1
    <3>9. CASE x - 1 # k
      <4>1. x - 1 \in 1..(Len(r) + 1) /\ x - 1 > k /\ x - 1 # 1
        BY <1>2, <1>3, <2>4, <3>1, <3>9
      <4>2. q[x - 1] = r[(x - 1) - 1]
        BY <1>2, <1>3, <4>1
      <4> QED BY <1>9, <2>1, <3>1, <3>2, <3>3, <3>4, <3>5, <3>6, <3>7, <3>9, <4>1, <4>2
    <3> QED BY <3>8, <3>9
  <2> QED BY <1>2, <2>2, <2>3, <2>4
<1>11. ASSUME NEW s \in rows, s # <<d>>, s # r
       PROVE  RowLinked(s)' /\ EndsLinked(s)' /\ under'[s[1]] = under[s[1]]
  <2>1. /\ \A i \in 1..Len(s) : s[i] # d /\ s[i] \in Dies /\ under'[s[i]] = under[s[i]]
        /\ \A i \in 1..Len(s) : \A j \in 1..Len(r) : s[i] # r[j]
        /\ 1 \in 1..Len(s) /\ Len(s) \in 1..Len(s)
    <3>1. /\ 1 \in 1..Len(s) /\ Len(s) \in 1..Len(s)
          /\ \A i \in 1..Len(s) : s[i] \in Dies
      BY RowFacts
    <3>2. \A i \in 1..Len(s) : s[i] # d /\ under'[s[i]] = under[s[i]]
      BY <1>1, <1>11 DEF Entered
    <3>3. \A i \in 1..Len(s) : \A j \in 1..Len(r) : s[i] # r[j]
      BY <1>2, <1>11, RowsApart
    <3> QED BY <3>1, <3>2, <3>3
  <2>2. RowLinked(s) /\ EndsLinked(s)
    BY DEF Linked
  <2>3. ASSUME NEW i \in 1..Len(s)
        PROVE  /\ di_parent'[s[i]] = di_parent[s[i]]
               /\ di_right'[s[i]] = di_right[s[i]] /\ di_left'[s[i]] = di_left[s[i]]
    <3>1. s[i] \in Dies /\ s[i] # d /\ s[i] # Prev(r, k) /\ s[i] # Following(r, k)
      BY <1>4, <1>8, <2>1
    <3> QED BY <1>9, <3>1
  <2>4. RowLinked(s)'
    BY <2>1, <2>2, <2>3 DEF RowLinked
  <2>5. EndsLinked(s)'
    <3>1. SUFFICES ASSUME under[s[1]] # NULL
                   PROVE  /\ di_child'[under[s[1]]] = s[1]
                          /\ s[Len(s)] \in beside' \/ di_last_child'[under[s[1]]] = s[Len(s)]
      BY <2>1 DEF EndsLinked
    <3>2. under[s[1]] # under[r[1]]
      BY <1>2, <1>11, <3>1, RowsApart
    <3>3. under[s[1]] \in Dies
      BY <1>4, <3>1, RowFacts
    <3>4. di_child' = di_child /\ di_last_child'[under[s[1]]] = di_last_child[under[s[1]]]
          /\ beside \subseteq beside'
      BY <3>2, <3>3 DEF LinksIn
    <3> QED BY <2>2, <3>1, <3>4 DEF EndsLinked
  <2> QED BY <2>1, <2>4, <2>5
<1>12. EndsLinked(q)'
  <2>1. under'[q[1]] = under[r[1]]
    BY <1>2
  <2>2. SUFFICES ASSUME under[r[1]] # NULL
                 PROVE  /\ di_child'[under[r[1]]] = q[1]
                        /\ q[Len(q)] \in beside' \/ di_last_child'[under[r[1]]] = q[Len(q)]
    BY <2>1 DEF EndsLinked
  <2>3. /\ di_child[under[r[1]]] = r[1] /\ di_child' = di_child /\ k # 1 /\ beside \subseteq beside'
        /\ r[Len(r)] \in beside \/ di_last_child[under[r[1]]] = r[Len(r)]
        /\ k # Len(r) + 1 => di_last_child' = di_last_child
        /\ k = Len(r) + 1 => d \in beside' \/ di_last_child'[under[r[1]]] = d
    BY <1>7, <2>2 DEF LinksIn, EndsLinked
  <2>4. q[1] = r[1]
    <3>1. 1 \in 1..(Len(r) + 1) /\ 1 < k
      BY <1>2, <1>3, <2>3
    <3> QED BY <1>3, <3>1
  <2>5. CASE k = Len(r) + 1
    <3>1. q[Len(q)] = d
      BY <1>2, <1>3, <2>5
    <3> QED BY <2>3, <2>4, <2>5, <3>1
  <2>6. CASE k # Len(r) + 1
    <3>1. Len(q) \in 1..(Len(r) + 1) /\ Len(q) > k /\ Len(q) - 1 = Len(r)
      BY <1>2, <1>3, <2>6
    <3>2. q[Len(q)] = r[Len(r)]
      BY <1>2, <1>3, <3>1
    <3> QED BY <2>3, <2>4, <2>6, <3>2
  <2> QED BY <2>5, <2>6
<1>13. ASSUME NEW e \in Dies \ made'
       PROVE  /\ di_parent'[e] = NULL /\ di_child'[e] = NULL
              /\ di_left'[e] = NULL /\ di_right'[e] = NULL
  <2>1. e \in Dies \ made /\ e # d /\ e # Prev(r, k) /\ e # Following(r, k)
    BY <1>3, <1>4, <1>6, <1>8
  <2> QED BY <1>9, <2>1 DEF Linked
<1>14. ASSUME NEW p \in made', NoneUnder(p)'
       PROVE  di_child'[p] = NULL
  <2>1. ASSUME NEW s \in rows PROVE under[s[1]] # p
    <3>1. CASE s = <<d>>
      <4>1. s[1] = d
        BY <3>1
      <4> QED BY <1>3, <1>4, <4>1
    <3>2. CASE s = r
      <4>1. q \in rows' /\ under'[q[1]] = under[r[1]]
        BY <1>2, <1>3
      <4> QED BY <1>14, <3>2, <4>1 DEF NoneUnder
    <3>3. CASE s # <<d>> /\ s # r
      <4>1. s \in rows' /\ under'[s[1]] = under[s[1]]
        BY <1>3, <1>11, <3>3
      <4> QED BY <1>14, <4>1 DEF NoneUnder
    <3> QED BY <3>1, <3>2, <3>3
  <2>2. di_child[p] = NULL
    BY <1>3, <2>1 DEF Linked, NoneUnder
  <2> QED BY <1>3, <1>4, <1>9, <2>2
<1> QED BY <1>5, <1>10, <1>11, <1>12, <1>13, <1>14 DEF Linked

(* A DIE alone in its list is put under one that has no children.            *)
Adopts(c, p) ==
  /\ <<c>> \in rows /\ c # Root /\ {c, p} \subseteq made /\ under[c] = NULL
  /\ NoneUnder(p)
  /\ rows' = rows /\ made' = made
  /\ under' = [under EXCEPT ![c] = p]

LEMMA AdoptsForest ==
  ASSUME Forest, NEW c, NEW p, Adopts(c, p)
  PROVE  /\ Forest'
         /\ \A s \in rows : s # <<c>> => \A i \in 1..Len(s) : s[i] # c /\ under'[s[i]] = under[s[i]]
         /\ under'[c] = p
<1>1. /\ <<c>> \in rows /\ c # Root /\ c \in made /\ p \in made /\ under[c] = NULL
      /\ NoneUnder(p) /\ rows' = rows /\ made' = made /\ under' = [under EXCEPT ![c] = p]
      /\ under \in [Dies -> made \cup {NULL}] /\ made \subseteq Dies
  BY DEF Adopts, Forest
<1>2. under'[c] = p
  BY <1>1
<1>3. ASSUME NEW s \in rows, s # <<c>>, NEW i \in 1..Len(s)
      PROVE  s[i] # c /\ under'[s[i]] = under[s[i]]
  <2>1. s[i] # <<c>>[1]
    BY <1>1, <1>3, AloneIs, RowsApart
  <2>2. s[i] \in Dies
    BY RowFacts
  <2> QED BY <1>1, <2>1, <2>2
<1>4. /\ \A r \in rows' : r \in Seq(made') /\ r # <<>>
      /\ InOne'
      /\ \A d \in made' : \E r \in rows' : \E i \in 1..Len(r) : r[i] = d
  BY <1>1 DEF Forest, InOne
<1>5. ASSUME NEW r \in rows' PROVE \A i \in 1..Len(r) : under'[r[i]] = under'[r[1]]
  <2>1. CASE r = <<c>>
    BY <2>1, AloneIs
  <2>2. CASE r # <<c>>
    <3>1. r \in rows /\ 1 \in 1..Len(r) /\ \A i \in 1..Len(r) : under[r[i]] = under[r[1]]
      BY <1>1, RowFacts
    <3> QED BY <1>3, <2>2, <3>1
  <2> QED BY <2>1, <2>2
<1>6. ASSUME NEW r \in rows', NEW q \in rows', under'[r[1]] # NULL, under'[r[1]] = under'[q[1]]
      PROVE  r = q
  <2>1. \A s \in rows : s # <<c>> => under'[s[1]] = under[s[1]] /\ under[s[1]] # p
    <3>1. SUFFICES ASSUME NEW s \in rows, s # <<c>>
                   PROVE  under'[s[1]] = under[s[1]] /\ under[s[1]] # p
      OBVIOUS
    <3>2. 1 \in 1..Len(s)
      BY RowFacts
    <3> QED BY <1>1, <1>3, <3>1, <3>2 DEF NoneUnder
  <2>2. <<c>>[1] = c
    OBVIOUS
  <2>3. CASE r # <<c>> /\ q # <<c>>
    BY <1>1, <1>6, <2>1, <2>3, RowsApart
  <2>4. CASE r = <<c>> \/ q = <<c>>
    BY <1>1, <1>2, <1>6, <2>1, <2>2, <2>4
  <2> QED BY <2>3, <2>4
<1>7. /\ under' \in [Dies -> made' \cup {NULL}] /\ made' \subseteq Dies
      /\ \A d \in Dies \ made' : under'[d] = NULL
      /\ under'[Root] = NULL
      /\ Root \in made' => <<Root>> \in rows'
  BY <1>1, DieTypes DEF Forest
<1> QED BY <1>2, <1>3, <1>4, <1>5, <1>6, <1>7 DEF Forest

AdoptsLinks(c, p) ==
  /\ di_parent' = [di_parent EXCEPT ![c] = p] /\ di_child' = [di_child EXCEPT ![p] = c]
  /\ di_last_child' = [di_last_child EXCEPT ![p] = c]
  /\ UNCHANGED <<di_left, di_right>> /\ beside' = beside

LEMMA AdoptsLinked ==
  ASSUME Forest, Linked, LinkTypes, NEW c, NEW p, Adopts(c, p), AdoptsLinks(c, p)
  PROVE  Linked'
<1>1. /\ <<c>> \in rows /\ c \in made /\ p \in made /\ under[c] = NULL
      /\ NoneUnder(p) /\ rows' = rows /\ made' = made /\ c \in Dies /\ p \in Dies
      /\ di_parent' = [di_parent EXCEPT ![c] = p] /\ di_child' = [di_child EXCEPT ![p] = c]
      /\ di_last_child' = [di_last_child EXCEPT ![p] = c]
      /\ di_left' = di_left /\ di_right' = di_right /\ beside' = beside
      /\ di_parent \in [Dies -> Dies \cup {NULL}] /\ di_child \in [Dies -> Dies \cup {NULL}]
      /\ di_last_child \in [Dies -> Dies \cup {NULL}] /\ NULL \notin Dies /\ made \subseteq Dies
  BY DieTypes DEF Adopts, AdoptsLinks, LinkTypes
<1>2. /\ under'[c] = p
      /\ \A s \in rows : s # <<c>> => \A i \in 1..Len(s) : s[i] # c /\ under'[s[i]] = under[s[i]]
  BY AdoptsForest
<1>3. ASSUME NEW s \in rows, s # <<c>> PROVE RowLinked(s)' /\ EndsLinked(s)'
  <2>1. RowLinked(s) /\ EndsLinked(s) /\ under[s[1]] # p
    BY <1>1 DEF Linked, NoneUnder
  <2>2. /\ 1 \in 1..Len(s) /\ Len(s) \in 1..Len(s) /\ \A i \in 1..Len(s) : s[i] \in Dies
        /\ under[s[1]] \in made \cup {NULL}
    BY RowFacts
  <2>3. under'[s[1]] = under[s[1]] /\ \A i \in 1..Len(s) : s[i] # c
    BY <1>2, <1>3, <2>2
  <2>4. \A i \in 1..Len(s) : di_parent'[s[i]] = di_parent[s[i]]
    BY <1>1, <2>2, <2>3
  <2>5. RowLinked(s)'
    BY <1>1, <2>1, <2>3, <2>4 DEF RowLinked
  <2>6. under[s[1]] # NULL => /\ di_child'[under[s[1]]] = di_child[under[s[1]]]
                              /\ di_last_child'[under[s[1]]] = di_last_child[under[s[1]]]
    BY <1>1, <2>1, <2>2
  <2>7. EndsLinked(s)'
    BY <1>1, <2>1, <2>3, <2>6 DEF EndsLinked
  <2> QED BY <2>5, <2>7
<1>4. RowLinked(<<c>>)' /\ EndsLinked(<<c>>)'
  <2>1. Len(<<c>>) = 1 /\ <<c>>[1] = c
    OBVIOUS
  <2>2. RowLinked(<<c>>)
    BY <1>1 DEF Linked
  <2>3. /\ di_right'[c] = NULL /\ di_left'[c] = NULL /\ di_parent'[c] = p
        /\ di_child'[p] = c /\ di_last_child'[p] = c
    BY <1>1, <2>1, <2>2 DEF RowLinked
  <2> HIDE DEF Linked
  <2>4. RowLinked(<<c>>)'
    BY <1>2, <2>1, <2>3 DEF RowLinked
  <2>5. EndsLinked(<<c>>)'
    BY <1>2, <2>1, <2>3 DEF EndsLinked
  <2> QED BY <2>4, <2>5
<1>5. ASSUME NEW d \in Dies \ made'
      PROVE  /\ di_parent'[d] = NULL /\ di_child'[d] = NULL
             /\ di_left'[d] = NULL /\ di_right'[d] = NULL
  BY <1>1 DEF Linked
<1>6. ASSUME NEW e \in made', NoneUnder(e)' PROVE di_child'[e] = NULL
  <2>1. e # p
    <3>1. <<c>>[1] = c
      OBVIOUS
    <3> QED BY <1>1, <1>2, <1>6, <3>1 DEF NoneUnder
  <2>2. NoneUnder(e)
    <3> SUFFICES ASSUME NEW s \in rows PROVE under[s[1]] # e
      BY DEF NoneUnder
    <3>1. CASE s = <<c>>
      <4>1. s[1] = c
        BY <3>1
      <4> QED BY <1>1, <1>6, <4>1
    <3>2. CASE s # <<c>>
      <4>1. 1 \in 1..Len(s)
        BY RowFacts
      <4>2. under'[s[1]] = under[s[1]]
        BY <1>2, <3>2, <4>1
      <4> QED BY <1>1, <1>6, <4>2 DEF NoneUnder
    <3> QED BY <3>1, <3>2
  <2> QED BY <1>1, <1>6, <2>1, <2>2 DEF Linked
<1> QED BY <1>1, <1>3, <1>4, <1>5, <1>6 DEF Linked

(* A DIE is in its list.                                                    *)
LEMMA RowIs ==
  ASSUME Forest, NEW d \in made
  PROVE  Row(d) \in rows /\ \E i \in 1..Len(Row(d)) : Row(d)[i] = d
<1>1. PICK r \in rows : \E i \in 1..Len(r) : r[i] = d
  BY DEF Forest
<1>2. PICK i \in 1..Len(r) : r[i] = d
  BY <1>1
<1>3. \A q \in rows : DOMAIN q = 1..Len(q)
  BY RowFacts
<1>4. d \in Range(r)
  BY <1>2, <1>3 DEF Range
<1>5. Row(d) \in rows /\ d \in Range(Row(d))
  BY <1>4 DEF Row
<1> QED BY <1>3, <1>5 DEF Range

LEMMA OwnTree == ASSUME NEW d \in made PROVE d \in Tree(d)
BY DEF Tree

(* dwarf_new_die()                                                          *)
LEMMA NewDieForest ==
  ASSUME Forest, NEW d \in Dies, NewDie(d)
  PROVE  Forest'
<1>1. /\ d \notin made /\ made' = made \cup {d} /\ rows' = rows \cup {<<d>>} /\ under' = under
      /\ under \in [Dies -> made \cup {NULL}] /\ made \subseteq Dies /\ under[d] = NULL
  BY DEF NewDie, Forest
<1>2. Len(<<d>>) = 1 /\ <<d>>[1] = d /\ <<d>> \in Seq(made') /\ <<d>> # <<>>
  BY <1>1
<1>3. \A r \in rows : /\ r \in Seq(made) /\ r # <<>> /\ 1 \in 1..Len(r)
                       /\ \A i \in 1..Len(r) : r[i] \in made
  BY RowFacts DEF Forest
<1>4. \A r \in rows : r \in Seq(made')
  <2>1. made \subseteq made'
    BY <1>1
  <2> QED BY <1>3, <2>1
<1>5. \A r \in rows' : r \in Seq(made') /\ r # <<>>
  BY <1>1, <1>2, <1>3, <1>4
<1>6. InOne'
  <2> SUFFICES ASSUME NEW s \in rows', NEW t \in rows',
                      NEW i \in 1..Len(s), NEW j \in 1..Len(t), s[i] = t[j]
               PROVE  s = t /\ i = j
    BY DEF InOne
  <2>1. CASE s = <<d>> /\ t = <<d>>
    BY <1>2, <2>1
  <2>2. CASE s # <<d>> /\ t # <<d>>
    <3>1. s \in rows /\ t \in rows /\ InOne
      BY <1>1, <2>2 DEF Forest
    <3> QED BY <3>1 DEF InOne
  <2>3. CASE s = <<d>> /\ t # <<d>>
    <3>1. s[i] = d /\ t \in rows
      BY <1>1, <1>2, <2>3
    <3> QED BY <1>1, <1>3, <3>1
  <2>4. CASE s # <<d>> /\ t = <<d>>
    <3>1. t[j] = d /\ s \in rows
      BY <1>1, <1>2, <2>4
    <3> QED BY <1>1, <1>3, <3>1
  <2> QED BY <2>1, <2>2, <2>3, <2>4
<1>7. ASSUME NEW e \in made' PROVE \E r \in rows' : \E i \in 1..Len(r) : r[i] = e
  <2>1. CASE e = d
    <3>1. <<d>> \in rows' /\ 1 \in 1..Len(<<d>>)
      BY <1>1, <1>2
    <3> QED BY <1>2, <2>1, <3>1
  <2>2. CASE e # d
    BY <1>1, <2>2 DEF Forest
  <2> QED BY <2>1, <2>2
<1>8. ASSUME NEW r \in rows' PROVE \A i \in 1..Len(r) : under'[r[i]] = under'[r[1]]
  <2>1. CASE r = <<d>>
    BY <1>2, <2>1
  <2>2. CASE r # <<d>>
    BY <1>1, <2>2 DEF Forest
  <2> QED BY <2>1, <2>2
<1>9. ASSUME NEW r \in rows', NEW q \in rows', under'[r[1]] # NULL, under'[r[1]] = under'[q[1]]
      PROVE  r = q
  <2>1. under[<<d>>[1]] = NULL
    BY <1>1, <1>2
  <2>2. r # <<d>> /\ q # <<d>>
    BY <1>1, <1>9, <2>1
  <2> QED BY <1>1, <1>9, <2>2 DEF Forest
<1>10. /\ under' \in [Dies -> made' \cup {NULL}] /\ made' \subseteq Dies
       /\ \A e \in Dies \ made' : under'[e] = NULL
       /\ under'[Root] = NULL
       /\ Root \in made' => <<Root>> \in rows'
  BY <1>1 DEF Forest
<1> QED BY <1>5, <1>6, <1>7, <1>8, <1>9, <1>10 DEF Forest

LEMMA NewDieLinked ==
  ASSUME Forest, Linked, NEW d \in Dies, NewDie(d)
  PROVE  Linked'
<1>1. /\ d \notin made /\ made' = made \cup {d} /\ rows' = rows \cup {<<d>>}
      /\ under' = under /\ beside' = beside
      /\ UNCHANGED <<di_parent, di_child, di_last_child, di_left, di_right>>
      /\ under \in [Dies -> made \cup {NULL}] /\ under[d] = NULL
  BY DEF NewDie, Forest, links
<1>2. Len(<<d>>) = 1 /\ <<d>>[1] = d
  OBVIOUS
<1>3. ASSUME NEW s \in rows' PROVE RowLinked(s)' /\ EndsLinked(s)'
  <2>1. CASE s \in rows
    <3>1. RowLinked(s) /\ EndsLinked(s)
      BY <2>1 DEF Linked
    <3> QED BY <1>1, <3>1 DEF RowLinked, EndsLinked
  <2>2. CASE s = <<d>>
    <3>1. di_parent'[d] = NULL /\ di_left'[d] = NULL /\ di_right'[d] = NULL /\ under'[d] = NULL
      BY <1>1 DEF Linked
    <3> QED BY <1>2, <2>2, <3>1 DEF RowLinked, EndsLinked
  <2> QED BY <1>1, <2>1, <2>2
<1>4. ASSUME NEW e \in Dies \ made'
      PROVE  /\ di_parent'[e] = NULL /\ di_child'[e] = NULL
             /\ di_left'[e] = NULL /\ di_right'[e] = NULL
  BY <1>1 DEF Linked
<1>5. ASSUME NEW p \in made', NoneUnder(p)' PROVE di_child'[p] = NULL
  <2>1. NoneUnder(p)
    BY <1>1, <1>5 DEF NoneUnder
  <2> QED BY <1>1, <2>1 DEF Linked
<1> QED BY <1>3, <1>4, <1>5 DEF Linked

LEMMA InsertAtIs ==
  ASSUME NEW S, NEW r \in Seq(S), NEW k \in 1..(Len(r) + 1), NEW d \in S
  PROVE  /\ InsertAt(r, k, d) \in Seq(S) /\ Len(InsertAt(r, k, d)) = Len(r) + 1
         /\ \A x \in 1..(Len(r) + 1) :
              InsertAt(r, k, d)[x] = IF x < k THEN r[x] ELSE IF x = k THEN d ELSE r[x - 1]
<1> DEFINE a == SubSeq(r, 1, k - 1)
           b == SubSeq(r, k, Len(r))
           q == a \o <<d>>
<1>1. /\ a \in Seq(S) /\ Len(a) = k - 1 /\ \A x \in 1..(k - 1) : a[x] = r[x]
      /\ b \in Seq(S) /\ Len(b) = Len(r) + 1 - k
      /\ \A x \in 1..(Len(r) + 1 - k) : b[x] = r[k + x - 1]
  OBVIOUS
<1> HIDE DEF a, b
<1>2. /\ q \in Seq(S) /\ Len(q) = k /\ q[k] = d /\ \A x \in 1..(k - 1) : q[x] = r[x]
  BY <1>1
<1> HIDE DEF q
<1>3. /\ q \o b \in Seq(S) /\ Len(q \o b) = Len(r) + 1
      /\ \A x \in 1..k : (q \o b)[x] = q[x]
      /\ \A x \in (k + 1)..(Len(r) + 1) : (q \o b)[x] = b[x - k]
  BY <1>1, <1>2
<1>4. InsertAt(r, k, d) = q \o b
  BY DEF InsertAt, a, b, q
<1>5. ASSUME NEW x \in 1..(Len(r) + 1)
      PROVE  (q \o b)[x] = IF x < k THEN r[x] ELSE IF x = k THEN d ELSE r[x - 1]
  <2>1. CASE x < k
    BY <1>2, <1>3, <2>1
  <2>2. CASE x = k
    BY <1>2, <1>3, <2>2
  <2>3. CASE x > k
    <3>1. x \in (k + 1)..(Len(r) + 1) /\ x - k \in 1..(Len(r) + 1 - k) /\ k + (x - k) - 1 = x - 1
      BY <2>3
    <3>2. b[x - k] = r[k + (x - k) - 1]
      BY <1>1, <3>1
    <3> QED BY <1>3, <2>3, <3>1, <3>2
  <2>4. Len(r) \in Nat
    OBVIOUS
  <2>5. x < k \/ x = k \/ x > k
    BY <2>4
  <2> QED BY <2>1, <2>2, <2>3, <2>5
<1> QED BY <1>3, <1>4, <1>5

LEMMA AppendIs ==
  ASSUME NEW S, NEW r \in Seq(S), NEW d \in S
  PROVE  /\ Append(r, d) \in Seq(S) /\ Len(Append(r, d)) = Len(r) + 1
         /\ \A x \in 1..(Len(r) + 1) :
              Append(r, d)[x] = IF x < Len(r) + 1 THEN r[x]
                                ELSE IF x = Len(r) + 1 THEN d ELSE r[x - 1]
OBVIOUS

(* Where the DIE that is linked is before, and the other.                     *)
LEMMA LinkFacts ==
  ASSUME Forest, NEW d, NEW place, NEW n, Link(d, place, n)
  PROVE  /\ d \in made /\ n \in made /\ n # d /\ d # Root /\ d \in Dies /\ n \in Dies
         /\ <<d>> \in rows /\ under[d] = NULL
         /\ Row(n) \in rows
         /\ \E i \in 1..Len(Row(n)) : Row(n)[i] = n
         /\ Row(n) # <<d>>
         /\ n # Root => Row(n) # <<Root>>
         /\ under[n] = under[Row(n)[1]]
<1>1. d \in made /\ MayLink(d, place, n)
  BY DEF Link
<1>2. d # Root /\ n \in made /\ n \notin Tree(d) /\ under[d] = NULL /\ Row(d) = <<d>>
  BY <1>1 DEF MayLink
<1>3. n # d
  BY <1>1, <1>2, OwnTree
<1>4. <<d>> \in rows
  BY <1>1, <1>2, RowIs
<1>5. Row(n) \in rows
  BY <1>2, RowIs
<1>6. PICK i \in 1..Len(Row(n)) : Row(n)[i] = n
  BY <1>2, RowIs
<1> DEFINE r == Row(n)
<1> HIDE DEF r
<1>7. r \in rows /\ i \in 1..Len(r) /\ r[i] = n
  BY <1>5, <1>6 DEF r
<1>8. r # <<d>>
  <2>1. ASSUME r = <<d>> PROVE n = d
    BY <1>7, <2>1
  <2> QED BY <1>3, <2>1
<1>9. n # Root => r # <<Root>>
  <2>1. ASSUME r = <<Root>> PROVE n = Root
    BY <1>7, <2>1
  <2> QED BY <2>1
<1>10. under[n] = under[r[1]]
  BY <1>7, RowFacts
<1>11. made \subseteq Dies
  BY DEF Forest
<1> QED BY <1>1, <1>2, <1>3, <1>4, <1>7, <1>8, <1>9, <1>10, <1>11 DEF r

(* di_left and di_right of a DIE alone in its list.                          *)
LEMMA Alone ==
  ASSUME Linked, NEW d, <<d>> \in rows
  PROVE  di_left[d] = NULL /\ di_right[d] = NULL /\ di_parent[d] = under[d]
<1>1. RowLinked(<<d>>) /\ Len(<<d>>) = 1 /\ <<d>>[1] = d
  BY DEF Linked
<1> HIDE DEF Linked
<1> QED BY <1>1 DEF RowLinked

(* What an operation that links d to n keeps.                               *)
KeepsForest(d, place, n) ==
  /\ Forest'
  /\ ~LosesDies(place, n) /\ Linked => Linked'

LEMMA BesideEnters ==
  ASSUME Forest, NEW d, NEW place \in {"left", "right"}, NEW n, Link(d, place, n),
         NEW r, r = Row(n), NEW i \in 1..Len(r), r[i] = n
  PROVE  \E q : Enters(d, r, IF place = "left" THEN i + 1 ELSE i, q)
<1>1. /\ d \in made /\ n \in made /\ n # d /\ d # Root /\ d \in Dies /\ n \in Dies
      /\ <<d>> \in rows /\ under[d] = NULL /\ r \in rows /\ r # <<d>>
      /\ under[n] = under[r[1]]
      /\ n # Root => r # <<Root>>
  BY LinkFacts
<1>2. /\ n # Root /\ Place(d, place, n) /\ made' = made
  BY DEF Link, MayLink
<1>4. /\ Len(r) \in Nat \ {0} /\ DOMAIN r = 1..Len(r) /\ r \in Seq(made)
      /\ \A x, y \in 1..Len(r) : r[x] = r[y] => x = y
      /\ \A x \in 1..Len(r) : r[x] \in Dies
  BY <1>1, RowFacts DEF Forest
<1>5. (CHOOSE x \in DOMAIN r : r[x] = n) = i
  BY <1>4
<1>51. PICK k : k = IF place = "left" THEN i + 1 ELSE i
  OBVIOUS
<1>52. PICK q : q = InsertAt(r, k, d)
  OBVIOUS
<1>6. /\ rows' = ((rows \ {<<d>>}) \ {r}) \cup {q}
      /\ under' = [under EXCEPT ![d] = under[n]]
  <2>1. PICK j : j = CHOOSE x \in DOMAIN r : r[x] = n
    OBVIOUS
  <2>2. /\ rows' = ((rows \ {<<d>>}) \ {r})
                    \cup {InsertAt(r, IF place = "left" THEN j + 1 ELSE j, d)}
        /\ under' = [under EXCEPT ![d] = under[n]]
    BY <1>2, <2>1 DEF Place
  <2>3. j = i
    BY <1>5, <2>1
  <2> QED BY <1>51, <1>52, <2>2, <2>3
<1>7. k \in 1..(Len(r) + 1)
  BY <1>4, <1>51
<1>8. /\ q \in Seq(made) /\ Len(q) = Len(r) + 1
      /\ \A x \in 1..(Len(r) + 1) : q[x] = IF x < k THEN r[x] ELSE IF x = k THEN d ELSE r[x - 1]
  <2>1. d \in made /\ r \in Seq(made)
    BY <1>1, <1>4
  <2>2. PICK s : s = r
    OBVIOUS
  <2>3. s \in Seq(made) /\ k \in 1..(Len(s) + 1)
    BY <1>7, <2>1, <2>2
  <2>4. InsertAt(s, k, d) \in Seq(made) /\ Len(InsertAt(s, k, d)) = Len(s) + 1
    BY <2>1, <2>3, InsertAtIs
  <2>5. \A x \in 1..(Len(s) + 1) :
          InsertAt(s, k, d)[x] = IF x < k THEN s[x] ELSE IF x = k THEN d ELSE s[x - 1]
    BY <2>1, <2>3, InsertAtIs
  <2> QED BY <1>52, <2>2, <2>4, <2>5
<1>9. Enters(d, r, k, q)
  <2>1. rows' = (rows \ {<<d>>, r}) \cup {q}
    BY <1>6
  <2> QED BY <1>1, <1>2, <1>6, <1>7, <1>8, <2>1 DEF Enters
<1> QED BY <1>9, <1>51

LEMMA LinkBesideRight ==
  ASSUME Forest, LinkTypes, NEW d, NEW place \in {"left", "right"}, NEW n, Link(d, place, n)
  PROVE  KeepsForest(d, place, n)
<1>0. PICK r : r = Row(n)
  OBVIOUS
<1>1. /\ d \in made /\ n \in made /\ n # d /\ d # Root /\ d \in Dies /\ n \in Dies
      /\ <<d>> \in rows /\ under[d] = NULL /\ r \in rows /\ r # <<d>>
      /\ under[n] = under[r[1]]
      /\ n # Root => r # <<Root>>
      /\ \E i \in 1..Len(r) : r[i] = n
  BY <1>0, LinkFacts
<1>2. /\ n # Root /\ Place(d, place, n) /\ made' = made
      /\ beside' = IF place = "left" THEN beside \cup {d} ELSE beside
  BY DEF Link, MayLink
<1>3. PICK i \in 1..Len(r) : r[i] = n
  BY <1>1
<1>4. /\ Len(r) \in Nat \ {0} /\ DOMAIN r = 1..Len(r) /\ r \in Seq(made)
      /\ \A x, y \in 1..Len(r) : r[x] = r[y] => x = y
      /\ \A x \in 1..Len(r) : r[x] \in Dies
  BY <1>1, RowFacts DEF Forest
<1>51. PICK k : k = IF place = "left" THEN i + 1 ELSE i
  OBVIOUS
<1>9. PICK q : Enters(d, r, k, q)
  BY <1>0, <1>3, <1>51, BesideEnters
<1>10. Forest'
  BY <1>9, EntersForest
<1>11. ASSUME ~LosesDies(place, n), Linked PROVE LinksIn(d, r, k)
  <2>1. RowLinked(r) /\ EndsLinked(r)
    BY <1>1, <1>11 DEF Linked
  <2>2. /\ di_parent[n] = under[r[1]]
        /\ di_right[n] = IF i = Len(r) THEN NULL ELSE r[i + 1]
        /\ di_left[n] = IF i = 1 THEN NULL ELSE r[i - 1]
    BY <1>3, <2>1 DEF RowLinked
  <2>3. di_left[d] = NULL /\ di_right[d] = NULL
    BY <1>1, <1>11, Alone
  <2>4. /\ di_left \in [Dies -> Dies \cup {NULL}] /\ di_right \in [Dies -> Dies \cup {NULL}]
        /\ NULL \notin Dies
    BY DieTypes DEF LinkTypes
  <2>5. JoinParent(d, n)
    BY DEF Link
  <2>6. di_parent' = [di_parent EXCEPT ![d] = under[r[1]]]
    BY <2>2, <2>5 DEF JoinParent
  <2>7. CASE place = "left"
    <3>1. k = i + 1 /\ k # 1
      BY <1>3, <1>51, <2>7
    <3>2. Prev(r, k) = n /\ Following(r, k) = di_right[n]
      <4>1. i \in Nat /\ Len(r) \in Nat
        BY <1>4
      <4>2. (i + 1) - 1 = i /\ ((i + 1 = Len(r) + 1) <=> (i = Len(r)))
        BY <4>1
      <4> QED BY <1>3, <2>2, <3>1, <4>2 DEF Prev, Following
    <3>3. LinkLeft(d, n)
      BY <2>7 DEF Link
    <3>4. /\ di_left' = [e \in Dies |->
                          IF e = d THEN n ELSE IF e = di_right[n] THEN d ELSE di_left[e]]
          /\ di_right' = [di_right EXCEPT ![d] = IF di_right[n] # NULL THEN di_right[n] ELSE @,
                                          ![n] = d]
          /\ di_child' = di_child /\ di_last_child' = di_last_child
      BY <3>3 DEF LinkLeft
    <3>5. di_right' = [e \in Dies |->
                        IF e = d THEN di_right[n] ELSE IF e = n THEN d ELSE di_right[e]]
      BY <1>1, <2>3, <2>4, <3>4
    <3>6. d \in beside' /\ beside \subseteq beside'
      BY <1>2, <2>7
    <3> QED BY <2>6, <3>1, <3>2, <3>4, <3>5, <3>6 DEF LinksIn
  <2>8. CASE place = "right"
    <3>1. k = i /\ k # Len(r) + 1
      BY <1>3, <1>4, <1>51, <2>8
    <3>2. Following(r, k) = n /\ Prev(r, k) = di_left[n]
      BY <1>3, <2>2, <3>1 DEF Prev, Following
    <3>3. LinkRight(d, n)
      BY <2>8 DEF Link
    <3>4. /\ di_right' = [e \in Dies |->
                           IF e = d THEN n ELSE IF e = di_left[n] THEN d ELSE di_right[e]]
          /\ di_left' = [di_left EXCEPT ![d] = IF di_left[n] # NULL THEN di_left[n] ELSE @,
                                        ![n] = d]
          /\ di_child' = di_child /\ di_last_child' = di_last_child
      BY <3>3 DEF LinkRight
    <3>5. di_left' = [e \in Dies |-> IF e = d THEN di_left[n] ELSE IF e = n THEN d ELSE di_left[e]]
      BY <1>1, <2>3, <2>4, <3>4
    <3>6. beside \subseteq beside'
      BY <1>2
    <3>7. under[r[1]] # NULL => k # 1
      <4>1. ~(under[n] # NULL /\ n = r[1])
        BY <1>0, <1>11, <2>8 DEF LosesDies
      <4> QED BY <1>1, <1>3, <3>1, <4>1
    <3> QED BY <2>6, <3>1, <3>2, <3>4, <3>5, <3>6, <3>7 DEF LinksIn
  <2> QED BY <2>7, <2>8
<1>12. ~LosesDies(place, n) /\ Linked => Linked'
  BY <1>9, <1>11, EntersLinked
<1> QED BY <1>10, <1>12 DEF KeepsForest

LEMMA UnderEnters ==
  ASSUME Forest, NEW d, NEW n, Link(d, "parent", n), NEW c \in rows, under[c[1]] = n
  PROVE  Enters(d, c, Len(c) + 1, Append(c, d))
<1>1. /\ d \in made /\ n \in made /\ n # d /\ d # Root /\ d \in Dies /\ n \in Dies
      /\ <<d>> \in rows /\ under[d] = NULL
  BY LinkFacts
<1>2. /\ Place(d, "parent", n) /\ made' = made
  BY DEF Link
<1>3. under' = [under EXCEPT ![d] = n]
  BY <1>2 DEF Place
<1>4. n # NULL /\ NULL \notin Dies
  BY <1>1, DieTypes
<1>5. c \in RowsUnder(n) /\ (CHOOSE x \in RowsUnder(n) : TRUE) = c
  <2>1. \A x \in RowsUnder(n) : x = c
    BY <1>4 DEF RowsUnder, Forest
  <2>2. c \in RowsUnder(n)
    BY DEF RowsUnder
  <2> QED BY <2>1, <2>2
<1>6. rows' = ((rows \ {<<d>>}) \ {c}) \cup {Append(c, d)}
  BY <1>2, <1>5 DEF Place
<1>7. c # <<d>>
  <2>1. <<d>>[1] = d
    OBVIOUS
  <2> QED BY <1>1, <1>4, <2>1
<1>8. c # <<Root>>
  <2>1. <<Root>>[1] = Root /\ under[Root] = NULL
    BY DEF Forest
  <2> QED BY <1>4, <2>1
<1>9. Len(c) \in Nat \ {0} /\ c \in Seq(made)
  BY RowFacts DEF Forest
<1>10. PICK q : q = Append(c, d)
  OBVIOUS
<1>11. q \in Seq(made) /\ Len(q) = Len(c) + 1
  BY <1>1, <1>9, <1>10, AppendIs
<1>12. \A x \in 1..(Len(c) + 1) :
         q[x] = IF x < Len(c) + 1 THEN c[x] ELSE IF x = Len(c) + 1 THEN d ELSE c[x - 1]
  BY <1>1, <1>9, <1>10, AppendIs
<1>13. Len(c) + 1 \in 1..(Len(c) + 1)
  BY <1>9
<1>14. Enters(d, c, Len(c) + 1, q)
  <2>1. rows' = (rows \ {<<d>>, c}) \cup {q}
    BY <1>6, <1>10
  <2> QED BY <1>1, <1>2, <1>3, <1>7, <1>8, <1>11, <1>12, <1>13, <2>1 DEF Enters
<1> QED BY <1>10, <1>14

LEMMA LinkUnder ==
  ASSUME Forest, LinkTypes, NEW d, NEW n, Link(d, "parent", n)
  PROVE  KeepsForest(d, "parent", n)
<1>1. /\ d \in made /\ n \in made /\ n # d /\ d # Root /\ d \in Dies /\ n \in Dies
      /\ <<d>> \in rows /\ under[d] = NULL
  BY LinkFacts
<1>2. /\ Place(d, "parent", n) /\ made' = made /\ beside' = beside /\ LinkParent(d, n)
  BY DEF Link
<1>3. under' = [under EXCEPT ![d] = n]
  BY <1>2 DEF Place
<1>4. n # NULL /\ NULL \notin Dies
  BY <1>1, DieTypes
<1>5. CASE RowsUnder(n) = {}
  <2>1. NoneUnder(n)
    BY <1>5 DEF RowsUnder, NoneUnder
  <2>2. rows' = rows
    <3>1. rows' = rows \cup {<<d>>}
      BY <1>2, <1>5 DEF Place
    <3> QED BY <1>1, <3>1
  <2>3. Adopts(d, n)
    BY <1>1, <1>2, <1>3, <2>1, <2>2 DEF Adopts
  <2>4. ASSUME Linked PROVE AdoptsLinks(d, n)
    <3>1. di_child[n] = NULL
      BY <1>1, <2>1, <2>4 DEF Linked
    <3> QED BY <1>2, <3>1 DEF LinkParent, NewLastChild, AdoptsLinks
  <2> QED BY <2>3, <2>4, AdoptsForest, AdoptsLinked DEF KeepsForest
<1>6. CASE RowsUnder(n) # {}
  <2>1. PICK c \in RowsUnder(n) : TRUE
    BY <1>6
  <2>2. c \in rows /\ under[c[1]] = n
    BY <2>1 DEF RowsUnder
  <2>4. c # <<d>>
    <3>1. <<d>>[1] = d
      OBVIOUS
    <3> QED BY <1>1, <1>4, <2>2, <3>1
  <2>6. /\ Len(c) \in Nat \ {0}
        /\ \A x, y \in 1..Len(c) : c[x] = c[y] => x = y
        /\ \A x \in 1..Len(c) : c[x] \in Dies
        /\ Len(c) \in 1..Len(c)
    BY <2>2, RowFacts
  <2>7. PICK q : q = Append(c, d)
    OBVIOUS
  <2>10. PICK k : k = Len(c) + 1
    OBVIOUS
  <2>11. k \in 1..(Len(c) + 1) /\ k # 1 /\ k - 1 = Len(c)
    BY <2>6, <2>10
  <2>12. Enters(d, c, k, q)
    BY <2>2, <2>7, <2>10, UnderEnters
  <2>13. ASSUME Linked, ~LosesDies("parent", n) PROVE LinksIn(d, c, k)
    <3>1. RowLinked(c) /\ EndsLinked(c)
      BY <2>2, <2>13 DEF Linked
    <3>2. Last(c) \notin beside
      BY <2>2, <2>13 DEF LosesDies
    <3>3. Last(c) = c[Len(c)]
      BY DEF Last
    <3>4. di_last_child[n] = c[Len(c)] /\ di_child[n] = c[1]
      BY <1>4, <2>2, <3>1, <3>2, <3>3 DEF EndsLinked
    <3>5. di_child[n] # NULL
      <4>1. 1 \in 1..Len(c)
        BY <2>6
      <4> QED BY <1>4, <2>6, <3>4, <4>1
    <3>6. di_left[d] = NULL /\ di_right[d] = NULL
      BY <1>1, <2>13, Alone
    <3>7. /\ di_left \in [Dies -> Dies \cup {NULL}] /\ di_right \in [Dies -> Dies \cup {NULL}]
          /\ di_last_child \in [Dies -> Dies \cup {NULL}]
      BY DEF LinkTypes
    <3>8. Prev(c, k) = di_last_child[n] /\ Following(c, k) = NULL
      BY <2>10, <2>11, <3>4 DEF Prev, Following
    <3>9. /\ di_parent' = [di_parent EXCEPT ![d] = n]
          /\ di_last_child' = [di_last_child EXCEPT ![n] = d]
          /\ di_right' = [di_right EXCEPT ![di_last_child[n]] = d]
          /\ di_left' = [di_left EXCEPT ![d] = di_last_child[n]]
          /\ di_child' = di_child
      BY <1>2, <3>5 DEF LinkParent, NewLastChild
    <3>10. di_last_child[n] # d /\ di_last_child[n] \in Dies
      <4>1. c[Len(c)] # <<d>>[1]
        BY <1>1, <2>2, <2>4, <2>6, AloneIs, RowsApart
      <4> QED BY <2>6, <3>4, <4>1
    <3>11. di_right' = [e \in Dies |-> IF e = d THEN Following(c, k)
                                       ELSE IF e = Prev(c, k) THEN d ELSE di_right[e]]
      BY <1>1, <3>6, <3>7, <3>8, <3>9, <3>10
    <3>12. di_left' = [e \in Dies |-> IF e = d THEN Prev(c, k)
                                      ELSE IF e = Following(c, k) THEN d ELSE di_left[e]]
      BY <1>4, <3>7, <3>8, <3>9
    <3>13. di_last_child'[n] = d /\ \A p \in Dies : p # n => di_last_child'[p] = di_last_child[p]
      BY <1>1, <3>7, <3>9
    <3> QED BY <1>2, <2>2, <2>10, <2>11, <3>9, <3>11, <3>12, <3>13 DEF LinksIn
  <2> QED BY <2>12, <2>13, EntersForest, EntersLinked DEF KeepsForest
<1> QED BY <1>5, <1>6

LEMMA LinkOver ==
  ASSUME Forest, LinkTypes, NEW d, NEW n, Link(d, "child", n), ~LosesDies("child", n)
  PROVE  Forest' /\ (Linked => Linked')
<1>0. PICK r : r = Row(n)
  OBVIOUS
<1>1. /\ d \in made /\ n \in made /\ n # d /\ d # Root /\ d \in Dies /\ n \in Dies
      /\ <<d>> \in rows /\ under[d] = NULL /\ r \in rows
      /\ \E i \in 1..Len(r) : r[i] = n
  BY <1>0, LinkFacts
<1>2. /\ Place(d, "child", n) /\ made' = made /\ beside' = beside /\ LinkChild(d, n)
      /\ n # Root /\ under[n] = NULL /\ RowsUnder(d) = {}
  BY DEF Link, MayLink
<1>3. /\ Len(r) \in Nat \ {0} /\ DOMAIN r = 1..Len(r) /\ r \in Seq(made)
  BY <1>1, RowFacts DEF Forest
<1>4. Len(r) = 1
  BY <1>0, <1>3 DEF LosesDies
<1>5. r = <<n>> /\ Range(r) = {n}
  <2>1. r[1] = n /\ DOMAIN r = {1}
    BY <1>1, <1>3, <1>4
  <2>2. r = <<n>>
    BY <1>1, <1>3, <1>4, <2>1
  <2> QED BY <2>1, <2>2 DEF Range
<1>6. NoneUnder(d)
  BY <1>2 DEF RowsUnder, NoneUnder
<1>7. rows' = rows /\ under' = [under EXCEPT ![n] = d]
  <2>1. /\ rows' = rows \cup {<<d>>}
        /\ under' = [e \in Dies |-> IF e \in Range(r) THEN d ELSE under[e]]
    BY <1>0, <1>2 DEF Place
  <2>2. under \in [Dies -> made \cup {NULL}]
    BY DEF Forest
  <2> QED BY <1>1, <1>5, <2>1, <2>2
<1>8. Adopts(n, d)
  BY <1>1, <1>2, <1>5, <1>6, <1>7 DEF Adopts
<1>9. AdoptsLinks(n, d)
  BY <1>2 DEF LinkChild, AdoptsLinks
<1> QED BY <1>8, <1>9, AdoptsForest, AdoptsLinked

-------------------------------------------------------------------------------
(* The walk along the pointers.                                             *)

(* What is true of 1, and of each number after one of which it is true.       *)
LEMMA UpTo ==
  ASSUME NEW n \in Nat, NEW S, 1 \in S, \A i \in 1..n : i < n /\ i \in S => i + 1 \in S
  PROVE  \A i \in 1..n : i \in S
<1> DEFINE Bad == {i \in 1..n : i \notin S}
<1>1. SUFFICES ASSUME Bad # {} PROVE FALSE
  OBVIOUS
<1>2. Bad \in SUBSET Nat
  OBVIOUS
<1>3. PICK k \in Bad : \A j \in Bad : k <= j
  BY <1>1, <1>2, LeastNatural
<1>4. k - 1 \in 1..n /\ k - 1 < n /\ (k - 1) + 1 = k /\ k - 1 \notin Bad
  BY <1>3
<1> QED BY <1>3, <1>4

(* What the pointers say one by one.                                        *)
ChildWays ==
  \A d \in made : di_child[d] # NULL =>
    /\ di_child[d] \in made /\ di_child[d] # Root /\ under[di_child[d]] = d
    /\ di_parent[di_child[d]] = d /\ di_left[di_child[d]] = NULL

RightWays ==
  \A d \in made : di_right[d] # NULL =>
    /\ di_right[d] \in made /\ di_right[d] # Root /\ d # Root
    /\ di_left[di_right[d]] = d /\ di_parent[di_right[d]] = di_parent[d]

UpWays ==
  \A d \in made : /\ di_parent[d] = under[d]
                  /\ di_parent[d] # NULL => /\ di_parent[d] \in made
                                            /\ di_child[di_parent[d]] # NULL

LastWays ==
  \A d, e \in made : di_right[d] = NULL /\ di_right[e] = NULL
                     /\ di_parent[d] = di_parent[e] /\ di_parent[d] # NULL => d = e

Walkable ==
  /\ ChildWays /\ RightWays /\ UpWays /\ LastWays
  /\ NULL \notin made /\ under[Root] = NULL

LEMMA RowOf ==
  ASSUME Forest, Linked, NEW d \in made
  PROVE  \E r \in rows : \E i \in 1..Len(r) :
           /\ r[i] = d /\ di_parent[d] = under[r[1]] /\ under[d] = under[r[1]]
           /\ di_right[d] = IF i = Len(r) THEN NULL ELSE r[i + 1]
           /\ di_left[d] = IF i = 1 THEN NULL ELSE r[i - 1]
<1>1. PICK r \in rows : \E i \in 1..Len(r) : r[i] = d
  BY DEF Forest
<1>2. PICK i \in 1..Len(r) : r[i] = d
  BY <1>1
<1>3. RowLinked(r)
  BY DEF Linked
<1>4. under[r[i]] = under[r[1]]
  BY RowFacts
<1> QED BY <1>2, <1>3, <1>4 DEF RowLinked

LEMMA LinkedWalkable ==
  ASSUME Forest, Linked
  PROVE  Walkable
<1>0. made \subseteq Dies /\ NULL \notin Dies /\ NULL \notin made /\ under[Root] = NULL
  BY DieTypes DEF Forest
<1>1. ASSUME NEW d \in made, di_child[d] # NULL
      PROVE  /\ di_child[d] \in made /\ di_child[d] # Root /\ under[di_child[d]] = d
             /\ di_parent[di_child[d]] = d /\ di_left[di_child[d]] = NULL
  <2>1. ~NoneUnder(d)
    BY <1>1 DEF Linked
  <2>2. PICK s \in rows : under[s[1]] = d
    BY <2>1 DEF NoneUnder
  <2>3. RowLinked(s) /\ EndsLinked(s)
    BY DEF Linked
  <2>4. 1 \in 1..Len(s) /\ s[1] \in made
    BY RowFacts
  <2>5. di_child[d] = s[1]
    BY <1>0, <2>2, <2>3 DEF EndsLinked
  <2>6. di_parent[s[1]] = d /\ di_left[s[1]] = NULL
    BY <2>2, <2>3, <2>4 DEF RowLinked
  <2> QED BY <1>0, <2>2, <2>4, <2>5, <2>6
<1>2. ASSUME NEW d \in made, di_right[d] # NULL
      PROVE  /\ di_right[d] \in made /\ di_right[d] # Root /\ d # Root
             /\ di_left[di_right[d]] = d /\ di_parent[di_right[d]] = di_parent[d]
  <2>1. PICK r \in rows : \E i \in 1..Len(r) :
           /\ r[i] = d /\ di_parent[d] = under[r[1]] /\ under[d] = under[r[1]]
           /\ di_right[d] = IF i = Len(r) THEN NULL ELSE r[i + 1]
           /\ di_left[d] = IF i = 1 THEN NULL ELSE r[i - 1]
    BY RowOf
  <2>2. PICK i \in 1..Len(r) :
           /\ r[i] = d /\ di_parent[d] = under[r[1]]
           /\ di_right[d] = IF i = Len(r) THEN NULL ELSE r[i + 1]
    BY <2>1
  <2>3. Len(r) \in Nat
    BY RowFacts
  <2>4. i # Len(r) /\ di_right[d] = r[i + 1]
    BY <1>2, <2>2
  <2>5. i + 1 \in 1..Len(r) /\ i + 1 # 1 /\ (i + 1) - 1 = i
    BY <2>3, <2>4
  <2>6. RowLinked(r)
    BY DEF Linked
  <2>7. di_left[r[i + 1]] = r[i] /\ di_parent[r[i + 1]] = under[r[1]] /\ r[i + 1] \in made
    <3>1. r[i + 1] \in made
      BY <2>5, RowFacts
    <3> QED BY <2>5, <2>6, <3>1 DEF RowLinked
  <2>8. d # Root /\ r[i + 1] # Root
    <3>1. SUFFICES ASSUME r = <<Root>> PROVE FALSE
      <4>1. Root \in made => <<Root>> \in rows
        BY DEF Forest
      <4>2. ASSUME NEW x \in 1..Len(r), r[x] = Root, r # <<Root>> PROVE FALSE
        <5>1. Root \in made
          BY <4>2, RowFacts
        <5> QED BY <4>1, <4>2, <5>1, AloneIs, RowsApart
      <4> QED BY <2>2, <2>5, <3>1, <4>2
    <3>2. Len(r) = 1
      BY <3>1
    <3> QED BY <2>5, <3>2
  <2> QED BY <2>2, <2>4, <2>7, <2>8
<1>3. ASSUME NEW d \in made
      PROVE  /\ di_parent[d] = under[d]
             /\ di_parent[d] # NULL => /\ di_parent[d] \in made
                                       /\ di_child[di_parent[d]] # NULL
  <2>1. PICK r \in rows : \E i \in 1..Len(r) : di_parent[d] = under[r[1]] /\ under[d] = under[r[1]]
    BY RowOf
  <2>2. EndsLinked(r)
    BY DEF Linked
  <2>3. under[r[1]] \in made \cup {NULL} /\ r[1] \in made
    BY RowFacts
  <2> QED BY <1>0, <2>1, <2>2, <2>3 DEF EndsLinked
<1>4. ASSUME NEW d \in made, NEW e \in made, di_right[d] = NULL, di_right[e] = NULL,
             di_parent[d] = di_parent[e], di_parent[d] # NULL
      PROVE  d = e
  <2>1. PICK r \in rows : \E i \in 1..Len(r) :
           /\ r[i] = d /\ di_parent[d] = under[r[1]]
           /\ di_right[d] = IF i = Len(r) THEN NULL ELSE r[i + 1]
    BY RowOf
  <2>2. PICK q \in rows : \E i \in 1..Len(q) :
           /\ q[i] = e /\ di_parent[e] = under[q[1]]
           /\ di_right[e] = IF i = Len(q) THEN NULL ELSE q[i + 1]
    BY RowOf
  <2>3. ASSUME NEW s \in rows, NEW i \in 1..Len(s), (IF i = Len(s) THEN NULL ELSE s[i + 1]) = NULL
        PROVE  i = Len(s)
    <3>1. SUFFICES ASSUME i # Len(s) PROVE FALSE
      OBVIOUS
    <3>2. Len(s) \in Nat
      BY RowFacts
    <3>3. i + 1 \in 1..Len(s)
      BY <3>1, <3>2
    <3>4. s[i + 1] \in made
      BY <3>3, RowFacts
    <3> QED BY <1>0, <2>3, <3>1, <3>4
  <2>4. r[Len(r)] = d /\ under[r[1]] = di_parent[d]
    BY <1>4, <2>1, <2>3
  <2>5. q[Len(q)] = e /\ under[q[1]] = di_parent[e]
    BY <1>4, <2>2, <2>3
  <2>6. r = q
    BY <1>4, <2>4, <2>5, RowsApart
  <2> QED BY <2>4, <2>5, <2>6
<1> QED BY <1>0, <1>1, <1>2, <1>3, <1>4
    DEF Walkable, ChildWays, RightWays, UpWays, LastWays

(* What the walk writes, one after the other: a DIE, or the null at the end   *)
(* of the list below `at', which is NULL for the list the root is in.        *)
Keys == [at : Dies \cup {NULL}, null : BOOLEAN, off : Nat]

DieKey(d, off)  == [at |-> d, null |-> FALSE, off |-> off]
NullKey(p, off) == [at |-> p, null |-> TRUE, off |-> off]

After(k) == k.off + (IF k.null THEN 1 ELSE Size(k.at))

(* After it the walk goes on from the DIE to the right or upwards.            *)
Closing(k) == k.null \/ di_child[k.at] = NULL

NextKey(k) ==
  IF ~Closing(k) THEN DieKey(di_child[k.at], After(k))
  ELSE IF di_right[k.at] # NULL THEN DieKey(di_right[k.at], After(k))
  ELSE NullKey(di_parent[k.at], After(k))

Trail(T) ==
  /\ T \in Seq(Keys) /\ T # <<>> /\ T[1] = DieKey(Root, HeaderSize)
  /\ \A i \in 1..Len(T) : i < Len(T) => T[i].at # NULL /\ T[i + 1] = NextKey(T[i])

GoodKey(k) ==
  /\ k.null \in BOOLEAN
  /\ k.at \in made \/ (k.at = NULL /\ k.null)
  /\ k.null /\ k.at # NULL => di_child[k.at] # NULL

Goes(k, n) ==
  \/ ~k.null /\ di_child[k.at] # NULL /\ n.at = di_child[k.at] /\ ~n.null
  \/ Closing(k) /\ di_right[k.at] # NULL /\ n.at = di_right[k.at] /\ ~n.null
  \/ Closing(k) /\ di_right[k.at] = NULL /\ n.at = di_parent[k.at] /\ n.null

LEMMA NextGoes ==
  ASSUME NEW k
  PROVE  Goes(k, NextKey(k)) /\ NextKey(k).null \in BOOLEAN /\ NextKey(k).off = After(k)
<1> DEFINE off == After(k)
<1> HIDE DEF off
<1>1. \A d : DieKey(d, off).at = d /\ DieKey(d, off).null = FALSE /\ DieKey(d, off).off = off
  BY DEF DieKey
<1>2. \A d : NullKey(d, off).at = d /\ NullKey(d, off).null = TRUE /\ NullKey(d, off).off = off
  BY DEF NullKey
<1>3. NextKey(k) = IF ~Closing(k) THEN DieKey(di_child[k.at], off)
                   ELSE IF di_right[k.at] # NULL THEN DieKey(di_right[k.at], off)
                   ELSE NullKey(di_parent[k.at], off)
  BY DEF NextKey, off
<1>4. CASE ~Closing(k)
  BY <1>1, <1>3, <1>4 DEF Goes, Closing, off
<1>5. CASE Closing(k) /\ di_right[k.at] # NULL
  BY <1>1, <1>3, <1>5 DEF Goes, off
<1>6. CASE Closing(k) /\ di_right[k.at] = NULL
  BY <1>2, <1>3, <1>6 DEF Goes, off
<1> QED BY <1>4, <1>5, <1>6

LEMMA GoesGood ==
  ASSUME Walkable, NEW k, NEW n, GoodKey(k), k.at # NULL, Goes(k, n), n.null \in BOOLEAN
  PROVE  GoodKey(n) /\ (~n.null => n.at # Root)
<1>1. k.at \in made /\ NULL \notin made
  BY DEF GoodKey, Walkable
<1>2. CASE ~k.null /\ di_child[k.at] # NULL /\ n.at = di_child[k.at] /\ ~n.null
  BY <1>1, <1>2 DEF GoodKey, Walkable, ChildWays
<1>3. CASE Closing(k) /\ di_right[k.at] # NULL /\ n.at = di_right[k.at] /\ ~n.null
  BY <1>1, <1>3 DEF GoodKey, Walkable, RightWays
<1>4. CASE Closing(k) /\ di_right[k.at] = NULL /\ n.at = di_parent[k.at] /\ n.null
  BY <1>1, <1>4 DEF GoodKey, Walkable, UpWays
<1> QED BY <1>2, <1>3, <1>4 DEF Goes

(* The walk comes to a place from one place only.                            *)
LEMMA FromOnePlace ==
  ASSUME Walkable, NEW a, NEW b, NEW m, NEW n, GoodKey(a), GoodKey(b), a.at # NULL, b.at # NULL,
         Goes(a, m), Goes(b, n), m.at = n.at, m.null = n.null, m.null \in BOOLEAN, m.at # NULL
  PROVE  a.at = b.at /\ a.null = b.null
<1>0. NULL \notin made
  BY DEF Walkable
<1>1. a.at \in made /\ b.at \in made /\ a.null \in BOOLEAN /\ b.null \in BOOLEAN
  BY DEF GoodKey
<1>2. (Closing(a) => (a.null <=> di_child[a.at] # NULL))
      /\ (Closing(b) => (b.null <=> di_child[b.at] # NULL))
  BY <1>1 DEF Closing, GoodKey
<1>3. CASE m.null
  <2>1. /\ Closing(a) /\ di_right[a.at] = NULL /\ m.at = di_parent[a.at]
        /\ Closing(b) /\ di_right[b.at] = NULL /\ n.at = di_parent[b.at]
    BY <1>3 DEF Goes
  <2>2. a.at = b.at
    BY <1>1, <2>1 DEF Walkable, LastWays
  <2> QED BY <1>1, <1>2, <2>1, <2>2
<1>4. CASE ~m.null
  <2>1. \/ ~a.null /\ di_child[a.at] # NULL /\ m.at = di_child[a.at]
        \/ Closing(a) /\ di_right[a.at] # NULL /\ m.at = di_right[a.at]
    BY <1>4 DEF Goes
  <2>2. \/ ~b.null /\ di_child[b.at] # NULL /\ n.at = di_child[b.at]
        \/ Closing(b) /\ di_right[b.at] # NULL /\ n.at = di_right[b.at]
    BY <1>4 DEF Goes
  <2>3. \A d \in made : di_child[d] # NULL =>
          di_parent[di_child[d]] = d /\ di_left[di_child[d]] = NULL
    BY DEF Walkable, ChildWays
  <2>4. \A d \in made : di_right[d] # NULL => di_left[di_right[d]] = d
    BY DEF Walkable, RightWays
  <2>5. CASE /\ ~a.null /\ di_child[a.at] # NULL /\ m.at = di_child[a.at]
             /\ ~b.null /\ di_child[b.at] # NULL /\ n.at = di_child[b.at]
    <3>1. di_parent[di_child[a.at]] = a.at /\ di_parent[di_child[b.at]] = b.at
      BY <1>1, <2>3, <2>5
    <3>2. di_child[a.at] = di_child[b.at]
      BY <2>5
    <3>3. a.at = b.at
      BY <3>1, <3>2
    <3>4. a.null = FALSE /\ b.null = FALSE
      BY <1>1, <2>5
    <3> QED BY <3>3, <3>4
  <2>6. CASE /\ Closing(a) /\ di_right[a.at] # NULL /\ m.at = di_right[a.at]
             /\ Closing(b) /\ di_right[b.at] # NULL /\ n.at = di_right[b.at]
    <3>1. a.at = b.at
      BY <1>1, <2>4, <2>6
    <3> QED BY <1>1, <1>2, <2>6, <3>1
  <2>7. CASE /\ ~a.null /\ di_child[a.at] # NULL /\ m.at = di_child[a.at]
             /\ Closing(b) /\ di_right[b.at] # NULL /\ n.at = di_right[b.at]
    <3>1. di_left[di_child[a.at]] = NULL /\ di_left[di_right[b.at]] = b.at
      BY <1>1, <2>3, <2>4, <2>7
    <3>2. di_child[a.at] = di_right[b.at]
      BY <2>7
    <3> QED BY <1>0, <1>1, <3>1, <3>2
  <2>8. CASE /\ Closing(a) /\ di_right[a.at] # NULL /\ m.at = di_right[a.at]
             /\ ~b.null /\ di_child[b.at] # NULL /\ n.at = di_child[b.at]
    <3>1. di_left[di_child[b.at]] = NULL /\ di_left[di_right[a.at]] = a.at
      BY <1>1, <2>3, <2>4, <2>8
    <3>2. di_child[b.at] = di_right[a.at]
      BY <2>8
    <3> QED BY <1>0, <1>1, <3>1, <3>2
  <2> QED BY <2>1, <2>2, <2>5, <2>6, <2>7, <2>8
<1> QED BY <1>3, <1>4

LEMMA TrailTypes ==
  ASSUME NEW T, Trail(T)
  PROVE  /\ Len(T) \in Nat \ {0} /\ 1 \in 1..Len(T) /\ Len(T) \in 1..Len(T)
         /\ T[1].at = Root /\ T[1].null = FALSE /\ T[1].off = HeaderSize
         /\ \A i \in 1..Len(T) : T[i] \in Keys /\ T[i].null \in BOOLEAN /\ T[i].off \in Nat
         /\ \A i \in 1..Len(T) : i < Len(T) =>
              /\ i + 1 \in 1..Len(T) /\ T[i].at # NULL
              /\ T[i + 1] = NextKey(T[i]) /\ Goes(T[i], T[i + 1]) /\ T[i + 1].off = After(T[i])
<1>1. /\ T \in Seq(Keys) /\ T # <<>> /\ T[1] = DieKey(Root, HeaderSize)
      /\ \A i \in 1..Len(T) : i < Len(T) => T[i].at # NULL /\ T[i + 1] = NextKey(T[i])
  BY DEF Trail
<1>2. Len(T) \in Nat \ {0} /\ 1 \in 1..Len(T) /\ Len(T) \in 1..Len(T)
  BY <1>1
<1>3. T[1].at = Root /\ T[1].null = FALSE /\ T[1].off = HeaderSize
  BY <1>1 DEF DieKey
<1>4. \A i \in 1..Len(T) : T[i] \in Keys
  BY <1>1
<1>5. \A k \in Keys : k.null \in BOOLEAN /\ k.off \in Nat
  BY DEF Keys
<1>6. ASSUME NEW i \in 1..Len(T), i < Len(T)
      PROVE  /\ i + 1 \in 1..Len(T) /\ T[i].at # NULL
             /\ T[i + 1] = NextKey(T[i]) /\ Goes(T[i], T[i + 1]) /\ T[i + 1].off = After(T[i])
  <2>1. i + 1 \in 1..Len(T)
    BY <1>2, <1>6
  <2>2. T[i].at # NULL /\ T[i + 1] = NextKey(T[i])
    BY <1>1, <1>6
  <2> QED BY <2>1, <2>2, NextGoes
<1> QED BY <1>2, <1>3, <1>4, <1>5, <1>6

LEMMA TrailGood ==
  ASSUME Walkable, Root \in made, NEW T, Trail(T)
  PROVE  /\ \A i \in 1..Len(T) : GoodKey(T[i]) /\ (i # 1 /\ ~T[i].null => T[i].at # Root)
         /\ \A i \in 1..Len(T) : T[i].at = NULL => i = Len(T)
<1> DEFINE S == {i \in 1..Len(T) : GoodKey(T[i]) /\ (i # 1 /\ ~T[i].null => T[i].at # Root)}
<1>1. 1 \in S
  <2>1. 1 \in 1..Len(T) /\ T[1].at = Root /\ T[1].null = FALSE
    BY TrailTypes
  <2>2. GoodKey(T[1])
    BY <2>1 DEF GoodKey
  <2> QED BY <2>1, <2>2
<1>2. ASSUME NEW i \in 1..Len(T), i < Len(T), i \in S PROVE i + 1 \in S
  <2>1. /\ i + 1 \in 1..Len(T) /\ T[i].at # NULL /\ Goes(T[i], T[i + 1])
        /\ T[i + 1].null \in BOOLEAN
    BY <1>2, TrailTypes
  <2>2. GoodKey(T[i + 1]) /\ (~T[i + 1].null => T[i + 1].at # Root)
    BY <1>2, <2>1, GoesGood
  <2> QED BY <2>1, <2>2
<1>3. Len(T) \in Nat
  BY TrailTypes
<1> HIDE DEF S
<1>4. \A i \in 1..Len(T) : i \in S
  BY <1>1, <1>2, <1>3, UpTo
<1>5. \A i \in 1..Len(T) : T[i].at = NULL => i = Len(T)
  <2>1. \A i \in 1..Len(T) : i < Len(T) => T[i].at # NULL
    BY TrailTypes
  <2> QED BY <1>3, <2>1
<1> QED BY <1>4, <1>5 DEF S

(* and never to the same place again.                                      *)
LEMMA TrailDistinct ==
  ASSUME Walkable, Root \in made, NEW T, Trail(T)
  PROVE  \A i, j \in 1..Len(T) : T[i].at = T[j].at /\ T[i].null = T[j].null => i = j
<1> DEFINE Same(i, j) == T[i].at = T[j].at /\ T[i].null = T[j].null
           S == {i \in 1..Len(T) : \A j \in 1..Len(T) : j < i => ~Same(i, j)}
<1>0. Len(T) \in Nat /\ 1 \in 1..Len(T)
  BY TrailTypes
<1>1. 1 \in S
  BY <1>0
<1>2. ASSUME NEW i \in 1..Len(T), i < Len(T), i \in S PROVE i + 1 \in S
  <2>1. /\ i + 1 \in 1..Len(T) /\ T[i].at # NULL /\ Goes(T[i], T[i + 1])
        /\ T[i + 1].null \in BOOLEAN
    BY <1>2, TrailTypes
  <2>2. SUFFICES ASSUME NEW j \in 1..Len(T), j < i + 1, Same(i + 1, j) PROVE FALSE
    BY <2>1
  <2>3. j < Len(T)
    BY <1>0, <2>1, <2>2
  <2>4. T[j].at # NULL
    BY <2>3, TrailTypes
  <2>5. CASE j = 1
    <3>1. T[i + 1].at = Root /\ ~T[i + 1].null
      BY <2>2, <2>5, TrailTypes
    <3> QED BY <2>1, <3>1, TrailGood
  <2>6. CASE j # 1
    <3>1. j - 1 \in 1..Len(T) /\ j - 1 < Len(T) /\ (j - 1) + 1 = j /\ j - 1 < i
      BY <1>0, <2>2, <2>3, <2>6
    <3>2. T[j - 1].at # NULL /\ Goes(T[j - 1], T[j])
      BY <3>1, TrailTypes
    <3>3. GoodKey(T[i]) /\ GoodKey(T[j - 1])
      BY <3>1, TrailGood
    <3>4. T[i + 1].at = T[j].at /\ T[i + 1].null = T[j].null /\ T[i + 1].at # NULL
      BY <2>2, <2>4
    <3>5. T[i].at = T[j - 1].at /\ T[i].null = T[j - 1].null
      BY <2>1, <3>2, <3>3, <3>4, FromOnePlace
    <3> QED BY <1>2, <3>1, <3>5
  <2> QED BY <2>5, <2>6
<1> HIDE DEF S
<1>3. \A i \in 1..Len(T) : i \in S
  BY <1>0, <1>1, <1>2, UpTo
<1>4. ASSUME NEW i \in 1..Len(T), NEW j \in 1..Len(T), Same(i, j) PROVE i = j
  <2>1. ~(j < i) /\ ~(i < j)
    BY <1>3, <1>4 DEF S
  <2> QED BY <1>0, <2>1
<1> QED BY <1>4

LEMMA TreeGrows ==
  ASSUME NEW x, NEW d \in Tree(x), NEW e \in made, under[e] = d
  PROVE  e \in Tree(x)
BY DEF Tree

(* Where the walk is, it has come from above: it has been at the DIE and at   *)
(* its parent, and all of them are below the root.                          *)
DieAt(T, k, d) == k \in 1..Len(T) /\ T[k].at = d /\ ~T[k].null

CameFromAbove(T, m) ==
  T[m].at # NULL =>
    /\ T[m].at \in Tree(Root)
    /\ \E k \in 1..m : DieAt(T, k, T[m].at)
    /\ T[m].at # Root => /\ di_parent[T[m].at] # NULL
                         /\ \E k \in 1..m : k < m /\ DieAt(T, k, di_parent[T[m].at])

LEMMA TrailFromAbove ==
  ASSUME Walkable, Root \in made, NEW T, Trail(T)
  PROVE  \A m \in 1..Len(T) : CameFromAbove(T, m)
<1> DEFINE S == {i \in 1..Len(T) : \A m \in 1..i : CameFromAbove(T, m)}
<1>0. Len(T) \in Nat /\ 1 \in 1..Len(T) /\ T[1].at = Root /\ T[1].null = FALSE
  BY TrailTypes
<1>1. 1 \in S
  <2>1. Root \in Tree(Root)
    BY OwnTree
  <2>2. CameFromAbove(T, 1)
    <3>1. 1 \in 1..1 /\ DieAt(T, 1, T[1].at)
      BY <1>0 DEF DieAt
    <3> QED BY <1>0, <2>1, <3>1 DEF CameFromAbove
  <2> QED BY <1>0, <2>2
<1>2. ASSUME NEW i \in 1..Len(T), i < Len(T), i \in S PROVE i + 1 \in S
  <2>1. /\ i + 1 \in 1..Len(T) /\ T[i].at # NULL /\ Goes(T[i], T[i + 1])
    BY <1>2, TrailTypes
  <2> DEFINE d == T[i].at
             n == T[i + 1].at
  <2>2. d \in made /\ NULL \notin made
    BY <2>1, TrailGood DEF GoodKey, Walkable
  <2>3. \A m \in 1..i : CameFromAbove(T, m)
    BY <1>2
  <2>4. CameFromAbove(T, i)
    BY <2>3
  <2>5. SUFFICES CameFromAbove(T, i + 1)
    <3>1. \A m \in 1..(i + 1) : m \in 1..i \/ m = i + 1
      OBVIOUS
    <3> QED BY <2>1, <2>3, <2>5, <3>1
  <2>6. SUFFICES ASSUME n # NULL
                 PROVE  /\ n \in Tree(Root)
                        /\ \E k \in 1..(i + 1) : DieAt(T, k, n)
                        /\ n # Root =>
                             /\ di_parent[n] # NULL
                             /\ \E k \in 1..(i + 1) : k < i + 1 /\ DieAt(T, k, di_parent[n])
    BY DEF CameFromAbove
  <2>7. CASE ~T[i].null /\ di_child[d] # NULL /\ n = di_child[d] /\ ~T[i + 1].null
    <3>1. n \in made /\ under[n] = d /\ di_parent[n] = d
      BY <2>2, <2>7 DEF Walkable, ChildWays
    <3>2. d \in Tree(Root)
      BY <2>1, <2>4 DEF CameFromAbove
    <3>3. n \in Tree(Root)
      BY <3>1, <3>2, TreeGrows
    <3>4. DieAt(T, i + 1, n) /\ DieAt(T, i, d)
      BY <2>1, <2>7 DEF DieAt
    <3>5. i + 1 \in 1..(i + 1) /\ i \in 1..(i + 1) /\ i < i + 1
      OBVIOUS
    <3> QED BY <2>1, <3>1, <3>3, <3>4, <3>5
  <2>8. CASE Closing(T[i]) /\ di_right[d] # NULL /\ n = di_right[d] /\ ~T[i + 1].null
    <3>1. n \in made /\ d # Root /\ di_parent[n] = di_parent[d]
      BY <2>2, <2>8 DEF Walkable, RightWays
    <3>2. di_parent[d] # NULL /\ \E k \in 1..i : k < i /\ DieAt(T, k, di_parent[d])
      BY <2>1, <2>4, <3>1 DEF CameFromAbove
    <3>3. PICK k \in 1..i : DieAt(T, k, di_parent[d])
      BY <3>2
    <3>4. di_parent[d] \in Tree(Root)
      BY <2>3, <3>2, <3>3 DEF CameFromAbove, DieAt
    <3>5. under[n] = di_parent[d]
      BY <2>2, <3>1 DEF Walkable, UpWays
    <3>6. n \in Tree(Root)
      BY <3>1, <3>4, <3>5, TreeGrows
    <3>7. DieAt(T, i + 1, n)
      BY <2>1, <2>8 DEF DieAt
    <3>8. i + 1 \in 1..(i + 1) /\ k \in 1..(i + 1) /\ k < i + 1
      OBVIOUS
    <3> QED BY <3>1, <3>2, <3>3, <3>6, <3>7, <3>8
  <2>9. CASE Closing(T[i]) /\ di_right[d] = NULL /\ n = di_parent[d] /\ T[i + 1].null
    <3>1. d # Root
      <4>1. di_parent[Root] = NULL
        BY DEF Walkable, UpWays
      <4> QED BY <2>6, <2>9, <4>1
    <3>2. \E k \in 1..i : k < i /\ DieAt(T, k, di_parent[d])
      BY <2>1, <2>4, <3>1 DEF CameFromAbove
    <3>3. PICK k \in 1..i : DieAt(T, k, n)
      BY <2>9, <3>2
    <3>4. T[k].at = n /\ CameFromAbove(T, k)
      BY <2>3, <3>3 DEF DieAt
    <3>5. /\ n \in Tree(Root)
          /\ n # Root => /\ di_parent[n] # NULL
                         /\ \E x \in 1..k : x < k /\ DieAt(T, x, di_parent[n])
      BY <2>6, <3>4 DEF CameFromAbove
    <3>6. k \in 1..(i + 1) /\ \A x \in 1..k : x \in 1..(i + 1) /\ x < i + 1
      OBVIOUS
    <3> QED BY <3>3, <3>5, <3>6
  <2> QED BY <2>1, <2>7, <2>8, <2>9 DEF Goes
<1> HIDE DEF S
<1>3. \A i \in 1..Len(T) : i \in S
  BY <1>0, <1>1, <1>2, UpTo
<1>4. ASSUME NEW m \in 1..Len(T) PROVE CameFromAbove(T, m)
  <2>1. m \in S /\ m \in 1..m
    BY <1>3
  <2> QED BY <2>1 DEF S
<1> QED BY <1>4

(* A walk that has come to its end is the only one: any other is on its way    *)
(* to the same end.                                                        *)
Complete(T) == Trail(T) /\ T[Len(T)].at = NULL

LEMMA OneWay ==
  ASSUME NEW A, NEW T, Trail(A), Complete(T)
  PROVE  Len(A) <= Len(T) /\ \A i \in 1..Len(A) : A[i] = T[i]
<1> DEFINE S == {i \in 1..Len(A) : i <= Len(T) /\ A[i] = T[i]}
<1>0. /\ Len(A) \in Nat /\ Len(A) \in 1..Len(A) /\ 1 \in 1..Len(A)
      /\ Len(T) \in Nat /\ 1 \in 1..Len(T)
  BY TrailTypes DEF Complete
<1>1. 1 \in S
  <2>1. A[1] = T[1]
    BY DEF Trail, Complete
  <2> QED BY <1>0, <2>1
<1>2. ASSUME NEW i \in 1..Len(A), i < Len(A), i \in S PROVE i + 1 \in S
  <2>1. i + 1 \in 1..Len(A) /\ A[i].at # NULL /\ A[i + 1] = NextKey(A[i])
    BY <1>2, TrailTypes
  <2>2. A[i] = T[i] /\ i <= Len(T)
    BY <1>2
  <2>3. i # Len(T)
    BY <2>1, <2>2 DEF Complete
  <2>4. i \in 1..Len(T) /\ i < Len(T)
    BY <1>0, <2>2, <2>3
  <2>5. i + 1 \in 1..Len(T) /\ T[i + 1] = NextKey(T[i])
    BY <2>4, TrailTypes DEF Complete
  <2> QED BY <1>0, <2>1, <2>2, <2>5
<1> HIDE DEF S
<1>3. \A i \in 1..Len(A) : i \in S
  BY <1>0, <1>1, <1>2, UpTo
<1> QED BY <1>0, <1>3 DEF S

(* The walk is done with d: it has gone on to the right or upwards from it.    *)
Closed(T, d) == \E k \in 1..Len(T) : T[k].at = d /\ Closing(T[k])

LEMMA RootClosed ==
  ASSUME Walkable, Root \in made, NEW T, Complete(T)
  PROVE  Closed(T, Root)
<1>0. /\ Len(T) \in Nat /\ Len(T) \in 1..Len(T) /\ T[1].at = Root /\ T[1].null = FALSE
      /\ Root # NULL /\ Trail(T) /\ T[Len(T)].at = NULL
  BY TrailTypes DEF Complete, Walkable
<1>1. Len(T) # 1
  BY <1>0
<1> DEFINE k == Len(T) - 1
<1>2. k \in 1..Len(T) /\ k < Len(T) /\ k + 1 = Len(T)
  BY <1>0, <1>1
<1> HIDE DEF k
<1>3. T[k].at # NULL /\ Goes(T[k], T[k + 1]) /\ GoodKey(T[k])
  BY <1>0, <1>2, TrailTypes, TrailGood
<1>4. T[k].at \in made /\ NULL \notin made
  BY <1>3 DEF GoodKey, Walkable
<1>5. Closing(T[k]) /\ di_parent[T[k].at] = NULL
  <2>1. T[k + 1].at = NULL
    BY <1>0, <1>2
  <2>2. di_child[T[k].at] # NULL => di_child[T[k].at] # T[k + 1].at
    BY <2>1
  <2> QED BY <1>3, <2>1, <2>2 DEF Goes
<1>6. CameFromAbove(T, k)
  BY <1>0, <1>2, TrailFromAbove
<1>7. T[k].at = Root
  BY <1>3, <1>5, <1>6 DEF CameFromAbove
<1> QED BY <1>2, <1>5, <1>7 DEF Closed

(* It is done with a DIE when it comes to the one to the right.              *)
LEMMA RightCloses ==
  ASSUME Walkable, Root \in made, NEW T, Trail(T), NEW m, NEW e, DieAt(T, m, e),
         e # Root, di_left[e] # NULL
  PROVE  /\ m - 1 \in 1..Len(T) /\ m - 1 < Len(T) /\ T[m - 1].at = di_left[e]
         /\ Closing(T[m - 1])
<1>0. m \in 1..Len(T) /\ T[m].at = e /\ ~T[m].null /\ Len(T) \in Nat /\ T[1].at = Root
  BY TrailTypes DEF DieAt
<1>1. m # 1
  BY <1>0
<1>2. PICK k : k = m - 1
  OBVIOUS
<1>3. k \in 1..Len(T) /\ k < Len(T) /\ k + 1 = m
  BY <1>0, <1>1, <1>2
<1>4. T[k].at # NULL /\ Goes(T[k], T[k + 1]) /\ GoodKey(T[k])
  BY <1>3, TrailTypes, TrailGood
<1>5. T[k].at \in made
  BY <1>4 DEF GoodKey
<1>6. ~(di_child[T[k].at] # NULL /\ e = di_child[T[k].at])
  BY <1>5 DEF Walkable, ChildWays
<1>7. Closing(T[k]) /\ di_right[T[k].at] # NULL /\ e = di_right[T[k].at]
  BY <1>0, <1>3, <1>4, <1>6 DEF Goes
<1>8. di_left[e] = T[k].at
  BY <1>5, <1>7 DEF Walkable, RightWays
<1> QED BY <1>2, <1>3, <1>7, <1>8

LEMMA ClosedSeen ==
  ASSUME Walkable, Root \in made, NEW T, Trail(T), NEW d \in made, Closed(T, d)
  PROVE  \E m \in 1..Len(T) : DieAt(T, m, d)
<1>1. PICK k \in 1..Len(T) : T[k].at = d
  BY DEF Closed
<1>2. d # NULL
  BY DEF Walkable
<1>3. CameFromAbove(T, k)
  BY TrailFromAbove
<1>4. PICK m \in 1..k : DieAt(T, m, d)
  BY <1>1, <1>2, <1>3 DEF CameFromAbove
<1> QED BY <1>4 DEF DieAt

(* It is done with a DIE only when it is with all DIEs below.                 *)
LEMMA ListClosed ==
  ASSUME Forest, Linked, Root \in made, NEW T, Trail(T), NEW p \in made, Closed(T, p),
         NEW e \in made, under[e] = p
  PROVE  Closed(T, e)
<1>0. Walkable /\ NULL \notin made /\ p # NULL /\ made \subseteq Dies
  BY LinkedWalkable DEF Walkable, Forest
<1>1. PICK r \in rows : \E i \in 1..Len(r) : r[i] = e
  BY DEF Forest
<1>2. /\ Len(r) \in Nat \ {0} /\ 1 \in 1..Len(r) /\ Len(r) \in 1..Len(r)
      /\ \A i \in 1..Len(r) : r[i] \in made /\ under[r[i]] = under[r[1]]
  BY RowFacts
<1>3. under[r[1]] = p
  BY <1>1, <1>2
<1>4. RowLinked(r) /\ EndsLinked(r)
  BY DEF Linked
<1>5. di_child[p] = r[1] /\ di_child[p] # NULL
  BY <1>0, <1>2, <1>3, <1>4 DEF EndsLinked
<1>6. PICK k \in 1..Len(T) : T[k].at = p /\ Closing(T[k])
  BY DEF Closed
<1>7. T[k].null
  BY <1>5, <1>6 DEF Closing
<1>8. k # 1
  BY <1>7, TrailTypes
<1>9. PICK j : j = k - 1
  OBVIOUS
<1>10. j \in 1..Len(T) /\ j < Len(T) /\ j + 1 = k
  <2>1. Len(T) \in Nat
    BY TrailTypes
  <2> QED BY <1>8, <1>9, <2>1
<1>11. T[j].at # NULL /\ Goes(T[j], T[j + 1]) /\ GoodKey(T[j])
  BY <1>0, <1>10, TrailTypes, TrailGood
<1>12. Closing(T[j]) /\ di_right[T[j].at] = NULL /\ di_parent[T[j].at] = p /\ T[j].at \in made
  BY <1>6, <1>7, <1>10, <1>11 DEF Goes, GoodKey
<1>13. T[j].at = r[Len(r)]
  <2>1. di_right[r[Len(r)]] = NULL /\ di_parent[r[Len(r)]] = p
    BY <1>2, <1>3, <1>4 DEF RowLinked
  <2> QED BY <1>0, <1>2, <1>12, <2>1 DEF Walkable, LastWays
<1> DEFINE n == Len(r)
           S == {x \in 1..n : Closed(T, r[n + 1 - x])}
<1>14. 1 \in S
  <2>1. Closed(T, r[n])
    BY <1>10, <1>12, <1>13 DEF Closed
  <2>2. n + 1 - 1 = n
    BY <1>2
  <2> QED BY <1>2, <2>1, <2>2
<1>15. ASSUME NEW x \in 1..n, x < n, x \in S PROVE x + 1 \in S
  <2>1. PICK y : y = n + 1 - x
    OBVIOUS
  <2>2. y \in 1..n /\ y # 1 /\ y - 1 \in 1..n /\ n + 1 - (x + 1) = y - 1 /\ x + 1 \in 1..n
    BY <1>2, <1>15, <2>1
  <2>3. Closed(T, r[y])
    BY <1>15, <2>1
  <2>4. di_left[r[y]] = r[y - 1] /\ r[y] \in made /\ r[y - 1] \in made
    BY <1>2, <1>4, <2>2 DEF RowLinked
  <2>5. r[y] # Root
    <3>1. under[r[y]] = p
      BY <1>2, <1>3, <2>2
    <3> QED BY <1>0, <3>1 DEF Walkable
  <2>6. PICK m \in 1..Len(T) : DieAt(T, m, r[y])
    BY <1>0, <2>3, <2>4, ClosedSeen
  <2>7. m - 1 \in 1..Len(T) /\ T[m - 1].at = di_left[r[y]] /\ Closing(T[m - 1])
    BY <1>0, <2>4, <2>5, <2>6, RightCloses
  <2>8. Closed(T, r[y - 1])
    BY <2>4, <2>7 DEF Closed
  <2> QED BY <2>2, <2>8
<1> HIDE DEF S
<1>16. \A x \in 1..n : x \in S
  <2>1. n \in Nat
    BY <1>2
  <2> HIDE DEF n
  <2> QED BY <1>14, <1>15, <2>1, UpTo
<1>17. PICK i \in 1..Len(r) : r[i] = e
  BY <1>1
<1>18. n + 1 - i \in 1..n /\ n + 1 - (n + 1 - i) = i
  BY <1>2
<1>19. Closed(T, r[n + 1 - (n + 1 - i)])
  BY <1>16, <1>18 DEF S
<1> QED BY <1>17, <1>18, <1>19

LEMMA TreeClosed ==
  ASSUME Forest, Linked, Root \in made, NEW T, Complete(T)
  PROVE  \A d \in Tree(Root) : d \in made /\ Closed(T, d)
<1> DEFINE S == {d \in made : Closed(T, d)}
<1>1. Walkable /\ Trail(T)
  BY LinkedWalkable DEF Complete
<1>2. Root \in S
  BY <1>1, RootClosed
<1>3. \A e \in made : under[e] \in S => e \in S
  BY <1>1, ListClosed
<1>4. S \in SUBSET made
  OBVIOUS
<1> HIDE DEF S
<1>5. \A d \in Tree(Root) : d \in S
  BY <1>2, <1>3, <1>4 DEF Tree
<1> QED BY <1>5 DEF S

(* The open lists along a walk.  An entry is one deeper than the DIE whose list *)
(* it is in, and so is all that comes between.                              *)
KeyStep(k) == IF k.null THEN -1 ELSE IF di_child[k.at] # NULL THEN 1 ELSE 0

Levels(T, D) ==
  /\ D \in [1..(Len(T) + 1) -> Int] /\ D[1] = 0
  /\ \A i \in 1..Len(T) : D[i + 1] = D[i] + KeyStep(T[i])

Over(k) == IF k.null THEN k.at ELSE di_parent[k.at]

Deeper(D, k, i) == \A m \in (k + 1)..i : D[m] > D[k]

LevelRight(T, D, i) ==
  /\ D[i] >= 0
  /\ Over(T[i]) = NULL => D[i] = 0
  /\ Over(T[i]) # NULL => \E k \in 1..i : /\ k < i /\ DieAt(T, k, Over(T[i]))
                                          /\ D[i] = D[k] + 1 /\ Deeper(D, k, i)

LEMMA DieAtOne ==
  ASSUME Walkable, Root \in made, NEW T, Trail(T), NEW d, NEW i, NEW k,
         DieAt(T, i, d), DieAt(T, k, d)
  PROVE  i = k
<1>1. /\ i \in 1..Len(T) /\ k \in 1..Len(T) /\ T[i].at = T[k].at
      /\ ~T[i].null /\ ~T[k].null /\ T[i].null \in BOOLEAN /\ T[k].null \in BOOLEAN
  BY TrailTypes DEF DieAt
<1>2. T[i].null = T[k].null
  BY <1>1
<1> QED BY <1>1, <1>2, TrailDistinct

LEMMA ClosingLevel ==
  ASSUME Walkable, Root \in made, NEW T, Trail(T), NEW D, Levels(T, D),
         NEW i \in 1..Len(T), Closing(T[i]), T[i].at # NULL, LevelRight(T, D, i),
         NEW j, DieAt(T, j, T[i].at)
  PROVE  j <= i /\ D[i + 1] = D[j] /\ Deeper(D, j, i)
<1>0. /\ Len(T) \in Nat /\ i \in Nat /\ T[i].null \in BOOLEAN
      /\ D \in [1..(Len(T) + 1) -> Int] /\ D[i + 1] = D[i] + KeyStep(T[i])
      /\ D[i] \in Int /\ GoodKey(T[i])
  <2>1. Len(T) \in Nat /\ T[i].null \in BOOLEAN /\ GoodKey(T[i])
    BY TrailTypes, TrailGood
  <2>2. D \in [1..(Len(T) + 1) -> Int] /\ D[i + 1] = D[i] + KeyStep(T[i])
    BY DEF Levels
  <2>3. i \in 1..(Len(T) + 1)
    BY <2>1
  <2> QED BY <2>1, <2>2, <2>3
<1>1. CASE ~T[i].null
  <2>1. DieAt(T, i, T[i].at)
    BY <1>1 DEF DieAt
  <2>2. j = i
    BY <2>1, DieAtOne
  <2>3. KeyStep(T[i]) = 0
    BY <1>1 DEF Closing, KeyStep
  <2>4. Deeper(D, i, i)
    BY <1>0 DEF Deeper
  <2> QED BY <1>0, <2>2, <2>3, <2>4
<1>2. CASE T[i].null
  <2>1. Over(T[i]) = T[i].at /\ KeyStep(T[i]) = -1
    BY <1>2 DEF Over, KeyStep
  <2>2. PICK k \in 1..i : k < i /\ DieAt(T, k, T[i].at) /\ D[i] = D[k] + 1 /\ Deeper(D, k, i)
    BY <2>1 DEF LevelRight
  <2>3. k = j
    BY <2>2, DieAtOne
  <2>4. D[k] \in Int
    BY <1>0, <2>2
  <2> QED BY <1>0, <2>1, <2>2, <2>3, <2>4
<1> QED BY <1>0, <1>1, <1>2

LEMMA TrailLevels ==
  ASSUME Walkable, Root \in made, NEW T, Trail(T), NEW D, Levels(T, D)
  PROVE  \A i \in 1..Len(T) : LevelRight(T, D, i)
<1> DEFINE S == {i \in 1..Len(T) : \A m \in 1..i : LevelRight(T, D, m)}
<1>0. /\ Len(T) \in Nat /\ 1 \in 1..Len(T) /\ T[1].at = Root /\ T[1].null = FALSE
      /\ D \in [1..(Len(T) + 1) -> Int] /\ D[1] = 0
      /\ \A i \in 1..Len(T) : D[i + 1] = D[i] + KeyStep(T[i]) /\ D[i] \in Int
  <2>1. Len(T) \in Nat /\ 1 \in 1..Len(T) /\ T[1].at = Root /\ T[1].null = FALSE
    BY TrailTypes
  <2>2. /\ D \in [1..(Len(T) + 1) -> Int] /\ D[1] = 0
        /\ \A i \in 1..Len(T) : D[i + 1] = D[i] + KeyStep(T[i])
    BY DEF Levels
  <2>3. \A i \in 1..Len(T) : i \in 1..(Len(T) + 1)
    BY <2>1
  <2> QED BY <2>1, <2>2, <2>3
<1>1. 1 \in S
  <2>1. Over(T[1]) = NULL
    BY <1>0 DEF Over, Walkable, UpWays
  <2>2. LevelRight(T, D, 1)
    BY <1>0, <2>1 DEF LevelRight
  <2> QED BY <1>0, <2>2
<1>2. ASSUME NEW i \in 1..Len(T), i < Len(T), i \in S PROVE i + 1 \in S
  <2>1. /\ i + 1 \in 1..Len(T) /\ T[i].at # NULL /\ Goes(T[i], T[i + 1]) /\ GoodKey(T[i])
    BY <1>2, TrailTypes, TrailGood
  <2> DEFINE d == T[i].at
             n == T[i + 1].at
  <2>2. d \in made /\ NULL \notin made
    BY <2>1 DEF GoodKey, Walkable
  <2>3. \A m \in 1..i : LevelRight(T, D, m)
    BY <1>2
  <2>4. LevelRight(T, D, i)
    BY <2>3
  <2>5. SUFFICES LevelRight(T, D, i + 1)
    <3>1. \A m \in 1..(i + 1) : m \in 1..i \/ m = i + 1
      OBVIOUS
    <3> QED BY <2>1, <2>3, <2>5, <3>1
  <2>6. D[i + 1] = D[i] + KeyStep(T[i]) /\ D[i] \in Int /\ D[i + 1] \in Int
    BY <1>0, <2>1
  <2>7. CASE ~T[i].null /\ di_child[d] # NULL /\ n = di_child[d] /\ ~T[i + 1].null
    <3>1. Over(T[i + 1]) = d
      BY <2>2, <2>7 DEF Over, Walkable, ChildWays
    <3>2. D[i + 1] = D[i] + 1
      BY <2>6, <2>7 DEF KeyStep
    <3>3. DieAt(T, i, d)
      BY <2>7 DEF DieAt
    <3>4. Deeper(D, i, i + 1)
      BY <2>6, <3>2 DEF Deeper
    <3>5. i \in 1..(i + 1) /\ i < i + 1
      OBVIOUS
    <3>6. D[i + 1] >= 0
      BY <2>4, <2>6, <3>2 DEF LevelRight
    <3> QED BY <2>1, <3>1, <3>2, <3>3, <3>4, <3>5, <3>6 DEF LevelRight
  <2>8. CASE Closing(T[i]) /\ Over(T[i + 1]) = di_parent[d]
    <3>1. PICK j \in 1..i : DieAt(T, j, d)
      BY <2>1, TrailFromAbove DEF CameFromAbove
    <3>2. j <= i /\ D[i + 1] = D[j] /\ Deeper(D, j, i)
      BY <2>1, <2>4, <2>8, <3>1, ClosingLevel
    <3>3. LevelRight(T, D, j) /\ D[j] \in Int
      BY <1>0, <2>3, <3>1
    <3>4. Over(T[j]) = di_parent[d]
      BY <3>1 DEF DieAt, Over
    <3>5. CASE di_parent[d] = NULL
      <4>1. D[j] = 0
        BY <3>3, <3>4, <3>5 DEF LevelRight
      <4> QED BY <2>8, <3>2, <3>5, <4>1 DEF LevelRight
    <3>6. CASE di_parent[d] # NULL
      <4>1. PICK k \in 1..j : /\ k < j /\ DieAt(T, k, di_parent[d])
                              /\ D[j] = D[k] + 1 /\ Deeper(D, k, j)
        BY <3>3, <3>4, <3>6 DEF LevelRight
      <4>2. k \in 1..Len(T) /\ D[k] \in Int
        BY <1>0, <4>1
      <4>3. Deeper(D, k, i + 1)
        <5> SUFFICES ASSUME NEW m \in (k + 1)..(i + 1) PROVE D[m] > D[k]
          BY DEF Deeper
        <5>1. CASE m \in (k + 1)..j
          BY <4>1, <5>1 DEF Deeper
        <5>2. CASE m \in (j + 1)..i
          <6>1. D[m] > D[j] /\ m \in 1..(Len(T) + 1)
            BY <3>2, <5>2 DEF Deeper
          <6>2. D[m] \in Int
            BY <1>0, <6>1
          <6> QED BY <3>3, <4>1, <4>2, <6>1, <6>2
        <5>3. CASE m = i + 1
          BY <3>2, <4>1, <4>2, <5>3
        <5> QED BY <5>1, <5>2, <5>3
      <4>4. D[i + 1] >= 0
        BY <3>2, <3>3 DEF LevelRight
      <4>5. k \in 1..(i + 1) /\ k < i + 1 /\ D[i + 1] = D[k] + 1
        BY <3>2, <4>1
      <4> QED BY <2>8, <3>6, <4>1, <4>3, <4>4, <4>5 DEF LevelRight
    <3> QED BY <3>5, <3>6
  <2>9. CASE Closing(T[i]) /\ di_right[d] # NULL /\ n = di_right[d] /\ ~T[i + 1].null
    <3>1. Over(T[i + 1]) = di_parent[d]
      BY <2>2, <2>9 DEF Over, Walkable, RightWays
    <3> QED BY <2>8, <2>9, <3>1
  <2>10. CASE Closing(T[i]) /\ di_right[d] = NULL /\ n = di_parent[d] /\ T[i + 1].null
    <3>1. Over(T[i + 1]) = di_parent[d]
      BY <2>10 DEF Over
    <3> QED BY <2>8, <2>10, <3>1
  <2> QED BY <2>1, <2>7, <2>9, <2>10 DEF Goes
<1> HIDE DEF S
<1>3. \A i \in 1..Len(T) : i \in S
  BY <1>0, <1>1, <1>2, UpTo
<1>4. ASSUME NEW m \in 1..Len(T) PROVE LevelRight(T, D, m)
  <2>1. m \in S /\ m \in 1..m
    BY <1>3
  <2> QED BY <2>1 DEF S
<1> QED BY <1>4

-------------------------------------------------------------------------------
(* What is written along a walk.                                            *)

WrittenFor(k) ==
  IF k.null THEN NullEntry(k.off)
  ELSE [off |-> k.off, size |-> Size(k.at), null |-> FALSE,
        children |-> di_child[k.at] # NULL, die |-> k.at,
        sibling |-> IF at_sibling[k.at] = NULL THEN NoSibling
                    ELSE di_offset[at_sibling[k.at]]]

Follows(s, T) ==
  /\ s \in Seq(Entries) /\ Len(s) = Len(T)
  /\ \A i \in 1..Len(T) : s[i] = WrittenFor(T[i])

WrittenIs(e, k) ==
  /\ e.off = k.off
  /\ k.null => /\ e.null /\ e.size = 1 /\ e.die = NULL /\ e.sibling = NoSibling
  /\ ~k.null => /\ ~e.null /\ e.size = Size(k.at) /\ e.die = k.at
                /\ e.sibling = (IF at_sibling[k.at] = NULL THEN NoSibling
                                ELSE di_offset[at_sibling[k.at]])
  /\ Step(e) = KeyStep(k)
  /\ e.off + e.size = After(k)

LEMMA WrittenForIs ==
  ASSUME NEW k
  PROVE  WrittenIs(WrittenFor(k), k)
<1>1. CASE k.null
  <2>1. WrittenFor(k) = [off |-> k.off, size |-> 1, null |-> TRUE, children |-> FALSE,
                         die |-> NULL, sibling |-> NoSibling]
    BY <1>1 DEF WrittenFor, NullEntry
  <2> QED BY <1>1, <2>1 DEF WrittenIs, Step, KeyStep, After
<1>2. CASE ~k.null
  <2>1. PICK sib : sib = IF at_sibling[k.at] = NULL THEN NoSibling ELSE di_offset[at_sibling[k.at]]
    OBVIOUS
  <2>2. PICK z : z = Size(k.at)
    OBVIOUS
  <2>3. PICK c : c = (di_child[k.at] # NULL)
    OBVIOUS
  <2>4. WrittenFor(k) = [off |-> k.off, size |-> z, null |-> FALSE, children |-> c,
                         die |-> k.at, sibling |-> sib]
    BY <1>2, <2>1, <2>2, <2>3 DEF WrittenFor
  <2> DEFINE e == WrittenFor(k)
  <2>5. /\ e.off = k.off /\ e.size = z /\ e.null = FALSE /\ e.children = c /\ e.die = k.at
        /\ e.sibling = sib
    BY <2>4
  <2> HIDE DEF e
  <2>6. Step(e) = KeyStep(k)
    <3>1. CASE di_child[k.at] # NULL
      <4>1. e.children = TRUE
        BY <2>3, <2>5, <3>1
      <4> QED BY <1>2, <2>5, <3>1, <4>1 DEF Step, KeyStep
    <3>2. CASE di_child[k.at] = NULL
      <4>1. e.children = FALSE
        BY <2>3, <2>5, <3>2
      <4> QED BY <1>2, <2>5, <3>2, <4>1 DEF Step, KeyStep
    <3> QED BY <3>1, <3>2
  <2>7. After(k) = k.off + z
    BY <1>2, <2>2 DEF After
  <2>8. WrittenIs(e, k)
    BY <1>2, <2>1, <2>2, <2>5, <2>6, <2>7 DEF WrittenIs
  <2> QED BY <2>8 DEF e
<1> QED BY <1>1, <1>2

LEMMA FollowsFacts ==
  ASSUME NEW s, NEW T, Trail(T), Follows(s, T)
  PROVE  /\ Len(s) = Len(T) /\ Len(s) \in Nat /\ DOMAIN s = 1..Len(T) /\ s \in Seq(Entries)
         /\ \A i \in 1..Len(T) : WrittenIs(s[i], T[i])
         /\ Levels(T, Level(s))
<1>1. s \in Seq(Entries) /\ Len(s) = Len(T) /\ Len(s) \in Nat /\ DOMAIN s = 1..Len(T)
  BY DEF Follows
<1>2. \A i \in 1..Len(T) : WrittenIs(s[i], T[i])
  BY WrittenForIs DEF Follows
<1>3. Levels(T, Level(s))
  <2>1. /\ Level(s) \in [1..(Len(s) + 1) -> Int] /\ Level(s)[1] = 0
        /\ \A i \in 1..Len(s) : Level(s)[i + 1] = Level(s)[i] + Step(s[i])
    BY <1>1, LevelIs
  <2>2. \A i \in 1..Len(T) : Step(s[i]) = KeyStep(T[i])
    BY <1>2 DEF WrittenIs
  <2> QED BY <1>1, <2>1, <2>2 DEF Levels
<1> QED BY <1>1, <1>2, <1>3

LEMMA FollowsContiguous ==
  ASSUME NEW s, NEW T, Trail(T), Follows(s, T), NEW end \in Nat, end = After(T[Len(T)])
  PROVE  Contiguous(s, end)
<1>1. /\ Len(s) = Len(T) /\ Len(s) \in Nat /\ s \in Seq(Entries)
      /\ \A i \in 1..Len(T) : WrittenIs(s[i], T[i])
  BY FollowsFacts
<1>2. ASSUME NEW i \in 1..Len(s)
      PROVE  /\ s[i].off + s[i].size = OffAt(s, end, i + 1)
             /\ s[i].null => s[i].size = 1
  <2>1. WrittenIs(s[i], T[i])
    BY <1>1
  <2>2. s[i].off + s[i].size = After(T[i]) /\ (s[i].null => s[i].size = 1)
    BY <2>1 DEF WrittenIs
  <2>3. CASE i = Len(s)
    BY <1>1, <2>2, <2>3 DEF OffAt
  <2>4. CASE i # Len(s)
    <3>1. i < Len(T) /\ i + 1 \in 1..Len(T) /\ i + 1 <= Len(s)
      BY <1>1, <2>4
    <3>2. T[i + 1].off = After(T[i])
      BY <1>1, <3>1, TrailTypes
    <3>3. s[i + 1].off = T[i + 1].off
      BY <1>1, <3>1 DEF WrittenIs
    <3> QED BY <2>2, <3>1, <3>2, <3>3 DEF OffAt
  <2> QED BY <2>2, <2>3, <2>4
<1> QED BY <1>1, <1>2 DEF Contiguous

(* The DIE to the right comes next in the list.                              *)
LEMMA RightComes ==
  ASSUME Forest, Linked, Root \in made, NEW T, Complete(T), NEW D, Levels(T, D),
         NEW i, NEW d, DieAt(T, i, d), di_right[d] # NULL
  PROVE  \E j \in (i + 1)..Len(T) : /\ DieAt(T, j, di_right[d]) /\ D[j] = D[i]
                                    /\ Deeper(D, i, j - 1)
<1>0. Walkable /\ Trail(T) /\ T[Len(T)].at = NULL /\ Len(T) \in Nat
  BY LinkedWalkable, TrailTypes DEF Complete
<1>1. i \in 1..Len(T) /\ T[i].at = d /\ ~T[i].null
  BY DEF DieAt
<1>2. d \in made /\ d # NULL
  BY <1>0, <1>1, TrailGood DEF GoodKey, Walkable
<1>3. d \in Tree(Root)
  BY <1>0, <1>1, <1>2, TrailFromAbove DEF CameFromAbove
<1>4. PICK k \in 1..Len(T) : T[k].at = d /\ Closing(T[k])
  BY <1>3, TreeClosed DEF Closed
<1>5. k < Len(T)
  BY <1>0, <1>2, <1>4
<1>6. k + 1 \in 1..Len(T) /\ Goes(T[k], T[k + 1])
  BY <1>0, <1>5, TrailTypes
<1>7. T[k + 1].at = di_right[d] /\ ~T[k + 1].null
  BY <1>4, <1>6 DEF Goes, Closing
<1>8. LevelRight(T, D, k)
  BY <1>0, TrailLevels
<1>9. i <= k /\ D[k + 1] = D[i] /\ Deeper(D, i, k)
  BY <1>0, <1>2, <1>4, <1>8, ClosingLevel
<1>10. k + 1 \in (i + 1)..Len(T) /\ (k + 1) - 1 = k /\ DieAt(T, k + 1, di_right[d])
  BY <1>1, <1>6, <1>7, <1>9 DEF DieAt
<1> QED BY <1>9, <1>10

(* The offsets pass 1 told are those of the walk.                            *)
Told(T) == \A i \in 1..Len(T) : ~T[i].null => di_offset[T[i].at] = T[i].off

SiblingIsRight == \A d \in Dies : at_sibling[d] # NULL => at_sibling[d] = di_right[d]

LEMMA SiblingLeads ==
  ASSUME Forest, Linked, Root \in made, SiblingIsRight, NEW T, Complete(T), Told(T),
         NEW s, Follows(s, T), NEW i \in 1..Len(s), s[i].sibling # NoSibling
  PROVE  \E j \in (i + 1)..Len(s) :
           /\ First(s, i, j) /\ s[j].off = s[i].sibling /\ s[i].die # NULL
           /\ s[j].die = di_right[s[i].die]
<1>0. /\ Trail(T) /\ Walkable /\ Len(s) = Len(T) /\ Len(s) \in Nat
      /\ \A x \in 1..Len(T) : WrittenIs(s[x], T[x])
      /\ Levels(T, Level(s))
  BY FollowsFacts, LinkedWalkable DEF Complete
<1>1. ~T[i].null
  BY <1>0 DEF WrittenIs
<1> DEFINE d == T[i].at
<1>2. /\ s[i].die = d
      /\ s[i].sibling = IF at_sibling[d] = NULL THEN NoSibling ELSE di_offset[at_sibling[d]]
  BY <1>0, <1>1 DEF WrittenIs
<1>3. d \in made /\ d \in Dies /\ NULL \notin made
  BY <1>0, <1>1, TrailGood DEF GoodKey, Walkable, Forest
<1>4. at_sibling[d] # NULL /\ at_sibling[d] = di_right[d] /\ s[i].sibling = di_offset[di_right[d]]
  BY <1>2, <1>3 DEF SiblingIsRight
<1>5. DieAt(T, i, d)
  BY <1>0, <1>1 DEF DieAt
<1>6. PICK j \in (i + 1)..Len(T) : /\ DieAt(T, j, di_right[d]) /\ Level(s)[j] = Level(s)[i]
                                   /\ Deeper(Level(s), i, j - 1)
  BY <1>0, <1>4, <1>5, RightComes
<1>7. j \in 1..Len(T) /\ T[j].at = di_right[d] /\ ~T[j].null
  BY <1>6 DEF DieAt
<1>8. s[j].die = di_right[d] /\ s[j].off = T[j].off
  BY <1>0, <1>7 DEF WrittenIs
<1>9. di_offset[di_right[d]] = T[j].off
  BY <1>7 DEF Told
<1>10. First(s, i, j)
  <2>1. Level(s)[j] \in Int /\ Level(s)[i] \in Int
    BY <1>0, <1>7, LevelInt
  <2>2. j \in (i + 1)..(Len(s) + 1) /\ Level(s)[j] <= Level(s)[i]
    BY <1>0, <1>6, <2>1
  <2> QED BY <1>6, <2>2 DEF First, Deeper
<1> QED BY <1>0, <1>2, <1>3, <1>4, <1>6, <1>8, <1>9, <1>10

LEMMA LastLevel ==
  ASSUME Walkable, Root \in made, NEW T, Complete(T), NEW D, Levels(T, D)
  PROVE  D[Len(T) + 1] = -1
<1>0. Trail(T) /\ Len(T) \in 1..Len(T) /\ T[Len(T)].at = NULL
  BY TrailTypes DEF Complete
<1>1. T[Len(T)].null
  BY <1>0, TrailGood DEF GoodKey, Walkable
<1>2. Over(T[Len(T)]) = NULL /\ KeyStep(T[Len(T)]) = -1
  BY <1>0, <1>1 DEF Over, KeyStep
<1>3. D[Len(T)] = 0
  BY <1>0, <1>2, TrailLevels DEF LevelRight
<1> QED BY <1>0, <1>2, <1>3 DEF Levels

LEMMA FollowsWellFormed ==
  ASSUME Forest, Linked, Root \in made, SiblingIsRight, NEW T, Complete(T), Told(T),
         NEW s, Follows(s, T), NEW end \in Nat, end = After(T[Len(T)])
  PROVE  WellFormed(s, end)
<1>0. /\ Trail(T) /\ Walkable /\ Len(s) = Len(T) /\ Len(s) \in Nat \ {0} /\ s \in Seq(Entries)
      /\ \A x \in 1..Len(T) : WrittenIs(s[x], T[x])
      /\ Levels(T, Level(s)) /\ 1 \in 1..Len(T) /\ ~T[1].null
  BY FollowsFacts, TrailTypes, LinkedWalkable DEF Complete
<1>1. Contiguous(s, end)
  BY <1>0, FollowsContiguous
<1>2. s # <<>> /\ ~s[1].null
  BY <1>0 DEF WrittenIs
<1>3. \A i \in 1..Len(s) : Level(s)[i] >= 0
  BY <1>0, TrailLevels DEF LevelRight
<1>4. Level(s)[Len(s) + 1] <= 0
  BY <1>0, LastLevel
<1>5. ASSUME NEW i \in 1..Len(s), s[i].sibling # NoSibling
      PROVE  \E j \in (i + 1)..(Len(s) + 1) : First(s, i, j) /\ s[i].sibling = OffAt(s, end, j)
  <2>1. PICK j \in (i + 1)..Len(s) : First(s, i, j) /\ s[j].off = s[i].sibling
    BY <1>5, SiblingLeads
  <2>2. j \in (i + 1)..(Len(s) + 1) /\ OffAt(s, end, j) = s[j].off
    BY <1>0 DEF OffAt
  <2> QED BY <2>1, <2>2
<1> QED BY <1>1, <1>2, <1>3, <1>4, <1>5 DEF WellFormed
-------------------------------------------------------------------------------

(* What stays true of the pointers even when a call has lost DIEs.           *)
Before(x, y) == \E r \in rows : \E i, j \in 1..Len(r) : i < j /\ r[i] = x /\ r[j] = y

RightBack == \A x \in Dies : di_right[x] # NULL => di_left[di_right[x]] = x

LeftBefore == \A y \in Dies : di_left[y] # NULL => Before(di_left[y], y)

ChildUnder ==
  \A p \in Dies : /\ di_child[p] # NULL => under[di_child[p]] = p /\ di_last_child[p] # NULL
                  /\ di_last_child[p] # NULL => under[di_last_child[p]] = p

ParentUnder ==
  \A x \in Dies : /\ di_parent[x] \in {under[x], NULL}
                  /\ under[x] # NULL => di_child[under[x]] # NULL

Traced == RightBack /\ LeftBefore /\ ChildUnder /\ ParentUnder

LEMMA BeforeFacts ==
  ASSUME Forest, NEW x, NEW y, Before(x, y)
  PROVE  /\ x \in made /\ y \in made /\ x \in Dies /\ y \in Dies /\ x # y /\ under[x] = under[y]
         /\ <<x>> \notin rows /\ <<y>> \notin rows
         /\ \A z : Before(y, z) => Before(x, z)
<1>1. PICK r \in rows : \E i, j \in 1..Len(r) : i < j /\ r[i] = x /\ r[j] = y
  BY DEF Before
<1>2. PICK i \in 1..Len(r), j \in 1..Len(r) : i < j /\ r[i] = x /\ r[j] = y
  BY <1>1
<1>3. /\ Len(r) \in Nat
      /\ \A a \in 1..Len(r) : r[a] \in made /\ r[a] \in Dies /\ under[r[a]] = under[r[1]]
      /\ \A a, b \in 1..Len(r) : r[a] = r[b] => a = b
  BY RowFacts
<1>31. InOne
  BY DEF Forest
<1>4. x # y
  BY <1>2, <1>3
<1>5. ASSUME NEW z, NEW a \in 1..Len(r), r[a] = z, <<z>> \in rows PROVE FALSE
  <2>1. <<z>> = r
    <3>1. 1 \in 1..Len(<<z>>) /\ <<z>>[1] = r[a]
      BY <1>5, AloneIs
    <3> QED BY <1>5, <1>31, <3>1 DEF InOne
  <2>2. Len(r) = 1
    BY <2>1, AloneIs
  <2> QED BY <1>2, <2>2
<1>6. ASSUME NEW z, Before(y, z) PROVE Before(x, z)
  <2>1. PICK s \in rows : \E a, b \in 1..Len(s) : a < b /\ s[a] = y /\ s[b] = z
    BY <1>6 DEF Before
  <2>2. PICK a \in 1..Len(s), b \in 1..Len(s) : a < b /\ s[a] = y /\ s[b] = z
    BY <2>1
  <2>3. r = s /\ j = a
    <3>1. r[j] = s[a]
      BY <1>2, <2>2
    <3> QED BY <1>31, <3>1 DEF InOne
  <2>4. i < b
    BY <1>2, <1>3, <2>2, <2>3
  <2> QED BY <1>2, <2>2, <2>3, <2>4 DEF Before
<1> QED BY <1>2, <1>3, <1>4, <1>5, <1>6

LEMMA WaysFacts ==
  ASSUME Forest, Traced, LinkTypes
  PROVE  /\ \A y \in Dies : di_left[y] # NULL => Before(di_left[y], y)
         /\ \A x \in Dies : di_right[x] # NULL =>
              di_right[x] \in Dies /\ di_left[di_right[x]] = x /\ Before(x, di_right[x])
         /\ \A p \in Dies : di_child[p] # NULL =>
              p \in made /\ di_child[p] \in made /\ under[di_child[p]] = p
<1>1. ASSUME NEW x \in Dies, di_right[x] # NULL
      PROVE  di_right[x] \in Dies /\ di_left[di_right[x]] = x /\ Before(x, di_right[x])
  <2>1. di_right[x] \in Dies
    BY <1>1 DEF LinkTypes
  <2>2. di_left[di_right[x]] = x /\ x # NULL
    BY <1>1, DieTypes DEF Traced, RightBack
  <2>3. Before(di_left[di_right[x]], di_right[x])
    BY <2>1, <2>2 DEF Traced, LeftBefore
  <2> QED BY <2>1, <2>2, <2>3
<1>2. ASSUME NEW p \in Dies, di_child[p] # NULL
      PROVE  p \in made /\ di_child[p] \in made /\ under[di_child[p]] = p
  <2>1. di_child[p] \in Dies /\ under[di_child[p]] = p /\ p # NULL
    BY <1>2, DieTypes DEF LinkTypes, Traced, ChildUnder
  <2> QED BY <2>1 DEF Forest
<1> QED BY <1>1, <1>2 DEF Traced, LeftBefore

(* A DIE alone in its list has no neighbours, and is nobody's.               *)
LEMMA LoneWays ==
  ASSUME Forest, Traced, LinkTypes, NEW d \in Dies, <<d>> \in rows
  PROVE  /\ di_left[d] = NULL /\ di_right[d] = NULL
         /\ \A x \in Dies : di_right[x] # d /\ di_left[x] # d
<1>1. \A x, y : Before(x, y) => <<x>> \notin rows /\ <<y>> \notin rows
  BY BeforeFacts
<1>2. d # NULL
  BY DieTypes
<1>3. di_left[d] = NULL
  BY <1>1, WaysFacts
<1>4. di_right[d] = NULL
  BY <1>1, WaysFacts
<1>5. ASSUME NEW x \in Dies PROVE di_right[x] # d /\ di_left[x] # d
  <2>1. di_left[x] # d
    BY <1>1, <1>2, WaysFacts
  <2>2. di_right[x] # d
    BY <1>1, <1>2, WaysFacts
  <2> QED BY <2>1, <2>2
<1> QED BY <1>3, <1>4, <1>5

(* The order in the lists only grows when a DIE enters one.                   *)
LEMMA EntersBefore ==
  ASSUME Forest, NEW d, NEW r, NEW k, NEW q, Enters(d, r, k, q)
  PROVE  /\ \A x, y : Before(x, y) => Before(x, y)'
         /\ \A y \in 1..Len(r) : y < k => Before(r[y], d)'
         /\ \A y \in 1..Len(r) : ~(y < k) => Before(d, r[y])'
<1>1. /\ r \in rows /\ r # <<d>> /\ k \in 1..(Len(r) + 1) /\ Len(q) = Len(r) + 1
      /\ \A x \in 1..(Len(r) + 1) : q[x] = IF x < k THEN r[x] ELSE IF x = k THEN d ELSE r[x - 1]
      /\ rows' = (rows \ {<<d>>, r}) \cup {q}
  BY DEF Enters
<1>2. Len(r) \in Nat
  BY <1>1, RowFacts
<1>3. PICK pos : pos = [y \in 1..Len(r) |-> IF y < k THEN y ELSE y + 1]
  OBVIOUS
<1>4. ASSUME NEW y \in 1..Len(r)
      PROVE  /\ pos[y] \in 1..Len(q) /\ q[pos[y]] = r[y]
             /\ y < k => pos[y] < k
             /\ ~(y < k) => k < pos[y]
             /\ pos[y] = IF y < k THEN y ELSE y + 1
  <2>1. CASE y < k
    <3>1. pos[y] = y /\ y \in 1..(Len(r) + 1)
      BY <1>2, <1>3, <2>1
    <3> QED BY <1>1, <1>2, <2>1, <3>1
  <2>2. CASE ~(y < k)
    <3>1. pos[y] = y + 1 /\ y + 1 \in 1..(Len(r) + 1) /\ k < y + 1 /\ (y + 1) - 1 = y
      BY <1>1, <1>2, <1>3, <2>2
    <3> QED BY <1>1, <1>2, <2>2, <3>1
  <2> QED BY <2>1, <2>2
<1>5. q \in rows' /\ k \in 1..Len(q) /\ q[k] = d
  BY <1>1, <1>2
<1>6. ASSUME NEW x, NEW y, Before(x, y) PROVE Before(x, y)'
  <2>1. PICK s \in rows : \E i, j \in 1..Len(s) : i < j /\ s[i] = x /\ s[j] = y
    BY <1>6 DEF Before
  <2>2. PICK i \in 1..Len(s), j \in 1..Len(s) : i < j /\ s[i] = x /\ s[j] = y
    BY <2>1
  <2>3. s # <<d>>
    BY <2>2, AloneIs
  <2>4. CASE s = r
    <3>1. i \in 1..Len(r) /\ j \in 1..Len(r)
      BY <2>2, <2>4
    <3>2. pos[i] < pos[j]
      BY <1>1, <1>2, <1>4, <2>2, <3>1
    <3>3. q[pos[i]] = x /\ q[pos[j]] = y /\ pos[i] \in 1..Len(q) /\ pos[j] \in 1..Len(q)
      BY <1>4, <2>2, <2>4, <3>1
    <3> QED BY <1>5, <3>2, <3>3 DEF Before
  <2>5. CASE s # r
    <3>1. s \in rows'
      BY <1>1, <2>3, <2>5
    <3> QED BY <2>2, <3>1 DEF Before
  <2> QED BY <2>4, <2>5
<1>7. ASSUME NEW y \in 1..Len(r), y < k PROVE Before(r[y], d)'
  BY <1>4, <1>5, <1>7 DEF Before
<1>8. ASSUME NEW y \in 1..Len(r), ~(y < k) PROVE Before(d, r[y])'
  BY <1>4, <1>5, <1>8 DEF Before
<1> QED BY <1>6, <1>7, <1>8

LEMMA NewDieTraced ==
  ASSUME Forest, Traced, LinkTypes, NEW d \in Dies, NewDie(d)
  PROVE  Traced'
<1>1. /\ rows' = rows \cup {<<d>>} /\ under' = under
      /\ di_parent' = di_parent /\ di_child' = di_child /\ di_left' = di_left
      /\ di_right' = di_right /\ di_last_child' = di_last_child
  BY DEF NewDie, links
<1>2. \A x, y : Before(x, y) => Before(x, y)'
  BY <1>1 DEF Before
<1> QED BY <1>1, <1>2 DEF Traced, RightBack, LeftBefore, ChildUnder, ParentUnder
LEMMA BeforeIn ==
  ASSUME Forest, NEW r \in rows, NEW i \in 1..Len(r)
  PROVE  /\ \A y : Before(r[i], y) => \E j \in 1..Len(r) : i < j /\ r[j] = y
         /\ \A x : Before(x, r[i]) => \E j \in 1..Len(r) : j < i /\ r[j] = x
<1>1. InOne
  BY DEF Forest
<1>2. ASSUME NEW y, Before(r[i], y) PROVE \E j \in 1..Len(r) : i < j /\ r[j] = y
  <2>1. PICK s \in rows : \E a, b \in 1..Len(s) : a < b /\ s[a] = r[i] /\ s[b] = y
    BY <1>2 DEF Before
  <2>2. PICK a \in 1..Len(s), b \in 1..Len(s) : a < b /\ s[a] = r[i] /\ s[b] = y
    BY <2>1
  <2>3. s = r /\ a = i
    BY <1>1, <2>2 DEF InOne
  <2> QED BY <2>2, <2>3
<1>3. ASSUME NEW x, Before(x, r[i]) PROVE \E j \in 1..Len(r) : j < i /\ r[j] = x
  <2>1. PICK s \in rows : \E a, b \in 1..Len(s) : a < b /\ s[a] = x /\ s[b] = r[i]
    BY <1>3 DEF Before
  <2>2. PICK a \in 1..Len(s), b \in 1..Len(s) : a < b /\ s[a] = x /\ s[b] = r[i]
    BY <2>1
  <2>3. s = r /\ b = i
    BY <1>1, <2>2 DEF InOne
  <2> QED BY <2>2, <2>3
<1> QED BY <1>2, <1>3

(* The lists and the order in them, as the DIE comes to where n is.           *)
LEMMA BesideOrder ==
  ASSUME Forest, NEW d, NEW place \in {"left", "right"}, NEW n, Link(d, place, n)
  PROVE  /\ \A x, y : Before(x, y) => Before(x, y)'
         /\ place = "left" => Before(n, d)' /\ \A y : Before(n, y) => Before(d, y)'
         /\ place = "right" => Before(d, n)' /\ \A x : Before(x, n) => Before(x, d)'
         /\ under' = [under EXCEPT ![d] = under[n]]
<1>1. PICK r : r = Row(n)
  OBVIOUS
<1>2. r \in rows /\ under[n] = under[r[1]] /\ \E i \in 1..Len(r) : r[i] = n
  <2>1. Row(n) \in rows /\ under[n] = under[Row(n)[1]]
    BY LinkFacts
  <2>2. \E i \in 1..Len(Row(n)) : Row(n)[i] = n
    BY LinkFacts
  <2> QED BY <1>1, <2>1, <2>2
<1>3. PICK i \in 1..Len(r) : r[i] = n
  BY <1>2
<1>4. PICK k : k = IF place = "left" THEN i + 1 ELSE i
  OBVIOUS
<1>5. PICK q : Enters(d, r, k, q)
  BY <1>1, <1>3, <1>4, BesideEnters
<1>6. \A x, y : Before(x, y) => Before(x, y)'
  BY <1>5, EntersBefore
<1>7. \A y \in 1..Len(r) : y < k => Before(r[y], d)'
  BY <1>5, EntersBefore
<1>8. \A y \in 1..Len(r) : ~(y < k) => Before(d, r[y])'
  BY <1>5, EntersBefore
<1>9. under' = [under EXCEPT ![d] = under[n]]
  BY <1>2, <1>5 DEF Enters
<1>10. Len(r) \in Nat
  BY <1>2, RowFacts
<1>11. ASSUME place = "left"
       PROVE  Before(n, d)' /\ \A y : Before(n, y) => Before(d, y)'
  <2>1. k = i + 1 /\ i < k
    BY <1>4, <1>10, <1>11
  <2>2. Before(n, d)'
    BY <1>3, <1>7, <2>1
  <2>3. ASSUME NEW y, Before(n, y) PROVE Before(d, y)'
    <3>1. PICK j \in 1..Len(r) : i < j /\ r[j] = y
      BY <1>2, <1>3, <2>3, BeforeIn
    <3>2. ~(j < k)
      BY <1>10, <2>1, <3>1
    <3> QED BY <1>8, <3>1, <3>2
  <2> QED BY <2>2, <2>3
<1>12. ASSUME place = "right"
       PROVE  Before(d, n)' /\ \A x : Before(x, n) => Before(x, d)'
  <2>1. k = i /\ ~(i < k)
    BY <1>4, <1>10, <1>12
  <2>2. Before(d, n)'
    BY <1>3, <1>8, <2>1
  <2>3. ASSUME NEW x, Before(x, n) PROVE Before(x, d)'
    <3>1. PICK j \in 1..Len(r) : j < i /\ r[j] = x
      BY <1>2, <1>3, <2>3, BeforeIn
    <3> QED BY <1>7, <2>1, <3>1
  <2> QED BY <2>2, <2>3
<1> QED BY <1>6, <1>9, <1>11, <1>12

(* What does not depend on which side it is.                                *)
LEMMA BesideTraced ==
  ASSUME Forest, Traced, LinkTypes, NEW d \in Dies, NEW n \in Dies, under[d] = NULL,
         under' = [under EXCEPT ![d] = under[n]], JoinParent(d, n),
         UNCHANGED <<di_child, di_last_child>>
  PROVE  (ChildUnder /\ ParentUnder)'
<1>1. /\ under \in [Dies -> made \cup {NULL}] /\ NULL \notin Dies /\ made \subseteq Dies
      /\ di_child \in [Dies -> Dies \cup {NULL}] /\ di_parent \in [Dies -> Dies \cup {NULL}]
      /\ di_last_child \in [Dies -> Dies \cup {NULL}]
      /\ di_parent' = [di_parent EXCEPT ![d] = di_parent[n]]
  BY DieTypes DEF Forest, LinkTypes, JoinParent
<1>2. ChildUnder /\ ParentUnder
  BY DEF Traced
<1>3. ASSUME NEW p \in Dies, NEW c \in Dies, under[c] = p PROVE under'[c] = p
  <2>1. c # d
    BY <1>1, <1>3
  <2> QED BY <1>1, <1>3, <2>1
<1>4. ChildUnder'
  <2>1. ASSUME NEW p \in Dies
        PROVE  /\ di_child'[p] # NULL => under'[di_child'[p]] = p /\ di_last_child'[p] # NULL
               /\ di_last_child'[p] # NULL => under'[di_last_child'[p]] = p
    <3>1. di_child'[p] = di_child[p] /\ di_last_child'[p] = di_last_child[p]
          /\ di_child[p] \in Dies \cup {NULL} /\ di_last_child[p] \in Dies \cup {NULL}
      BY <1>1
    <3> QED BY <1>2, <1>3, <3>1 DEF ChildUnder
  <2> QED BY <2>1 DEF ChildUnder
<1>5. ParentUnder'
  <2>1. ASSUME NEW x \in Dies
        PROVE  /\ di_parent'[x] \in {under'[x], NULL}
               /\ under'[x] # NULL => di_child'[under'[x]] # NULL
    <3>1. CASE x = d
      <4>1. under'[x] = under[n] /\ di_parent'[x] = di_parent[n] /\ di_child' = di_child
        BY <1>1, <3>1
      <4> QED BY <1>2, <4>1 DEF ParentUnder
    <3>2. CASE x # d
      <4>1. under'[x] = under[x] /\ di_parent'[x] = di_parent[x] /\ di_child' = di_child
        BY <1>1, <3>2
      <4> QED BY <1>2, <4>1 DEF ParentUnder
    <3> QED BY <3>1, <3>2
  <2> QED BY <2>1 DEF ParentUnder
<1> QED BY <1>4, <1>5

LEMMA LinkLeftTraced ==
  ASSUME Forest, Traced, LinkTypes, NEW d, NEW n, Link(d, "left", n)
  PROVE  Traced'
<1>1. /\ n # d /\ d \in Dies /\ n \in Dies /\ <<d>> \in rows /\ under[d] = NULL
      /\ LinkLeft(d, n) /\ JoinParent(d, n)
  <2>1. /\ n # d /\ d \in Dies /\ n \in Dies /\ <<d>> \in rows /\ under[d] = NULL
    BY LinkFacts
  <2>2. LinkLeft(d, n) /\ JoinParent(d, n)
    BY DEF Link
  <2> QED BY <2>1, <2>2
<1>2. /\ \A x, y : Before(x, y) => Before(x, y)'
      /\ Before(n, d)' /\ \A y : Before(n, y) => Before(d, y)'
      /\ under' = [under EXCEPT ![d] = under[n]]
  BY BesideOrder
<1>3. /\ di_left[d] = NULL /\ di_right[d] = NULL
      /\ \A x \in Dies : di_right[x] # d /\ di_left[x] # d
  BY <1>1, LoneWays
<1>4. PICK f : f = di_right[n]
  OBVIOUS
<1>5. /\ f \in Dies \cup {NULL} /\ NULL \notin Dies /\ f # d
      /\ di_left \in [Dies -> Dies \cup {NULL}] /\ di_right \in [Dies -> Dies \cup {NULL}]
  BY <1>1, <1>3, <1>4, DieTypes DEF LinkTypes
<1>6. /\ di_left' = [e \in Dies |-> IF e = d THEN n ELSE IF e = f THEN d ELSE di_left[e]]
      /\ di_right' = [di_right EXCEPT ![d] = IF f # NULL THEN f ELSE @, ![n] = d]
      /\ UNCHANGED <<di_child, di_last_child>>
  BY <1>1, <1>4 DEF LinkLeft
<1>7. f # NULL => Before(n, f) /\ di_left[f] = n
  BY <1>1, <1>4, WaysFacts
<1>8. RightBack'
  <2>1. ASSUME NEW x \in Dies, di_right'[x] # NULL PROVE di_left'[di_right'[x]] = x
    <3>1. CASE x = d
      <4>1. di_right'[x] = f /\ f \in Dies /\ f # d
        BY <1>1, <1>3, <1>5, <1>6, <2>1, <3>1
      <4> QED BY <1>6, <3>1, <4>1
    <3>2. CASE x = n
      <4>1. di_right'[x] = d
        BY <1>1, <1>5, <1>6, <3>2
      <4> QED BY <1>1, <1>6, <3>2, <4>1
    <3>3. CASE x # d /\ x # n
      <4>1. di_right'[x] = di_right[x]
        BY <1>5, <1>6, <3>3
      <4>2. di_right[x] \in Dies /\ di_left[di_right[x]] = x /\ di_right[x] # d
        BY <1>3, <2>1, <4>1, WaysFacts
      <4>3. di_right[x] # f
        BY <1>5, <1>7, <3>3, <4>2
      <4> QED BY <1>6, <4>1, <4>2, <4>3
    <3> QED BY <3>1, <3>2, <3>3
  <2> QED BY <2>1 DEF RightBack
<1>9. LeftBefore'
  <2>1. ASSUME NEW y \in Dies, di_left'[y] # NULL PROVE (Before(di_left[y], y))'
    <3>1. CASE y = d
      <4>1. di_left'[y] = n
        BY <1>6, <3>1
      <4>2. Before(n, y)'
        BY <1>2, <3>1
      <4> QED BY <4>1, <4>2 DEF Before
    <3>2. CASE y # d /\ y = f
      <4>1. di_left'[y] = d
        BY <1>6, <3>2
      <4>2. Before(d, y)'
        BY <1>2, <1>5, <1>7, <3>2
      <4> QED BY <4>1, <4>2 DEF Before
    <3>3. CASE y # d /\ y # f
      <4>1. di_left'[y] = di_left[y]
        BY <1>6, <3>3
      <4>2. Before(di_left[y], y)
        BY <2>1, <4>1, WaysFacts
      <4>3. PICK z : z = di_left[y]
        OBVIOUS
      <4>4. Before(z, y)'
        BY <1>2, <4>2, <4>3
      <4> QED BY <4>1, <4>3, <4>4 DEF Before
    <3> QED BY <3>1, <3>2, <3>3
  <2> QED BY <2>1 DEF LeftBefore
<1>10. (ChildUnder /\ ParentUnder)'
  BY <1>1, <1>2, <1>6, BesideTraced
<1> QED BY <1>8, <1>9, <1>10 DEF Traced
LEMMA LinkRightTraced ==
  ASSUME Forest, Traced, LinkTypes, NEW d, NEW n, Link(d, "right", n)
  PROVE  Traced'
<1>1. /\ n # d /\ d \in Dies /\ n \in Dies /\ <<d>> \in rows /\ under[d] = NULL
      /\ LinkRight(d, n) /\ JoinParent(d, n)
  <2>1. /\ n # d /\ d \in Dies /\ n \in Dies /\ <<d>> \in rows /\ under[d] = NULL
    BY LinkFacts
  <2>2. LinkRight(d, n) /\ JoinParent(d, n)
    BY DEF Link
  <2> QED BY <2>1, <2>2
<1>2. /\ \A x, y : Before(x, y) => Before(x, y)'
      /\ Before(d, n)' /\ \A x : Before(x, n) => Before(x, d)'
      /\ under' = [under EXCEPT ![d] = under[n]]
  BY BesideOrder
<1>3. /\ di_left[d] = NULL /\ di_right[d] = NULL
      /\ \A x \in Dies : di_right[x] # d /\ di_left[x] # d
  BY <1>1, LoneWays
<1>4. PICK l : l = di_left[n]
  OBVIOUS
<1>5. /\ l \in Dies \cup {NULL} /\ NULL \notin Dies /\ l # d
      /\ di_left \in [Dies -> Dies \cup {NULL}] /\ di_right \in [Dies -> Dies \cup {NULL}]
  BY <1>1, <1>3, <1>4, DieTypes DEF LinkTypes
<1>6. /\ di_right' = [e \in Dies |-> IF e = d THEN n ELSE IF e = l THEN d ELSE di_right[e]]
      /\ di_left' = [di_left EXCEPT ![d] = IF l # NULL THEN l ELSE @, ![n] = d]
      /\ UNCHANGED <<di_child, di_last_child>>
  BY <1>1, <1>4 DEF LinkRight
<1>7. l # NULL => Before(l, n)
  BY <1>1, <1>4, WaysFacts
<1>8. RightBack'
  <2>1. ASSUME NEW x \in Dies, di_right'[x] # NULL PROVE di_left'[di_right'[x]] = x
    <3>1. CASE x = d
      BY <1>1, <1>5, <1>6, <3>1
    <3>2. CASE x # d /\ x = l
      <4>1. di_right'[x] = d
        BY <1>6, <3>2
      <4> QED BY <1>1, <1>5, <1>6, <3>2, <4>1
    <3>3. CASE x # d /\ x # l
      <4>1. di_right'[x] = di_right[x]
        BY <1>6, <3>3
      <4>2. di_right[x] \in Dies /\ di_left[di_right[x]] = x /\ di_right[x] # d
        BY <1>3, <2>1, <4>1, WaysFacts
      <4>3. di_right[x] # n
        BY <1>4, <3>3, <4>2
      <4> QED BY <1>5, <1>6, <4>1, <4>2, <4>3
    <3> QED BY <3>1, <3>2, <3>3
  <2> QED BY <2>1 DEF RightBack
<1>9. LeftBefore'
  <2>1. ASSUME NEW y \in Dies, di_left'[y] # NULL PROVE (Before(di_left[y], y))'
    <3>1. CASE y = n
      <4>1. di_left'[y] = d
        BY <1>1, <1>5, <1>6, <3>1
      <4>2. Before(d, y)'
        BY <1>2, <3>1
      <4> QED BY <4>1, <4>2 DEF Before
    <3>2. CASE y = d
      <4>1. di_left'[y] = l /\ l # NULL
        BY <1>1, <1>3, <1>5, <1>6, <2>1, <3>2
      <4>2. Before(l, y)'
        BY <1>2, <1>7, <3>2, <4>1
      <4> QED BY <4>1, <4>2 DEF Before
    <3>3. CASE y # d /\ y # n
      <4>1. di_left'[y] = di_left[y]
        BY <1>5, <1>6, <3>3
      <4>2. Before(di_left[y], y)
        BY <2>1, <4>1, WaysFacts
      <4>3. PICK z : z = di_left[y]
        OBVIOUS
      <4>4. Before(z, y)'
        BY <1>2, <4>2, <4>3
      <4> QED BY <4>1, <4>3, <4>4 DEF Before
    <3> QED BY <3>1, <3>2, <3>3
  <2> QED BY <2>1 DEF LeftBefore
<1>10. (ChildUnder /\ ParentUnder)'
  BY <1>1, <1>2, <1>6, BesideTraced
<1> QED BY <1>8, <1>9, <1>10 DEF Traced

(* The same below n, at the end of its children.                             *)
LEMMA UnderOrder ==
  ASSUME Forest, NEW d, NEW n, Link(d, "parent", n)
  PROVE  /\ \A x, y : Before(x, y) => Before(x, y)'
         /\ \A x \in made : under[x] = n => Before(x, d)'
<1>1. /\ d \in made /\ n \in made /\ <<d>> \in rows
      /\ n # NULL /\ Place(d, "parent", n)
  <2>1. d \in made /\ n \in made /\ <<d>> \in rows /\ n \in Dies
    BY LinkFacts
  <2> QED BY <2>1, DieTypes DEF Link
<1>2. CASE NoneUnder(n)
  <2>1. RowsUnder(n) = {}
    BY <1>2 DEF RowsUnder, NoneUnder
  <2>2. rows' = rows
    <3>1. rows' = rows \cup {<<d>>}
      BY <1>1, <2>1 DEF Place
    <3> QED BY <1>1, <3>1
  <2>3. \A x \in made : under[x] # n
    <3>1. ASSUME NEW x \in made, under[x] = n PROVE FALSE
      <4>1. PICK r \in rows : \E i \in 1..Len(r) : r[i] = x
        BY DEF Forest
      <4>2. under[r[1]] = n
        <5>1. PICK i \in 1..Len(r) : r[i] = x
          BY <4>1
        <5>2. under[r[i]] = under[r[1]]
          BY DEF Forest
        <5> QED BY <3>1, <5>1, <5>2
      <4> QED BY <1>2, <4>2 DEF NoneUnder
    <3> QED BY <3>1
  <2> QED BY <2>2, <2>3 DEF Before
<1>3. CASE ~NoneUnder(n)
  <2>1. PICK c \in rows : under[c[1]] = n
    BY <1>3 DEF NoneUnder
  <2>2. PICK k : k = Len(c) + 1
    OBVIOUS
  <2>3. PICK q : q = Append(c, d)
    OBVIOUS
  <2>4. Enters(d, c, k, q)
    BY <2>1, <2>2, <2>3, UnderEnters
  <2>5. \A x, y : Before(x, y) => Before(x, y)'
    BY <2>4, EntersBefore
  <2>6. \A y \in 1..Len(c) : y < k => Before(c[y], d)'
    BY <2>4, EntersBefore
  <2>7. ASSUME NEW x \in made, under[x] = n PROVE Before(x, d)'
    <3>1. PICK r \in rows : \E i \in 1..Len(r) : r[i] = x
      BY DEF Forest
    <3>2. under[r[1]] = n
      <4>1. PICK i \in 1..Len(r) : r[i] = x
        BY <3>1
      <4>2. under[r[i]] = under[r[1]]
        BY DEF Forest
      <4> QED BY <2>7, <4>1, <4>2
    <3>3. r = c
      BY <1>1, <2>1, <3>2 DEF Forest
    <3>4. PICK i \in 1..Len(c) : c[i] = x
      BY <3>1, <3>3
    <3>5. i < k
      <4>1. Len(c) \in Nat
        BY RowFacts
      <4> QED BY <2>2, <4>1
    <3> QED BY <2>6, <3>4, <3>5
  <2> QED BY <2>5, <2>7
<1> QED BY <1>2, <1>3

LEMMA LinkParentTraced ==
  ASSUME Forest, Traced, LinkTypes, NEW d, NEW n, Link(d, "parent", n)
  PROVE  Traced'
<1>1. /\ n # d /\ d \in Dies /\ n \in Dies /\ <<d>> \in rows /\ under[d] = NULL
      /\ LinkParent(d, n) /\ under' = [under EXCEPT ![d] = n] /\ made \subseteq Dies
  <2>1. /\ n # d /\ d \in Dies /\ n \in Dies /\ <<d>> \in rows /\ under[d] = NULL
    BY LinkFacts
  <2>2. LinkParent(d, n) /\ Place(d, "parent", n)
    BY DEF Link
  <2>3. under' = [under EXCEPT ![d] = n]
    BY <2>2 DEF Place
  <2> QED BY <2>1, <2>2, <2>3 DEF LinkTypes
<1>2. /\ \A x, y : Before(x, y) => Before(x, y)'
      /\ \A x \in made : under[x] = n => Before(x, d)'
  BY UnderOrder
<1>3. /\ di_left[d] = NULL /\ di_right[d] = NULL
      /\ \A x \in Dies : di_right[x] # d /\ di_left[x] # d
  BY <1>1, LoneWays
<1>4. PICK f : f = di_last_child[n]
  OBVIOUS
<1>5. /\ f \in Dies \cup {NULL} /\ NULL \notin Dies /\ d # NULL /\ n # NULL
      /\ di_left \in [Dies -> Dies \cup {NULL}] /\ di_right \in [Dies -> Dies \cup {NULL}]
      /\ di_child \in [Dies -> Dies \cup {NULL}] /\ di_last_child \in [Dies -> Dies \cup {NULL}]
      /\ di_parent \in [Dies -> Dies \cup {NULL}] /\ under \in [Dies -> made \cup {NULL}]
  BY <1>1, <1>4, DieTypes DEF LinkTypes, Forest
<1>6. /\ di_parent' = [di_parent EXCEPT ![d] = n]
      /\ di_last_child' = [di_last_child EXCEPT ![n] = d]
      /\ di_child[n] # NULL => /\ di_right' = [di_right EXCEPT ![f] = d]
                               /\ di_left' = [di_left EXCEPT ![d] = f]
                               /\ di_child' = di_child
      /\ di_child[n] = NULL => /\ di_child' = [di_child EXCEPT ![n] = d]
                               /\ di_left' = di_left /\ di_right' = di_right
  BY <1>1, <1>4 DEF LinkParent, NewLastChild
<1>7. di_child[n] # NULL => f \in made /\ under[f] = n /\ f # d
  <2>1. ASSUME di_child[n] # NULL PROVE f \in made /\ under[f] = n /\ f # d
    <3>1. f # NULL /\ under[f] = n
      BY <1>1, <1>4, <2>1 DEF Traced, ChildUnder
    <3> QED BY <1>1, <1>5, <3>1 DEF Forest
  <2> QED BY <2>1
<1>8. RightBack'
  <2>1. ASSUME NEW x \in Dies, di_right'[x] # NULL PROVE di_left'[di_right'[x]] = x
    <3>1. CASE di_child[n] = NULL
      BY <1>6, <2>1, <3>1 DEF Traced, RightBack
    <3>2. CASE di_child[n] # NULL /\ x = f
      <4>1. di_right'[x] = d
        BY <1>5, <1>6, <3>2
      <4> QED BY <1>1, <1>5, <1>6, <3>2, <4>1
    <3>3. CASE di_child[n] # NULL /\ x # f
      <4>1. di_right'[x] = di_right[x]
        BY <1>5, <1>6, <3>3
      <4>2. di_right[x] \in Dies /\ di_left[di_right[x]] = x /\ di_right[x] # d
        BY <1>3, <2>1, <4>1, WaysFacts
      <4> QED BY <1>5, <1>6, <3>3, <4>1, <4>2
    <3> QED BY <3>1, <3>2, <3>3
  <2> QED BY <2>1 DEF RightBack
<1>9. LeftBefore'
  <2>1. ASSUME NEW y \in Dies, di_left'[y] # NULL PROVE (Before(di_left[y], y))'
    <3>1. CASE di_child[n] # NULL /\ y = d
      <4>1. di_left'[y] = f
        BY <1>5, <1>6, <3>1
      <4>2. Before(f, y)'
        BY <1>2, <1>7, <3>1
      <4> QED BY <4>1, <4>2 DEF Before
    <3>2. CASE ~(di_child[n] # NULL /\ y = d)
      <4>1. di_left'[y] = di_left[y]
        BY <1>5, <1>6, <3>2
      <4>2. Before(di_left[y], y)
        BY <2>1, <4>1, WaysFacts
      <4>3. PICK z : z = di_left[y]
        OBVIOUS
      <4>4. Before(z, y)'
        BY <1>2, <4>2, <4>3
      <4> QED BY <4>1, <4>3, <4>4 DEF Before
    <3> QED BY <3>1, <3>2
  <2> QED BY <2>1 DEF LeftBefore
<1>10. ChildUnder'
  <2>1. ASSUME NEW p \in Dies, NEW c \in Dies, under[c] = p PROVE under'[c] = p
    <3>1. c # d
      BY <1>1, <1>5, <2>1
    <3> QED BY <1>1, <1>5, <2>1, <3>1
  <2>2. under'[d] = n
    BY <1>1, <1>5
  <2>3. ASSUME NEW p \in Dies
        PROVE  /\ di_child'[p] # NULL => under'[di_child'[p]] = p /\ di_last_child'[p] # NULL
               /\ di_last_child'[p] # NULL => under'[di_last_child'[p]] = p
    <3>1. /\ di_child[p] \in Dies \cup {NULL} /\ di_last_child[p] \in Dies \cup {NULL}
          /\ di_child[p] # NULL => under[di_child[p]] = p /\ di_last_child[p] # NULL
          /\ di_last_child[p] # NULL => under[di_last_child[p]] = p
      BY <1>5 DEF Traced, ChildUnder
    <3>2. CASE p = n
      <4>1. di_last_child'[p] = d
        BY <1>5, <1>6, <3>2
      <4>2. di_child'[p] = d \/ di_child'[p] = di_child[p]
        BY <1>5, <1>6, <3>2
      <4> QED BY <1>5, <2>1, <2>2, <3>1, <3>2, <4>1, <4>2
    <3>3. CASE p # n
      <4>1. di_last_child'[p] = di_last_child[p] /\ di_child'[p] = di_child[p]
        BY <1>5, <1>6, <3>3
      <4> QED BY <2>1, <3>1, <4>1
    <3> QED BY <3>2, <3>3
  <2> QED BY <2>3 DEF ChildUnder
<1>11. ParentUnder'
  <2>1. ASSUME NEW x \in Dies
        PROVE  /\ di_parent'[x] \in {under'[x], NULL}
               /\ under'[x] # NULL => di_child'[under'[x]] # NULL
    <3>1. \A p \in Dies : di_child[p] # NULL => di_child'[p] # NULL
      BY <1>5, <1>6
    <3>2. di_child'[n] # NULL
      BY <1>1, <1>5, <1>6
    <3>3. CASE x = d
      <4>1. under'[x] = n /\ di_parent'[x] = n
        BY <1>1, <1>5, <1>6, <3>3
      <4> QED BY <3>2, <4>1
    <3>4. CASE x # d
      <4>1. under'[x] = under[x] /\ di_parent'[x] = di_parent[x]
        BY <1>5, <1>1, <1>6, <3>4
      <4>2. under[x] \in Dies \cup {NULL}
        BY <1>1, <1>5
      <4>3. di_parent[x] \in {under[x], NULL} /\ (under[x] # NULL => di_child[under[x]] # NULL)
        BY DEF Traced, ParentUnder
      <4> QED BY <3>1, <4>1, <4>2, <4>3
    <3> QED BY <3>3, <3>4
  <2> QED BY <2>1 DEF ParentUnder
<1> QED BY <1>8, <1>9, <1>10, <1>11 DEF Traced
(* A list comes below d: all of its DIEs are under d, one has d as parent.   *)
Topped(r, d) ==
  /\ rows' = rows /\ made' = made
  /\ under' = [e \in Dies |-> IF e \in Range(r) THEN d ELSE under[e]]

LEMMA LinkToppedFacts ==
  ASSUME Forest, NEW d, NEW n, Link(d, "child", n)
  PROVE  /\ d \in made /\ n \in made /\ d \in Dies /\ n \in Dies /\ n # d
         /\ Row(n) \in rows /\ n \in Range(Row(n)) /\ LinkChild(d, n)
         /\ NoneUnder(d) /\ Topped(Row(n), d) /\ Root \notin Range(Row(n))
         /\ Range(Row(n)) \subseteq made
         /\ \A x \in Range(Row(n)) : under[x] = NULL
         /\ \A i \in 1..Len(Row(n)) : Row(n)[i] \in Range(Row(n))
         /\ \A s \in rows : s # Row(n) => \A i \in 1..Len(s) : s[i] \notin Range(Row(n))
<1>0. PICK r : r = Row(n)
  OBVIOUS
<1>1. /\ d \in made /\ n \in made /\ n # d /\ d # Root /\ d \in Dies /\ n \in Dies
      /\ <<d>> \in rows /\ under[d] = NULL /\ r \in rows
      /\ \E i \in 1..Len(r) : r[i] = n
  BY <1>0, LinkFacts
<1>2. /\ Place(d, "child", n) /\ made' = made /\ LinkChild(d, n)
      /\ n # Root /\ under[n] = NULL /\ RowsUnder(d) = {}
  BY DEF Link, MayLink
<1>3. /\ Len(r) \in Nat \ {0} /\ DOMAIN r = 1..Len(r) /\ 1 \in 1..Len(r)
      /\ \A i \in 1..Len(r) : r[i] \in made /\ under[r[i]] = under[r[1]]
  BY <1>1, RowFacts
<1>4. Range(r) = {r[i] : i \in 1..Len(r)}
  BY <1>3 DEF Range
<1>5. n \in Range(r) /\ Range(r) \subseteq made /\ \A i \in 1..Len(r) : r[i] \in Range(r)
  BY <1>1, <1>3, <1>4
<1>6. \A x \in Range(r) : under[x] = NULL
  BY <1>1, <1>2, <1>3, <1>4
<1>7. NoneUnder(d)
  BY <1>2 DEF RowsUnder, NoneUnder
<1>8. Topped(r, d)
  <2>1. /\ rows' = rows \cup {<<d>>}
        /\ under' = [e \in Dies |-> IF e \in Range(r) THEN d ELSE under[e]]
    BY <1>0, <1>2 DEF Place
  <2> QED BY <1>1, <1>2, <2>1 DEF Topped
<1>9. ASSUME NEW s \in rows, s # r, NEW i \in 1..Len(s) PROVE s[i] \notin Range(r)
  <2>1. InOne
    BY DEF Forest
  <2>2. ASSUME NEW j \in 1..Len(r), s[i] = r[j] PROVE FALSE
    BY <1>1, <1>9, <2>1, <2>2 DEF InOne
  <2> QED BY <1>4, <2>2
<1>10. Root \notin Range(r)
  <2>1. SUFFICES ASSUME Root \in Range(r) PROVE FALSE
    OBVIOUS
  <2>2. <<Root>> \in rows
    BY <1>5, <2>1 DEF Forest
  <2>3. 1 \in 1..Len(<<Root>>) /\ <<Root>>[1] = Root
    OBVIOUS
  <2>4. r = <<Root>>
    BY <1>9, <2>1, <2>2, <2>3
  <2> QED BY <1>1, <1>2, <2>4
<1> QED BY <1>0, <1>1, <1>2, <1>5, <1>6, <1>7, <1>8, <1>9, <1>10

LEMMA ToppedForest ==
  ASSUME Forest, NEW d, NEW n, Link(d, "child", n)
  PROVE  Forest'
<1>0. PICK r : r = Row(n)
  OBVIOUS
<1>1. /\ d \in made /\ d \in Dies /\ r \in rows /\ NoneUnder(d) /\ Topped(r, d)
      /\ Root \notin Range(r) /\ Range(r) \subseteq made
      /\ \A i \in 1..Len(r) : r[i] \in Range(r)
      /\ \A s \in rows : s # r => \A i \in 1..Len(s) : s[i] \notin Range(r)
  BY <1>0, LinkToppedFacts
<1>2. /\ rows' = rows /\ made' = made
      /\ under' = [e \in Dies |-> IF e \in Range(r) THEN d ELSE under[e]]
  BY <1>1 DEF Topped
<1>3. /\ under \in [Dies -> made \cup {NULL}] /\ made \subseteq Dies
      /\ \A e \in Dies \ made : under[e] = NULL
      /\ under[Root] = NULL /\ Root \in Dies
  BY DieTypes DEF Forest
<1>4. ASSUME NEW s \in rows
      PROVE  /\ 1 \in 1..Len(s)
             /\ \A i \in 1..Len(s) : under'[s[i]] = under'[s[1]]
             /\ s = r => under'[s[1]] = d
             /\ s # r => under'[s[1]] = under[s[1]]
  <2>1. /\ 1 \in 1..Len(s)
        /\ \A i \in 1..Len(s) : s[i] \in Dies /\ under[s[i]] = under[s[1]]
    BY RowFacts
  <2>2. CASE s = r
    <3>1. \A i \in 1..Len(s) : under'[s[i]] = d
      BY <1>1, <1>2, <2>1, <2>2
    <3> QED BY <2>1, <2>2, <3>1
  <2>3. CASE s # r
    <3>1. \A i \in 1..Len(s) : under'[s[i]] = under[s[i]]
      BY <1>1, <1>2, <2>1, <2>3
    <3> QED BY <2>1, <2>3, <3>1
  <2> QED BY <2>2, <2>3
<1>5. ASSUME NEW s \in rows, NEW q \in rows, under'[s[1]] # NULL, under'[s[1]] = under'[q[1]]
      PROVE  s = q
  <2>1. CASE s = r \/ q = r
    <3>1. \A t \in rows : under[t[1]] # d
      BY <1>1 DEF NoneUnder
    <3> QED BY <1>4, <1>5, <2>1, <3>1
  <2>2. CASE s # r /\ q # r
    <3>1. under[s[1]] # NULL /\ under[s[1]] = under[q[1]]
      BY <1>4, <1>5, <2>2
    <3> QED BY <3>1 DEF Forest
  <2> QED BY <2>1, <2>2
<1>6. \A s, q \in rows' : under'[s[1]] # NULL /\ under'[s[1]] = under'[q[1]] => s = q
  BY <1>2, <1>5
<1>7. \A s \in rows' : \A i \in 1..Len(s) : under'[s[i]] = under'[s[1]]
  BY <1>2, <1>4
<1>8. /\ under' \in [Dies -> made \cup {NULL}] /\ under'[Root] = NULL
      /\ \A e \in Dies \ made : under'[e] = NULL
  BY <1>1, <1>2, <1>3
<1>9. InOne'
  BY <1>2 DEF Forest, InOne
<1> QED BY <1>2, <1>3, <1>6, <1>7, <1>8, <1>9 DEF Forest

LEMMA LinkChildTraced ==
  ASSUME Forest, Traced, LinkTypes, NEW d, NEW n, Link(d, "child", n)
  PROVE  Traced'
<1>0. PICK r : r = Row(n)
  OBVIOUS
<1>1. /\ d \in Dies /\ n \in Dies /\ n \in Range(r) /\ LinkChild(d, n) /\ Topped(r, d)
      /\ \A x \in Range(r) : under[x] = NULL
  BY <1>0, LinkToppedFacts
<1>2. /\ rows' = rows
      /\ under' = [e \in Dies |-> IF e \in Range(r) THEN d ELSE under[e]]
  BY <1>1 DEF Topped
<1>3. /\ di_child' = [di_child EXCEPT ![d] = n]
      /\ di_last_child' = [di_last_child EXCEPT ![d] = n]
      /\ di_parent' = [di_parent EXCEPT ![n] = d]
      /\ di_left' = di_left /\ di_right' = di_right
  BY <1>1 DEF LinkChild
<1>4. /\ NULL \notin Dies /\ under \in [Dies -> made \cup {NULL}] /\ made \subseteq Dies
      /\ di_child \in [Dies -> Dies \cup {NULL}] /\ di_last_child \in [Dies -> Dies \cup {NULL}]
      /\ di_parent \in [Dies -> Dies \cup {NULL}]
  BY DieTypes DEF LinkTypes, Forest
<1>5. RightBack'
  BY <1>3 DEF Traced, RightBack
<1>6. LeftBefore'
  BY <1>2, <1>3 DEF Traced, LeftBefore, Before
<1>7. ChildUnder'
  <2>1. ASSUME NEW p \in Dies, NEW c \in Dies, under[c] = p PROVE under'[c] = p
    BY <1>1, <1>2, <1>4, <2>1
  <2>2. ASSUME NEW p \in Dies
        PROVE  /\ di_child'[p] # NULL => under'[di_child'[p]] = p /\ di_last_child'[p] # NULL
               /\ di_last_child'[p] # NULL => under'[di_last_child'[p]] = p
    <3>1. CASE p = d
      <4>1. di_child'[p] = n /\ di_last_child'[p] = n /\ under'[n] = d
        BY <1>1, <1>2, <1>3, <1>4, <3>1
      <4> QED BY <1>1, <1>4, <3>1, <4>1
    <3>2. CASE p # d
      <4>1. di_child'[p] = di_child[p] /\ di_last_child'[p] = di_last_child[p]
        BY <1>3, <1>4, <3>2
      <4>2. /\ di_child[p] \in Dies \cup {NULL} /\ di_last_child[p] \in Dies \cup {NULL}
            /\ di_child[p] # NULL => under[di_child[p]] = p /\ di_last_child[p] # NULL
            /\ di_last_child[p] # NULL => under[di_last_child[p]] = p
        BY <1>4 DEF Traced, ChildUnder
      <4> QED BY <2>1, <4>1, <4>2
    <3> QED BY <3>1, <3>2
  <2> QED BY <2>2 DEF ChildUnder
<1>8. ParentUnder'
  <2>1. ASSUME NEW x \in Dies
        PROVE  /\ di_parent'[x] \in {under'[x], NULL}
               /\ under'[x] # NULL => di_child'[under'[x]] # NULL
    <3>1. /\ di_child'[d] # NULL /\ \A p \in Dies : di_child[p] # NULL => di_child'[p] # NULL
      BY <1>1, <1>3, <1>4
    <3>2. di_parent[x] \in {under[x], NULL} /\ (under[x] # NULL => di_child[under[x]] # NULL)
      BY DEF Traced, ParentUnder
    <3>3. CASE x \in Range(r)
      <4>1. under'[x] = d /\ under[x] = NULL
        BY <1>1, <1>2, <3>3
      <4>2. di_parent'[x] \in {d, NULL}
        BY <1>3, <1>4, <3>2, <4>1
      <4> QED BY <3>1, <4>1, <4>2
    <3>4. CASE x \notin Range(r)
      <4>1. under'[x] = under[x] /\ di_parent'[x] = di_parent[x]
        BY <1>1, <1>2, <1>3, <1>4, <3>4
      <4>2. under[x] \in Dies \cup {NULL}
        BY <1>4
      <4> QED BY <3>1, <3>2, <4>1, <4>2
    <3> QED BY <3>3, <3>4
  <2> QED BY <2>1 DEF ParentUnder
<1> QED BY <1>5, <1>6, <1>7, <1>8 DEF Traced

LEMMA LinkTraced ==
  ASSUME Forest, Traced, LinkTypes, NEW d, NEW place \in {"parent", "child", "left", "right"},
         NEW n, Link(d, place, n)
  PROVE  Forest' /\ Traced'
<1>1. CASE place = "parent"
  <2>1. KeepsForest(d, "parent", n) /\ Traced'
    BY <1>1, LinkUnder, LinkParentTraced
  <2> QED BY <2>1 DEF KeepsForest
<1>2. CASE place = "child"
  BY <1>2, ToppedForest, LinkChildTraced
<1>3. CASE place = "left"
  <2>1. KeepsForest(d, "left", n) /\ Traced'
    BY <1>3, LinkBesideRight, LinkLeftTraced
  <2> QED BY <2>1 DEF KeepsForest
<1>4. CASE place = "right"
  <2>1. KeepsForest(d, "right", n) /\ Traced'
    BY <1>4, LinkBesideRight, LinkRightTraced
  <2> QED BY <2>1 DEF KeepsForest
<1> QED BY <1>1, <1>2, <1>3, <1>4
-------------------------------------------------------------------------------
(* The DIEs to the right of z, and z.                                       *)
RightClosed(S) == \A y \in S : di_right[y] # NULL => di_right[y] \in S

Orbit(z) == {x \in Dies : \A S \in SUBSET Dies : z \in S /\ RightClosed(S) => x \in S}

LEMMA OrbitFacts ==
  ASSUME LinkTypes, NEW z \in Dies
  PROVE  /\ z \in Orbit(z) /\ Orbit(z) \in SUBSET Dies /\ RightClosed(Orbit(z))
         /\ \A S \in SUBSET Dies : z \in S /\ RightClosed(S) => Orbit(z) \subseteq S
<1>1. z \in Orbit(z) /\ Orbit(z) \in SUBSET Dies
  BY DEF Orbit
<1>2. \A S \in SUBSET Dies : z \in S /\ RightClosed(S) => Orbit(z) \subseteq S
  BY DEF Orbit
<1>3. RightClosed(Orbit(z))
  <2>1. ASSUME NEW y \in Orbit(z), di_right[y] # NULL PROVE di_right[y] \in Orbit(z)
    <3>1. y \in Dies /\ di_right[y] \in Dies
      BY <2>1, <1>1 DEF LinkTypes
    <3>2. ASSUME NEW S \in SUBSET Dies, z \in S, RightClosed(S) PROVE di_right[y] \in S
      <4>1. y \in S
        BY <1>2, <3>2
      <4> QED BY <2>1, <3>2, <4>1 DEF RightClosed
    <3> QED BY <3>1, <3>2 DEF Orbit
  <2> QED BY <2>1 DEF RightClosed
<1> QED BY <1>1, <1>2, <1>3

LEMMA OrbitFirst ==
  ASSUME LinkTypes, NEW z \in Dies, NEW x \in Orbit(z), x # z
  PROVE  di_right[z] # NULL /\ di_right[z] \in Dies /\ x \in Orbit(di_right[z])
<1>1. di_right[z] \in Dies \cup {NULL}
  BY DEF LinkTypes
<1>2. ASSUME NEW R \in SUBSET Dies, RightClosed(R), di_right[z] # NULL => di_right[z] \in R
      PROVE  x \in {z} \cup R
  <2>1. {z} \cup R \in SUBSET Dies /\ z \in {z} \cup R
    OBVIOUS
  <2>2. RightClosed({z} \cup R)
    BY <1>2 DEF RightClosed
  <2> QED BY <2>1, <2>2, OrbitFacts
<1>3. CASE di_right[z] = NULL
  <2>1. RightClosed({})
    BY DEF RightClosed
  <2>2. x \in {z} \cup {}
    BY <1>2, <1>3, <2>1
  <2> QED BY <2>2
<1>4. CASE di_right[z] # NULL
  <2>1. di_right[z] \in Dies
    BY <1>1, <1>4
  <2>2. PICK R : R = Orbit(di_right[z])
    OBVIOUS
  <2>3. R \in SUBSET Dies /\ RightClosed(R) /\ di_right[z] \in R
    BY <2>1, <2>2, OrbitFacts
  <2>4. x \in {z} \cup R
    BY <1>2, <2>3
  <2> QED BY <1>4, <2>1, <2>2, <2>4
<1> QED BY <1>3, <1>4

(* To the right is after, in the list.                                       *)
LEMMA OrbitBefore ==
  ASSUME Forest, Traced, LinkTypes, NEW z \in Dies, NEW x \in Orbit(z), x # z
  PROVE  Before(z, x)
<1>1. PICK S : S = {z} \cup {w \in Dies : Before(z, w)}
  OBVIOUS
<1>2. S \in SUBSET Dies /\ z \in S
  BY <1>1
<1>3. RightClosed(S)
  <2>1. ASSUME NEW y \in S, di_right[y] # NULL PROVE di_right[y] \in S
    <3>1. y \in Dies
      BY <1>2
    <3>2. di_right[y] \in Dies /\ Before(y, di_right[y])
      BY <2>1, <3>1, WaysFacts
    <3>3. CASE y = z
      BY <1>1, <3>2, <3>3
    <3>4. CASE y # z
      <4>1. Before(z, y)
        BY <1>1, <2>1, <3>4
      <4>2. PICK w : w = di_right[y]
        OBVIOUS
      <4>3. Before(y, w) /\ w \in Dies
        BY <3>2, <4>2
      <4>4. Before(z, w)
        BY <4>1, <4>3, BeforeFacts
      <4> QED BY <1>1, <4>2, <4>3, <4>4
    <3> QED BY <3>3, <3>4
  <2> QED BY <2>1 DEF RightClosed
<1>4. x \in S
  BY <1>2, <1>3, OrbitFacts
<1> QED BY <1>1, <1>4

(* It comes to one end only.                                                *)
LEMMA OrbitEnd ==
  ASSUME LinkTypes, NEW c \in Dies, NEW x \in Orbit(c), NEW y \in Orbit(c),
         di_right[x] = NULL, di_right[y] = NULL
  PROVE  x = y
<1>1. PICK S : S = {z \in Dies : x \in Orbit(z)}
  OBVIOUS
<1>2. S \in SUBSET Dies /\ c \in S
  BY <1>1
<1>3. RightClosed(S)
  <2>1. ASSUME NEW z \in S, di_right[z] # NULL PROVE di_right[z] \in S
    <3>1. z \in Dies /\ x \in Orbit(z) /\ x # z
      BY <1>1, <2>1
    <3>2. di_right[z] \in Dies /\ x \in Orbit(di_right[z])
      BY <3>1, OrbitFirst
    <3> QED BY <1>1, <3>2
  <2> QED BY <2>1 DEF RightClosed
<1>4. y \in S
  BY <1>2, <1>3, OrbitFacts
<1>5. y \in Dies /\ x \in Orbit(y)
  BY <1>1, <1>4
<1> QED BY <1>5, OrbitFirst

-------------------------------------------------------------------------------
(* The way of the walk where DIEs may be lost.  What it comes to is the root, *)
(* or is to the right of a first child.                                     *)
OnWay(x) ==
  /\ x \in made
  /\ x # Root => /\ under[x] \in made /\ di_child[under[x]] \in Dies
                 /\ x \in Orbit(di_child[under[x]])

Seen(T, m) ==
  T[m].at # NULL => /\ OnWay(T[m].at)
                    /\ T[m].at # Root => \E k \in 1..m : k < m /\ DieAt(T, k, under[T[m].at])
                    /\ \E k \in 1..m : DieAt(T, k, T[m].at)

LEMMA RootWays ==
  ASSUME Forest, Traced, LinkTypes, Root \in made
  PROVE  /\ di_right[Root] = NULL /\ di_parent[Root] = NULL
         /\ \A x \in Dies : di_right[x] # Root /\ di_child[x] # Root
<1>1. <<Root>> \in rows /\ Root \in Dies /\ under[Root] = NULL
  BY DieTypes DEF Forest
<1>2. di_right[Root] = NULL /\ \A x \in Dies : di_right[x] # Root
  BY <1>1, LoneWays
<1>3. di_parent[Root] = NULL
  BY <1>1 DEF Traced, ParentUnder
<1>4. \A x \in Dies : di_child[x] # Root
  BY <1>1, DieTypes DEF Traced, ChildUnder
<1> QED BY <1>2, <1>3, <1>4

LEMMA OnWayRight ==
  ASSUME Forest, Traced, LinkTypes, Root \in made, NEW x, OnWay(x)
  PROVE  /\ x \in Dies
         /\ di_child[x] # NULL => OnWay(di_child[x]) /\ under[di_child[x]] = x
         /\ di_right[x] # NULL =>
              OnWay(di_right[x]) /\ under[di_right[x]] = under[x] /\ x # Root
         /\ di_parent[x] # NULL =>
              di_parent[x] = under[x] /\ x # Root /\ di_child[di_parent[x]] # NULL
<1>1. x \in Dies /\ x \in made
  BY DEF OnWay, LinkTypes
<1>2. ASSUME di_child[x] # NULL PROVE OnWay(di_child[x]) /\ under[di_child[x]] = x
  <2>1. di_child[x] \in made /\ under[di_child[x]] = x /\ di_child[x] \in Dies
    BY <1>1, <1>2, WaysFacts DEF LinkTypes
  <2>2. di_child[x] \in Orbit(di_child[x])
    BY <2>1, OrbitFacts
  <2> QED BY <1>1, <2>1, <2>2 DEF OnWay
<1>3. ASSUME di_right[x] # NULL
      PROVE  OnWay(di_right[x]) /\ under[di_right[x]] = under[x] /\ x # Root
  <2>1. Before(x, di_right[x]) /\ di_right[x] \in Dies
    BY <1>1, <1>3, WaysFacts
  <2>2. di_right[x] \in made /\ under[di_right[x]] = under[x]
    <3>1. PICK w : w = di_right[x]
      OBVIOUS
    <3>2. Before(x, w)
      BY <2>1, <3>1
    <3>3. w \in made /\ under[w] = under[x]
      BY <3>2, BeforeFacts
    <3> QED BY <3>1, <3>3
  <2>3. x # Root
    BY <1>3, RootWays
  <2>4. under[x] \in made /\ di_child[under[x]] \in Dies /\ x \in Orbit(di_child[under[x]])
    BY <2>3 DEF OnWay
  <2>5. di_right[x] \in Orbit(di_child[under[x]])
    <3>1. RightClosed(Orbit(di_child[under[x]]))
      BY <2>4, OrbitFacts
    <3> QED BY <1>3, <2>4, <3>1 DEF RightClosed
  <2> QED BY <2>2, <2>3, <2>4, <2>5 DEF OnWay
<1>4. ASSUME di_parent[x] # NULL
      PROVE  di_parent[x] = under[x] /\ x # Root /\ di_child[di_parent[x]] # NULL
  <2>1. di_parent[x] = under[x]
    BY <1>1, <1>4 DEF Traced, ParentUnder
  <2>2. x # Root
    BY <1>4, RootWays
  <2>3. di_child[under[x]] # NULL
    BY <1>1, <1>4, <2>1 DEF Traced, ParentUnder
  <2> QED BY <2>1, <2>2, <2>3
<1> QED BY <1>1, <1>2, <1>3, <1>4
LEMMA AllSeen ==
  ASSUME Forest, Traced, LinkTypes, Root \in made, NEW T, Trail(T)
  PROVE  \A m \in 1..Len(T) : Seen(T, m)
<1> DEFINE S == {i \in 1..Len(T) : \A m \in 1..i : Seen(T, m)}
<1>0. Len(T) \in Nat /\ 1 \in 1..Len(T) /\ T[1].at = Root /\ T[1].null = FALSE
  BY TrailTypes
<1>00. NULL \notin Dies /\ made \subseteq Dies
  BY DieTypes DEF LinkTypes
<1>1. 1 \in S
  <2>1. OnWay(Root)
    BY DEF OnWay
  <2>2. 1 \in 1..1 /\ DieAt(T, 1, T[1].at)
    BY <1>0 DEF DieAt
  <2>3. Seen(T, 1)
    BY <1>0, <2>1, <2>2 DEF Seen
  <2> QED BY <1>0, <2>3
<1>2. ASSUME NEW i \in 1..Len(T), i < Len(T), i \in S PROVE i + 1 \in S
  <2>1. /\ i + 1 \in 1..Len(T) /\ T[i].at # NULL /\ Goes(T[i], T[i + 1])
    BY <1>2, TrailTypes
  <2> DEFINE d == T[i].at
             n == T[i + 1].at
  <2>2. \A m \in 1..i : Seen(T, m)
    BY <1>2
  <2>3. Seen(T, i)
    BY <2>2
  <2>4. OnWay(d) /\ (d # Root => \E k \in 1..i : k < i /\ DieAt(T, k, under[d]))
    BY <2>1, <2>3 DEF Seen
  <2>5. SUFFICES Seen(T, i + 1)
    <3>1. \A m \in 1..(i + 1) : m \in 1..i \/ m = i + 1
      OBVIOUS
    <3> QED BY <2>1, <2>2, <2>5, <3>1
  <2>6. SUFFICES ASSUME n # NULL
                 PROVE  /\ OnWay(n)
                        /\ n # Root => \E k \in 1..(i + 1) : k < i + 1 /\ DieAt(T, k, under[n])
                        /\ \E k \in 1..(i + 1) : DieAt(T, k, n)
    BY DEF Seen
  <2>7. CASE ~T[i].null /\ di_child[d] # NULL /\ n = di_child[d] /\ ~T[i + 1].null
    <3>1. OnWay(n) /\ under[n] = d
      BY <2>4, <2>7, OnWayRight
    <3>2. DieAt(T, i + 1, n) /\ DieAt(T, i, d)
      BY <2>1, <2>7 DEF DieAt
    <3>3. i + 1 \in 1..(i + 1) /\ i \in 1..(i + 1) /\ i < i + 1
      OBVIOUS
    <3> QED BY <3>1, <3>2, <3>3
  <2>8. CASE Closing(T[i]) /\ di_right[d] # NULL /\ n = di_right[d] /\ ~T[i + 1].null
    <3>1. OnWay(n) /\ under[n] = under[d] /\ d # Root
      BY <2>4, <2>8, OnWayRight
    <3>2. PICK k \in 1..i : DieAt(T, k, under[d])
      BY <2>4, <3>1
    <3>3. DieAt(T, i + 1, n)
      BY <2>1, <2>8 DEF DieAt
    <3>4. i + 1 \in 1..(i + 1) /\ k \in 1..(i + 1) /\ k < i + 1
      OBVIOUS
    <3> QED BY <3>1, <3>2, <3>3, <3>4
  <2>9. CASE Closing(T[i]) /\ di_right[d] = NULL /\ n = di_parent[d] /\ T[i + 1].null
    <3>1. n = under[d] /\ d # Root
      BY <2>4, <2>6, <2>9, OnWayRight
    <3>2. PICK k \in 1..i : DieAt(T, k, n)
      BY <2>4, <3>1
    <3>3. T[k].at = n /\ Seen(T, k)
      BY <2>2, <3>2 DEF DieAt
    <3>4. /\ OnWay(n)
          /\ n # Root => \E x \in 1..k : x < k /\ DieAt(T, x, under[n])
      BY <2>6, <3>3 DEF Seen
    <3>5. k \in 1..(i + 1) /\ \A x \in 1..k : x \in 1..(i + 1) /\ x < i + 1
      OBVIOUS
    <3> QED BY <3>2, <3>4, <3>5
  <2> QED BY <2>1, <2>7, <2>8, <2>9 DEF Goes
<1> HIDE DEF S
<1>3. \A i \in 1..Len(T) : i \in S
  BY <1>0, <1>1, <1>2, UpTo
<1>4. ASSUME NEW m \in 1..Len(T) PROVE Seen(T, m)
  <2>1. m \in S /\ m \in 1..m
    BY <1>3
  <2> QED BY <2>1 DEF S
<1> QED BY <1>4

(* Of a key the walk comes to: *)
SeenKey(k) == k.null \in BOOLEAN /\ OnWay(k.at) /\ (k.null => di_child[k.at] # NULL)

LEMMA SeenKeys ==
  ASSUME Forest, Traced, LinkTypes, Root \in made, NEW T, Trail(T)
  PROVE  \A i \in 1..Len(T) : /\ T[i].at # NULL => SeenKey(T[i])
                              /\ ~T[i].null => T[i].at # NULL
                              /\ i # 1 /\ ~T[i].null => T[i].at # Root
<1>0. /\ Len(T) \in Nat /\ 1 \in 1..Len(T) /\ T[1].at = Root /\ T[1].null = FALSE
      /\ \A i \in 1..Len(T) : T[i].null \in BOOLEAN
  BY TrailTypes
<1>1. \A i \in 1..Len(T) : T[i].at # NULL => OnWay(T[i].at)
  BY AllSeen DEF Seen
<1>2. ASSUME NEW i \in 1..Len(T), i # 1
      PROVE  /\ T[i].at # NULL => (T[i].null => di_child[T[i].at] # NULL)
             /\ ~T[i].null => T[i].at # NULL /\ T[i].at # Root
  <2>1. i - 1 \in 1..Len(T) /\ i - 1 < Len(T) /\ (i - 1) + 1 = i
    BY <1>0, <1>2
  <2>2. T[i - 1].at # NULL /\ Goes(T[i - 1], T[i])
    BY <2>1, TrailTypes
  <2> DEFINE d == T[i - 1].at
  <2>3. OnWay(d)
    BY <1>1, <2>1, <2>2
  <2>4. d \in Dies
    BY <2>3, OnWayRight
  <2>5. CASE ~T[i - 1].null /\ di_child[d] # NULL /\ T[i].at = di_child[d] /\ ~T[i].null
    BY <2>4, <2>5, RootWays
  <2>6. CASE Closing(T[i - 1]) /\ di_right[d] # NULL /\ T[i].at = di_right[d] /\ ~T[i].null
    BY <2>4, <2>6, RootWays
  <2>7. CASE Closing(T[i - 1]) /\ di_right[d] = NULL /\ T[i].at = di_parent[d] /\ T[i].null
    BY <2>3, <2>7, OnWayRight
  <2> QED BY <2>2, <2>5, <2>6, <2>7 DEF Goes
<1>3. Root # NULL
  BY DieTypes
<1> QED BY <1>0, <1>1, <1>2, <1>3 DEF SeenKey

LEMMA FromOneKey ==
  ASSUME Forest, Traced, LinkTypes, Root \in made,
         NEW a, NEW b, NEW m, NEW n, SeenKey(a), SeenKey(b), Goes(a, m), Goes(b, n),
         m.at = n.at, m.null = n.null, m.null \in BOOLEAN, m.at # NULL
  PROVE  a.at = b.at /\ a.null = b.null
<1>1. /\ a.null \in BOOLEAN /\ b.null \in BOOLEAN /\ OnWay(a.at) /\ OnWay(b.at)
  BY DEF SeenKey
<1>2. a.at \in Dies /\ b.at \in Dies
  BY <1>1, OnWayRight
<1>3. /\ Closing(a) => (a.null <=> di_child[a.at] # NULL)
      /\ Closing(b) => (b.null <=> di_child[b.at] # NULL)
  BY DEF Closing, SeenKey
<1>4. CASE m.null
  <2>1. /\ Closing(a) /\ di_right[a.at] = NULL /\ m.at = di_parent[a.at]
        /\ Closing(b) /\ di_right[b.at] = NULL /\ n.at = di_parent[b.at]
    BY <1>4 DEF Goes
  <2>2. /\ di_parent[a.at] = under[a.at] /\ a.at # Root
        /\ di_parent[b.at] = under[b.at] /\ b.at # Root
    BY <1>1, <2>1, OnWayRight
  <2>3. PICK c : c = di_child[under[a.at]]
    OBVIOUS
  <2>4. c \in Dies /\ a.at \in Orbit(c) /\ b.at \in Orbit(c)
    <3>1. under[b.at] = under[a.at]
      BY <2>1, <2>2
    <3> QED BY <1>1, <2>2, <2>3, <3>1 DEF OnWay
  <2>5. a.at = b.at
    BY <2>1, <2>4, OrbitEnd
  <2> QED BY <1>1, <1>3, <2>1, <2>5
<1>5. ASSUME NEW x, NEW y, OnWay(x), OnWay(y), di_child[x] # NULL, di_right[y] # NULL,
             di_child[x] = di_right[y]
      PROVE  FALSE
  <2>1. PICK c : c = di_child[x]
    OBVIOUS
  <2>2. x \in Dies /\ y \in Dies /\ under[c] = x
    BY <1>5, <2>1, OnWayRight
  <2>3. y # Root /\ under[y] = x
    <3>1. y # Root /\ under[di_right[y]] = under[y]
      BY <1>5, OnWayRight
    <3> QED BY <1>5, <2>1, <2>2, <3>1
  <2>4. c \in Dies /\ y \in Orbit(c)
    BY <1>5, <2>1, <2>3 DEF OnWay
  <2>5. Before(y, c)
    <3>1. Before(y, di_right[y])
      BY <1>5, <2>2, WaysFacts
    <3>2. c = di_right[y]
      BY <1>5, <2>1
    <3> QED BY <3>1, <3>2
  <2>6. y # c
    BY <2>5, BeforeFacts
  <2>7. Before(c, y)
    BY <2>4, <2>6, OrbitBefore
  <2>8. Before(c, c)
    BY <2>5, <2>7, BeforeFacts
  <2> QED BY <2>8, BeforeFacts
<1>6. CASE ~m.null
  <2>1. \/ ~a.null /\ di_child[a.at] # NULL /\ m.at = di_child[a.at]
        \/ Closing(a) /\ di_right[a.at] # NULL /\ m.at = di_right[a.at]
    BY <1>6 DEF Goes
  <2>2. \/ ~b.null /\ di_child[b.at] # NULL /\ n.at = di_child[b.at]
        \/ Closing(b) /\ di_right[b.at] # NULL /\ n.at = di_right[b.at]
    BY <1>6 DEF Goes
  <2>3. CASE /\ ~a.null /\ di_child[a.at] # NULL /\ m.at = di_child[a.at]
             /\ ~b.null /\ di_child[b.at] # NULL /\ n.at = di_child[b.at]
    <3>1. under[di_child[a.at]] = a.at /\ under[di_child[b.at]] = b.at
      BY <1>1, <2>3, OnWayRight
    <3>2. di_child[a.at] = di_child[b.at]
      BY <2>3
    <3>3. a.at = b.at
      BY <3>1, <3>2
    <3> QED BY <1>1, <2>3, <3>3
  <2>4. CASE /\ Closing(a) /\ di_right[a.at] # NULL /\ m.at = di_right[a.at]
             /\ Closing(b) /\ di_right[b.at] # NULL /\ n.at = di_right[b.at]
    <3>1. di_left[di_right[a.at]] = a.at /\ di_left[di_right[b.at]] = b.at
      BY <1>2, <2>4, WaysFacts
    <3>2. di_right[a.at] = di_right[b.at]
      BY <2>4
    <3>3. a.at = b.at
      BY <3>1, <3>2
    <3> QED BY <1>1, <1>3, <2>4, <3>3
  <2>5. CASE /\ ~a.null /\ di_child[a.at] # NULL /\ m.at = di_child[a.at]
             /\ Closing(b) /\ di_right[b.at] # NULL /\ n.at = di_right[b.at]
    BY <1>1, <1>5, <2>5
  <2>6. CASE /\ Closing(a) /\ di_right[a.at] # NULL /\ m.at = di_right[a.at]
             /\ ~b.null /\ di_child[b.at] # NULL /\ n.at = di_child[b.at]
    BY <1>1, <1>5, <2>6
  <2> QED BY <2>1, <2>2, <2>3, <2>4, <2>5, <2>6
<1> QED BY <1>4, <1>6

(* So the walk is at no DIE twice, whatever calls have lost.                  *)
LEMMA TracedDistinct ==
  ASSUME Forest, Traced, LinkTypes, Root \in made, NEW T, Trail(T)
  PROVE  \A i, j \in 1..Len(T) :
           T[i].at # NULL /\ T[i].at = T[j].at /\ T[i].null = T[j].null => i = j
<1> DEFINE Same(i, j) == T[i].at # NULL /\ T[i].at = T[j].at /\ T[i].null = T[j].null
           S == {i \in 1..Len(T) : \A j \in 1..Len(T) : j < i => ~Same(i, j)}
<1>0. Len(T) \in Nat /\ 1 \in 1..Len(T)
  BY TrailTypes
<1>1. 1 \in S
  BY <1>0
<1>2. ASSUME NEW i \in 1..Len(T), i < Len(T), i \in S PROVE i + 1 \in S
  <2>1. /\ i + 1 \in 1..Len(T) /\ T[i].at # NULL /\ Goes(T[i], T[i + 1])
        /\ T[i + 1].null \in BOOLEAN
    BY <1>2, TrailTypes
  <2>2. SUFFICES ASSUME NEW j \in 1..Len(T), j < i + 1, Same(i + 1, j) PROVE FALSE
    BY <2>1
  <2>3. CASE j = 1
    <3>1. T[i + 1].at = Root /\ ~T[i + 1].null
      BY <2>2, <2>3, TrailTypes
    <3> QED BY <2>1, <3>1, SeenKeys
  <2>4. CASE j # 1
    <3>1. j - 1 \in 1..Len(T) /\ j - 1 < Len(T) /\ (j - 1) + 1 = j /\ j - 1 < i
      BY <1>0, <1>2, <2>2, <2>4
    <3>2. T[j - 1].at # NULL /\ Goes(T[j - 1], T[j])
      BY <3>1, TrailTypes
    <3>3. SeenKey(T[i]) /\ SeenKey(T[j - 1])
      BY <2>1, <3>1, <3>2, SeenKeys
    <3>4. T[i + 1].at = T[j].at /\ T[i + 1].null = T[j].null /\ T[i + 1].at # NULL
      BY <2>2
    <3>5. T[i].at = T[j - 1].at /\ T[i].null = T[j - 1].null
      BY <2>1, <3>2, <3>3, <3>4, FromOneKey
    <3> QED BY <1>2, <2>1, <3>1, <3>5
  <2> QED BY <2>3, <2>4
<1> HIDE DEF S
<1>3. \A i \in 1..Len(T) : i \in S
  BY <1>0, <1>1, <1>2, UpTo
<1>4. ASSUME NEW i \in 1..Len(T), NEW j \in 1..Len(T), Same(i, j) PROVE i = j
  <2>1. Same(j, i)
    BY <1>4
  <2>2. ~(j < i) /\ ~(i < j)
    BY <1>3, <1>4, <2>1 DEF S
  <2> QED BY <1>0, <2>2
<1> QED BY <1>4
-------------------------------------------------------------------------------

(* Each DIE is in one entry,                                                *)
LEMMA AtIs ==
  ASSUME Walkable, Root \in made, NEW T, Trail(T), NEW s, Follows(s, T),
         NEW i, NEW d \in made, DieAt(T, i, d)
  PROVE  /\ s[i].die = d /\ i \in DOMAIN s
         /\ \A j \in DOMAIN s : s[j].die = d => j = i
         /\ (CHOOSE j \in DOMAIN s : s[j].die = d) = i
<1>1. /\ DOMAIN s = 1..Len(T)
      /\ \A j \in 1..Len(T) : WrittenIs(s[j], T[j])
  BY FollowsFacts
<1>2. d # NULL
  BY DEF Walkable
<1>3. i \in 1..Len(T) /\ s[i].die = d
  BY <1>1 DEF DieAt, WrittenIs
<1>4. ASSUME NEW j \in 1..Len(T), s[j].die = d PROVE j = i
  <2>1. WrittenIs(s[j], T[j]) /\ T[j].null \in BOOLEAN
    BY <1>1, TrailTypes
  <2>2. ~T[j].null /\ T[j].at = d
    BY <1>2, <1>4, <2>1 DEF WrittenIs
  <2>3. DieAt(T, j, d)
    BY <2>2 DEF DieAt
  <2> QED BY <2>3, DieAtOne
<1> QED BY <1>1, <1>3, <1>4

(* and the nesting of the entries has it below its parent.                  *)
LEMMA ParentIs ==
  ASSUME Walkable, Root \in made, NEW T, Trail(T), NEW s, Follows(s, T),
         NEW i, NEW d \in made, DieAt(T, i, d), di_parent[d] # NULL
  PROVE  DieAt(T, Reader!ParentEntry(s, i), di_parent[d])
<1>1. PICK D : D = Level(s)
  OBVIOUS
<1>2. Levels(T, D) /\ Len(s) = Len(T)
  BY <1>1, FollowsFacts
<1>3. i \in 1..Len(T) /\ LevelRight(T, D, i) /\ Over(T[i]) = di_parent[d]
  BY <1>2, TrailLevels DEF DieAt, Over
<1>4. PICK k \in 1..i : k < i /\ DieAt(T, k, di_parent[d]) /\ D[i] = D[k] + 1 /\ Deeper(D, k, i)
  BY <1>3 DEF LevelRight
<1>5. \A m \in 1..i : D[m] \in Int
  <2>1. Len(T) \in Nat
    BY TrailTypes
  <2>2. \A m \in 1..i : m \in 1..(Len(T) + 1)
    BY <1>3, <2>1
  <2> QED BY <1>2, <2>2 DEF Levels
<1>6. PICK before : before = {j \in 1..(i - 1) : /\ D[j] < D[i]
                                                 /\ \A m \in (j + 1)..(i - 1) : D[m] >= D[i]}
  OBVIOUS
<1>7. k \in before
  <2>1. k \in 1..(i - 1) /\ D[k] < D[i]
    BY <1>3, <1>4, <1>5
  <2>2. ASSUME NEW m \in (k + 1)..(i - 1) PROVE D[m] >= D[i]
    <3>1. m \in (k + 1)..i /\ m \in 1..i
      BY <1>3, <1>4
    <3>2. D[m] > D[k]
      BY <1>4, <3>1 DEF Deeper
    <3> QED BY <1>4, <1>5, <3>1, <3>2
  <2> QED BY <1>6, <2>1, <2>2
<1>8. ASSUME NEW j \in before PROVE j = k
  <2>1. j \in 1..(i - 1) /\ j \in 1..i /\ D[j] < D[i] /\ \A m \in (j + 1)..(i - 1) : D[m] >= D[i]
    BY <1>3, <1>6
  <2>2. ~(j < k)
    <3>1. SUFFICES ASSUME j < k PROVE FALSE
      OBVIOUS
    <3>2. k \in (j + 1)..(i - 1)
      BY <1>3, <1>4, <2>1, <3>1
    <3> QED BY <1>4, <1>5, <2>1, <3>2
  <2>3. ~(j > k)
    <3>1. SUFFICES ASSUME j > k PROVE FALSE
      OBVIOUS
    <3>2. j \in (k + 1)..i
      BY <1>3, <1>4, <2>1, <3>1
    <3>3. D[j] > D[k]
      BY <1>4, <3>2 DEF Deeper
    <3> QED BY <1>4, <1>5, <2>1, <3>3
  <2> QED BY <1>3, <1>4, <2>1, <2>2, <2>3
<1>9. Reader!ParentEntry(s, i) = IF before = {} THEN 0 ELSE CHOOSE j \in before : TRUE
  BY <1>1, <1>6 DEF Reader!ParentEntry, Level
<1>10. Reader!ParentEntry(s, i) = k
  BY <1>7, <1>8, <1>9
<1> QED BY <1>4, <1>10

(* The DIE to the left is written first.                                    *)
LEMMA LeftFirst ==
  ASSUME Forest, Linked, Root \in made, NEW T, Trail(T), NEW r \in rows, NEW y \in 1..Len(r),
         y # 1, NEW m, DieAt(T, m, r[y])
  PROVE  \E a \in 1..Len(T) : a < m /\ DieAt(T, a, r[y - 1])
<1>1. Walkable
  BY LinkedWalkable
<1>2. /\ Len(r) \in Nat \ {0} /\ 1 \in 1..Len(r)
      /\ \A i \in 1..Len(r) : r[i] \in made
      /\ \A i, j \in 1..Len(r) : r[i] = r[j] => i = j
  BY RowFacts
<1>3. y - 1 \in 1..Len(r)
  BY <1>2
<1>4. r[y] # Root
  <2>1. SUFFICES ASSUME r[y] = Root PROVE FALSE
    OBVIOUS
  <2>2. <<Root>> \in rows /\ InOne
    BY DEF Forest
  <2>3. 1 \in 1..Len(<<Root>>) /\ <<Root>>[1] = Root
    BY AloneIs
  <2>4. y = 1
    BY <2>1, <2>2, <2>3 DEF InOne
  <2> QED BY <2>4
<1>5. di_left[r[y]] = r[y - 1] /\ r[y - 1] # NULL
  BY <1>1, <1>2, <1>3 DEF Linked, RowLinked, Walkable
<1>6. m - 1 \in 1..Len(T) /\ m - 1 < Len(T) /\ T[m - 1].at = r[y - 1]
  BY <1>1, <1>4, <1>5, RightCloses
<1>7. CameFromAbove(T, m - 1)
  BY <1>1, <1>6, TrailFromAbove
<1>8. PICK a \in 1..(m - 1) : DieAt(T, a, r[y - 1])
  BY <1>5, <1>6, <1>7 DEF CameFromAbove
<1>9. a \in 1..Len(T) /\ a < m
  <2>1. m \in 1..Len(T) /\ Len(T) \in Nat
    BY TrailTypes DEF DieAt
  <2> QED BY <2>1
<1> QED BY <1>8, <1>9

LEMMA EarlierFirst ==
  ASSUME Forest, Linked, Root \in made, NEW T, Trail(T), NEW r \in rows, NEW i \in 1..Len(r),
         NEW j \in 1..Len(r), i < j, NEW b, DieAt(T, b, r[j])
  PROVE  \E a \in 1..Len(T) : a < b /\ DieAt(T, a, r[i])
<1> DEFINE Earlier(x) == \E a \in 1..Len(T) : a < b /\ DieAt(T, a, r[j - x])
<1>1. PICK n \in Nat : n = j - i /\ n >= 1 /\ j - n = i
  <2>1. j - i \in Nat /\ j - i >= 1 /\ j - (j - i) = i
    BY RowFacts
  <2> QED BY <2>1
<1>2. Len(r) \in Nat /\ Len(T) \in Nat /\ b \in 1..Len(T)
  BY RowFacts, TrailTypes DEF DieAt
<1>3. Earlier(1)
  <2>1. j # 1
    BY <1>2
  <2> QED BY <2>1, LeftFirst
<1>4. ASSUME NEW x \in 1..n, x < n, Earlier(x) PROVE Earlier(x + 1)
  <2>1. PICK a \in 1..Len(T) : a < b /\ DieAt(T, a, r[j - x])
    BY <1>4
  <2>2. j - x \in 1..Len(r) /\ j - x # 1 /\ (j - x) - 1 = j - (x + 1)
    BY <1>1, <1>2, <1>4
  <2>3. PICK c \in 1..Len(T) : c < a /\ DieAt(T, c, r[(j - x) - 1])
    BY <2>1, <2>2, LeftFirst
  <2>4. c < b
    BY <1>2, <2>1, <2>3
  <2> QED BY <2>2, <2>3, <2>4
<1> HIDE DEF Earlier
<1>5. PICK S : S = {x \in 1..n : Earlier(x)}
  OBVIOUS
<1>6. 1 \in S
  BY <1>1, <1>3, <1>5
<1>7. \A x \in 1..n : x < n /\ x \in S => x + 1 \in S
  <2>1. ASSUME NEW x \in 1..n, x < n, x \in S PROVE x + 1 \in S
    <3>1. x + 1 \in 1..n
      BY <1>1, <2>1
    <3> QED BY <1>4, <1>5, <2>1, <3>1
  <2> QED BY <2>1
<1>8. \A x \in 1..n : x \in S
  BY <1>6, <1>7, UpTo
<1>9. Earlier(n)
  <2>1. n \in 1..n
    BY <1>1
  <2> QED BY <1>5, <1>8, <2>1
<1> QED BY <1>1, <1>9 DEF Earlier

(* What is written along the whole walk is the tree.                         *)
LEMMA FollowsAsLinked ==
  ASSUME Forest, Linked, Root \in made, NEW T, Complete(T), Follows(written, T)
  PROVE  AsLinked
<1> DEFINE at(d) == CHOOSE i \in DOMAIN written : written[i].die = d
<1>1. Walkable /\ Trail(T) /\ NULL \notin made /\ UpWays
  BY LinkedWalkable DEF Complete, Walkable
<1>2. /\ DOMAIN written = 1..Len(T) /\ Len(written) = Len(T)
      /\ \A i \in 1..Len(T) : WrittenIs(written[i], T[i])
      /\ Levels(T, Level(written))
  BY <1>1, FollowsFacts
<1>3. \A i \in 1..Len(T) : T[i].null \in BOOLEAN
  BY <1>1, TrailTypes
<1>4. ASSUME NEW d \in Tree(Root)
      PROVE  /\ d \in made
             /\ DieAt(T, at(d), d)
             /\ \A j \in DOMAIN written : written[j].die = d => j = at(d)
  <2>1. d \in made /\ Closed(T, d)
    BY TreeClosed
  <2>2. PICK m \in 1..Len(T) : DieAt(T, m, d)
    BY <1>1, <2>1, ClosedSeen
  <2>3. at(d) = m
    BY <1>1, <2>1, <2>2, AtIs
  <2>4. \A j \in DOMAIN written : written[j].die = d => j = m
    BY <1>1, <2>1, <2>2, AtIs
  <2> HIDE DEF at
  <2> QED BY <2>1, <2>2, <2>3, <2>4
<1>5. ASSUME NEW i \in 1..Len(T), written[i].die # NULL
      PROVE  DieAt(T, i, written[i].die) /\ written[i].die \in Tree(Root)
  <2>1. ~T[i].null /\ T[i].at = written[i].die
    BY <1>2, <1>3, <1>5 DEF WrittenIs
  <2>2. CameFromAbove(T, i)
    BY <1>1, TrailFromAbove
  <2> QED BY <1>5, <2>1, <2>2 DEF CameFromAbove, DieAt
<1> HIDE DEF at
<1>6. {written[i].die : i \in DOMAIN written} \ {NULL} = Tree(Root)
  <2>1. ASSUME NEW d \in Tree(Root) PROVE d # NULL /\ \E i \in DOMAIN written : written[i].die = d
    <3>1. d \in made /\ DieAt(T, at(d), d)
      BY <1>4
    <3>2. at(d) \in DOMAIN written /\ written[at(d)].die = d
      BY <1>1, <3>1, AtIs
    <3> QED BY <1>1, <3>1, <3>2
  <2> QED BY <1>2, <1>5, <2>1
<1>7. ASSUME NEW i \in DOMAIN written, NEW j \in DOMAIN written,
             written[i].die = written[j].die, i # j
      PROVE  written[i].null
  <2>1. CASE T[i].null
    BY <1>2, <2>1 DEF WrittenIs
  <2>2. CASE ~T[i].null
    <3>1. DieAt(T, i, written[i].die)
      BY <1>2, <2>2 DEF DieAt, WrittenIs
    <3>2. written[i].die \in made
      <4>1. GoodKey(T[i])
        BY <1>1, <1>2, TrailGood
      <4> QED BY <2>2, <3>1, <4>1 DEF GoodKey, DieAt
    <3>3. i = j
      BY <1>1, <1>7, <3>1, <3>2, AtIs
    <3> QED BY <1>7, <3>3
  <2> QED BY <2>1, <2>2
<1>8. ASSUME NEW d \in Tree(Root) \ {Root}
      PROVE  Reader!ParentEntry(written, at(d)) # 0
             /\ written[Reader!ParentEntry(written, at(d))].die = under[d]
  <2>1. d \in made /\ DieAt(T, at(d), d) /\ at(d) \in 1..Len(T)
    BY <1>4 DEF DieAt
  <2>2. CameFromAbove(T, at(d)) /\ T[at(d)].at = d
    BY <1>1, <2>1, TrailFromAbove DEF DieAt
  <2>3. di_parent[d] # NULL /\ di_parent[d] = under[d] /\ di_parent[d] \in made
    BY <1>1, <2>1, <2>2 DEF CameFromAbove, UpWays
  <2>4. PICK p : p = Reader!ParentEntry(written, at(d))
    OBVIOUS
  <2>5. DieAt(T, p, di_parent[d])
    BY <1>1, <2>1, <2>3, <2>4, ParentIs
  <2>6. written[p].die = di_parent[d] /\ p # 0
    BY <1>1, <2>3, <2>5, AtIs DEF DieAt
  <2> QED BY <2>3, <2>4, <2>6
<1>9. ASSUME NEW d \in Tree(Root), NEW e \in Tree(Root), NEW r \in rows,
             NEW i \in DOMAIN r, NEW j \in DOMAIN r, i < j, r[i] = d, r[j] = e
      PROVE  at(d) < at(e)
  <2>1. DieAt(T, at(e), e) /\ d \in made /\ at(e) \in 1..Len(T)
    BY <1>4 DEF DieAt
  <2>2. DOMAIN r = 1..Len(r)
    BY RowFacts
  <2>3. PICK a \in 1..Len(T) : a < at(e) /\ DieAt(T, a, d)
    BY <1>1, <1>9, <2>1, <2>2, EarlierFirst
  <2>4. at(d) = a
    <3>1. DieAt(T, at(d), d)
      BY <1>4
    <3> QED BY <1>1, <2>1, <2>3, <3>1, DieAtOne
  <2> QED BY <2>3, <2>4
<1>10. Reader!Level(written)[Len(written) + 1] = -1
  BY <1>1, <1>2, LastLevel DEF Level
<1> USE DEF at
<1> QED BY <1>6, <1>7, <1>8, <1>9, <1>10 DEF AsLinked
-------------------------------------------------------------------------------
(* Where the walk of a pass is: at a DIE after it has been along T, or        *)
(* climbing, or to the right, after it has.                                  *)
AtDie(T, d, off) == d \in Dies /\ Trail(Append(T, DieKey(d, off))) /\ T \in Seq(Keys)

AtClimb(T, d, off) ==
  Trail(T) /\ T[Len(T)].at = d /\ Closing(T[Len(T)]) /\ off = After(T[Len(T)])

LEMMA SizeIs == \A d \in Dies : Size(d) \in Nat /\ Size(d) >= 1
BY DieAssumption DEF Size, RefSize

LEMMA KeyTypes ==
  /\ \A d \in Dies, off \in Nat : DieKey(d, off) \in Keys
  /\ \A p \in Dies \cup {NULL}, off \in Nat : NullKey(p, off) \in Keys
BY DEF DieKey, NullKey, Keys

LEMMA AfterIs ==
  ASSUME NEW k \in Keys, k.at # NULL \/ k.null
  PROVE  After(k) \in Nat
<1>1. CASE k.null
  BY <1>1 DEF After, Keys
<1>2. CASE ~k.null
  <2>1. k.at \in Dies /\ k.off \in Nat
    BY <1>2 DEF Keys
  <2>2. Size(k.at) \in Nat
    BY <2>1, SizeIs
  <2> QED BY <1>2, <2>1, <2>2 DEF After
<1> QED BY <1>1, <1>2

LEMMA TrailGrows ==
  ASSUME NEW T, Trail(T), T[Len(T)].at # NULL, NEW k \in Keys, k = NextKey(T[Len(T)])
  PROVE  Trail(Append(T, k))
<1>1. T \in Seq(Keys) /\ T # <<>> /\ Len(T) \in Nat \ {0} /\ 1 \in 1..Len(T)
  BY TrailTypes DEF Trail
<1>2. PICK U : U = Append(T, k)
  OBVIOUS
<1>3. /\ U \in Seq(Keys) /\ Len(U) = Len(T) + 1 /\ U[Len(T) + 1] = k
      /\ \A i \in 1..Len(T) : U[i] = T[i]
  BY <1>1, <1>2
<1>4. U # <<>> /\ U[1] = DieKey(Root, HeaderSize)
  BY <1>1, <1>3 DEF Trail
<1>5. ASSUME NEW i \in 1..Len(U), i < Len(U) PROVE U[i].at # NULL /\ U[i + 1] = NextKey(U[i])
  <2>1. i \in 1..Len(T)
    BY <1>1, <1>3, <1>5
  <2>2. CASE i < Len(T)
    <3>1. i + 1 \in 1..Len(T)
      BY <1>1, <2>1, <2>2
    <3> QED BY <1>3, <2>1, <2>2, <3>1 DEF Trail
  <2>3. CASE i = Len(T)
    BY <1>3, <2>1, <2>3
  <2> QED BY <1>1, <2>1, <2>2, <2>3
<1> QED BY <1>2, <1>3, <1>4, <1>5 DEF Trail

LEMMA WalkStart == AtDie(<<>>, Root, HeaderSize)
<1>1. Root \in Dies /\ HeaderSize \in Nat /\ <<>> \in Seq(Keys)
  BY DieTypes DEF HeaderSize
<1>2. PICK k : k = DieKey(Root, HeaderSize)
  OBVIOUS
<1>3. k \in Keys
  BY <1>1, <1>2, KeyTypes
<1>4. PICK U : U = Append(<<>>, k)
  OBVIOUS
<1>5. U \in Seq(Keys) /\ Len(U) = 1 /\ U[1] = k
  BY <1>3, <1>4
<1>6. Trail(U)
  <2>1. U # <<>> /\ U[1] = DieKey(Root, HeaderSize) /\ U \in Seq(Keys)
    BY <1>2, <1>5
  <2>2. \A i \in 1..Len(U) : ~(i < Len(U))
    BY <1>5
  <2> QED BY <2>1, <2>2 DEF Trail
<1> QED BY <1>1, <1>2, <1>4, <1>6 DEF AtDie

(* The end of a trail that has just been lengthened.                        *)
LEMMA AtDieIs ==
  ASSUME NEW T, NEW d, NEW off, AtDie(T, d, off), NEW A, A = Append(T, DieKey(d, off))
  PROVE  /\ Trail(A) /\ Len(A) = Len(T) + 1 /\ Len(T) \in Nat /\ d \in Dies /\ NULL # d
         /\ A[Len(A)] = DieKey(d, off) /\ DieKey(d, off) \in Keys /\ off \in Nat
         /\ \A i \in 1..Len(T) : A[i] = T[i]
         /\ After(DieKey(d, off)) = off + Size(d)
<1>1. Trail(A) /\ d \in Dies /\ T \in Seq(Keys) /\ NULL # d
  BY DieTypes DEF AtDie
<1>2. A \in Seq(Keys) /\ Len(A) \in 1..Len(A) /\ A[Len(A)] \in Keys
  BY <1>1, TrailTypes DEF Trail
<1>3. PICK k : k = DieKey(d, off)
  OBVIOUS
<1>4. Len(A) = Len(T) + 1 /\ Len(T) \in Nat /\ \A i \in 1..Len(T) : A[i] = T[i]
  BY <1>1, <1>3
<1>5. A[Len(A)] = k
  BY <1>1, <1>3, <1>4
<1>6. k \in Keys /\ k.off = off /\ k.at = d /\ k.null = FALSE
  BY <1>2, <1>3, <1>5 DEF DieKey
<1>7. off \in Nat
  BY <1>6 DEF Keys
<1>8. After(k) = off + Size(d)
  BY <1>6 DEF After
<1> QED BY <1>1, <1>3, <1>4, <1>5, <1>6, <1>7, <1>8

(* One step of a pass down from the DIE it is at, and one step up.            *)
LEMMA WalkDown ==
  ASSUME LinkTypes, NEW T, NEW d, NEW off, AtDie(T, d, off), NEW A, A = Append(T, DieKey(d, off))
  PROVE  /\ di_child[d] # NULL => AtDie(A, di_child[d], off + Size(d))
         /\ di_child[d] = NULL => AtClimb(A, d, off + Size(d))
<1>1. PICK k : k = DieKey(d, off)
  OBVIOUS
<1>2. /\ Trail(A) /\ d \in Dies /\ d # NULL /\ A[Len(A)] = k /\ k \in Keys /\ off \in Nat
      /\ After(k) = off + Size(d) /\ k.at = d /\ k.null = FALSE
  <2>1. k.at = d /\ k.null = FALSE
    BY <1>1 DEF DieKey
  <2>2. Trail(A) /\ d \in Dies /\ d # NULL /\ off \in Nat
    BY AtDieIs
  <2>3. A[Len(A)] = DieKey(d, off) /\ DieKey(d, off) \in Keys
    BY AtDieIs
  <2>4. After(DieKey(d, off)) = off + Size(d)
    BY AtDieIs
  <2> QED BY <1>1, <2>1, <2>2, <2>3, <2>4
<1>3. off + Size(d) \in Nat
  BY <1>2, SizeIs
<1>4. CASE di_child[d] # NULL
  <2>1. di_child[d] \in Dies
    BY <1>2, <1>4 DEF LinkTypes
  <2>2. ~Closing(k)
    BY <1>2, <1>4 DEF Closing
  <2>3. NextKey(k) = DieKey(di_child[d], off + Size(d))
    BY <1>2, <2>2 DEF NextKey
  <2>4. DieKey(di_child[d], off + Size(d)) \in Keys
    BY <1>3, <2>1, KeyTypes
  <2>5. Trail(Append(A, DieKey(di_child[d], off + Size(d))))
    BY <1>2, <2>3, <2>4, TrailGrows
  <2>6. A \in Seq(Keys)
    BY <1>2 DEF Trail
  <2> QED BY <1>4, <2>1, <2>5, <2>6 DEF AtDie
<1>5. CASE di_child[d] = NULL
  <2>1. Closing(k)
    BY <1>2, <1>5 DEF Closing
  <2> QED BY <1>2, <1>5, <2>1 DEF AtClimb
<1> QED BY <1>4, <1>5

LEMMA WalkUp ==
  ASSUME LinkTypes, NEW T, NEW d, NEW off, AtClimb(T, d, off), d # NULL
  PROVE  /\ di_right[d] # NULL => AtDie(T, di_right[d], off)
         /\ di_right[d] = NULL =>
              AtClimb(Append(T, NullKey(di_parent[d], off)), di_parent[d], off + 1)
         /\ di_right[d] = NULL => NullKey(di_parent[d], off) \in Keys
<1>1. PICK k : k = T[Len(T)]
  OBVIOUS
<1>2. /\ Trail(T) /\ k \in Keys /\ k.at = d /\ d \in Dies /\ Closing(k)
      /\ off = After(k) /\ T \in Seq(Keys)
  <2>1. Trail(T) /\ k.at = d /\ Closing(k) /\ off = After(k) /\ T \in Seq(Keys)
    BY <1>1 DEF AtClimb, Trail
  <2>2. k \in Keys
    BY <1>1, <2>1, TrailTypes
  <2> QED BY <2>1, <2>2 DEF Keys
<1>3. off \in Nat
  BY <1>2, AfterIs
<1>4. CASE di_right[d] # NULL
  <2>1. di_right[d] \in Dies
    BY <1>2, <1>4 DEF LinkTypes
  <2>2. NextKey(k) = DieKey(di_right[d], off)
    BY <1>2, <1>4 DEF NextKey
  <2>3. DieKey(di_right[d], off) \in Keys
    BY <1>3, <2>1, KeyTypes
  <2>4. Trail(Append(T, DieKey(di_right[d], off)))
    BY <1>1, <1>2, <2>2, <2>3, TrailGrows
  <2> QED BY <1>2, <1>4, <2>1, <2>4 DEF AtDie
<1>5. CASE di_right[d] = NULL
  <2>1. di_parent[d] \in Dies \cup {NULL}
    BY <1>2 DEF LinkTypes
  <2>2. PICK n : n = NullKey(di_parent[d], off)
    OBVIOUS
  <2>3. n \in Keys /\ n.at = di_parent[d] /\ n.null = TRUE /\ n.off = off
    <3>1. n \in Keys
      BY <1>3, <2>1, <2>2, KeyTypes
    <3> QED BY <2>2, <3>1 DEF NullKey
  <2>4. NextKey(k) = n
    BY <1>2, <1>5, <2>2 DEF NextKey
  <2>5. PICK A : A = Append(T, n)
    OBVIOUS
  <2>6. Trail(A)
    BY <1>1, <1>2, <2>3, <2>4, <2>5, TrailGrows
  <2>7. A[Len(A)] = n
    BY <1>2, <2>3, <2>5
  <2>8. Closing(n) /\ After(n) = off + 1
    BY <2>3 DEF Closing, After
  <2>9. AtClimb(A, di_parent[d], off + 1)
    BY <2>3, <2>6, <2>7, <2>8 DEF AtClimb
  <2> QED BY <1>5, <2>2, <2>3, <2>5, <2>9
<1> QED BY <1>4, <1>5

(* The walk is the same as long as the pointers are.                        *)
LEMMA SameWay ==
  ASSUME UNCHANGED <<links, at_sibling>>, NEW T
  PROVE  /\ Trail(T) => Trail(T)'
         /\ \A d, off : AtDie(T, d, off) => AtDie(T, d, off)'
         /\ \A d, off : AtClimb(T, d, off) => AtClimb(T, d, off)'
         /\ Complete(T) => Complete(T)'
         /\ \A k : After(k)' = After(k)
<1>1. di_child' = di_child /\ di_right' = di_right /\ di_parent' = di_parent
      /\ at_sibling' = at_sibling
  BY DEF links
<1>2. ASSUME NEW k
      PROVE  After(k)' = After(k) /\ (Closing(k)' <=> Closing(k)) /\ NextKey(k)' = NextKey(k)
  <2>1. After(k)' = After(k)
    BY <1>1 DEF After, Size
  <2>2. Closing(k)' <=> Closing(k)
    BY <1>1 DEF Closing
  <2>3. NextKey(k)' = NextKey(k)
    BY <1>1, <2>1, <2>2 DEF NextKey, DieKey, NullKey
  <2> QED BY <2>1, <2>2, <2>3
<1>3. ASSUME NEW U PROVE Trail(U) => Trail(U)'
  BY <1>2 DEF Trail
<1>4. ASSUME NEW d, NEW off PROVE AtDie(T, d, off) => AtDie(T, d, off)'
  <2>1. Trail(Append(T, DieKey(d, off))) => Trail(Append(T, DieKey(d, off)))'
    BY <1>3
  <2> QED BY <2>1 DEF AtDie, DieKey
<1>5. ASSUME NEW d, NEW off PROVE AtClimb(T, d, off) => AtClimb(T, d, off)'
  BY <1>2, <1>3 DEF AtClimb
<1>6. Complete(T) => Complete(T)'
  BY <1>3 DEF Complete
<1> QED BY <1>2, <1>3, <1>4, <1>5, <1>6
-------------------------------------------------------------------------------
(* The types of the producer, and what of them hangs together.               *)
Walking == {"pass1", "climb1", "pass2", "climb2"}

NoSiblings == \A d \in Dies : at_sibling[d] = NULL

PassTypes ==
  /\ ppc \in {"pass1", "pass2"} => curdie \in Dies
  /\ ppc \in Walking => die_off >= HeaderSize
  /\ ppc \in Walking \cup {"done"} => Root \in made

SiblingTypes ==
  /\ at_sibling \in [Dies -> Dies \cup {NULL}] /\ SiblingIsRight
  /\ ppc \notin Walking \cup {"done"} => NoSiblings

PTypes ==
  /\ LinkTypes /\ SiblingTypes /\ PassTypes
  /\ di_offset \in [Dies -> Nat] /\ curdie \in Dies \cup {NULL} /\ unsafe \in BOOLEAN
  /\ ppc \in Walking \cup {"build", "abandoned", "foreign", "done"}
  /\ die_off \in Nat /\ nwritten \in Nat /\ length \in Nat

LEMMA LinkSideTypes ==
  ASSUME LinkTypes, NEW d \in Dies, NEW n \in Dies, LinkLeft(d, n) \/ LinkRight(d, n)
  PROVE  /\ di_left' \in [Dies -> Dies \cup {NULL}] /\ di_right' \in [Dies -> Dies \cup {NULL}]
         /\ UNCHANGED <<di_child, di_last_child>>
<1>1. CASE LinkLeft(d, n)
  <2>1. di_right[n] \in Dies \cup {NULL}
    BY DEF LinkTypes
  <2>2. di_left' \in [Dies -> Dies \cup {NULL}]
    BY <1>1 DEF LinkLeft, LinkTypes
  <2>3. di_right' \in [Dies -> Dies \cup {NULL}]
    BY <1>1, <2>1 DEF LinkLeft, LinkTypes
  <2> QED BY <1>1, <2>2, <2>3 DEF LinkLeft
<1>2. CASE LinkRight(d, n)
  <2>1. di_left[n] \in Dies \cup {NULL}
    BY DEF LinkTypes
  <2>2. di_right' \in [Dies -> Dies \cup {NULL}]
    BY <1>2 DEF LinkRight, LinkTypes
  <2>3. di_left' \in [Dies -> Dies \cup {NULL}]
    BY <1>2, <2>1 DEF LinkRight, LinkTypes
  <2> QED BY <1>2, <2>2, <2>3 DEF LinkRight
<1> QED BY <1>1, <1>2

LEMMA LinkKeepsTypes ==
  ASSUME LinkTypes, NEW d \in made, NEW place \in {"parent", "child", "left", "right"},
         NEW n \in made, Link(d, place, n)
  PROVE  LinkTypes'
<1>1. d \in Dies /\ n \in Dies
  BY DEF LinkTypes
<1>2. made' \subseteq Dies /\ beside' \subseteq Dies
  BY <1>1 DEF Link, LinkTypes
<1>3. CASE place = "parent"
  <2>1. LinkParent(d, n)
    BY <1>3 DEF Link
  <2> QED BY <1>1, <1>2, <2>1 DEF LinkParent, LinkTypes, NewLastChild
<1>4. CASE place = "child"
  <2>1. LinkChild(d, n)
    BY <1>4 DEF Link
  <2> QED BY <1>1, <1>2, <2>1 DEF LinkChild, LinkTypes
<1>5. CASE place \in {"left", "right"}
  <2>1. (LinkLeft(d, n) \/ LinkRight(d, n)) /\ JoinParent(d, n)
    BY <1>5 DEF Link
  <2>2. /\ di_left' \in [Dies -> Dies \cup {NULL}] /\ di_right' \in [Dies -> Dies \cup {NULL}]
        /\ UNCHANGED <<di_child, di_last_child>>
    BY <1>1, <2>1, LinkSideTypes
  <2>3. di_parent' \in [Dies -> Dies \cup {NULL}]
    BY <1>1, <2>1 DEF JoinParent, LinkTypes
  <2> QED BY <1>2, <2>2, <2>3 DEF LinkTypes
<1> QED BY <1>3, <1>4, <1>5

LEMMA RefusedKeepsTypes ==
  ASSUME LinkTypes, NEW d \in made, NEW place \in {"parent", "child", "left", "right"},
         NEW n \in made, LinkRefused(d, place, n)
  PROVE  LinkTypes'
<1>1. d \in Dies /\ n \in Dies
  BY DEF LinkTypes
<1>2. made' \subseteq Dies /\ beside' \subseteq Dies
  BY DEF LinkRefused, LinkTypes, asked
<1>3. CASE place = "parent"
  BY <1>2, <1>3 DEF LinkRefused, links, LinkTypes
<1>4. CASE place = "child"
  BY <1>1, <1>2, <1>4 DEF LinkRefused, LinkTypes
<1>5. CASE place \in {"left", "right"}
  <2>1. (LinkLeft(d, n) \/ LinkRight(d, n)) /\ di_parent' = di_parent
    BY <1>5 DEF LinkRefused
  <2>2. /\ di_left' \in [Dies -> Dies \cup {NULL}] /\ di_right' \in [Dies -> Dies \cup {NULL}]
        /\ UNCHANGED <<di_child, di_last_child>>
    BY <1>1, <2>1, LinkSideTypes
  <2> QED BY <1>2, <2>1, <2>2 DEF LinkTypes
<1> QED BY <1>3, <1>4, <1>5

(* What leaves the pointers alone.                                          *)
LEMMA LinkTypesStay ==
  ASSUME LinkTypes, UNCHANGED <<links, beside>>, made' \subseteq Dies
  PROVE  LinkTypes'
BY DEF LinkTypes, links

LEMMA PTypesStay ==
  ASSUME PTypes, UNCHANGED pvars
  PROVE  PTypes'
<1>1. /\ UNCHANGED <<links, beside, made>> /\ at_sibling' = at_sibling /\ ppc' = ppc
      /\ curdie' = curdie /\ die_off' = die_off /\ nwritten' = nwritten /\ length' = length
      /\ di_offset' = di_offset /\ unsafe' = unsafe /\ di_right' = di_right
  BY DEF pvars, links, asked
<1>2. LinkTypes'
  BY <1>1, LinkTypesStay DEF PTypes, LinkTypes
<1>3. SiblingTypes'
  BY <1>1 DEF PTypes, SiblingTypes, SiblingIsRight, NoSiblings
<1>4. PassTypes'
  BY <1>1 DEF PTypes, PassTypes
<1> QED BY <1>1, <1>2, <1>3, <1>4 DEF PTypes

LEMMA BuildTypes ==
  ASSUME PTypes, ppc = "build", ppc' \in {"build", "abandoned", "foreign"}, LinkTypes',
         UNCHANGED <<at_sibling, di_offset, curdie, die_off, length>>,
         unsafe' \in BOOLEAN, nwritten' \in Nat
  PROVE  PTypes'
<1>1. SiblingTypes'
  BY DEF PTypes, SiblingTypes, SiblingIsRight, NoSiblings, Walking
<1>2. PassTypes'
  BY DEF PassTypes, Walking
<1> QED BY <1>1, <1>2 DEF PTypes

LEMMA Pass0Types ==
  ASSUME PTypes, Pass0
  PROVE  PTypes'
<1>1. LinkTypes' /\ di_right \in [Dies -> Dies \cup {NULL}] /\ di_right' = di_right
  BY LinkTypesStay DEF Pass0, PTypes, LinkTypes, links, asked
<1>2. SiblingTypes'
  <2>1. ppc' = "pass1"
    BY DEF Pass0
  <2>2. at_sibling' \in [Dies -> Dies \cup {NULL}]
    BY <1>1 DEF Pass0
  <2>3. SiblingIsRight'
    BY <1>1 DEF Pass0, SiblingIsRight
  <2> QED BY <2>1, <2>2, <2>3 DEF SiblingTypes, Walking
<1>3. PassTypes'
  BY DieTypes DEF Pass0, PassTypes, Walking, HeaderSize
<1>4. ppc' = "pass1" /\ curdie' = Root /\ die_off' = 11 /\ nwritten' = nwritten
      /\ length' = length /\ di_offset' = di_offset /\ unsafe' = unsafe
  BY DEF Pass0, HeaderSize, asked
<1>5. curdie' \in Dies /\ die_off' \in Nat
  BY <1>4, DieTypes
<1> QED BY <1>1, <1>2, <1>3, <1>4, <1>5 DEF PTypes, Walking

(* The passes leave the tree alone.                                         *)
LEMMA WalkingTypes ==
  ASSUME PTypes, ppc \in Walking, ppc' \in Walking \cup {"done"},
         UNCHANGED <<links, made, at_sibling, asked>>, PassTypes',
         di_offset' \in [Dies -> Nat], curdie' \in Dies \cup {NULL},
         die_off' \in Nat, nwritten' \in Nat, length' \in Nat
  PROVE  PTypes'
<1>1. /\ UNCHANGED <<links, beside, made>> /\ at_sibling' = at_sibling
      /\ unsafe' = unsafe /\ di_right' = di_right
  BY DEF links, asked
<1>2. LinkTypes'
  BY <1>1, LinkTypesStay DEF PTypes, LinkTypes
<1>3. SiblingTypes'
  BY <1>1 DEF PTypes, SiblingTypes, SiblingIsRight, NoSiblings
<1> QED BY <1>1, <1>2, <1>3 DEF PTypes

LEMMA PassesTypes ==
  ASSUME PTypes, Pass1 \/ Climb1 \/ Pass2 \/ Climb2
  PROVE  PTypes'
<1>1. /\ ppc \in Walking /\ die_off \in Nat /\ die_off >= 11 /\ Root \in made
      /\ nwritten \in Nat /\ length \in Nat /\ Root \in Dies /\ Root # NULL
      /\ UNCHANGED <<links, made, at_sibling, asked>>
      /\ di_offset \in [Dies -> Nat]
      /\ curdie \in Dies \cup {NULL}
      /\ ppc \in {"pass1", "pass2"} => curdie \in Dies
  BY DieTypes DEF Pass1, Climb1, Pass2, Climb2, PTypes, PassTypes, Walking, HeaderSize
<1>2. /\ di_child \in [Dies -> Dies \cup {NULL}] /\ di_right \in [Dies -> Dies \cup {NULL}]
      /\ di_parent \in [Dies -> Dies \cup {NULL}]
  BY DEF PTypes, LinkTypes
<1>3. Root \in made'
  BY <1>1
<1>4. CASE Pass1
  <2>1. curdie \in Dies /\ Size(curdie) \in Nat
    BY <1>1, <1>4, SizeIs DEF Pass1
  <2>2. die_off' \in Nat /\ die_off' >= 11 /\ di_offset' \in [Dies -> Nat]
    BY <1>1, <1>4, <2>1 DEF Pass1
  <2>3. ppc' \in {"pass1", "climb1"} /\ curdie' \in Dies
    BY <1>2, <1>4, <2>1 DEF Pass1, Down
  <2>4. nwritten' = nwritten /\ length' = length
    BY <1>4 DEF Pass1
  <2>5. PassTypes'
    BY <1>3, <2>2, <2>3 DEF PassTypes, HeaderSize
  <2>6. ppc' \in Walking
    BY <2>3 DEF Walking
  <2> QED BY <1>1, <2>2, <2>3, <2>4, <2>5, <2>6, WalkingTypes
<1>5. CASE Climb1
  <2>1. CASE Climbing
    <3>1. curdie' = di_parent[curdie] /\ die_off' = die_off + 1 /\ ppc' = "climb1"
          /\ nwritten' = nwritten /\ length' = length /\ di_offset' = di_offset
      BY <1>5, <2>1 DEF Climb1, CountNull
    <3>2. curdie' \in Dies \cup {NULL}
      BY <1>1, <1>2, <2>1, <3>1 DEF Climbing
    <3>3. die_off' \in Nat /\ die_off' >= 11
      BY <1>1, <3>1
    <3>4. PassTypes' /\ ppc' \in Walking
      BY <1>3, <3>1, <3>3 DEF PassTypes, HeaderSize, Walking
    <3> QED BY <1>1, <3>1, <3>2, <3>3, <3>4, WalkingTypes
  <2>2. CASE ~Climbing /\ curdie # NULL
    <3>1. curdie' = di_right[curdie] /\ ppc' = "pass1" /\ die_off' = die_off
          /\ nwritten' = nwritten /\ length' = length /\ di_offset' = di_offset
      BY <1>5, <2>2 DEF Climb1
    <3>2. curdie' \in Dies
      BY <1>1, <1>2, <2>2, <3>1 DEF Climbing
    <3>3. PassTypes' /\ ppc' \in Walking
      BY <1>1, <1>3, <3>1, <3>2 DEF PassTypes, HeaderSize, Walking
    <3> QED BY <1>1, <3>1, <3>2, <3>3, WalkingTypes
  <2>3. CASE ~Climbing /\ curdie = NULL
    <3>1. curdie' = Root /\ ppc' = "pass2" /\ die_off' = die_off
          /\ nwritten' = 11 /\ length' = length /\ di_offset' = di_offset
      BY <1>5, <2>3 DEF Climb1, HeaderSize
    <3>2. PassTypes' /\ ppc' \in Walking
      BY <1>1, <1>3, <3>1 DEF PassTypes, HeaderSize, Walking
    <3> QED BY <1>1, <3>1, <3>2, WalkingTypes
  <2> QED BY <2>1, <2>2, <2>3
<1>6. CASE Pass2
  <2>1. curdie \in Dies /\ Size(curdie) \in Nat
    BY <1>1, <1>6, SizeIs DEF Pass2
  <2>2. nwritten' = nwritten + Size(curdie) /\ die_off' = die_off /\ length' = length
        /\ di_offset' = di_offset
    BY <1>6 DEF Pass2, Write
  <2>3. ppc' \in {"pass2", "climb2"} /\ curdie' \in Dies
    BY <1>2, <1>6, <2>1 DEF Pass2, Down
  <2>4. PassTypes' /\ ppc' \in Walking
    BY <1>1, <1>3, <2>2, <2>3 DEF PassTypes, HeaderSize, Walking
  <2>5. nwritten' \in Nat
    BY <1>1, <2>1, <2>2
  <2> QED BY <1>1, <2>2, <2>3, <2>4, <2>5, WalkingTypes
<1>7. CASE Climb2
  <2>1. CASE Climbing
    <3>1. curdie' = di_parent[curdie] /\ die_off' = die_off /\ ppc' = "climb2"
          /\ nwritten' = nwritten + 1 /\ length' = length /\ di_offset' = di_offset
      BY <1>7, <2>1 DEF Climb2, Write, NullEntry
    <3>2. curdie' \in Dies \cup {NULL}
      BY <1>1, <1>2, <2>1, <3>1 DEF Climbing
    <3>3. nwritten' \in Nat
      BY <1>1, <3>1
    <3>4. PassTypes' /\ ppc' \in Walking
      BY <1>1, <1>3, <3>1 DEF PassTypes, HeaderSize, Walking
    <3> QED BY <1>1, <3>1, <3>2, <3>3, <3>4, WalkingTypes
  <2>2. CASE ~Climbing /\ curdie # NULL
    <3>1. curdie' = di_right[curdie] /\ ppc' = "pass2" /\ die_off' = die_off
          /\ nwritten' = nwritten /\ length' = length /\ di_offset' = di_offset
      BY <1>7, <2>2 DEF Climb2
    <3>2. curdie' \in Dies
      BY <1>1, <1>2, <2>2, <3>1 DEF Climbing
    <3>3. PassTypes' /\ ppc' \in Walking
      BY <1>1, <1>3, <3>1, <3>2 DEF PassTypes, HeaderSize, Walking
    <3> QED BY <1>1, <3>1, <3>2, <3>3, WalkingTypes
  <2>3. CASE ~Climbing /\ curdie = NULL
    <3>1. curdie' = NULL /\ ppc' = "done" /\ die_off' = die_off
          /\ nwritten' = nwritten /\ length' = die_off - 4 /\ di_offset' = di_offset
      BY <1>7, <2>3 DEF Climb2, LengthSize
    <3>2. length' \in Nat
      BY <1>1, <3>1
    <3>3. PassTypes'
      BY <1>3, <3>1 DEF PassTypes, Walking
    <3> QED BY <1>1, <3>1, <3>2, <3>3, WalkingTypes
  <2> QED BY <2>1, <2>2, <2>3
<1> QED BY <1>4, <1>5, <1>6, <1>7

LEMMA TypesKept ==
  ASSUME PTypes, [Next]_vars
  PROVE  PTypes'
<1>1. CASE \E d \in Dies : NewDie(d)
  <2>1. PICK d \in Dies : NewDie(d)
    BY <1>1
  <2>2. LinkTypes'
    BY <2>1, LinkTypesStay DEF NewDie, PTypes, LinkTypes
  <2> QED BY <2>1, <2>2, BuildTypes DEF NewDie, PTypes
<1>2. ASSUME NEW d \in made, NEW place \in {"parent", "child", "left", "right"}, NEW n \in made,
             Link(d, place, n)
      PROVE  PTypes'
  <2>1. LinkTypes'
    BY <1>2, LinkKeepsTypes DEF PTypes
  <2>2. unsafe' \in BOOLEAN
    BY <1>2 DEF Link
  <2> QED BY <1>2, <2>1, <2>2, BuildTypes DEF Link, PTypes
<1>3. ASSUME NEW d \in made, NEW place \in {"parent", "child", "left", "right"}, NEW n \in made,
             LinkRefused(d, place, n)
      PROVE  PTypes'
  <2>1. LinkTypes'
    BY <1>3, RefusedKeepsTypes DEF PTypes
  <2> QED BY <1>3, <2>1, BuildTypes DEF LinkRefused, PTypes, asked
<1>4. CASE Pass0
  BY <1>4, Pass0Types
<1>5. CASE Pass1 \/ Climb1 \/ Pass2 \/ Climb2
  BY <1>5, PassesTypes
<1>6. CASE BeginForeign
  <2>1. LinkTypes'
    BY <1>6, LinkTypesStay DEF BeginForeign, PTypes, LinkTypes, asked
  <2> QED BY <1>6, <2>1, BuildTypes DEF BeginForeign, PTypes, asked, HeaderSize
<1>7. ASSUME NEW e, e.size \in Nat, WriteForeign(e)
      PROVE  PTypes'
  <2>1. /\ UNCHANGED <<links, made, beside>> /\ at_sibling' = at_sibling /\ ppc' = ppc
        /\ curdie' = curdie /\ die_off' = die_off /\ length' = length
        /\ di_offset' = di_offset /\ unsafe' = unsafe /\ di_right' = di_right
        /\ nwritten' = nwritten + e.size
    BY <1>7 DEF WriteForeign, Write, links, asked
  <2>2. LinkTypes'
    BY <2>1, LinkTypesStay DEF PTypes, LinkTypes
  <2>3. SiblingTypes'
    BY <2>1 DEF PTypes, SiblingTypes, SiblingIsRight, NoSiblings
  <2>4. PassTypes'
    BY <2>1 DEF PTypes, PassTypes
  <2>5. nwritten' \in Nat
    BY <1>7, <2>1 DEF PTypes
  <2> QED BY <2>1, <2>2, <2>3, <2>4, <2>5 DEF PTypes
<1>8. CASE ForeignNull
  BY <1>7, <1>8 DEF ForeignNull, NullEntry
<1>9. ASSUME NEW children \in BOOLEAN, NEW with_sibling \in BOOLEAN,
             ForeignDie(children, with_sibling)
      PROVE  PTypes'
  <2> DEFINE e == [off |-> nwritten, size |-> IF with_sibling THEN 1 + RefSize ELSE 1,
                   null |-> FALSE, children |-> children, die |-> NULL,
                   sibling |-> IF with_sibling THEN 0 ELSE NoSibling]
  <2>1. e.size \in Nat
    BY DEF RefSize
  <2>2. WriteForeign(e)
    BY <1>9 DEF ForeignDie
  <2> HIDE DEF e
  <2> QED BY <1>7, <2>1, <2>2
<1>10. CASE UNCHANGED pvars
  BY <1>10, PTypesStay
<1>11. CASE UNCHANGED vars
  BY <1>10, <1>11 DEF vars
<1>12. CASE ReadOwn \/ ReadForeign
  BY <1>10, <1>12 DEF ReadOwn, ReadForeign
<1> QED BY <1>1, <1>2, <1>3, <1>4, <1>5, <1>6, <1>8, <1>9, <1>10, <1>11, <1>12
       DEF Next, ProducerNext
-------------------------------------------------------------------------------
(* Unless a call has been refused half way, the pointers trace the lists that  *)
(* were asked for; as long as no call has lost DIEs, they say the same.       *)
ForestInv == ppc # "abandoned" => Forest /\ Traced /\ (~unsafe => Linked)

LEMMA ForestStays ==
  ASSUME ppc # "abandoned", ForestInv, UNCHANGED <<links, made, asked>>
  PROVE  ForestInv'
<1>1. /\ rows' = rows /\ under' = under /\ made' = made /\ beside' = beside
      /\ di_parent' = di_parent /\ di_child' = di_child /\ di_left' = di_left
      /\ di_right' = di_right /\ di_last_child' = di_last_child /\ unsafe' = unsafe
  BY DEF links, asked
<1>2. Forest'
  BY <1>1 DEF ForestInv, Forest, InOne
<1>3. ~unsafe => Linked'
  BY <1>1 DEF ForestInv, Linked, RowLinked, EndsLinked, NoneUnder
<1>4. Traced'
  BY <1>1 DEF ForestInv, Traced, RightBack, LeftBefore, Before, ChildUnder, ParentUnder
<1> QED BY <1>1, <1>2, <1>3, <1>4 DEF ForestInv

LEMMA LinkForest ==
  ASSUME Forest, Linked, LinkTypes, NEW d, NEW place \in {"parent", "child", "left", "right"},
         NEW n, Link(d, place, n), ~LosesDies(place, n)
  PROVE  Forest' /\ Linked'
<1>1. CASE place = "parent"
  <2>1. KeepsForest(d, "parent", n)
    BY <1>1, LinkUnder
  <2>2. ~LosesDies("parent", n)
    BY <1>1
  <2> QED BY <2>1, <2>2 DEF KeepsForest
<1>2. CASE place = "child"
  <2>1. Link(d, "child", n) /\ ~LosesDies("child", n)
    BY <1>2
  <2> QED BY <2>1, LinkOver
<1>3. CASE place \in {"left", "right"}
  <2>1. KeepsForest(d, place, n)
    BY <1>3, LinkBesideRight
  <2> QED BY <2>1 DEF KeepsForest
<1> QED BY <1>1, <1>2, <1>3

LEMMA ForestKept ==
  ASSUME PTypes, ForestInv, [Next]_vars
  PROVE  ForestInv'
<1>1. CASE \E d \in Dies : NewDie(d)
  <2>1. PICK d \in Dies : NewDie(d)
    BY <1>1
  <2>2. /\ Forest /\ Traced /\ (~unsafe => Linked) /\ LinkTypes /\ unsafe' = unsafe
    BY <2>1 DEF NewDie, ForestInv, PTypes
  <2>3. Forest' /\ Traced'
    BY <2>1, <2>2, NewDieForest, NewDieTraced
  <2>4. ~unsafe => Linked'
    BY <2>1, <2>2, NewDieLinked
  <2> QED BY <2>2, <2>3, <2>4 DEF ForestInv
<1>2. ASSUME NEW d \in made, NEW place \in {"parent", "child", "left", "right"}, NEW n \in made,
             Link(d, place, n)
      PROVE  ForestInv'
  <2>1. unsafe' = (unsafe \/ LosesDies(place, n)) /\ ppc = "build"
    BY <1>2 DEF Link
  <2>2. Forest /\ Traced /\ (~unsafe => Linked) /\ LinkTypes
    BY <2>1 DEF ForestInv, PTypes
  <2>3. Forest' /\ Traced'
    BY <1>2, <2>2, LinkTraced
  <2>4. ~unsafe /\ ~LosesDies(place, n) => Linked'
    BY <1>2, <2>2, LinkForest
  <2> QED BY <2>1, <2>3, <2>4 DEF ForestInv
<1>3. ASSUME NEW d \in made, NEW place \in {"parent", "child", "left", "right"}, NEW n \in made,
             LinkRefused(d, place, n)
      PROVE  ForestInv'
  BY <1>3 DEF LinkRefused, ForestInv
<1>4. ASSUME UNCHANGED <<links, made, asked>>, ppc # "abandoned" \/ ppc' = ppc
      PROVE  ForestInv'
  <2>1. CASE ppc # "abandoned"
    BY <1>4, <2>1, ForestStays
  <2>2. CASE ppc = "abandoned"
    BY <1>4, <2>2 DEF ForestInv
  <2> QED BY <2>1, <2>2
<1>5. CASE Pass0 \/ Pass1 \/ Climb1 \/ Pass2 \/ Climb2
  BY <1>4, <1>5 DEF Pass0, Pass1, Climb1, Pass2, Climb2
<1>6. CASE BeginForeign
  BY <1>4, <1>6 DEF BeginForeign
<1>7. CASE ForeignNull \/ \E children, with_sibling \in BOOLEAN : ForeignDie(children, with_sibling)
  BY <1>4, <1>7 DEF ForeignNull, ForeignDie, WriteForeign, Foreign
<1>8. CASE UNCHANGED pvars
  BY <1>4, <1>8 DEF pvars
<1>9. CASE UNCHANGED vars
  BY <1>8, <1>9 DEF vars
<1>10. CASE ReadOwn \/ ReadForeign
  BY <1>8, <1>10 DEF ReadOwn, ReadForeign
<1> QED BY <1>1, <1>2, <1>3, <1>5, <1>6, <1>7, <1>8, <1>9, <1>10 DEF Next, ProducerNext

-------------------------------------------------------------------------------
(* What the two passes have done.                                           *)

Pass1Done(T) ==
  /\ ppc = "pass1" => AtDie(T, curdie, die_off)
  /\ ppc = "climb1" => AtClimb(T, curdie, die_off)
  /\ Told(T)

Pass2Done(T, A) ==
  /\ Complete(T) /\ Told(T) /\ die_off = After(T[Len(T)])
  /\ Follows(written, A)
  /\ ppc = "pass2" => AtDie(A, curdie, nwritten)
  /\ ppc = "climb2" => AtClimb(A, curdie, nwritten)

AllDone(T) ==
  /\ Complete(T) /\ Told(T) /\ Follows(written, T)
  /\ die_off = After(T[Len(T)]) /\ nwritten = die_off /\ nwritten = length + LengthSize

Counted == ppc \in {"pass1", "climb1"} => \E T : Pass1Done(T)
Wrote   == ppc \in {"pass2", "climb2"} => \E T, A : Pass2Done(T, A)
IsDone  == ppc = "done" => \E T : AllDone(T)

WalkInv == Counted /\ Wrote /\ IsDone

LEMMA ToldOne ==
  ASSUME PTypes, Forest, Traced, Root \in made, NEW T, NEW d, NEW off, AtDie(T, d, off), Told(T),
         di_offset' = [di_offset EXCEPT ![d] = off], NEW A, A = Append(T, DieKey(d, off))
  PROVE  Told(A)'
<1>1. /\ Trail(A) /\ Len(A) = Len(T) + 1 /\ Len(T) \in Nat /\ d \in Dies
      /\ A[Len(A)] = DieKey(d, off) /\ \A i \in 1..Len(T) : A[i] = T[i]
  <2>1. Trail(A) /\ d \in Dies /\ T \in Seq(Keys)
    BY DEF AtDie
  <2>2. A[Len(A)] = DieKey(d, off) /\ Len(A) = Len(T) + 1 /\ Len(T) \in Nat
    BY <2>1
  <2>3. \A i \in 1..Len(T) : A[i] = T[i]
    BY <2>1
  <2> QED BY <2>1, <2>2, <2>3
<1>2. DieKey(d, off).at = d /\ DieKey(d, off).null = FALSE /\ DieKey(d, off).off = off
  BY DEF DieKey
<1>3. Len(A) \in 1..Len(A) /\ A[Len(A)].at = d /\ ~A[Len(A)].null /\ A[Len(A)].off = off
  BY <1>1, <1>2
<1>4. ASSUME NEW i \in 1..Len(A), ~A[i].null PROVE di_offset'[A[i].at] = A[i].off
  <2>1. A[i].at \in Dies
    <3>1. LinkTypes
      BY DEF PTypes
    <3>2. SeenKey(A[i])
      BY <1>1, <1>4, <3>1, SeenKeys
    <3> QED BY <3>1, <3>2, OnWayRight DEF SeenKey
  <2>2. di_offset \in [Dies -> Nat]
    BY DEF PTypes
  <2>3. CASE i = Len(A)
    BY <1>1, <1>3, <2>2, <2>3
  <2>4. CASE i # Len(A)
    <3>1. i \in 1..Len(T) /\ A[i] = T[i]
      BY <1>1, <2>4
    <3>2. di_offset[A[i].at] = A[i].off
      BY <1>4, <3>1 DEF Told
    <3>3. A[i].null \in BOOLEAN
      BY <1>1, TrailTypes
    <3>4. A[i].at # d
      <4>1. SUFFICES ASSUME A[i].at = d PROVE FALSE
        OBVIOUS
      <4>2. A[i].at = A[Len(A)].at /\ A[i].null = A[Len(A)].null
        <5>1. A[i].null = FALSE /\ A[Len(A)].null = FALSE
          BY <1>1, <1>2, <1>4, <3>3
        <5> QED BY <1>3, <4>1, <5>1
      <4>3. LinkTypes /\ A[i].at # NULL
        BY <2>1, DieTypes DEF PTypes
      <4>4. i = Len(A)
        BY <1>1, <1>3, <4>2, <4>3, TracedDistinct
      <4> QED BY <2>4, <4>4
    <3> QED BY <2>1, <2>2, <3>2, <3>4
  <2> QED BY <2>3, <2>4
<1> QED BY <1>4 DEF Told

LEMMA ToldSame ==
  ASSUME UNCHANGED di_offset, NEW T, Told(T)
  PROVE  Told(T)'
BY DEF Told

LEMMA ToldNull ==
  ASSUME NEW T \in Seq(Keys), Told(T), NEW k \in Keys, k.null = TRUE
  PROVE  Told(Append(T, k))
<1>1. PICK A : A = Append(T, k)
  OBVIOUS
<1>2. Len(A) = Len(T) + 1 /\ Len(T) \in Nat /\ A[Len(T) + 1] = k
      /\ \A i \in 1..Len(T) : A[i] = T[i]
  BY <1>1
<1>3. ASSUME NEW i \in 1..Len(A), ~A[i].null PROVE di_offset[A[i].at] = A[i].off
  <2>1. i # Len(T) + 1
    BY <1>2, <1>3
  <2>2. i \in 1..Len(T)
    BY <1>2, <2>1
  <2> QED BY <1>2, <1>3, <2>2 DEF Told
<1> QED BY <1>1, <1>3 DEF Told

(* Nothing that a trail is about changes in a step of a pass.                *)
LEMMA StepKeepsWay ==
  ASSUME Pass1 \/ Climb1 \/ Pass2 \/ Climb2
  PROVE  UNCHANGED <<links, at_sibling>> /\ UNCHANGED <<made, unsafe>>
BY DEF Pass1, Climb1, Pass2, Climb2, asked

LEMMA Pass1Walks ==
  ASSUME PTypes, Forest, Traced, Root \in made, Pass1, NEW T, Pass1Done(T)
  PROVE  ppc' \in {"pass1", "climb1"} /\ \E A : Pass1Done(A)'
<1>1. AtDie(T, curdie, die_off) /\ Told(T) /\ curdie \in Dies /\ LinkTypes
  BY DEF Pass1, Pass1Done, PTypes, PassTypes
<1>2. PICK A : A = Append(T, DieKey(curdie, die_off))
  OBVIOUS
<1>3. Told(A)'
  BY <1>1, <1>2, ToldOne DEF Pass1
<1>4. die_off' = die_off + Size(curdie)
  BY DEF Pass1
<1>5. CASE di_child[curdie] # NULL
  <2>1. AtDie(A, di_child[curdie], die_off + Size(curdie))
    BY <1>1, <1>2, <1>5, WalkDown
  <2>2. curdie' = di_child[curdie] /\ ppc' = "pass1"
    BY <1>5 DEF Pass1, Down
  <2>3. AtDie(A, curdie', die_off')
    BY <1>4, <2>1, <2>2
  <2>4. AtDie(A, curdie, die_off)'
    BY <2>3, StepKeepsWay, SameWay DEF AtDie
  <2> QED BY <1>3, <2>2, <2>4 DEF Pass1Done
<1>6. CASE di_child[curdie] = NULL
  <2>1. AtClimb(A, curdie, die_off + Size(curdie))
    BY <1>1, <1>2, <1>6, WalkDown
  <2>2. curdie' = curdie /\ ppc' = "climb1"
    BY <1>6 DEF Pass1, Down
  <2>3. AtClimb(A, curdie', die_off')
    BY <1>4, <2>1, <2>2
  <2>4. AtClimb(A, curdie, die_off)'
    BY <2>3, StepKeepsWay, SameWay DEF AtClimb
  <2> QED BY <1>3, <2>2, <2>4 DEF Pass1Done
<1> QED BY <1>5, <1>6
LEMMA Pass0Walks ==
  ASSUME Pass0
  PROVE  ppc' = "pass1" /\ Pass1Done(<<>>)'
<1>1. ppc' = "pass1" /\ curdie' = Root /\ die_off' = HeaderSize
  BY DEF Pass0
<1>2. AtDie(<<>>, Root, HeaderSize)'
  BY WalkStart, PTL
<1>3. AtDie(<<>>, curdie, die_off)'
  BY <1>1, <1>2 DEF HeaderSize, Root
<1>4. Told(<<>>)'
  BY DEF Told
<1> QED BY <1>1, <1>3, <1>4 DEF Pass1Done

LEMMA NothingFollows == Follows(<<>>, <<>>)
<1>1. <<>> \in Seq(Entries) /\ Len(<<>>) = 0
  OBVIOUS
<1> QED BY <1>1 DEF Follows

LEMMA Climb1Walks ==
  ASSUME PTypes, Climb1, NEW T, Pass1Done(T)
  PROVE  \/ ppc' \in {"pass1", "climb1"} /\ \E A : Pass1Done(A)'
         \/ ppc' = "pass2" /\ \E A : Pass2Done(A, <<>>)'
<1>1. AtClimb(T, curdie, die_off) /\ Told(T) /\ LinkTypes /\ Trail(T) /\ T \in Seq(Keys)
  BY DEF Climb1, Pass1Done, PTypes, AtClimb, Trail
<1>2. di_offset' = di_offset
  BY DEF Climb1
<1>3. CASE curdie # NULL /\ di_right[curdie] = NULL
  <2>1. PICK A : A = Append(T, NullKey(di_parent[curdie], die_off))
    OBVIOUS
  <2>2. AtClimb(A, di_parent[curdie], die_off + 1)
    BY <1>1, <1>3, <2>1, WalkUp
  <2>3. curdie' = di_parent[curdie] /\ ppc' = "climb1" /\ die_off' = die_off + 1
    BY <1>3 DEF Climb1, Climbing, CountNull
  <2>4. AtClimb(A, curdie', die_off')
    BY <2>2, <2>3
  <2>5. AtClimb(A, curdie, die_off)'
    BY <2>4, StepKeepsWay, SameWay DEF AtClimb
  <2>6. Told(A)
    <3>1. PICK k : k = NullKey(di_parent[curdie], die_off)
      OBVIOUS
    <3>2. k \in Keys
      BY <1>1, <1>3, <3>1, WalkUp
    <3>3. k.null = TRUE
      BY <3>1 DEF NullKey
    <3> QED BY <1>1, <2>1, <3>1, <3>2, <3>3, ToldNull
  <2>7. Told(A)'
    BY <1>2, <2>6, ToldSame
  <2> QED BY <2>3, <2>5, <2>7 DEF Pass1Done
<1>4. CASE curdie # NULL /\ di_right[curdie] # NULL
  <2>1. AtDie(T, di_right[curdie], die_off)
    BY <1>1, <1>4, WalkUp
  <2>2. curdie' = di_right[curdie] /\ ppc' = "pass1" /\ die_off' = die_off
    BY <1>4 DEF Climb1, Climbing
  <2>3. AtDie(T, curdie', die_off')
    BY <2>1, <2>2
  <2>4. AtDie(T, curdie, die_off)'
    BY <2>3, StepKeepsWay, SameWay DEF AtDie
  <2>5. Told(T)'
    BY <1>1, <1>2, ToldSame
  <2> QED BY <2>2, <2>4, <2>5 DEF Pass1Done
<1>5. CASE curdie = NULL
  <2>1. /\ curdie' = Root /\ ppc' = "pass2" /\ nwritten' = HeaderSize /\ written' = <<>>
        /\ die_off' = die_off
    BY <1>5 DEF Climb1, Climbing
  <2>2. Complete(T) /\ die_off = After(T[Len(T)])
    BY <1>1, <1>5 DEF Complete, AtClimb
  <2>3. Complete(T)' /\ die_off' = After(T[Len(T)])'
    <3>1. Complete(T)'
      BY <2>2, StepKeepsWay, SameWay
    <3>2. After(T[Len(T)])' = After(T[Len(T)])
      BY StepKeepsWay, SameWay
    <3> QED BY <2>1, <2>2, <3>1, <3>2
  <2>4. Told(T)'
    BY <1>1, <1>2, ToldSame
  <2>5. AtDie(<<>>, Root, HeaderSize)'
    BY WalkStart, PTL
  <2>6. AtDie(<<>>, curdie, nwritten)'
    BY <2>1, <2>5 DEF HeaderSize, Root
  <2>7. Follows(written, <<>>)'
    BY <2>1 DEF Follows
  <2>8. Pass2Done(T, <<>>)'
    BY <2>1, <2>3, <2>4, <2>6, <2>7 DEF Pass2Done
  <2> QED BY <2>1, <2>8
<1> QED BY <1>3, <1>4, <1>5

LEMMA FollowsGrows ==
  ASSUME NEW s, NEW A \in Seq(Keys), Follows(s, A), NEW k \in Keys, NEW e \in Entries,
         e = WrittenFor(k)
  PROVE  Follows(Append(s, e), Append(A, k))
<1>1. PICK B : B = Append(A, k)
  OBVIOUS
<1>2. PICK q : q = Append(s, e)
  OBVIOUS
<1>3. s \in Seq(Entries) /\ Len(s) = Len(A) /\ Len(A) \in Nat
  BY DEF Follows
<1>4. /\ q \in Seq(Entries) /\ Len(q) = Len(A) + 1 /\ q[Len(A) + 1] = e
      /\ \A i \in 1..Len(A) : q[i] = s[i]
  BY <1>2, <1>3
<1>5. /\ Len(B) = Len(A) + 1 /\ B[Len(A) + 1] = k
      /\ \A i \in 1..Len(A) : B[i] = A[i]
  BY <1>1, <1>3
<1>6. ASSUME NEW i \in 1..Len(B) PROVE q[i] = WrittenFor(B[i])
  <2>1. CASE i = Len(A) + 1
    BY <1>4, <1>5, <2>1
  <2>2. CASE i # Len(A) + 1
    <3>1. i \in 1..Len(A)
      BY <1>3, <1>5, <2>2
    <3> QED BY <1>4, <1>5, <3>1 DEF Follows
  <2> QED BY <2>1, <2>2
<1> QED BY <1>1, <1>2, <1>4, <1>5, <1>6 DEF Follows

(* What has been written stays written for the same walk.                    *)
LEMMA FollowsSame ==
  ASSUME UNCHANGED <<links, at_sibling>>, UNCHANGED di_offset, NEW s, NEW A, Follows(s, A)
  PROVE  Follows(s, A)'
<1>1. di_child' = di_child /\ at_sibling' = at_sibling /\ di_offset' = di_offset
  BY DEF links
<1>2. ASSUME NEW k PROVE WrittenFor(k)' = WrittenFor(k)
  BY <1>1 DEF WrittenFor, Size, NullEntry
<1> QED BY <1>2 DEF Follows

LEMMA Pass2Walks ==
  ASSUME PTypes, Pass2, NEW T, NEW B, Pass2Done(T, B)
  PROVE  ppc' \in {"pass2", "climb2"} /\ \E A : Pass2Done(T, A)'
<1>1. /\ AtDie(B, curdie, nwritten) /\ Told(T) /\ Complete(T) /\ Follows(written, B)
      /\ die_off = After(T[Len(T)]) /\ curdie \in Dies /\ LinkTypes /\ nwritten \in Nat
      /\ B \in Seq(Keys)
  BY DEF Pass2, Pass2Done, PTypes, PassTypes, AtDie
<1>2. PICK k : k = DieKey(curdie, nwritten)
  OBVIOUS
<1>3. PICK A : A = Append(B, k)
  OBVIOUS
<1>4. k \in Keys /\ k.at = curdie /\ k.null = FALSE /\ k.off = nwritten
  <2>1. k \in Keys
    BY <1>1, <1>2, KeyTypes
  <2> QED BY <1>2, <2>1 DEF DieKey
<1>5. PICK e : e = [off |-> nwritten, size |-> Size(curdie), null |-> FALSE,
                    children |-> di_child[curdie] # NULL, die |-> curdie,
                    sibling |-> IF at_sibling[curdie] = NULL THEN NoSibling
                                ELSE di_offset[at_sibling[curdie]]]
  OBVIOUS
<1>6. written' = Append(written, e) /\ nwritten' = nwritten + Size(curdie)
      /\ die_off' = die_off /\ di_offset' = di_offset
  BY <1>5 DEF Pass2, Write
<1>7. e = WrittenFor(k)
  BY <1>4, <1>5 DEF WrittenFor
<1>8. e \in Entries
  <2>1. (IF at_sibling[curdie] = NULL THEN NoSibling ELSE di_offset[at_sibling[curdie]])
          \in Nat \cup {NoSibling}
    <3>1. at_sibling[curdie] \in Dies \cup {NULL} /\ di_offset \in [Dies -> Nat]
      BY <1>1 DEF PTypes, SiblingTypes
    <3> QED BY <3>1
  <2>2. Size(curdie) \in Nat \ {0}
    BY <1>1, SizeIs
  <2>3. (di_child[curdie] # NULL) \in BOOLEAN
    OBVIOUS
  <2> QED BY <1>1, <1>5, <2>1, <2>2, <2>3 DEF Entries
<1>9. Follows(written', A)
  BY <1>1, <1>3, <1>4, <1>6, <1>7, <1>8, FollowsGrows
<1>10. Follows(written, A)'
  BY <1>6, <1>9, StepKeepsWay, FollowsSame DEF Follows
<1>11. Complete(T)' /\ Told(T)' /\ die_off' = After(T[Len(T)])'
  <2>1. Complete(T)'
    BY <1>1, StepKeepsWay, SameWay
  <2>2. Told(T)'
    BY <1>1, <1>6, ToldSame
  <2>3. After(T[Len(T)])' = After(T[Len(T)])
    BY StepKeepsWay, SameWay
  <2> QED BY <1>1, <1>6, <2>1, <2>2, <2>3
<1>12. CASE di_child[curdie] # NULL
  <2>1. AtDie(A, di_child[curdie], nwritten + Size(curdie))
    BY <1>1, <1>2, <1>3, <1>12, WalkDown
  <2>2. curdie' = di_child[curdie] /\ ppc' = "pass2"
    BY <1>12 DEF Pass2, Down
  <2>3. AtDie(A, curdie', nwritten')
    BY <1>6, <2>1, <2>2
  <2>4. AtDie(A, curdie, nwritten)'
    BY <2>3, StepKeepsWay, SameWay DEF AtDie
  <2> QED BY <1>10, <1>11, <2>2, <2>4 DEF Pass2Done
<1>13. CASE di_child[curdie] = NULL
  <2>1. AtClimb(A, curdie, nwritten + Size(curdie))
    BY <1>1, <1>2, <1>3, <1>13, WalkDown
  <2>2. curdie' = curdie /\ ppc' = "climb2"
    BY <1>13 DEF Pass2, Down
  <2>3. AtClimb(A, curdie', nwritten')
    BY <1>6, <2>1, <2>2
  <2>4. AtClimb(A, curdie, nwritten)'
    BY <2>3, StepKeepsWay, SameWay DEF AtClimb
  <2> QED BY <1>10, <1>11, <2>2, <2>4 DEF Pass2Done
<1> QED BY <1>12, <1>13
LEMMA Climb2Walks ==
  ASSUME PTypes, Climb2, NEW T, NEW A, Pass2Done(T, A)
  PROVE  \/ ppc' \in {"pass2", "climb2"} /\ \E B : Pass2Done(T, B)'
         \/ ppc' = "done" /\ AllDone(A)'
<1>1. /\ AtClimb(A, curdie, nwritten) /\ Told(T) /\ Complete(T) /\ Follows(written, A)
      /\ die_off = After(T[Len(T)]) /\ LinkTypes /\ nwritten \in Nat
      /\ Trail(A) /\ A \in Seq(Keys)
  BY DEF Climb2, Pass2Done, PTypes, AtClimb, Trail
<1>2. di_offset' = di_offset /\ die_off' = die_off
  BY DEF Climb2
<1>3. Complete(T)' /\ Told(T)' /\ die_off' = After(T[Len(T)])'
  <2>1. Complete(T)'
    BY <1>1, StepKeepsWay, SameWay
  <2>2. Told(T)'
    BY <1>1, <1>2, ToldSame
  <2>3. After(T[Len(T)])' = After(T[Len(T)])
    BY StepKeepsWay, SameWay
  <2> QED BY <1>1, <1>2, <2>1, <2>2, <2>3
<1>4. CASE curdie # NULL /\ di_right[curdie] = NULL
  <2>1. PICK k : k = NullKey(di_parent[curdie], nwritten)
    OBVIOUS
  <2>2. k \in Keys /\ k.null = TRUE /\ k.off = nwritten
    <3>1. k \in Keys
      BY <1>1, <1>4, <2>1, WalkUp
    <3> QED BY <2>1, <3>1 DEF NullKey
  <2>3. PICK B : B = Append(A, k)
    OBVIOUS
  <2>4. AtClimb(B, di_parent[curdie], nwritten + 1)
    BY <1>1, <1>4, <2>1, <2>3, WalkUp
  <2>5. PICK e : e = NullEntry(nwritten)
    OBVIOUS
  <2>6. curdie' = di_parent[curdie] /\ ppc' = "climb2" /\ nwritten' = nwritten + 1
        /\ written' = Append(written, e)
    BY <1>4, <2>5 DEF Climb2, Climbing, Write, NullEntry
  <2>7. e \in Entries /\ e = WrittenFor(k)
    BY <1>1, <2>2, <2>5 DEF WrittenFor, NullEntry, Entries
  <2>8. Follows(written', B)
    BY <1>1, <2>2, <2>3, <2>6, <2>7, FollowsGrows
  <2>9. Follows(written, B)'
    BY <1>2, <2>8, StepKeepsWay, FollowsSame DEF Follows
  <2>10. AtClimb(B, curdie', nwritten')
    BY <2>4, <2>6
  <2>11. AtClimb(B, curdie, nwritten)'
    BY <2>10, StepKeepsWay, SameWay DEF AtClimb
  <2> QED BY <1>3, <2>6, <2>9, <2>11 DEF Pass2Done
<1>5. CASE curdie # NULL /\ di_right[curdie] # NULL
  <2>1. AtDie(A, di_right[curdie], nwritten)
    BY <1>1, <1>5, WalkUp
  <2>2. curdie' = di_right[curdie] /\ ppc' = "pass2" /\ nwritten' = nwritten
        /\ written' = written
    BY <1>5 DEF Climb2, Climbing
  <2>3. AtDie(A, curdie', nwritten')
    BY <2>1, <2>2
  <2>4. AtDie(A, curdie, nwritten)'
    BY <2>3, StepKeepsWay, SameWay DEF AtDie
  <2>5. Follows(written, A)'
    BY <1>1, <1>2, <2>2, StepKeepsWay, FollowsSame DEF Follows
  <2> QED BY <1>3, <2>2, <2>4, <2>5 DEF Pass2Done
<1>6. CASE curdie = NULL
  <2>1. ppc' = "done" /\ length' = die_off - LengthSize /\ nwritten' = nwritten
        /\ written' = written
    BY <1>6 DEF Climb2, Climbing
  <2>2. Complete(A) /\ nwritten = After(A[Len(A)])
    BY <1>1, <1>6 DEF Complete, AtClimb
  <2>3. Len(A) = Len(T) /\ \A i \in 1..Len(A) : A[i] = T[i]
    <3>1. Len(A) <= Len(T) /\ \A i \in 1..Len(A) : A[i] = T[i]
      BY <1>1, OneWay
    <3>2. Len(T) <= Len(A)
      BY <1>1, <2>2, OneWay DEF Complete
    <3>3. Len(A) \in Nat /\ Len(T) \in Nat
      BY <1>1, TrailTypes DEF Complete
    <3> QED BY <3>1, <3>2, <3>3
  <2>4. A[Len(A)] = T[Len(T)]
    <3>1. Len(A) \in 1..Len(A)
      BY <1>1, TrailTypes
    <3> QED BY <2>3, <3>1
  <2>5. nwritten = die_off /\ die_off \in Nat
    BY <1>1, <2>2, <2>4 DEF PTypes
  <2>6. Told(A)
    BY <1>1, <2>3 DEF Told
  <2>7. Complete(A)' /\ Told(A)' /\ Follows(written, A)'
    <3>1. Complete(A)'
      BY <2>2, StepKeepsWay, SameWay
    <3>2. Told(A)'
      BY <1>2, <2>6, ToldSame
    <3>3. Follows(written, A)'
      BY <1>1, <1>2, <2>1, StepKeepsWay, FollowsSame DEF Follows
    <3> QED BY <3>1, <3>2, <3>3
  <2>8. die_off' = After(A[Len(A)])'
    <3>1. After(A[Len(A)])' = After(A[Len(A)])
      BY StepKeepsWay, SameWay
    <3> QED BY <1>2, <2>2, <2>5, <3>1
  <2>9. nwritten' = die_off' /\ nwritten' = length' + LengthSize
    BY <1>2, <2>1, <2>5 DEF LengthSize
  <2>10. AllDone(A)'
    BY <2>7, <2>8, <2>9 DEF AllDone, LengthSize
  <2> QED BY <2>1, <2>10
<1> QED BY <1>4, <1>5, <1>6

LEMMA WalkStays ==
  ASSUME WalkInv, UNCHANGED pvars
  PROVE  WalkInv'
<1>1. /\ UNCHANGED <<links, at_sibling>> /\ di_offset' = di_offset /\ ppc' = ppc
      /\ curdie' = curdie /\ die_off' = die_off /\ nwritten' = nwritten /\ length' = length
      /\ written' = written /\ unsafe' = unsafe
  BY DEF pvars, asked
<1>3. Counted'
  <2>1. ASSUME NEW T, Pass1Done(T) PROVE Pass1Done(T)'
    <3>1. Told(T)'
      BY <1>1, <2>1, ToldSame DEF Pass1Done
    <3>2. (ppc = "pass1" => AtDie(T, curdie, die_off))'
      BY <1>1, <2>1, SameWay DEF Pass1Done, AtDie
    <3>3. (ppc = "climb1" => AtClimb(T, curdie, die_off))'
      BY <1>1, <2>1, SameWay DEF Pass1Done, AtClimb
    <3> QED BY <3>1, <3>2, <3>3 DEF Pass1Done
  <2> QED BY <1>1, <2>1 DEF WalkInv, Counted
<1>4. Wrote'
  <2>1. ASSUME NEW T, NEW A, Pass2Done(T, A) PROVE Pass2Done(T, A)'
    <3>1. Told(T)' /\ Complete(T)'
      BY <1>1, <2>1, ToldSame, SameWay DEF Pass2Done
    <3>2. die_off' = After(T[Len(T)])'
      BY <1>1, <2>1, SameWay DEF Pass2Done
    <3>3. Follows(written, A)'
      BY <1>1, <2>1, FollowsSame DEF Pass2Done, Follows
    <3>4. (ppc = "pass2" => AtDie(A, curdie, nwritten))'
      BY <1>1, <2>1, SameWay DEF Pass2Done, AtDie
    <3>5. (ppc = "climb2" => AtClimb(A, curdie, nwritten))'
      BY <1>1, <2>1, SameWay DEF Pass2Done, AtClimb
    <3> QED BY <3>1, <3>2, <3>3, <3>4, <3>5 DEF Pass2Done
  <2> QED BY <1>1, <2>1 DEF WalkInv, Wrote
<1>5. IsDone'
  <2>1. ASSUME NEW T, AllDone(T) PROVE AllDone(T)'
    <3>1. Told(T)' /\ Complete(T)'
      BY <1>1, <2>1, ToldSame, SameWay DEF AllDone
    <3>2. die_off' = After(T[Len(T)])'
      BY <1>1, <2>1, SameWay DEF AllDone
    <3>3. Follows(written, T)'
      BY <1>1, <2>1, FollowsSame DEF AllDone, Follows
    <3>4. nwritten' = die_off' /\ nwritten' = length' + LengthSize
      BY <1>1, <2>1 DEF AllDone
    <3> QED BY <3>1, <3>2, <3>3, <3>4 DEF AllDone, LengthSize
  <2> QED BY <1>1, <2>1 DEF WalkInv, IsDone
<1> QED BY <1>3, <1>4, <1>5 DEF WalkInv

LEMMA WalkKept ==
  ASSUME PTypes, ForestInv, WalkInv, [Next]_vars
  PROVE  WalkInv'
<1>1. CASE Pass0
  BY <1>1, Pass0Walks DEF WalkInv, Counted, Wrote, IsDone
<1>2. CASE Pass1 \/ Climb1 \/ Pass2 \/ Climb2
  <2>1. SUFFICES (Counted /\ Wrote /\ IsDone)'
    BY DEF WalkInv
  <2>2. Counted /\ Wrote
    BY DEF WalkInv
  <2>3. Forest /\ Traced /\ Root \in made
    <3>1. ppc \in Walking
      BY <1>2 DEF Pass1, Climb1, Pass2, Climb2, Walking
    <3> QED BY <3>1 DEF ForestInv, PTypes, PassTypes, Walking
  <2>4. CASE Pass1
    <3>1. PICK T : Pass1Done(T)
      BY <2>2, <2>4 DEF Counted, Pass1
    <3>2. ppc' \in {"pass1", "climb1"} /\ \E A : Pass1Done(A)'
      BY <2>3, <2>4, <3>1, Pass1Walks
    <3> QED BY <3>2 DEF Counted, Wrote, IsDone
  <2>5. CASE Climb1
    <3>1. PICK T : Pass1Done(T)
      BY <2>2, <2>5 DEF Counted, Climb1
    <3>2. \/ ppc' \in {"pass1", "climb1"} /\ \E A : Pass1Done(A)'
          \/ ppc' = "pass2" /\ \E A : Pass2Done(A, <<>>)'
      BY <2>3, <2>5, <3>1, Climb1Walks
    <3> QED BY <3>2 DEF Counted, Wrote, IsDone
  <2>6. CASE Pass2
    <3>1. PICK T, B : Pass2Done(T, B)
      BY <2>2, <2>6 DEF Wrote, Pass2
    <3>2. ppc' \in {"pass2", "climb2"} /\ \E A : Pass2Done(T, A)'
      BY <2>6, <3>1, Pass2Walks
    <3> QED BY <3>2 DEF Counted, Wrote, IsDone
  <2>7. CASE Climb2
    <3>1. PICK T, A : Pass2Done(T, A)
      BY <2>2, <2>7 DEF Wrote, Climb2
    <3>2. \/ ppc' \in {"pass2", "climb2"} /\ \E B : Pass2Done(T, B)'
          \/ ppc' = "done" /\ AllDone(A)'
      BY <2>7, <3>1, Climb2Walks
    <3> QED BY <3>2 DEF Counted, Wrote, IsDone
  <2> QED BY <1>2, <2>4, <2>5, <2>6, <2>7
<1>3. CASE ppc' \in {"build", "abandoned", "foreign"}
  BY <1>3 DEF WalkInv, Counted, Wrote, IsDone
<1>4. CASE UNCHANGED pvars
  BY <1>4, WalkStays
<1>5. CASE UNCHANGED vars
  BY <1>4, <1>5 DEF vars
<1>6. CASE ReadOwn \/ ReadForeign
  BY <1>4, <1>6 DEF ReadOwn, ReadForeign
<1>7. CASE BeginForeign
  BY <1>3, <1>7 DEF BeginForeign
<1>8. CASE ForeignNull \/ \E children, with_sibling \in BOOLEAN : ForeignDie(children, with_sibling)
  BY <1>3, <1>8 DEF ForeignNull, ForeignDie, WriteForeign, Foreign
<1>9. CASE \E d \in Dies : NewDie(d)
  BY <1>3, <1>9 DEF NewDie
<1>10. CASE \E d \in made, place \in {"parent", "child", "left", "right"}, n \in made :
              Link(d, place, n) \/ LinkRefused(d, place, n)
  <2>1. ppc' \in {"build", "abandoned", "foreign"}
    <3>1. ASSUME NEW d, NEW place, NEW n, Link(d, place, n)
          PROVE  ppc' = "build"
      BY <3>1 DEF Link
    <3>2. ASSUME NEW d, NEW place, NEW n, LinkRefused(d, place, n)
          PROVE  ppc' = "abandoned"
      BY <3>2 DEF LinkRefused
    <3> QED BY <1>10, <3>1, <3>2
  <2> QED BY <1>3, <2>1
<1> QED BY <1>1, <1>2, <1>4, <1>5, <1>6, <1>7, <1>8, <1>9, <1>10 DEF Next, ProducerNext
-------------------------------------------------------------------------------
(* Nothing is written before the second pass, and no DIE of a CU from          *)
(* elsewhere is one of the producer's.                                      *)
WrittenInv ==
  /\ ppc \in {"build", "abandoned", "pass1", "climb1"} => written = <<>>
  /\ ppc = "foreign" => \A i \in DOMAIN written : written[i].die = NULL

LEMMA WrittenKept ==
  ASSUME WrittenInv, [Next]_vars
  PROVE  WrittenInv'
<1>1. CASE \E d \in Dies : NewDie(d)
  BY <1>1 DEF NewDie, WrittenInv
<1>2. ASSUME NEW d, NEW place, NEW n, Link(d, place, n) \/ LinkRefused(d, place, n)
      PROVE  WrittenInv'
  <2>1. written' = written /\ ppc = "build" /\ ppc' # "foreign"
    BY <1>2 DEF Link, LinkRefused
  <2> QED BY <2>1 DEF WrittenInv
<1>3. CASE Pass0
  BY <1>3 DEF Pass0, WrittenInv
<1>4. CASE Pass1
  BY <1>4 DEF Pass1, Down, WrittenInv
<1>5. CASE Climb1
  BY <1>5 DEF Climb1, WrittenInv
<1>6. CASE Pass2 \/ Climb2
  <2>1. ppc' \in {"pass2", "climb2", "done"}
    BY <1>6 DEF Pass2, Climb2, Down
  <2> QED BY <2>1 DEF WrittenInv
<1>7. CASE BeginForeign
  BY <1>7 DEF BeginForeign, WrittenInv
<1>8. ASSUME NEW e, e.die = NULL, WriteForeign(e)
      PROVE  WrittenInv'
  <2>1. ppc = "foreign" /\ ppc' = ppc /\ written' = Append(written, e)
    BY <1>8 DEF WriteForeign, Foreign, Write
  <2>2. \A i \in DOMAIN written : written[i].die = NULL
    BY <2>1 DEF WrittenInv
  <2>3. \A i \in DOMAIN written' : written'[i].die = NULL
    BY <1>8, <2>1, <2>2
  <2> QED BY <2>1, <2>3 DEF WrittenInv
<1>9. CASE ForeignNull
  BY <1>8, <1>9 DEF ForeignNull, NullEntry
<1>10. ASSUME NEW children \in BOOLEAN, NEW with_sibling \in BOOLEAN,
              ForeignDie(children, with_sibling)
       PROVE  WrittenInv'
  <2>1. PICK e : e = [off |-> nwritten, size |-> IF with_sibling THEN 1 + RefSize ELSE 1,
                      null |-> FALSE, children |-> children, die |-> NULL,
                      sibling |-> IF with_sibling THEN 0 ELSE NoSibling]
    OBVIOUS
  <2>2. e.die = NULL /\ WriteForeign(e)
    BY <1>10, <2>1 DEF ForeignDie
  <2> QED BY <1>8, <2>2
<1>11. CASE UNCHANGED pvars
  BY <1>11 DEF pvars, WrittenInv
<1>12. CASE UNCHANGED vars
  BY <1>11, <1>12 DEF vars
<1>13. CASE ReadOwn \/ ReadForeign
  BY <1>11, <1>13 DEF ReadOwn, ReadForeign
<1> QED BY <1>1, <1>2, <1>3, <1>4, <1>5, <1>6, <1>7, <1>9, <1>10, <1>11, <1>12, <1>13
        DEF Next, ProducerNext

-------------------------------------------------------------------------------
(* The reader, whosever the CU is.                                          *)
AtRest ==
  /\ rpc # "sibling" => die_info_ptr = 0 /\ child_depth = 0
  /\ rpc = "closed" => die = 0 /\ die_info_end = 0

AnyReader ==
  /\ ReaderInv /\ AtRest
  /\ rpc # "closed" => ppc \in {"foreign", "done"}

(* The CU the producer has written is one that a reader can make something of. *)
LEMMA OwnWellFormed ==
  ASSUME PTypes, ForestInv, WalkInv, ppc = "done", ~unsafe
  PROVE  WellFormed(written, length + LengthSize)
<1>1. Forest /\ Linked /\ Root \in made /\ SiblingIsRight /\ nwritten \in Nat
  BY DEF ForestInv, PTypes, PassTypes, SiblingTypes, Walking
<1>2. PICK T : AllDone(T)
  BY DEF WalkInv, IsDone
<1>3. Complete(T) /\ Told(T) /\ Follows(written, T)
      /\ nwritten = length + LengthSize /\ nwritten = After(T[Len(T)])
  BY <1>2 DEF AllDone
<1>4. PICK end : end = length + LengthSize
  OBVIOUS
<1>5. WellFormed(written, end)
  BY <1>1, <1>3, <1>4, FollowsWellFormed
<1> QED BY <1>4, <1>5

LEMMA ReaderRest ==
  ASSUME AtRest, Reader!ReaderNext
  PROVE  AtRest'
<1>1. ASSUME NEW call, NEW outcome, NEW off, Reader!Return(call, outcome, off)
      PROVE  AtRest'
  BY <1>1 DEF Reader!Return, AtRest
<1>2. CASE Reader!SiblingCall
  BY <1>2 DEF Reader!SiblingCall, AtRest
<1>3. CASE Reader!SiblingTurn
  BY <1>1, <1>3 DEF Reader!SiblingTurn, Reader!MakeDie, AtRest
<1>4. CASE Reader!SiblingFails
  BY <1>1, <1>4 DEF Reader!SiblingFails
<1>5. CASE Reader!Child
  BY <1>1, <1>5 DEF Reader!Child, Reader!MakeDie
<1> QED BY <1>2, <1>3, <1>4, <1>5 DEF Reader!ReaderNext

LEMMA OpenRests ==
  ASSUME AtRest, NEW s, NEW end, Reader!Open(s, end)
  PROVE  AtRest'
BY DEF AtRest, Reader!Open

LEMMA AnyReaderKept ==
  ASSUME PTypes, ForestInv, WalkInv, IInv, AnyReader, [Next]_vars
  PROVE  AnyReader'
<1>1. ASSUME UNCHANGED rvars, ppc \in {"foreign", "done"} => ppc' = ppc
      PROVE  AnyReader'
  <2>1. ReaderInv'
    BY <1>1, ReaderStays DEF AnyReader
  <2> QED BY <1>1, <2>1 DEF AnyReader, AtRest, rvars
<1>2. CASE ProducerNext /\ UNCHANGED rvars
  <2>1. ASSUME NEW d, NEW place, NEW n, Link(d, place, n) \/ LinkRefused(d, place, n)
        PROVE  ppc = "build"
    BY <2>1 DEF Link, LinkRefused
  <2>2. ppc \notin {"foreign", "done"}
    BY <1>2, <2>1 DEF ProducerNext, NewDie, Pass0, Pass1, Climb1, Pass2, Climb2
  <2> QED BY <1>1, <1>2, <2>2
<1>3. CASE ReadOwn
  <2>1. /\ ppc = "done" /\ ~unsafe /\ ppc' = ppc /\ rpc = "closed"
        /\ Reader!Open(written, length + LengthSize)
    BY <1>3 DEF ReadOwn, pvars, Reader!Open
  <2>2. WellFormed(written, length + LengthSize)
    BY <2>1, OwnWellFormed
  <2>3. result = Reader!NoCall /\ AtRest
    BY <2>1 DEF AnyReader, ReaderInv
  <2>4. ReaderInv'
    BY <2>1, <2>2, <2>3, OpenRight
  <2>5. AtRest'
    BY <2>1, <2>3, OpenRests
  <2> QED BY <2>1, <2>4, <2>5 DEF AnyReader
<1>4. CASE ReadForeign
  <2>1. ppc = "foreign" /\ ppc' = ppc /\ Reader!Open(FilledIn, nwritten)
    BY <1>4 DEF ReadForeign, Foreign, FilledIn, pvars
  <2>2. ReaderInv'
    BY <2>1, ForeignRight DEF ForeignInv
  <2>3. AtRest'
    BY <2>1, OpenRests DEF AnyReader
  <2> QED BY <2>1, <2>2, <2>3 DEF AnyReader
<1>5. CASE BeginForeign
  BY <1>1, <1>5 DEF BeginForeign
<1>6. CASE ForeignNull \/ \E children, with_sibling \in BOOLEAN : ForeignDie(children, with_sibling)
  BY <1>1, <1>6 DEF ForeignNull, ForeignDie, WriteForeign
<1>7. CASE Reader!ReaderNext /\ UNCHANGED pvars
  <2>1. ReaderInv /\ AtRest
    BY DEF AnyReader
  <2>2. ReaderInv' /\ AtRest'
    BY <1>7, <2>1, ReaderSteps, ReaderRest
  <2>3. rpc # "closed" /\ ppc' = ppc
    BY <1>7, <2>1, ReaderActs DEF pvars
  <2> QED BY <2>2, <2>3 DEF AnyReader
<1>8. CASE UNCHANGED vars
  BY <1>1, <1>8 DEF vars, pvars
<1> QED BY <1>2, <1>3, <1>4, <1>5, <1>6, <1>7, <1>8 DEF Next

LEMMA ReaderTypes ==
  ASSUME AnyReader
  PROVE  die \in Nat /\ die_info_ptr \in Nat /\ child_depth \in Nat /\ die_info_end \in Nat
<1>1. CASE rpc = "closed"
  BY <1>1 DEF AnyReader, AtRest
<1>2. CASE rpc # "closed"
  <2>1. WellFormed(section, die_info_end) /\ \E i \in Nat : DieIsAt(i)
    BY <1>2 DEF AnyReader, ReaderInv
  <2>2. section \in Seq(Entries) /\ die_info_end \in Nat
    BY <2>1 DEF WellFormed, Contiguous
  <2>3. ASSUME NEW i \in 1..Len(section) PROVE section[i].off \in Nat
    <3>1. section[i] \in Entries
      BY <2>2
    <3> QED BY <3>1 DEF Entries
  <2>4. die \in Nat
    BY <2>1, <2>3 DEF DieIsAt
  <2>5. CASE rpc # "sibling"
    BY <2>2, <2>4, <2>5 DEF AnyReader, AtRest
  <2>6. CASE rpc = "sibling"
    <3>1. PICK i \in Nat, x \in Nat : Looking(section, i, x, child_depth)
                                      /\ die_info_ptr = section[x].off
      BY <2>6 DEF AnyReader, ReaderInv
    <3>2. i \in 1..Len(section) /\ x \in 1..Len(section) /\ Len(section) \in Nat
      BY <2>2, <3>1 DEF Looking
    <3>3. Level(section)[i] \in Int /\ Level(section)[x] \in Int
      <4>1. i \in 1..(Len(section) + 1) /\ x \in 1..(Len(section) + 1)
        BY <3>2
      <4> QED BY <3>2, <4>1, LevelInt
    <3>4. child_depth \in Nat
      BY <3>1, <3>3 DEF Looking
    <3> QED BY <2>2, <2>3, <2>4, <3>1, <3>2, <3>4
  <2> QED BY <2>5, <2>6
<1> QED BY <1>1, <1>2
-------------------------------------------------------------------------------
(* What the producer writes.                                                *)

LEMMA ToldWritten ==
  ASSUME NEW A, Follows(written, A), Told(A)
  PROVE  \A i \in DOMAIN written :
           written[i].die # NULL => written[i].off = di_offset[written[i].die]
<1>1. DOMAIN written = 1..Len(A)
  BY DEF Follows
<1>2. ASSUME NEW i \in 1..Len(A), written[i].die # NULL
      PROVE  written[i].off = di_offset[written[i].die]
  <2>1. WrittenIs(written[i], A[i])
    BY WrittenForIs DEF Follows
  <2>2. ~A[i].null
    BY <1>2, <2>1 DEF WrittenIs
  <2> QED BY <2>1, <2>2 DEF WrittenIs, Told
<1> QED BY <1>1, <1>2

(* Pass 2 has told what pass 1 did, as far as it is.                         *)
LEMMA ToldSoFar ==
  ASSUME NEW T, NEW A, Pass2Done(T, A), ppc \in {"pass2", "climb2"}
  PROVE  Told(A)
<1>1. Complete(T) /\ Told(T)
  BY DEF Pass2Done
<1>2. CASE ppc = "climb2"
  <2>1. Trail(A)
    BY <1>2 DEF Pass2Done, AtClimb
  <2>2. Len(A) <= Len(T) /\ \A i \in 1..Len(A) : A[i] = T[i]
    BY <1>1, <2>1, OneWay
  <2>3. Len(A) \in Nat /\ Len(T) \in Nat
    BY <1>1, <2>1, TrailTypes DEF Complete
  <2> QED BY <1>1, <2>2, <2>3 DEF Told
<1>3. CASE ppc = "pass2"
  <2>1. PICK U : U = Append(A, DieKey(curdie, nwritten))
    OBVIOUS
  <2>2. AtDie(A, curdie, nwritten)
    BY <1>3 DEF Pass2Done
  <2>3. Trail(U) /\ A \in Seq(Keys)
    BY <2>1, <2>2 DEF AtDie
  <2>4. Len(U) = Len(A) + 1 /\ Len(A) \in Nat /\ \A i \in 1..Len(A) : U[i] = A[i]
    BY <2>1, <2>3
  <2>5. Len(U) <= Len(T) /\ \A i \in 1..Len(U) : U[i] = T[i]
    BY <1>1, <2>3, OneWay
  <2>6. Len(T) \in Nat
    BY <1>1, TrailTypes DEF Complete
  <2>7. ASSUME NEW i \in 1..Len(A) PROVE i \in 1..Len(T) /\ A[i] = T[i]
    BY <2>4, <2>5, <2>6
  <2> QED BY <1>1, <2>7 DEF Told
<1> QED BY <1>2, <1>3

Inv == PTypes /\ ForestInv /\ WalkInv /\ WrittenInv /\ IInv /\ AnyReader

LEMMA WriterRight ==
  ASSUME Inv
  PROVE  WriterIsRight
<1>1. \A i \in DOMAIN written :
        written[i].die # NULL => written[i].off = di_offset[written[i].die]
  <2>1. CASE ppc \in {"build", "abandoned", "pass1", "climb1"}
    <3>1. DOMAIN written = {}
      BY <2>1 DEF Inv, WrittenInv
    <3> QED BY <3>1
  <2>2. CASE ppc = "foreign"
    BY <2>2 DEF Inv, WrittenInv
  <2>3. CASE ppc \in {"pass2", "climb2"}
    <3>1. PICK T, A : Pass2Done(T, A)
      BY <2>3 DEF Inv, WalkInv, Wrote
    <3>2. Told(A) /\ Follows(written, A)
      BY <2>3, <3>1, ToldSoFar DEF Pass2Done
    <3> QED BY <3>2, ToldWritten
  <2>4. CASE ppc = "done"
    <3>1. PICK T : AllDone(T)
      BY <2>4 DEF Inv, WalkInv, IsDone
    <3> QED BY <3>1, ToldWritten DEF AllDone
  <2> QED BY <2>1, <2>2, <2>3, <2>4 DEF Inv, PTypes, Walking
<1>2. ASSUME ppc = "done"
      PROVE  nwritten = length + LengthSize
  BY <1>2 DEF Inv, WalkInv, IsDone, AllDone
<1>3. ASSUME ppc = "done", ~unsafe
      PROVE  /\ AsLinked
             /\ \A i \in DOMAIN written : written[i].sibling # NoSibling =>
                  \E j \in DOMAIN written : /\ written[j].off = written[i].sibling
                                           /\ written[j].die = di_right[written[i].die]
  <2>1. Forest /\ Linked /\ Root \in made /\ SiblingIsRight
    BY <1>3 DEF Inv, ForestInv, PTypes, PassTypes, SiblingTypes, Walking
  <2>2. PICK T : AllDone(T)
    BY <1>3 DEF Inv, WalkInv, IsDone
  <2>3. Complete(T) /\ Told(T) /\ Follows(written, T) /\ nwritten = length + LengthSize
    BY <2>2 DEF AllDone
  <2>4. AsLinked
    BY <2>1, <2>3, FollowsAsLinked
  <2>5. DOMAIN written = 1..Len(written) /\ Len(written) \in Nat
    BY <2>3 DEF Follows
  <2>6. ASSUME NEW i \in 1..Len(written), written[i].sibling # NoSibling
        PROVE  \E j \in 1..Len(written) : /\ written[j].off = written[i].sibling
                                          /\ written[j].die = di_right[written[i].die]
    <3>1. \E j \in (i + 1)..Len(written) :
            /\ First(written, i, j) /\ written[j].off = written[i].sibling
            /\ written[i].die # NULL /\ written[j].die = di_right[written[i].die]
      BY <2>1, <2>3, <2>6, SiblingLeads
    <3>2. (i + 1)..Len(written) \subseteq 1..Len(written)
      BY <2>5
    <3> QED BY <3>1, <3>2
  <2> QED BY <2>4, <2>5, <2>6
<1>4. OffsetsAgree
  BY <1>1, <1>2, <1>3 DEF OffsetsAgree
<1>5. SafeLinksAreWritten
  BY <1>3 DEF SafeLinksAreWritten
<1> QED BY <1>4, <1>5 DEF WriterIsRight

LEMMA InitRight ==
  ASSUME Init
  PROVE  Inv
<1>1. /\ ppc = "build" /\ made = {} /\ rows = {} /\ beside = {} /\ unsafe = FALSE
      /\ written = <<>> /\ die_off = 0 /\ nwritten = 0 /\ length = 0 /\ curdie = NULL
      /\ di_offset = [d \in Dies |-> 0] /\ at_sibling = [d \in Dies |-> NULL]
      /\ under = [d \in Dies |-> NULL] /\ di_parent = [d \in Dies |-> NULL]
      /\ di_child = [d \in Dies |-> NULL] /\ di_last_child = [d \in Dies |-> NULL]
      /\ di_left = [d \in Dies |-> NULL] /\ di_right = [d \in Dies |-> NULL]
  BY DEF Init, ProducerInit
<1>2. /\ rpc = "closed" /\ die = 0 /\ die_info_ptr = 0 /\ child_depth = 0 /\ die_info_end = 0
      /\ result = Reader!NoCall
  BY DEF Init, Reader!ReaderInit
<1>3. LinkTypes
  BY <1>1 DEF LinkTypes
<1>4. SiblingTypes /\ PassTypes
  BY <1>1 DEF SiblingTypes, SiblingIsRight, NoSiblings, PassTypes, Walking
<1>5. PTypes
  BY <1>1, <1>3, <1>4 DEF PTypes
<1>6. Forest
  BY <1>1, DieTypes DEF Forest, InOne
<1>7. Linked
  BY <1>1 DEF Linked
<1>11. Traced
  BY <1>1 DEF Traced, RightBack, LeftBefore, ChildUnder, ParentUnder
<1>8. WalkInv
  BY <1>1 DEF WalkInv, Counted, Wrote, IsDone
<1>9. IInv /\ WrittenInv
  BY <1>1, <1>2 DEF IInv, BuildInv, WrittenInv
<1>10. AnyReader
  BY <1>2 DEF AnyReader, ReaderInv, AtRest, CallIsRight, Reader!NoCall
<1> QED BY <1>5, <1>6, <1>7, <1>11, <1>8, <1>9, <1>10 DEF Inv, ForestInv

LEMMA InvKept ==
  ASSUME Inv, [Next]_vars
  PROVE  Inv'
<1>1. PTypes /\ ForestInv /\ WalkInv /\ WrittenInv /\ IInv /\ AnyReader
  BY DEF Inv
<1>2. PTypes' /\ ForestInv' /\ WalkInv' /\ WrittenInv' /\ AnyReader'
  BY <1>1, TypesKept, ForestKept, WalkKept, WrittenKept, AnyReaderKept
<1>3. IInv'
  BY <1>1, BuildRight, ForeignRight DEF IInv
<1> QED BY <1>2, <1>3 DEF Inv

(* Inv is inductive: the DIEs stay the lists that were linked, what a pass has   *)
(* done is the first part of the one trail, and the reader stays in the CU.     *)
THEOREM Invariance == Spec => []Inv
BY InitRight, InvKept, PTL DEF Spec

(* The pointers are DIEs or NULL, wherever the producer and the reader are.    *)
THEOREM TypesAlwaysOK == Spec => []TypeOK
<1>1. Inv => TypeOK
  <2> SUFFICES ASSUME Inv PROVE TypeOK
    OBVIOUS
  <2>1. die \in Nat /\ die_info_ptr \in Nat /\ child_depth \in Nat /\ die_info_end \in Nat
    BY ReaderTypes DEF Inv
  <2>2. rpc \in {"closed", "idle", "sibling"}
    BY DEF Inv, AnyReader, ReaderInv
  <2> QED BY <2>1, <2>2 DEF TypeOK, Inv, PTypes, LinkTypes, SiblingTypes, Walking
<1> QED BY <1>1, Invariance, PTL

(* In every CU, of any length and whoever wrote it, dwarf_siblingof() and      *)
(* dwarf_child() give the neighbours that the nesting of the entries says, and *)
(* the loop of dwarf_siblingof() does not leave the CU.                      *)
THEOREM ReaderFindsItsWay == Spec => []ReaderIsRight
<1>1. Inv => ReaderIsRight
  BY ReaderIsIt DEF Inv, AnyReader
<1> QED BY <1>1, Invariance, PTL

(* The two passes of the producer agree about every offset and about the       *)
(* length, whatever calls have linked the DIEs; and unless one has lost DIEs,    *)
(* each DW_AT_sibling leads to its DIE and the tree that is written is the one  *)
(* that was linked.                                                        *)
THEOREM WritesWhatWasLinked == Spec => []WriterIsRight
<1>1. Inv => WriterIsRight
  BY WriterRight
<1> QED BY <1>1, Invariance, PTL
===============================================================================
