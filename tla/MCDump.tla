--------------------------------- MODULE MCDump ---------------------------------
(***************************************************************************)
(* Dump on small objects: all trees of four DIEs with all ways to match a     *)
(* search, two units that define functions, nested ones too, with FDEs in all  *)
(* orders, and archives of two members with -u.                             *)
(***************************************************************************)
EXTENDS Dump

Opt == [info |-> FALSE, line |-> FALSE, search |-> FALSE, unit |-> FALSE, names |-> TRUE,
        most |-> 9]

Leaf == [parent |-> 0, sub |-> FALSE, low |-> 0, name |-> 0, match |-> FALSE, fde |-> -1]

(* The parents of n DIEs in the order in which a tree is written.            *)
Under(p, j) == LET over[k \in 0..j] == IF k = 0 THEN {} ELSE {k} \cup over[p[k]] IN over[j]
Shapes(n) ==
  {p \in [1..n -> 0..(n - 1)] :
     /\ p[1] = 0
     /\ \A j \in 2..n : p[j] # 0 /\ p[j] \in Under([p EXCEPT ![j] = 0], j - 1)}

Object(cus, fdes, eh, bad) == [cus |-> cus, fdes |-> fdes, eh |-> eh, bad |-> bad]
Unit(unit, dies) == [unit |-> unit, dies |-> dies]

-------------------------------------------------------------------------------
(* Trees to print                                                          *)

Tree(p, hits) == [j \in DOMAIN p |-> [Leaf EXCEPT !.parent = p[j], !.match = j \in hits]]

Small == {Unit(FALSE, Tree(p, hits)) : p \in Shapes(2), hits \in SUBSET {1, 2}}

Printing ==
  {[members |-> <<Object(<<Unit(TRUE, Tree(p, hits)), second>>, <<>>, 0, bad)>>, opt |-> o] :
     p \in Shapes(4), hits \in SUBSET (1..4), second \in Small, bad \in {0, 2},
     o \in {[Opt EXCEPT !.search = TRUE, !.most = n, !.unit = u] : n \in {1, 9}, u \in BOOLEAN}}
  \cup
  {[members |-> <<Object(<<Unit(TRUE, Tree(p, {})), Unit(FALSE, Tree(q, {}))>>, <<>>, 0, 0)>>,
    opt |-> [Opt EXCEPT !.info = TRUE, !.most = n]] :
     p \in Shapes(5), q \in Shapes(3), n \in {1, 9}}

-------------------------------------------------------------------------------
(* Functions to name                                                       *)

Sub(parent, low, name) == [Leaf EXCEPT !.parent = parent, !.sub = TRUE, !.low = low,
                                       !.name = name]
Block(parent, low, name) == [Leaf EXCEPT !.parent = parent, !.low = low, !.name = name]

(* An inlined copy of the function at 2, a nested function, one in a block.   *)
UnitsAt(a, b) ==
  {<<Leaf>>,
   <<Leaf, Sub(1, a, 2), Sub(1, b, 3)>>,
   <<Leaf, Sub(1, a, 2), Sub(2, b, 3), Block(1, 0, 4)>>,
   <<Leaf, Sub(1, 0, 2), Block(1, a, 3), Sub(3, b, 4)>>,
   <<Leaf, Sub(1, 0, 2), Sub(1, a, 2), Sub(3, b, 5), Block(4, 0, 5)>>}

Fdes(n) == {[i \in 1..k |-> [off |-> i, low |-> s[i]]] : k \in {n}, s \in [1..n -> 1..4]}

Naming ==
  {[members |-> <<Object(<<Unit(FALSE, x), Unit(FALSE, y)>>, f, 2, bad)>>, opt |-> o] :
     x \in UnitsAt(1, 2), y \in UnitsAt(3, 2), f \in Fdes(3), bad \in {0, 2},
     o \in {Opt, [Opt EXCEPT !.line = TRUE, !.most = 1]}}

-------------------------------------------------------------------------------
(* One unit of an archive                                                  *)

WithFde(low, off) == <<Leaf, [Sub(1, low, 2) EXCEPT !.fde = off]>>

Members == {Object(<<Unit(u, WithFde(1, a)), Unit(~u, WithFde(2, b))>>,
                   <<[off |-> 1, low |-> 1], [off |-> 2, low |-> 2]>>, 2, 0) :
              u \in BOOLEAN, a \in {-1, 1}, b \in {1, 2}}

Archives ==
  {[members |-> <<x, y>>, opt |-> [Opt EXCEPT !.unit = TRUE, !.info = i, !.names = n]] :
     x \in Members, y \in Members, i \in BOOLEAN, n \in BOOLEAN}

MCRuns == Printing \cup Naming \cup Archives
===============================================================================
