----------------------------- MODULE DieProducer -----------------------------
(***************************************************************************)
(* The tree of DIEs of the producer: linking it together (pro_die.c) and    *)
(* writing .debug_info from it (_dwarf_pro_generate_debuginfo() of          *)
(* pro_section.c).                                                         *)
(*                                                                         *)
(* The tree is five pointers in every DIE.  Writing it is two walks along   *)
(* them: the first fixes the offset of every DIE, the second writes the    *)
(* bytes, references to DIEs that come later included.                     *)
(***************************************************************************)
EXTENDS Integers, FiniteSets, SequencesExt

CONSTANTS Dies,        \* the DIEs a client may make: 1..N, made in this order
          Payload,     \* bytes of the attributes of each DIE, references left out
          NULL, NoSibling

Root == 1              \* the DW_TAG_compile_unit given to dwarf_add_die_to_debug()
HeaderSize == 11       \* of a CU, with 32-bit offsets
LengthSize == 4
RefSize == 4           \* DW_FORM_ref4

ASSUME DieAssumption ==
  /\ IsFiniteSet(Dies) /\ Dies = 1..Cardinality(Dies) /\ Root \in Dies
  /\ Payload \in [Dies -> Nat]
  /\ NULL \notin Nat /\ NoSibling \notin Nat

VARIABLES
  di_parent, di_child, di_last_child, di_left, di_right,
  made,              \* DIEs that exist
  di_offset,         \* as pass 1 of the writing fixes it
  at_sibling,        \* the DIE a DW_AT_sibling refers to, or NULL
  ppc,               \* where the producer is
  curdie, die_off,
  written, nwritten, \* the entries and the number of bytes written
  length,            \* the length field of the CU header
  rows, under,       \* what the client asked for: lists of siblings, their parents
  beside,            \* the DIEs it put after another one
  unsafe             \* it made a call that loses DIEs

links == <<di_parent, di_child, di_last_child, di_left, di_right>>
asked == <<rows, under, beside, unsafe>>
pvars == <<links, made, di_offset, at_sibling, ppc, curdie, die_off, written,
           nwritten, length, asked>>

ProducerInit ==
  LET nothing == [d \in Dies |-> NULL]
  IN /\ di_parent = nothing /\ di_child = nothing /\ di_last_child = nothing
     /\ di_left = nothing /\ di_right = nothing /\ at_sibling = nothing
     /\ made = {} /\ di_offset = [d \in Dies |-> 0]
     /\ ppc = "build" /\ curdie = NULL /\ die_off = 0
     /\ written = <<>> /\ nwritten = 0 /\ length = 0
     /\ rows = {} /\ under = nothing /\ beside = {} /\ unsafe = FALSE

-------------------------------------------------------------------------------
(* What the client means.                                                  *)

Row(d) == CHOOSE r \in rows : d \in Range(r)

(* The children of d, as a set of at most one list.                        *)
RowsUnder(d) == {r \in rows : under[r[1]] = d}

(* The DIEs of the tree with d on top.                                     *)
Tree(d) ==
  {c \in made : \A S \in SUBSET made :
     d \in S /\ (\A e \in made : under[e] \in S => e \in S) => c \in S}

(* d, alone in its list and without a parent, goes between others.         *)
Place(d, place, n) ==
  LET r == Row(n)
      i == CHOOSE i \in DOMAIN r : r[i] = n
      rest == rows \ {<<d>>}
  IN CASE place = "parent" ->
            /\ rows' = IF RowsUnder(n) = {} THEN rows \cup {<<d>>}
                       ELSE LET c == CHOOSE c \in RowsUnder(n) : TRUE
                            IN (rest \ {c}) \cup {Append(c, d)}
            /\ under' = [under EXCEPT ![d] = n]
       [] place = "child" ->
            /\ rows' = rows \cup {<<d>>}
            /\ under' = [e \in Dies |-> IF e \in Range(r) THEN d ELSE under[e]]
       [] place \in {"left", "right"} ->
            /\ rows' = (rest \ {r}) \cup {InsertAt(r, IF place = "left" THEN i + 1 ELSE i, d)}
            /\ under' = [under EXCEPT ![d] = under[n]]

(* The calls after which the links no longer lead to every DIE:            *)
LosesDies(place, n) ==
     (* before the first child, whose parent keeps its di_child,           *)
  \/ place = "right" /\ under[n] # NULL /\ n = Row(n)[1]
     (* over a list, whose other DIEs keep no parent,                      *)
  \/ place = "child" /\ Len(Row(n)) > 1
     (* at the end, after a last child that the parent does not know.      *)
  \/ place = "parent" /\ \E r \in RowsUnder(n) : Last(r) \in beside

-------------------------------------------------------------------------------
(* dwarf_die_link() with one neighbour.                                    *)

BugLastChildKept(d, n) == [di_last_child EXCEPT ![n] = IF di_child[n] = NULL THEN d ELSE @]

NewLastChild(d, n) == [di_last_child EXCEPT ![n] = d]

LinkParent(d, n) ==
  LET former == di_last_child[n]
  IN /\ di_parent' = [di_parent EXCEPT ![d] = n]
     /\ di_last_child' = NewLastChild(d, n)
     /\ IF di_child[n] # NULL
        THEN /\ di_right' = [di_right EXCEPT ![former] = d]
             /\ di_left' = [di_left EXCEPT ![d] = former]
             /\ UNCHANGED di_child
        ELSE /\ di_child' = [di_child EXCEPT ![n] = d]
             /\ UNCHANGED <<di_left, di_right>>

LinkChild(d, n) ==
  /\ di_child' = [di_child EXCEPT ![d] = n]
  /\ di_last_child' = [di_last_child EXCEPT ![d] = n]
  /\ di_parent' = [di_parent EXCEPT ![n] = d]
  /\ UNCHANGED <<di_left, di_right>>

LinkLeft(d, n) ==
  LET r == di_right[n]
  IN /\ di_left' = [e \in Dies |-> IF e = d THEN n ELSE IF e = r THEN d ELSE di_left[e]]
     /\ di_right' = [di_right EXCEPT ![d] = IF r # NULL THEN r ELSE @, ![n] = d]
     /\ UNCHANGED <<di_child, di_last_child>>

LinkRight(d, n) ==
  LET l == di_left[n]
  IN /\ di_right' = [e \in Dies |-> IF e = d THEN n ELSE IF e = l THEN d ELSE di_right[e]]
     /\ di_left' = [di_left EXCEPT ![d] = IF l # NULL THEN l ELSE @, ![n] = d]
     /\ UNCHANGED <<di_child, di_last_child>>

(* A sibling has the parent of the DIE it is put beside.                   *)
JoinParent(d, n) == di_parent' = [di_parent EXCEPT ![d] = di_parent[n]]

(* A client links d only once, to a DIE of another tree, puts nothing above *)
(* or beside the DIE of the CU, and no list below a DIE that has one.      *)
MayLink(d, place, n) ==
  /\ d # Root /\ n \in made \ Tree(d)
  /\ under[d] = NULL /\ Row(d) = <<d>>
  /\ place \in {"child", "left", "right"} => n # Root
  /\ place = "child" => under[n] = NULL /\ n = Row(n)[1] /\ RowsUnder(d) = {}

Link(d, place, n) ==
  /\ ppc = "build" /\ d \in made /\ MayLink(d, place, n)
  /\ Place(d, place, n)
  /\ beside' = IF place = "left" THEN beside \cup {d} ELSE beside
  /\ unsafe' = (unsafe \/ LosesDies(place, n))
  /\ CASE place = "parent" -> LinkParent(d, n)
       [] place = "child"  -> LinkChild(d, n)
       [] place = "left"   -> LinkLeft(d, n) /\ JoinParent(d, n)
       [] place = "right"  -> LinkRight(d, n) /\ JoinParent(d, n)
  /\ UNCHANGED <<made, di_offset, at_sibling, ppc, curdie, die_off, written,
                 nwritten, length>>

(* The checks come after the changes, but for that of the parent: the client *)
(* gives up with links that are half made.                                 *)
Refused(d, place, n) ==
  CASE place = "parent" -> di_parent[d] # NULL
    [] place = "child"  -> di_parent[n] # NULL
    [] OTHER            -> di_parent[d] # NULL

LinkRefused(d, place, n) ==
  /\ ppc = "build" /\ {d, n} \subseteq made /\ d # n /\ Refused(d, place, n)
  /\ ppc' = "abandoned"
  /\ CASE place = "parent" -> UNCHANGED links
       [] place = "child"  -> /\ di_child' = [di_child EXCEPT ![d] = n]
                              /\ di_last_child' = [di_last_child EXCEPT ![d] = n]
                              /\ UNCHANGED <<di_parent, di_left, di_right>>
       [] place = "left"   -> LinkLeft(d, n) /\ UNCHANGED di_parent
       [] place = "right"  -> LinkRight(d, n) /\ UNCHANGED di_parent
  /\ UNCHANGED <<made, di_offset, at_sibling, curdie, die_off, written, nwritten,
                 length, asked>>

(* dwarf_new_die() without a neighbour; with one it links the DIE at once.  *)
NewDie(d) ==
  /\ ppc = "build" /\ d \notin made /\ \A e \in Dies : e < d => e \in made
  /\ made' = made \cup {d} /\ rows' = rows \cup {<<d>>}
  /\ UNCHANGED <<links, di_offset, at_sibling, ppc, curdie, die_off, written,
                 nwritten, length, under, beside, unsafe>>

-------------------------------------------------------------------------------
(* _dwarf_pro_generate_debuginfo().                                        *)

Size(d) == 1 + Payload[d] + (IF at_sibling[d] = NULL THEN 0 ELSE RefSize)

(* The DIEs from d on to the right.                                        *)
ListFrom(d) ==
  {c \in made : \A S \in SUBSET made :
     d \in S \cup {NULL} /\ (\A e \in S : di_right[e] \in S \cup {NULL}) => c \in S}

(* Pass 0: a DW_AT_sibling for the DIEs of the first level with children.   *)
Pass0 ==
  /\ ppc = "build" /\ Root \in made
  /\ at_sibling' = [d \in Dies |->
       IF d \in ListFrom(di_child[Root]) /\ di_right[d] # NULL /\ di_child[d] # NULL
       THEN di_right[d] ELSE NULL]
  /\ ppc' = "pass1" /\ curdie' = Root /\ die_off' = HeaderSize
  /\ UNCHANGED <<links, made, di_offset, written, nwritten, length, asked>>

(* Depth first: down to the first child, or else up (the climbing of the    *)
(* walk, a null at each level) and to the right.                           *)
Down(pass, climb) ==
  IF di_child[curdie] # NULL THEN curdie' = di_child[curdie] /\ ppc' = pass
  ELSE curdie' = curdie /\ ppc' = climb

Climbing == curdie # NULL /\ di_right[curdie] = NULL

Pass1 ==
  /\ ppc = "pass1"
  /\ di_offset' = [di_offset EXCEPT ![curdie] = die_off]
  /\ die_off' = die_off + Size(curdie)
  /\ Down("pass1", "climb1")
  /\ UNCHANGED <<links, made, at_sibling, written, nwritten, length, asked>>

(* A null is written at the end of each list.                              *)
CountNull == die_off + 1

Climb1 ==
  /\ ppc = "climb1"
  /\ IF Climbing
     THEN /\ curdie' = di_parent[curdie] /\ die_off' = CountNull
          /\ UNCHANGED <<ppc, nwritten, written>>
     ELSE IF curdie # NULL
     THEN curdie' = di_right[curdie] /\ ppc' = "pass1" /\ UNCHANGED <<die_off, nwritten, written>>
     ELSE curdie' = Root /\ ppc' = "pass2" /\ nwritten' = HeaderSize /\ written' = <<>>
          /\ UNCHANGED die_off
  /\ UNCHANGED <<links, made, di_offset, at_sibling, length, asked>>

Write(entry) ==
  /\ written' = Append(written, entry)
  /\ nwritten' = nwritten + entry.size

Pass2 ==
  /\ ppc = "pass2"
  /\ Write([off |-> nwritten, size |-> Size(curdie), null |-> FALSE,
            children |-> di_child[curdie] # NULL, die |-> curdie,
            sibling |-> IF at_sibling[curdie] = NULL THEN NoSibling
                        ELSE di_offset[at_sibling[curdie]]])
  /\ Down("pass2", "climb2")
  /\ UNCHANGED <<links, made, di_offset, at_sibling, die_off, length, asked>>

NullEntry(off) == [off |-> off, size |-> 1, null |-> TRUE, children |-> FALSE,
                   die |-> NULL, sibling |-> NoSibling]

Climb2 ==
  /\ ppc = "climb2"
  /\ IF Climbing
     THEN /\ curdie' = di_parent[curdie] /\ Write(NullEntry(nwritten))
          /\ UNCHANGED <<ppc, length>>
     ELSE IF curdie # NULL
     THEN curdie' = di_right[curdie] /\ ppc' = "pass2" /\ UNCHANGED <<written, nwritten, length>>
     ELSE /\ curdie' = NULL /\ ppc' = "done" /\ length' = die_off - LengthSize
          /\ UNCHANGED <<written, nwritten>>
  /\ UNCHANGED <<links, made, di_offset, at_sibling, die_off, asked>>

ProducerNext ==
  \/ \E d \in Dies : NewDie(d)
  \/ \E d \in made, place \in {"parent", "child", "left", "right"}, n \in made : 
       Link(d, place, n) \/ LinkRefused(d, place, n)
  \/ Pass0 \/ Pass1 \/ Climb1 \/ Pass2 \/ Climb2
===============================================================================
