------------------------------- MODULE DieTree -------------------------------
(***************************************************************************)
(* A CU written by the producer (DieProducer) or by somebody else, and read *)
(* by dwarf_siblingof() and dwarf_child() (DieReader).                     *)
(*                                                                         *)
(* CUs from elsewhere have what the producer never writes: DIEs that are    *)
(* marked as having children and have none, DW_AT_sibling at any level,    *)
(* also on the last DIE of a list, and no null after the first DIE.        *)
(***************************************************************************)
EXTENDS DieProducer

CONSTANT MaxEntries     \* of a CU from elsewhere

VARIABLES section, die_info_end, rpc, die, die_info_ptr, child_depth, result

rvars == <<section, die_info_end, rpc, die, die_info_ptr, child_depth, result>>
vars  == <<pvars, rvars>>

Reader == INSTANCE DieReader

Init == ProducerInit /\ Reader!ReaderInit

(* dwarf_get_section_bytes(), and dwarf_next_cu_header() on the result.  A  *)
(* CU some DIEs of which are lost may have lists without an end: what a    *)
(* reader makes of it is not followed.                                     *)
ReadOwn ==
  /\ ppc = "done" /\ ~unsafe
  /\ Reader!Open(written, length + LengthSize)
  /\ UNCHANGED pvars

(* A CU from elsewhere, entry by entry.  Its DW_AT_sibling are filled in     *)
(* when all offsets are known.                                             *)
Foreign == ppc = "foreign"

BeginForeign ==
  /\ ppc = "build" /\ made = {}
  /\ ppc' = "foreign" /\ nwritten' = HeaderSize
  /\ UNCHANGED <<links, made, di_offset, at_sibling, curdie, die_off, written,
                 length, asked, rvars>>

OpenLists == Reader!Level(written)[Len(written) + 1]

WriteForeign(entry) ==
  /\ Foreign /\ rpc = "closed" /\ Len(written) < MaxEntries
  /\ written # <<>> => OpenLists > 0
  /\ Write(entry)
  /\ UNCHANGED <<links, made, di_offset, at_sibling, ppc, curdie, die_off,
                 length, asked, rvars>>

ForeignDie(children, with_sibling) ==
  WriteForeign([off |-> nwritten, size |-> IF with_sibling THEN 1 + RefSize ELSE 1,
                null |-> FALSE, children |-> children, die |-> NULL,
                sibling |-> IF with_sibling THEN 0 ELSE NoSibling])

ForeignNull == written # <<>> /\ WriteForeign(NullEntry(nwritten))

SiblingAttr(i) ==
  LET j == Reader!NextInList(written, i)
  IN IF written[i].sibling = NoSibling THEN NoSibling
     ELSE IF j = 0 THEN nwritten ELSE written[j].off

ReadForeign ==
  /\ Foreign /\ written # <<>> /\ OpenLists = 0
  /\ Reader!Open([i \in DOMAIN written |-> [written[i] EXCEPT !.sibling = SiblingAttr(i)]],
                 nwritten)
  /\ UNCHANGED pvars

Next ==
  \/ ProducerNext /\ UNCHANGED rvars
  \/ ReadOwn
  \/ BeginForeign \/ ForeignNull \/ ReadForeign
  \/ \E children, with_sibling \in BOOLEAN : ForeignDie(children, with_sibling)
  \/ Reader!ReaderNext /\ UNCHANGED pvars

Spec == Init /\ [][Next]_vars

-------------------------------------------------------------------------------
(* Properties.                                                             *)

TypeOK ==
  /\ {di_parent, di_child, di_last_child, di_left, di_right, at_sibling}
       \subseteq [Dies -> Dies \cup {NULL}]
  /\ {made, beside} \subseteq SUBSET Dies /\ curdie \in Dies \cup {NULL} /\ unsafe \in BOOLEAN
  /\ ppc \in {"build", "abandoned", "foreign", "pass1", "climb1", "pass2", "climb2", "done"}
  /\ rpc \in {"closed", "idle", "sibling"}
  /\ {die_off, nwritten, length, die, die_info_ptr, child_depth, die_info_end} \subseteq Nat

EntryOf(off) == CHOOSE i \in DOMAIN section : section[i].off = off

(* dwarf_siblingof() and dwarf_child() give the neighbour in the tree that  *)
(* the nesting of the entries is, whatever children are skipped on the way *)
(* and wherever DW_AT_sibling is used or left out.                         *)
CallIsRight ==
  result.call # "none" /\ result.outcome # "error" =>
    LET i == EntryOf(result.of)
        right == IF result.call = "sibling" THEN Reader!SiblingOf(section, i)
                 ELSE Reader!ChildOf(section, i)
    IN IF right = 0 THEN result.outcome = "no_entry"
       ELSE result.outcome = "ok" /\ result.value = section[right].off

(* The loop of dwarf_siblingof() stays inside the CU: it has no test for    *)
(* its end between two turns.                                              *)
StaysInCu ==
  rpc = "sibling" =>
    /\ die_info_ptr < die_info_end
    /\ \E i \in DOMAIN section : section[i].off = die_info_ptr /\ ~section[i].null
    /\ Reader!next_die_info_ptr(die_info_ptr, TRUE).ptr # NULL

(* Pass 2 writes every DIE where pass 1 said, and the length in the header  *)
(* is that of the CU.  Every DW_AT_sibling leads to the DIE it is about, if *)
(* no DIE was lost: one to a lost DIE is an offset that was never fixed.   *)
OffsetsAgree ==
  /\ \A i \in DOMAIN written : written[i].die # NULL => written[i].off = di_offset[written[i].die]
  /\ ppc = "done" => nwritten = length + LengthSize
  /\ ppc = "done" /\ ~unsafe =>
       \A i \in DOMAIN written : written[i].sibling # NoSibling =>
         \E j \in DOMAIN written : /\ written[j].off = written[i].sibling
                                  /\ written[j].die = di_right[written[i].die]

(* The written DIEs are those of the tree the client linked, each below its *)
(* parent and in the order of its list.                                    *)
AsLinked ==
  LET at(d) == CHOOSE i \in DOMAIN written : written[i].die = d
      row(d, e) == \E r \in rows : \E i, j \in DOMAIN r : i < j /\ r[i] = d /\ r[j] = e
  IN /\ {written[i].die : i \in DOMAIN written} \ {NULL} = Tree(Root)
     /\ \A i, j \in DOMAIN written : written[i].die = written[j].die /\ i # j => written[i].null
     /\ \A d \in Tree(Root) \ {Root} :
          LET p == Reader!ParentEntry(written, at(d))
          IN p # 0 /\ written[p].die = under[d]
     /\ \A d, e \in Tree(Root) : row(d, e) => at(d) < at(e)
     /\ Reader!Level(written)[Len(written) + 1] = -1

SafeLinksAreWritten == ppc = "done" /\ ~unsafe => AsLinked

(* The reader finds its way: each call gives the neighbour, and no turn of    *)
(* its loop leaves the CU.                                                 *)
ReaderIsRight == CallIsRight /\ StaysInCu

(* What the producer writes is what was linked, at the offsets it has told.   *)
WriterIsRight == OffsetsAgree /\ SafeLinksAreWritten

-------------------------------------------------------------------------------
(* A statement of the documentation that the code does not keep.            *)

(* "the DIE is linked into the list after (before) the DIE pointed to"      *)
(* (dwarf_new_die): a DIE put before a first child, and others, are never  *)
(* written.                                                                *)
LinksAreWritten == ppc = "done" => AsLinked
===============================================================================
