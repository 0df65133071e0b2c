-------------------------------- MODULE DieDump --------------------------------
(***************************************************************************)
(* How dwarfdump prints .debug_info (src/dwarfdump/print_die.c): it walks    *)
(* the compilation units and the tree of each, and prints all the DIEs (-i),  *)
(* or those that match a search and their owners (-S), or none of them.      *)
(*                                                                         *)
(* What the library answers is taken from CuContext.tla (the units come in   *)
(* order, and start over after the last) and DieTree.tla (child and sibling). *)
(* A handle is the pointer to a Dwarf_Die; a freed one is used again.  There  *)
(* is memory for so many of them only, and without any a call may fail:      *)
(* print_error() then exits.                                               *)
(*                                                                         *)
(* An object file is [cus, fdes, eh, bad]; a unit is [unit, dies]; a DIE is   *)
(* [parent, sub, low, name, match, fde], in the order of the section.        *)
(***************************************************************************)
EXTENDS Integers, Sequences, FiniteSets, SequencesExt, FiniteSetsExt

CONSTANTS Runs,             \* [members, opt]: an archive and a command line
          Handles,          \* the handles there is memory for
          DIE_STACK_SIZE    \* 300 in the code

(* The data of an object file; bad is the unit whose header cannot be read,    *)
(* or 0, and eh the last FDE of .debug_frame.  The ones of .eh_frame follow.   *)
Dies == [parent : Nat, sub : BOOLEAN, low : Nat, name : Nat, match : BOOLEAN, fde : Int]

(* A unit is a tree, written in the order of .debug_info: the first DIE is    *)
(* over all others, and what is between a DIE and its parent is below the     *)
(* parent too.  A name is that of a DIE of the unit.                         *)
InOrder(dies) ==
  /\ dies[1].parent = 0
  /\ \A j \in 2..Len(dies) : dies[j].parent \in 1..(j - 1)
  /\ \A j, k \in 1..Len(dies) :
       dies[k].parent < j /\ j < k => dies[k].parent <= dies[j].parent
  /\ \A j \in 1..Len(dies) : dies[j].name <= Len(dies)

Units == [unit : BOOLEAN, dies : {dies \in Seq(Dies) \ {<<>>} : InOrder(dies)}]
Objects == [cus  : Seq(Units),
            fdes : Seq([off : Nat, low : Nat]),
            eh   : Nat,
            bad  : Nat]

ASSUME RunsAssumption ==
  \A r \in Runs :
    /\ r.members \in Seq(Objects) \ {<<>>}
    /\ \A i \in 1..Len(r.members) : r.members[i].eh <= Len(r.members[i].fdes)
    /\ r.opt \in [info : BOOLEAN, line : BOOLEAN, search : BOOLEAN, unit : BOOLEAN,
                  names : BOOLEAN, most : Nat]
ASSUME HandlesAssumption == Handles # {} /\ Handles \subseteq Nat \ {0}
ASSUME DepthAssumption == DIE_STACK_SIZE \in Nat \ {0}

NULL == 0       \* no handle
None == <<>>    \* no DIE, no range, no name

VARIABLES run,         \* the one of Runs that this is
          m,           \* the member of the archive
          phase,       \* "infos", "walk", "frames", "search", "next unit", "exit", "done"
          cu,          \* de_cu_context: the unit the library is at, or 0
          cu_count,
          held,        \* the DIE each handle stands for: <<unit, index>> or None
          stack,       \* calls of print_die_and_children(): [first, die, visited]
          die_stack,   \* of the code; one entry more than it has
          range,       \* fde_offset_for_cu_low and _high, or None
          printed      \* what was printed of the member: [die, level]

ivars == <<run, m, phase, cu, cu_count, held, stack, die_stack, range, printed>>

opt == run.opt

(* process_one_file(): print_infos() is called for these.                   *)
Start == IF opt.info \/ opt.line \/ opt.unit \/ opt.search THEN "infos" ELSE "frames"

Empty == [die |-> NULL, printed |-> FALSE]

InfosInit ==
  /\ run \in Runs
  /\ m = 1 /\ phase = Start /\ cu = 0 /\ cu_count = 0
  /\ held = [h \in Handles |-> None]
  /\ stack = <<>> /\ die_stack = [i \in 0..DIE_STACK_SIZE |-> Empty]
  /\ range = None /\ printed = <<>>

-------------------------------------------------------------------------------
(* The object file, and what the library says of it                         *)

obj == run.members[m]
Die(d) == obj.cus[d[1]].dies[d[2]]

FirstOf(S) == IF S = {} THEN 0 ELSE Min(S)

(* dwarf_child() and dwarf_siblingof(); None for DW_DLV_NO_ENTRY.            *)
Index(d, j) == IF j = 0 THEN None ELSE <<d[1], j>>
ChildOf(d) ==
  Index(d, FirstOf({j \in DOMAIN obj.cus[d[1]].dies : Die(<<d[1], j>>).parent = d[2]}))
SiblingOf(d) ==
  Index(d, FirstOf({j \in DOMAIN obj.cus[d[1]].dies :
                      j > d[2] /\ Die(<<d[1], j>>).parent = Die(d).parent}))

BugAllUnits == [res |-> "OK", cu |-> IF cu = Len(obj.cus) THEN 1 ELSE cu + 1]

(* dwarf_next_cu_header(): a unit whose header is bad is never passed.       *)
NextCu == IF cu + 1 = obj.bad THEN [res |-> "ERROR", cu |-> cu]
          ELSE IF cu = Len(obj.cus) THEN [res |-> "NO_ENTRY", cu |-> 0]
          ELSE [res |-> "OK", cu |-> cu + 1]

(* A call that makes a DIE, and dwarf_dealloc().                            *)
Room(h) == \E i \in Handles : h[i] = None
New(h) == Min({i \in Handles : h[i] = None})
Get(h, d) == [h EXCEPT ![New(h)] = d]
Dealloc(h, gone) == [i \in Handles |-> IF i \in gone THEN None ELSE h[i]]

-------------------------------------------------------------------------------
(* print_infos()                                                           *)

(* should_skip_this_cu() with -u.                                           *)
Skipped(c) == opt.unit /\ ~obj.cus[c].unit

NextUnit ==
  /\ phase = "infos" /\ cu' = NextCu.cu
  /\ IF NextCu.res # "OK" \/ cu_count >= opt.most
     THEN phase' = "frames" /\ UNCHANGED <<held, stack, cu_count>>
     ELSE IF Skipped(NextCu.cu) THEN UNCHANGED <<phase, held, stack, cu_count>>
     ELSE IF opt.info \/ opt.unit \/ opt.search
     THEN /\ Room(held) /\ held' = Get(held, <<NextCu.cu, 1>>)
          /\ stack' = <<[first |-> New(held), die |-> New(held), visited |-> FALSE]>>
          /\ phase' = "walk" /\ UNCHANGED cu_count
     ELSE cu_count' = cu_count + 1 /\ UNCHANGED <<phase, held, stack>>
  /\ UNCHANGED <<run, m, die_stack, range, printed>>

-------------------------------------------------------------------------------
(* print_die_and_children()                                                *)

Top == Last(stack)
indent_level == Len(stack) - 1

(* DW_AT_MIPS_fde of the units that -u names.                               *)
Noted(d) ==
  LET fde == Die(d).fde
  IN IF ~opt.unit \/ fde = -1 THEN range
     ELSE IF range = None THEN <<fde, fde>>
     ELSE IF fde < range[1] THEN <<fde, range[2]>>
     ELSE IF fde > range[2] THEN <<range[1], fde>>
     ELSE range

(* SET_DIE_STACK_ENTRY                                                     *)
SetEntry(s, level, handle) == [s EXCEPT ![level] = [die |-> handle, printed |-> FALSE]]
EmptyEntry(s, level) == [s EXCEPT ![level] = Empty]

BugEachTime(st, level) ==
  [printed |-> Append(st.printed, [die |-> held[st.stack[level].die], level |-> level]),
   stack   |-> [st.stack EXCEPT ![level].printed = TRUE]]

(* The DIE at a level of die_stack, if it was not printed yet.                *)
print_one_die(st, level) ==
  IF st.stack[level].printed THEN st
  ELSE [printed |-> Append(st.printed, [die |-> held[st.stack[level].die], level |-> level]),
        stack   |-> [st.stack EXCEPT ![level].printed = TRUE]]

(* The loop, from level 0 to this one.                                      *)
LevelsPrinted(st) ==
  LET after[k \in 0..Len(stack)] ==
        IF k = 0 THEN st ELSE print_one_die(after[k - 1], k - 1)
  IN after

print_die_stack(st) == LevelsPrinted(st)[Len(stack)]

BugTooDeep(level) == level > DIE_STACK_SIZE

(* After the entry of this level is set.                                    *)
TooDeep(level) == level >= DIE_STACK_SIZE

(* A DIE is printed, or all of die_stack if it matches; then its children are *)
(* next.  The depth is compared with the size after the entry is set.        *)
PrintDie ==
  LET d    == held[Top.die]
      set  == [printed |-> printed, stack |-> SetEntry(die_stack, indent_level, Top.die)]
      done == IF opt.info THEN print_one_die(set, indent_level)
              ELSE IF opt.search /\ Die(d).match THEN print_die_stack(set)
              ELSE set
      visited == [stack EXCEPT ![Len(stack)].visited = TRUE]
      child   == New(held)
  IN /\ phase = "walk" /\ ~Top.visited
     /\ range' = Noted(d)
     /\ printed' = done.printed
     /\ IF ChildOf(d) = None
        THEN die_stack' = done.stack /\ stack' = visited /\ UNCHANGED <<held, phase>>
        ELSE /\ Room(held) /\ held' = Get(held, ChildOf(d))
             /\ die_stack' = SetEntry(done.stack, indent_level + 1, NULL)
             /\ phase' = IF TooDeep(indent_level + 1) THEN "exit" ELSE phase
             /\ stack' = Append(visited, [first |-> child, die |-> child, visited |-> FALSE])
     /\ UNCHANGED <<run, m, cu, cu_count>>

(* The DIE of the caller is the caller's to give back.                      *)
Own == IF Top.die = Top.first THEN {} ELSE {Top.die}

NextSibling ==
  LET d == held[Top.die]
  IN /\ phase = "walk" /\ Top.visited /\ SiblingOf(d) # None
     /\ Room(held)
     /\ held' = Dealloc(Get(held, SiblingOf(d)), Own)
     /\ die_stack' = EmptyEntry(die_stack, indent_level)
     /\ stack' = [stack EXCEPT ![Len(stack)].die = New(held), ![Len(stack)].visited = FALSE]
     /\ UNCHANGED <<run, m, phase, cu, cu_count, range, printed>>

(* The call returns, and the one above gives back the child; the one above    *)
(* the first is print_infos().                                             *)
NoSibling ==
  /\ phase = "walk" /\ Top.visited /\ SiblingOf(held[Top.die]) = None
  /\ held' = Dealloc(held, Own \cup {Top.first})
  /\ die_stack' = EmptyEntry(die_stack, indent_level)
  /\ stack' = Front(stack)
  /\ IF indent_level > 0 THEN UNCHANGED <<phase, cu_count>>
     ELSE phase' = "infos" /\ cu_count' = cu_count + 1
  /\ UNCHANGED <<run, m, cu, range, printed>>
===============================================================================
