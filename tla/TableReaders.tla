------------------------------ MODULE TableReaders ------------------------------
(***************************************************************************)
(* What the readers of whole tables build: the name tables                 *)
(* (src/libdwarf/dwarf_global.c), .debug_aranges (dwarf_arange.c),         *)
(* .debug_ranges (dwarf_ranges.c), location lists (dwarf_loc.c) and        *)
(* .debug_macinfo (dwarf_macro.c).                                         *)
(*                                                                         *)
(* Each goes through its section once and allocates structs as it goes.    *)
(* A sweep is what it would do with enough memory:                         *)
(*   structs  what it allocates, in order                                  *)
(*   res      how it ends, if every allocation succeeds                    *)
(*   ends     in which part of the table it ends early, if it does         *)
(*   items    what it answers                                              *)
(* A struct is [kind, part, item]: part is the set or entry of the table   *)
(* it is made for.  Outcome says what is left when memory runs out.        *)
(***************************************************************************)
EXTENDS Naturals, Integers, Sequences, SequencesExt

Flaws        == {"none", "head", "tail"}
NameSets     == [cu : Nat, dies : Seq(Nat), pad : BOOLEAN, flaw : Flaws]
ArangeSets   == [cu : Nat, ranges : Seq(Nat \X Nat), pad : BOOLEAN, flaw : Flaws,
                 size : {"alike", "narrow"}]
RangeEntries == {"entry", "base", "end", "short"}
Expressions  == [kind : {"expr", "base", "end"}, ops : Nat,
                 flaw : {"none", "op", "short", "large"}]
MacroEntries == [op : STRING, file : Nat]

Kinds == {"context", "global", "chain", "list", "arange", "temporary", "addr", "calloc",
          "ranges", "locchain", "locblock", "locdesc", "string", "error"}

(* The kinds that _dwarf_get_alloc() takes from malloc() and keeps no track *)
(* of, and what the code itself takes from calloc().                       *)
Malloced == {"list", "addr", "ranges", "locblock", "string", "calloc"}

Struct(kind, part, item) == [kind |-> kind, part |-> part, item |-> item]

(* The part of a table that is read: up to the first flaw.                  *)
FlawAt(table) == SelectInSeq(table, LAMBDA s : s.flaw # "none")
ReadPart(table) == IF FlawAt(table) = 0 THEN table ELSE SubSeq(table, 1, FlawAt(table))
EndsAs(table) == IF FlawAt(table) = 0 THEN "OK" ELSE "ERROR"

-------------------------------------------------------------------------------
(* .debug_pubnames and the tables like it: sets [cu, dies, pad, flaw].  A   *)
(* flaw "head" is in the version or the length of the header, a flaw        *)
(* "tail" is found behind the entries; what a set has after its            *)
(* terminating 0 is padding.                                               *)

NameSet(table, i) ==
  <<Struct("context", i, table[i].cu)>>
  \o IF table[i].flaw = "head" THEN <<>>
     ELSE FlattenSeq([k \in DOMAIN table[i].dies |->
            <<Struct("global", i, table[i].dies[k]), Struct("chain", i, 0)>>])

(* The offsets dwarf_global_name_offsets() and the like give for a global,  *)
(* from its context.                                                       *)
NameOffsets(structs, g) ==
  LET contexts == {k \in DOMAIN structs : structs[k].kind = "context" /\
                                          structs[k].part = structs[g].part}
      cu       == structs[CHOOSE k \in contexts : TRUE].item
  IN [cu |-> cu, die |-> cu + structs[g].item]

Positions(structs, kind) ==
  SelectSeq([k \in DOMAIN structs |-> k], LAMBDA k : structs[k].kind = kind)

BugSweepNames(table) ==
  LET read    == IF table # <<>> /\ Head(table).pad THEN SubSeq(table, 1, 1) ELSE ReadPart(table)
      swept   == FlattenSeq([i \in DOMAIN read |-> NameSet(read, i)])
      globals == Positions(swept, "global")
  IN [structs |-> Append(swept, Struct("list", 0, 0)), res |-> "OK", ends |-> 0,
      items   |-> [k \in DOMAIN globals |-> NameOffsets(swept, globals[k])]]

SweepNames(table) ==
  LET read    == ReadPart(table)
      swept   == FlattenSeq([i \in DOMAIN read |-> NameSet(read, i)])
      globals == Positions(swept, "global")
  IN [structs |-> IF EndsAs(table) = "OK" THEN Append(swept, Struct("list", 0, 0))
                  ELSE swept,
      res     |-> EndsAs(table), ends |-> FlawAt(table),
      items   |-> [k \in DOMAIN globals |-> NameOffsets(swept, globals[k])]]

-------------------------------------------------------------------------------
(* .debug_aranges: sets [cu, ranges, pad, flaw, size].  A range is          *)
(* <<address, length>>; the terminating <<0, 0>> is left out.  The offsets  *)
(* of a set are as wide as its addresses, or half as wide ("narrow": 32-bit *)
(* DWARF for 64-bit addresses).                                            *)

ArangeSet(table, i) ==
  IF table[i].flaw = "head" THEN <<>>
  ELSE FlattenSeq([k \in DOMAIN table[i].ranges |->
         <<Struct("arange", i, [ar_address |-> table[i].ranges[k][1],
                                ar_length  |-> table[i].ranges[k][2],
                                ar_info_offset |-> table[i].cu]),
           Struct("chain", i, 0)>>])

SweepAranges(table) ==
  LET read    == ReadPart(table)
      swept   == FlattenSeq([i \in DOMAIN read |-> ArangeSet(read, i)])
      aranges == Positions(swept, "arange")
  IN [structs |-> IF EndsAs(table) = "OK" THEN Append(swept, Struct("list", 0, 0))
                  ELSE swept,
      res     |-> EndsAs(table), ends |-> FlawAt(table),
      items   |-> [k \in DOMAIN aranges |-> swept[aranges[k]].item]]

(* _dwarf_get_aranges_addr_offsets() reads the length of a range as if it   *)
(* were as wide as an offset, so in a narrow set it reads three of the four *)
(* half addresses of each range, the lower first.                          *)
UpperHalf == 65536   \* stands for 2^32

Halves(ranges) ==
  FlattenSeq([k \in DOMAIN ranges |-> <<ranges[k][1], 0, ranges[k][2], 0>>]) \o <<0, 0, 0, 0>>

ReadByThree(halves) ==
  [k \in 1..(Len(halves) \div 3) |->
     <<halves[3 * k - 2] + UpperHalf * halves[3 * k - 1], halves[3 * k]>>]

NarrowRead(set) ==
  LET halves == Halves(set.ranges)
      read   == ReadByThree(halves)
      end    == SelectInSeq(read, LAMBDA r : r = <<0, 0>>)
  IN [set EXCEPT !.ranges = SubSeq(read, 1, end - 1),
                 !.flaw   = IF @ = "none" /\ 3 * end # Len(halves) THEN "tail" ELSE @]

(* It takes padding for a wrong length, and gives two blocks back: the      *)
(* addresses, and where their entries are.                                 *)
AsOffsets(set) ==
  LET read == IF set.size = "narrow" THEN NarrowRead(set) ELSE set
  IN IF set.pad THEN [read EXCEPT !.flaw = IF @ = "head" THEN @ ELSE "tail"] ELSE read

AddrOffsets(table) ==
  LET sweep == SweepAranges([i \in DOMAIN table |-> AsOffsets(table[i])])
  IN IF sweep.res # "OK" THEN sweep
     ELSE [sweep EXCEPT !.structs = [k \in 1..(Len(@) - 1) |->
                                       Struct("temporary", @[k].part, @[k].item)]
                                    \o <<Struct("addr", 0, 0), Struct("addr", 0, 0)>>,
                        !.items = [k \in DOMAIN @ |-> @[k].ar_address]]

-------------------------------------------------------------------------------
(* .debug_ranges from an offset on: entries "entry", "base" or "end", and   *)
(* "short" for less than an entry at the end of the section.  A list that  *)
(* runs off the section is no entry.  The struct an entry is read into     *)
(* comes from calloc().                                                    *)

SweepRanges(table) ==
  LET stop == SelectInSeq(table, LAMBDA e : e \in {"end", "short"})
      read == IF stop = 0 THEN Append(table, "none") ELSE SubSeq(table, 1, stop)
      each == [i \in DOMAIN read |-> Struct("calloc", i, read[i])]
      res  == CASE Last(read) = "end"   -> "OK"
                [] Last(read) = "short" -> "ERROR"
                [] Last(read) = "none"  -> "NO_ENTRY"
  IN [structs |-> IF res = "OK" THEN Append(each, Struct("ranges", 0, 0)) ELSE each,
      res     |-> res, ends |-> 0, items |-> read]

-------------------------------------------------------------------------------
(* A location list from an offset on: entries [kind, ops, flaw], where ops  *)
(* is how many operations the expression has.  A flaw "op" is an operation *)
(* that is not known after these; an expression is "short" if it runs past *)
(* the end of the section, and "large" if it is longer than the section.   *)

(* _dwarf_get_locdesc()                                                    *)
Locdesc(entry, i) ==
  [k \in 1..entry.ops |-> Struct("locchain", i, k)]
  \o IF entry.flaw # "none" THEN <<>>
     ELSE <<Struct("locblock", i, entry.ops), Struct("locdesc", i, entry.ops)>>

(* dwarf_loclist_n() of a block, and dwarf_loclist_from_expr_a() without    *)
(* the list: one location expression.                                      *)
SweepLocExpr(entry) ==
  [structs |-> Locdesc(entry, 1)
               \o IF entry.flaw = "none" THEN <<Struct("list", 0, 0)>> ELSE <<>>,
   res     |-> IF entry.flaw = "none" THEN "OK" ELSE "ERROR",
   ends    |-> 1, items |-> <<entry.ops>>]

(* dwarf_loclist_n(): the list is counted, then read.  Counting a short     *)
(* expression leads past the end of the section, which is no entry; only a *)
(* large one is an error, before anything is allocated.                    *)
SweepLoclist(table) ==
  LET stop  == SelectInSeq(table, LAMBDA e : e.kind = "end" \/ e.flaw \in {"short", "large"})
      ended == stop # 0 /\ table[stop].kind = "end"
      large == stop # 0 /\ ~ended /\ table[stop].flaw = "large"
      list  == IF ended THEN SubSeq(table, 1, stop - 1) ELSE <<>>
      read  == ReadPart(list)
  IN IF list = <<>>
     THEN [structs |-> <<>>, res |-> IF large THEN "ERROR" ELSE "NO_ENTRY",
           ends |-> 0, items |-> <<>>]
     ELSE [structs |-> <<Struct("list", 0, 0)>>
                       \o FlattenSeq([i \in DOMAIN read |-> Locdesc(read[i], i)]),
           res     |-> EndsAs(list), ends |-> FlawAt(list),
           items   |-> [i \in DOMAIN read |-> read[i].ops]]

-------------------------------------------------------------------------------
(* .debug_macinfo from an offset on: entries [op, file], up to an op "0" or *)
(* the end of the section.                                                 *)

(* The stack of open files.  It grows by half more than it holds, from      *)
(* STARTERMAX; `fails' says that this growth finds no memory.              *)
NoStack == [st_base |-> <<>>, max |-> 0, was_fault |-> FALSE, grown |-> 0,
            crashed |-> FALSE]

PushIndex(ms, index, starter, failing) ==
  LET max == IF ms.max = 0 THEN starter ELSE ms.max
  IN IF Len(ms.st_base) < ms.max
     THEN IF ms.grown = 0 THEN [ms EXCEPT !.crashed = TRUE]
          ELSE [ms EXCEPT !.st_base = Append(@, index)]
     ELSE IF failing = ms.grown + 1
     THEN [ms EXCEPT !.max = max, !.was_fault = TRUE]
     ELSE [ms EXCEPT !.max = max * 2, !.grown = @ + 1, !.st_base = Append(@, index)]

PopIndex(ms) ==
  IF ms.was_fault \/ ms.st_base = <<>> THEN [ms EXCEPT !.was_fault = TRUE]
  ELSE [ms EXCEPT !.st_base = Front(@)]

Popped(ms) == IF ms.was_fault \/ ms.st_base = <<>> THEN -1 ELSE Last(ms.st_base)

(* What an entry is given: the file it is in, and here also whether the     *)
(* stack had a fault before it.                                            *)
MacroItem(st, file) == [file |-> file, fault |-> st.ms.was_fault]

(* One entry of the second pass of dwarf_get_macro_details().               *)
MacroStep(st, entry, starter, failing) ==
  CASE entry.op = "start" ->
         [ms    |-> PushIndex(st.ms, st.file, starter, failing),
          file  |-> entry.file,
          items |-> Append(st.items, MacroItem(st, entry.file))]
    [] entry.op = "end" ->
         [ms    |-> PopIndex(st.ms),
          file  |-> Popped(st.ms),
          items |-> Append(st.items, MacroItem(st, st.file))]
    [] OTHER ->
         [st EXCEPT !.items = Append(@, MacroItem(st, st.file))]

(* The entries from there on, up to and with the end of the unit.           *)
MacrosOfUnit(table) ==
  LET end == SelectInSeq(table, LAMBDA e : e.op = "0")
  IN IF end = 0 THEN table ELSE SubSeq(table, 1, end)

MacroDetails(table, starter, failing) ==
  FoldLeft(LAMBDA st, e : MacroStep(st, e, starter, failing),
           [ms |-> NoStack, file |-> -1, items |-> <<>>], MacrosOfUnit(table))

(* The first pass refuses an op it does not know, and one with operands if  *)
(* nothing comes after it in the section.  What it lets pass the second    *)
(* pass finds in order.                                                    *)
WithOperands == {"define", "undef", "vendor_ext", "start"}

Inconsistent(table) ==
  \E i \in DOMAIN MacrosOfUnit(table) :
    \/ table[i].op \notin WithOperands \cup {"end", "0"}
    \/ table[i].op \in WithOperands /\ i = Len(table)

(* The block of the answer is the one struct.                              *)
SweepMacros(table, starter, failing) ==
  LET read == MacroDetails(table, starter, failing)
      res  == IF table = <<>> THEN "NO_ENTRY"
              ELSE IF Inconsistent(table) THEN "ERROR" ELSE "OK"
  IN [structs |-> IF res = "OK" THEN <<Struct("string", 0, 0)>> ELSE <<>>,
      res     |-> res, ends |-> 0, items |-> read.items,
      crashed |-> res = "OK" /\ read.ms.crashed]

-------------------------------------------------------------------------------
(* What is left of a sweep when the allocation after the first m fails, or  *)
(* when none does.                                                         *)

Out(sweep, m) == m < Len(sweep.structs)

(* _dwarf_get_locdesc() gives its chain back once it has copied it.         *)
Copied(sweep, m) ==
  {k \in 1..m : /\ sweep.structs[k].kind = "locchain"
                /\ \E j \in 1..m : /\ sweep.structs[j].kind = "locblock"
                                   /\ sweep.structs[j].part = sweep.structs[k].part}

(* What a location list that fails gives back: _dwarf_cleanup_llbuf() of    *)
(* the earlier entries, and the list.                                      *)
GivesBack(sweep, m) ==
  LET part == IF Out(sweep, m) THEN sweep.structs[m + 1].part ELSE sweep.ends
  IN {k \in 1..m : sweep.structs[k].part # part}

(* A block for which there is no list gives its locdesc back, and not what  *)
(* the locdesc points to.                                                  *)
GivesBackExpr(sweep, m) ==
  {k \in 1..m : Out(sweep, m) /\ sweep.structs[m + 1].kind = "list"
                              /\ sweep.structs[k].kind = "locdesc"}

(* Structs that are given back when the answer is made.                     *)
Passing == {"chain", "calloc", "locchain", "temporary"}

Answered(sweep) ==
  {k \in DOMAIN sweep.structs : sweep.structs[k].kind \notin Passing}
===============================================================================
