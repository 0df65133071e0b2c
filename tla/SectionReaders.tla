----------------------------- MODULE SectionReaders -----------------------------
(***************************************************************************)
(* What the reader makes of whole sections that FormReader.tla has not:      *)
(* abbreviations by their offset (src/libdwarf/dwarf_abbrev.c), location     *)
(* expressions (dwarf_loc.c), the header of a line table and the source      *)
(* files in it (dwarf_line.c), and the addresses in all the sections         *)
(* (dwarf_addr_finder.c, the IRIX address finder).                          *)
(*                                                                         *)
(* cu is that of FormReader.tla, with the sections line, frame and aranges   *)
(* beside the fields of .debug_info and the abbreviations.                  *)
(***************************************************************************)
EXTENDS FormReader

(* The fields of a section from p on; none if no field begins there.        *)
From(fields, p) ==
  LET starts == FoldLeft(LAMBDA acc, f : Append(acc, Last(acc) + f.n), <<0>>, fields)
      k      == SelectInSeq(SubSeq(starts, 1, Len(fields)), LAMBDA s : s = p)
  IN IF k = 0 THEN <<>> ELSE SubSeq(fields, k, Len(fields))

(* The offsets at which fields begin that are as P says.                    *)
Offsets(fields, P(_)) ==
  FoldLeft(LAMBDA acc, f : [p |-> acc.p + f.n,
                            at |-> IF P(f) THEN Append(acc.at, acc.p) ELSE acc.at],
           [p |-> 0, at |-> <<>>], fields).at

-------------------------------------------------------------------------------
(* .debug_abbrev                                                           *)

(* dwarf_get_abbrev(): an abbreviation begins with its code, its tag and the *)
(* flag of its children; the code 0 is one of a byte.                       *)
get_abbrev(cu, offset) ==
  LET rest == From(cu.abbrevs, offset)
      end  == SelectInSeq(rest, LAMBDA f : f.w = "end")
  IN IF offset >= Bytes(cu.abbrevs) THEN NoEntry
     ELSE IF rest[1].v = 0 THEN Ok([code |-> 0, length |-> 1, count |-> 0])
     ELSE Ok([code |-> rest[1].v, tag |-> rest[2].v, children |-> rest[3].v,
              length |-> Bytes(SubSeq(rest, 1, end)),
              count  |-> (end - 4) \div 2,
              p      |-> offset + rest[1].n + rest[2].n + rest[3].n])

(* dwarf_get_abbrev_entry(): the two zeros at the end are an entry as well.  *)
get_abbrev_entry(cu, abbrev, index) ==
  LET rest  == From(cu.abbrevs, abbrev.p)
      pairs == SubSeq(rest, 1, 2 * abbrev.count)
      zeros == rest[2 * abbrev.count + 1]
      p     == abbrev.p + Bytes(SubSeq(rest, 1, 2 * index))
  IN IF index < 0 \/ abbrev.code = 0 \/ index > abbrev.count THEN NoEntry
     ELSE IF index = abbrev.count
     THEN IF p + zeros.n >= Bytes(cu.abbrevs) THEN Error
          ELSE Ok([at |-> 0, form |-> 0, p |-> p])
     ELSE Ok([at |-> pairs[2 * index + 1].v, form |-> pairs[2 * index + 2].v, p |-> p])

(* All of them, as a client lists them (print_abbrevs() of dwarfdump does):  *)
(* each begins where the one before it ends.                                *)
Abbrevs(cu) ==
  FoldLeft(LAMBDA acc, k :
             LET abbrev == get_abbrev(cu, acc.p)
             IN IF abbrev.res # "OK" THEN acc
                ELSE [p |-> acc.p + abbrev.v.length, list |-> Append(acc.list, abbrev.v)],
           [p |-> 0, list |-> <<>>], cu.abbrevs).list

-------------------------------------------------------------------------------
(* Location expressions                                                    *)

(* The bytes of the operands of an operation whose atom is at p - 1.        *)
OperandBytes(cu, p, atom) ==
  LET f == At(cu.fields, p)
  IN CASE atom \in {"reg0", "lit0", "dup", "deref", "plus", "shl", "eq", "nop"} -> 0
       [] atom = "addr"                                    -> cu.conf.ptr
       [] atom \in {"const1u", "pick", "deref_size"}       -> 1
       [] atom \in {"const2u", "skip", "bra", "call2"}     -> 2
       [] atom \in {"const4u", "call4"}                    -> 4
       [] atom = "call_ref"                                -> cu.conf.off
       [] atom \in {"regx", "constu", "plus_uconst", "piece",
                    "breg0", "consts", "fbreg"}            -> f.n
       [] atom \in {"bregx", "bit_piece"}                  -> f.n + At(cu.fields, p + f.n).n
       [] OTHER                                            -> -1

BugOffsetOfAtom(offset) == offset

(* lr_offset: what is counted when an operation gets its offset is the byte  *)
(* after its atom.                                                         *)
AfterAtom(offset) == offset + 1

(* _dwarf_get_locdesc(): the operations of the block of n bytes at p.       *)
get_locdesc(cu, p, n) ==
  LET step(acc, k) ==
        LET atom  == At(cu.fields, p + acc.offset).v
            at    == p + acc.offset + 1
            bytes == OperandBytes(cu, at, atom)
        IN IF acc.offset >= n \/ acc.bad THEN acc
           ELSE IF bytes < 0 THEN [acc EXCEPT !.bad = TRUE]
           ELSE [acc EXCEPT !.offset = @ + 1 + bytes,
                            !.ops = Append(@, [lr_atom   |-> atom,
                                               lr_offset |-> AfterAtom(acc.offset),
                                               lr_number |-> At(cu.fields, at).v])]
      all == FoldLeft(step, [offset |-> 0, ops |-> <<>>, bad |-> FALSE], [k \in 1..n |-> k])
  IN IF all.bad THEN Error ELSE Ok([ops |-> all.ops, read |-> all.offset])

(* dwarf_loclist() of an attribute that is a block: one description.        *)
loclist(cu, a) == get_locdesc(cu, a.p + 1, At(cu.fields, a.p).v)

-------------------------------------------------------------------------------
(* .debug_line                                                             *)

(* The strings up to a zero, and what follows it.                           *)
Listed(fields) ==
  LET end == SelectInSeq(fields, LAMBDA f : f.w = "end")
  IN [items |-> SubSeq(fields, 1, end - 1), rest |-> SubSeq(fields, end + 1, Len(fields))]

(* The directories and the files of a header; a file has a name, a directory, *)
(* a time and a length.                                                    *)
Declared(fields) ==
  LET dirs  == Listed(fields)
      files == Listed(dirs.rest)
  IN [dirs  |-> [k \in DOMAIN dirs.items |-> dirs.items[k].v],
      files |-> [k \in 1..(Len(files.items) \div 4) |->
                   [name |-> files.items[4 * k - 3].v, dir |-> files.items[4 * k - 2].v]],
      rest  |-> files.rest]

(* dwarf_read_line_table_prefix(): what is before the directories has a      *)
(* known length.  The program begins behind the files, unless the header is  *)
(* said to end before.                                                     *)
read_line_table_prefix(cu) ==
  LET ext     == IF cu.conf.ext = 0 THEN 0 ELSE 1
      start   == cu.conf.ext + 2 * cu.conf.off + 2
      end     == cu.conf.ext + cu.conf.off + cu.line[ext + 1].v
      lists   == Declared(SubSeq(cu.line, ext + 10, Len(cu.line)))
      program == Bytes(cu.line) - Bytes(lists.rest)
  IN IF end > Bytes(cu.line) THEN Error                                 \* LENGTH_BAD
     ELSE IF \E f \in Range(lists.files) : f.dir > Len(lists.dirs) THEN Error
     ELSE IF program > start + cu.line[ext + 3].v THEN Error      \* PROLOG_LENGTH_BAD
     ELSE Ok([dirs |-> lists.dirs, files |-> lists.files, program |-> program, end |-> end])

(* The table of the compilation unit whose DIE is at p.                     *)
LineTableOf(cu, p) ==
  LET list   == attr(cu, p, "stmt_list")
      offset == formudata(cu, list.v)
  IN IF list.res # "OK" THEN list
     ELSE IF cu.line = <<>> THEN Error                             \* DEBUG_LINE_NULL
     ELSE IF offset.res # "OK" \/ offset.v >= Bytes(cu.line) THEN Error
     ELSE read_line_table_prefix(cu)

(* The compilation directory, if the unit has one.  A path is the sequence   *)
(* of its parts; the names here are relative ones.                          *)
CompDir(cu, p) ==
  IF hasattr(cu, p, "comp_dir") THEN <<formstring(cu, attr(cu, p, "comp_dir").v).v>> ELSE <<>>

(* dwarf_srcfiles(): names under their directories, the compilation          *)
(* directory for 0; no files are no entry.                                  *)
FilesOf(prefix, comp_dir) ==
  LET path(f) == (IF f.dir = 0 THEN comp_dir ELSE <<prefix.v.dirs[f.dir]>>) \o <<f.name>>
  IN IF prefix.res # "OK" THEN prefix
     ELSE IF prefix.v.files = <<>> THEN NoEntry
     ELSE Ok([k \in DOMAIN prefix.v.files |-> path(prefix.v.files[k])])
srcfiles(cu, p) == FilesOf(LineTableOf(cu, p), CompDir(cu, p))

(* dwarf_linesrc() of a line of a file: the compilation directory comes      *)
(* before the others, too.                                                 *)
SourceOf(prefix, comp_dir, file) ==
  LET f == prefix.v.files[file]
  IN IF file = 0 \/ file > Len(prefix.v.files) THEN Error
     ELSE IF f.dir > Len(prefix.v.dirs) THEN Error
     ELSE Ok(comp_dir \o (IF f.dir = 0 THEN <<>> ELSE <<prefix.v.dirs[f.dir]>>) \o <<f.name>>)
linesrc(cu, p, file) == SourceOf(LineTableOf(cu, p), CompDir(cu, p), file)
===============================================================================
