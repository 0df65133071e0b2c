------------------------------- MODULE FormReader -------------------------------
(***************************************************************************)
(* What the reader makes of the attributes of a DIE: the walk over them      *)
(* (src/libdwarf/dwarf_query.c, dwarf_util.c) and their values by their      *)
(* forms (dwarf_form.c).                                                   *)
(*                                                                         *)
(* .debug_info and .debug_abbrev are sequences of the fields of              *)
(* ProducerRelocs.tla: a read that does not fall on a field of its size      *)
(* gives GARBAGE.  cu is [conf, fields, abbrevs], conf the sizes of the      *)
(* context and of the Dwarf_Debug; an attribute is [at, form, p], p the     *)
(* offset of its value.                                                    *)
(***************************************************************************)
EXTENDS ProducerMemory

Bytes(fields) == FoldLeft(LAMBDA n, f : n + f.n, 0, fields)

GARBAGE == [w |-> "garbage", n |-> 1, v |-> -1, sym |-> NULL]

Garbage == [res |-> "OK", v |-> NULL]
Ok(v)   == [res |-> "OK", v |-> v]
Error   == [res |-> "ERROR", v |-> NULL]
NoEntry == [res |-> "NO_ENTRY", v |-> NULL]

(* The field at p, if one begins there.                                     *)
At(fields, p) ==
  FoldLeft(LAMBDA acc, f : [p |-> acc.p + f.n,
                            f |-> IF acc.p = p /\ f.n > 0 THEN f ELSE acc.f],
           [p |-> 0, f |-> GARBAGE], fields).f

(* READ_UNALIGNED                                                          *)
Read(cu, p, n) == LET f == At(cu.fields, p) IN IF f.n = n THEN Ok(f.v) ELSE Garbage

(* _dwarf_get_size_of_val(): the size of a value, known from its form, or    *)
(* from what it begins with.                                               *)
size_of_val(cu, p, form) ==
  CASE form = "addr"                                -> cu.conf.ptr
    [] form = "ref_addr"                            -> cu.conf.off
    [] form \in {"data1", "ref1", "flag"}           -> 1
    [] form \in {"data2", "ref2"}                   -> 2
    [] form \in {"data4", "ref4"}                   -> 4
    [] form \in {"data8", "ref8"}                   -> 8
    [] form = "block1"                              -> At(cu.fields, p).v + 1
    [] form = "block"                               -> At(cu.fields, p).n + At(cu.fields, p).v
    [] form \in {"string", "sdata", "udata"}        -> At(cu.fields, p).n

(* The pairs of an abbreviation, up to the two zeros.                       *)
Pairs(cu, code) ==
  LET start == SelectInSeq(cu.abbrevs, LAMBDA f : f.w = "acode" /\ f.v = code)
      rest  == SubSeq(cu.abbrevs, start + 3, Len(cu.abbrevs))
      end   == SelectInSeq(rest, LAMBDA f : f.w = "end")
  IN IF start = 0 THEN <<>>
     ELSE [k \in 1..((end - 1) \div 2) |-> <<rest[2 * k - 1].v, rest[2 * k].v>>]

(* dwarf_attrlist(): the attributes of the DIE at p, in the order of its     *)
(* abbreviation.                                                           *)
attrlist(cu, p) ==
  FoldLeft(LAMBDA acc, pair :
             [list |-> Append(acc.list, [at |-> pair[1], form |-> pair[2], p |-> acc.p]),
              p    |-> acc.p + size_of_val(cu, acc.p, pair[2])],
           [list |-> <<>>, p |-> p + At(cu.fields, p).n], Pairs(cu, At(cu.fields, p).v)).list

(* _dwarf_get_value_ptr() and dwarf_attr(): the first of them that is at.    *)
attr(cu, p, at) ==
  LET list == attrlist(cu, p)
      k    == SelectInSeq(list, LAMBDA a : a.at = at)
  IN IF k = 0 THEN NoEntry ELSE Ok(list[k])

hasattr(cu, p, at) == attr(cu, p, at).res = "OK"

tag(cu, p) ==
  cu.abbrevs[SelectInSeq(cu.abbrevs,
                         LAMBDA f : f.w = "acode" /\ f.v = At(cu.fields, p).v) + 1].v

SizeOfData(form) ==
  CASE form \in {"data1", "ref1"} -> 1 [] form \in {"data2", "ref2"} -> 2
    [] form \in {"data4", "ref4"} -> 4 [] form \in {"data8", "ref8"} -> 8

DataForms == {"data1", "data2", "data4", "data8"}
RefForms  == {"ref1", "ref2", "ref4", "ref8"}

(* dwarf_formudata(); and _dwarf_die_attr_unsigned_constant(), which is      *)
(* dwarf_bytesize() and the like.                                          *)
formudata(cu, a) ==
  IF a.form \in DataForms THEN Read(cu, a.p, SizeOfData(a.form))
  ELSE IF a.form = "udata" THEN Ok(At(cu.fields, a.p).v)
  ELSE Error

unsigned_constant(cu, p, at) ==
  IF hasattr(cu, p, at) THEN formudata(cu, attr(cu, p, at).v) ELSE NoEntry

(* The cast to a signed type of so many bytes.                              *)
SignExtended(v, n) ==
  IF v # NULL /\ n < 4 /\ v >= 2^(8 * n - 1) THEN v - 2^(8 * n) ELSE v

(* dwarf_formsdata()                                                       *)
formsdata(cu, a) ==
  IF a.form \in DataForms
  THEN Ok(SignExtended(Read(cu, a.p, SizeOfData(a.form)).v, SizeOfData(a.form)))
  ELSE IF a.form = "sdata" THEN Ok(At(cu.fields, a.p).v)
  ELSE Error

(* dwarf_formaddr(), and dwarf_lowpc() and dwarf_highpc().                  *)
formaddr(cu, a) == IF a.form = "addr" THEN Read(cu, a.p, cu.conf.ptr) ELSE Error

formflag(cu, a) == IF a.form = "flag" THEN Ok(Read(cu, a.p, 1).v # 0) ELSE Error

(* Where the compilation unit ends.                                         *)
CuEnd(cu) == Bytes(cu.fields)

(* dwarf_formref(): in its compilation unit.                                *)
formref(cu, a) ==
  IF a.form \notin RefForms THEN Error
  ELSE LET offset == Read(cu, a.p, SizeOfData(a.form))
       IN IF offset.v # NULL /\ offset.v >= CuEnd(cu) THEN Error ELSE offset

(* dwarf_global_formref(), for the only compilation unit.                   *)
global_formref(cu, a) ==
  IF a.form = "ref_addr" THEN Read(cu, a.p, cu.conf.off) ELSE formref(cu, a)

(* dwarf_formblock(): its length.                                          *)
formblock(cu, a) ==
  IF a.form \notin {"block1", "block"} THEN Error
  ELSE LET f == At(cu.fields, a.p)
       IN IF a.p + f.v >= CuEnd(cu) THEN Error ELSE Ok(f.v)

(* dwarf_formstring(), dwarf_diename(): its length.                         *)
formstring(cu, a) ==
  IF a.form # "string" THEN Error
  ELSE IF a.p >= CuEnd(cu) THEN Error ELSE Ok(At(cu.fields, a.p).v)

diename(cu, p) ==
  IF hasattr(cu, p, "name") THEN formstring(cu, attr(cu, p, "name").v) ELSE NoEntry
===============================================================================
