------------------------------ MODULE ProducerDies ------------------------------
(***************************************************************************)
(* The DIEs of the producer: their attributes (src/libdwarf/pro_die.c,      *)
(* pro_forms.c), location expressions (pro_expr.c) and .debug_info and      *)
(* .debug_abbrev, made from them (_dwarf_pro_generate_debuginfo() of        *)
(* pro_section.c).                                                         *)
(*                                                                         *)
(* These use of a Dwarf_P_Debug                                            *)
(*   dies     [tag, parent, attrs, marker, offset], in the order they were  *)
(*            made, each but the first under another (DieTree.tla has the   *)
(*            other ways to link them)                                     *)
(*   expr     the location expression that is being made, or NULL           *)
(*   abbrevs  [tag, children, attrs]                                        *)
(*   markers, strings   what dwarf_get_die_markers() and                   *)
(*            dwarf_get_string_attributes_info() return                    *)
(*   die_off  where pass 1 is                                               *)
(* An attribute is [at, form, fields, rel]; rel, if it is to be relocated,  *)
(* is [off, sym, len] with the offset in the attribute.                    *)
(***************************************************************************)
EXTENDS ProducerRelocs

CONSTANT MAXIMUM_LOC_EXPR_LENGTH     \* 20

Field(w, n, v) == [w |-> w, n |-> n, v |-> v, sym |-> NULL]
RelField(w, n, v, sym) == [w |-> w, n |-> n, v |-> v, sym |-> sym]

(* What _dwarf_pro_encode_leb128_nm() needs for a number, up to 2^28.       *)
LebSize(v) == CHOOSE n \in 1..4 : v < 128^n /\ (n = 1 \/ v >= 128^(n - 1))

(* ... and _dwarf_pro_encode_signed_leb128_nm(): the last byte has the sign. *)
SignedLebSize(v) ==
  CHOOSE n \in 1..4 : /\ v \in (-64) * 128^(n - 1) .. 64 * 128^(n - 1) - 1
                      /\ n = 1 \/ v \notin (-64) * 128^(n - 2) .. 64 * 128^(n - 2) - 1

Leb(w, v) == Field(w, LebSize(v), v)

-------------------------------------------------------------------------------
(* Location expressions: [fields, reloc_offset, reloc_sym].                 *)

new_expr(d) ==
  Then(Alloc(d, DBG), LAMBDA a :
    [a EXCEPT !.expr = [fields |-> <<>>, reloc_offset |-> 0, reloc_sym |-> NULL]])

(* The operands of an opcode: dwarf_add_expr_gen() knows the sizes.         *)
Operands(op, v1, v2) ==
  CASE op \in {"reg0", "lit0", "dup", "deref", "plus", "shl", "eq", "nop"} -> <<>>
    [] op \in {"const1u", "pick", "deref_size"} -> <<Field("n", 1, v1)>>
    [] op \in {"const2u", "call2"} -> <<Field("n", 2, v1)>>
    [] op \in {"const4u", "call4"} -> <<Field("n", 4, v1)>>
    [] op \in {"regx", "constu", "plus_uconst", "piece"} -> <<Leb("u", v1)>>
    [] op \in {"breg0", "consts", "fbreg"} -> <<Field("s", SignedLebSize(v1), v1)>>
    [] op = "bregx" -> <<Leb("u", v1), Field("s", SignedLebSize(v2), v2)>>

(* DW_OP_addr has a call of its own; the branches are not handled; and      *)
(* DW_OP_bit_piece falls through to the opcodes that are not known.         *)
BadOps == {"addr", "skip", "bra", "bit_piece"}

add_expr_gen(d, op, v1, v2) ==
  LET fields == <<Field("op", 1, op)>> \o Operands(op, v1, v2)
  IN IF op \in BadOps \/ SizeOf(d.expr.fields) + SizeOf(fields) > MAXIMUM_LOC_EXPR_LENGTH
     THEN [d EXCEPT !.res = "ERROR"]
     ELSE [d EXCEPT !.expr.fields = @ \o fields]

BugRelocAtOpcode(expr) == SizeOf(expr.fields)

RelocAt(expr) == SizeOf(expr.fields) + 1

(* dwarf_add_expr_addr_b(): one address for an expression.                  *)
add_expr_addr_b(d, addr, sym) ==
  IF \/ SizeOf(d.expr.fields) + d.conf.ptr + 1 > MAXIMUM_LOC_EXPR_LENGTH
     \/ d.expr.reloc_offset # 0
  THEN [d EXCEPT !.res = "ERROR"]
  ELSE [d EXCEPT !.expr =
          [fields |-> @.fields \o <<Field("op", 1, "addr"),
                                    RelField("addr", d.conf.ptr, addr, sym)>>,
           reloc_offset |-> RelocAt(@), reloc_sym |-> sym]]

(* dwarf_expr_reset(): of the bytes, not of the relocation.                 *)
expr_reset(d) == [d EXCEPT !.expr.fields = <<>>]

-------------------------------------------------------------------------------
(* Attributes.                                                             *)

Attr(at, form, fields, rel) == [at |-> at, form |-> form, fields |-> fields, rel |-> rel]

(* The attribute and its data are allocated before it is added to the DIE.   *)
AddAttr(d, i, mallocs, attr) ==
  Then(Allocs(d, mallocs), LAMBDA a : [a EXCEPT !.dies[i].attrs = Append(@, attr)])

data_form(conf) == IF conf.off = 8 THEN "data8" ELSE "data4"
ref_form(conf)  == IF conf.off = 8 THEN "ref8" ELSE "ref4"

(* local_add_AT_address()                                                  *)
add_AT_address(d, i, at, form, value, sym) ==
  AddAttr(d, i, 2, Attr(at, form, <<RelField("addr", d.conf.ptr, value, sym)>>,
                        IF sym = NULL THEN NULL
                        ELSE [off |-> 0, sym |-> sym, len |-> d.conf.ptr]))

DataForm(n) == CASE n = 1 -> "data1" [] n = 2 -> "data2" [] n = 4 -> "data4"

UnsignedSize(v) == IF v <= 255 THEN 1 ELSE IF v <= 65535 THEN 2 ELSE 4

BugSignedSize(v) == IF v <= 255 THEN 1 ELSE IF v <= 65535 THEN 2 ELSE 4

SignedSize(v) == IF v \in -128..127 THEN 1 ELSE IF v \in -32768..32767 THEN 2 ELSE 4

(* What a value is in so many bytes.                                        *)
Stored(v, n) == IF v < 0 /\ n < 4 THEN v + 256^n ELSE v

add_AT_unsigned_const(d, i, at, v) ==
  LET n == UnsignedSize(v)
  IN AddAttr(d, i, 2, Attr(at, DataForm(n), <<Field("data", n, Stored(v, n))>>, NULL))

add_AT_signed_const(d, i, at, v) ==
  LET n == SignedSize(v)
  IN AddAttr(d, i, 2, Attr(at, DataForm(n), <<Field("data", n, Stored(v, n))>>, NULL))

(* dwarf_add_AT_const_value_signedint(), dwarf_add_AT_const_value_unsignedint() *)
add_AT_const_value_int(d, i, v, signed) ==
  AddAttr(d, i, 2, Attr("const_value", IF signed THEN "sdata" ELSE "udata",
                        <<Field("leb", IF signed THEN SignedLebSize(v) ELSE LebSize(v), v)>>,
                        NULL))

add_AT_flag(d, i, at, v) ==
  AddAttr(d, i, 2, Attr(at, "flag", <<Field("flag", 1, v)>>, NULL))

(* dwarf_add_AT_name(), _comp_dir(), _producer(), _const_value_string() and  *)
(* dwarf_add_AT_string().                                                  *)
add_AT_string(d, i, at, len) ==
  AddAttr(d, i, 2, Attr(at, "string", <<Field("str", len + 1, len)>>, NULL))

(* dwarf_add_AT_block(): alone in giving the attribute back.                *)
add_AT_block(d, i, at, size) ==
  LET a == AddAttr(d, i, 2, Attr(at, "block", <<Leb("blen", size), Field("data", size, 0)>>,
                                 NULL))
  IN IF d.mem.left = 1 THEN [a EXCEPT !.mem = dealloc(@, @.made)] ELSE a

(* The value is filled in when all the DIEs have their offsets.             *)
add_AT_reference(d, i, at, other) ==
  AddAttr(d, i, 1, Attr(at, ref_form(d.conf), <<Field("ref", d.conf.off, other)>>, NULL))

(* The length of the block, one byte, comes before the expression.          *)
InBlock(expr) == expr.reloc_offset + 1

add_AT_location_expr(d, i, at) ==
  AddAttr(d, i, 2,
    Attr(at, "block1", <<Field("blen", 1, SizeOf(d.expr.fields))>> \o d.expr.fields,
         IF d.expr.reloc_sym = NULL THEN NULL
         ELSE [off |-> InBlock(d.expr), sym |-> d.expr.reloc_sym, len |-> d.conf.ptr]))

(* _dwarf_pro_add_AT_stmt_list(), _dwarf_pro_add_AT_fde() and               *)
(* _dwarf_pro_add_AT_macro_info(): an offset into another section.          *)
add_AT_offset(d, i, at, value, sect) ==
  AddAttr(d, i, 2, Attr(at, data_form(d.conf),
                        <<RelField("off", d.conf.off, value, sect)>>,
                        [off |-> 0, sym |-> sect, len |-> d.conf.off]))

(* dwarf_new_die() under a parent.                                          *)
new_die(d, tag, parent) ==
  Then(Alloc(d, DBG), LAMBDA a :
    [a EXCEPT !.dies = Append(@, [tag |-> tag, parent |-> parent, attrs |-> <<>>,
                                  marker |-> 0, offset |-> 0])])

-------------------------------------------------------------------------------
(* The walk over the DIEs: 0 stands for the null at the end of a list of    *)
(* siblings.                                                               *)

ChildrenOf(dies, i) == {c \in DOMAIN dies : dies[c].parent = i}

Walk(dies) ==
  LET after(s, j) == CHOOSE k \in DOMAIN s : s[k] = -dies[j].parent
      marks  == FoldLeft(LAMBDA s, j : InsertAt(InsertAt(s, after(s, j), -j), after(s, j), j),
                         <<1, -1>>, [j \in 1..(Len(dies) - 1) |-> j + 1])
      listed == SelectSeq(marks, LAMBDA m : m > 0 \/ ChildrenOf(dies, -m) # {})
  IN Append([k \in DOMAIN listed |-> IF listed[k] > 0 THEN listed[k] ELSE 0], 0)

(* An abbreviation fits if it has the attributes and forms, in any order.   *)
Matches(die, children, abb) ==
  /\ die.tag = abb.tag /\ children = abb.children
  /\ Len(die.attrs) = Len(abb.attrs)
  /\ \A k \in DOMAIN die.attrs : \E j \in DOMAIN abb.attrs :
       <<die.attrs[k].at, die.attrs[k].form>> = abb.attrs[j]

(* _dwarf_pro_getabbrev(), and its result put at the end if it is new: the  *)
(* place of the abbreviation of a DIE.                                     *)
AbbrevOf(d, i) ==
  LET children == ChildrenOf(d.dies, i) # {}
  IN SelectInSeq(d.abbrevs, LAMBDA abb : Matches(d.dies[i], children, abb))

getabbrev(d, i) ==
  LET attrs == d.dies[i].attrs
  IN IF AbbrevOf(d, i) # 0 THEN d
     ELSE Then(Allocs(d, IF attrs = <<>> THEN 1 ELSE 3), LAMBDA a :
            [a EXCEPT !.abbrevs = Append(@,
               [tag |-> d.dies[i].tag, children |-> ChildrenOf(d.dies, i) # {},
                attrs |-> [k \in DOMAIN attrs |-> <<attrs[k].at, attrs[k].form>>]])])

(* The attributes in the order of the abbreviation; they are looked for by  *)
(* what they are, without the form.                                        *)
Sorted(attrs, abb) ==
  FoldLeft(LAMBDA acc, a :
             LET k == SelectInSeq(acc.rest, LAMBDA b : b.at = a[1])
             IN IF acc.lost \/ k = 0 THEN [acc EXCEPT !.lost = TRUE]
                ELSE [acc EXCEPT !.rest = RemoveAt(@, k), !.new = Append(@, acc.rest[k])],
           [rest |-> attrs, new |-> <<>>, lost |-> FALSE], abb.attrs)

-------------------------------------------------------------------------------
(* .debug_info                                                             *)

BEGIN_LEN_SIZE(d) == d.conf.off + d.conf.ext

(* The escape before a length of 8 bytes.                                   *)
Escape(d) == IF d.conf.ext = 0 THEN <<>> ELSE <<Field("ext", d.conf.ext, 0)>>

(* The length field of the buffer that began a section is filled in.        *)
Patched(d, k, length) ==
  LET f == IF d.conf.ext = 0 THEN 1 ELSE 2
  IN [d EXCEPT !.sects[k].fields[f].v = length]

InfoHeader(d) ==
  Escape(d) \o <<Field("length", d.conf.off, 0), Field("version", 2, 2),
                 RelField("abbrev", d.conf.off, 0, "abbrev"),
                 Field("address_size", 1, d.conf.ptr)>>

(* A DW_AT_sibling for the DIEs of the first level that have children; that  *)
(* one cannot be added is no error.                                         *)
Siblings(d) ==
  LET first == SetToSortSeq(ChildrenOf(d.dies, 1), <)
  IN FoldLeft(LAMBDA acc, k :
                IF ChildrenOf(d.dies, first[k]) = {} THEN acc
                ELSE [add_AT_reference(acc, first[k], "sibling", first[k + 1])
                        EXCEPT !.res = "OK"],
              d, [k \in 1..(Len(first) - 1) |-> k])

(* The bytes of the attributes before the k-th.                             *)
BytesBefore(attrs, k) == SizeOf(FlattenSeq([j \in 1..(k - 1) |-> attrs[j].fields]))

(* Pass 1 for a DIE: its offset, abbreviation, the order of its attributes  *)
(* and their relocations.                                                  *)
Pass1Die(d, i) ==
  LET abb    == getabbrev([d EXCEPT !.dies[i].offset = d.die_off], i)
      sorted == Sorted(d.dies[i].attrs, abb.abbrevs[AbbrevOf(abb, i)])
      code   == Then(abb, LAMBDA a : Alloc(a, DBG))
      start  == d.die_off + LebSize(AbbrevOf(abb, i))
      relocs == Each([code EXCEPT !.dies[i].attrs = sorted.new],
                     [k \in DOMAIN sorted.new |-> k],
                     LAMBDA a, k :
                       LET rel == sorted.new[k].rel
                       IN IF rel = NULL THEN a
                          ELSE reloc_name(a, "info",
                                 start + BytesBefore(sorted.new, k) + rel.off,
                                 rel.sym, "data", rel.len))
  IN IF code.res # "OK" THEN code
     ELSE IF sorted.lost THEN [code EXCEPT !.res = "ERROR"]
     ELSE [relocs EXCEPT !.die_off = start + BytesBefore(sorted.new, Len(sorted.new) + 1)]

(* ... and for the null at the end of a list.                               *)
Pass1(d, i) == IF i = 0 THEN [d EXCEPT !.die_off = @ + 1] ELSE Pass1Die(d, i)

Marked(dies) == SelectSeq(SelectSeq(Walk(dies), LAMBDA i : i > 0),
                          LAMBDA i : dies[i].marker # 0)
WithStrings(dies) ==
  {i \in DOMAIN dies : \E k \in DOMAIN dies[i].attrs : dies[i].attrs[k].form = "string"}

(* marker_init(), string_attr_init(): a list for each that is not empty.    *)
SideLists(d) ==
  Allocs(d, (IF Marked(d.dies) = <<>> THEN 0 ELSE 1)
          + (IF WithStrings(d.dies) = {} THEN 0 ELSE 1))

(* A reference is the offset of its DIE, as pass 1 fixed it.                *)
Resolved(d, fields) ==
  [k \in DOMAIN fields |->
     IF fields[k].w = "ref" THEN [fields[k] EXCEPT !.v = d.dies[@].offset] ELSE fields[k]]

(* A buffer is all zeros before anything is written.                        *)
Zeros(fields) == [k \in DOMAIN fields |-> [fields[k] EXCEPT !.v = 0]]

(* Pass 2 for an attribute, and what it adds to the list of the strings.    *)
(* Of a ref_addr nothing is written: only its relocation says what it is.   *)
Pass2Attr(d, i, k) ==
  LET die   == d.dies[i]
      fields == IF die.attrs[k].form = "ref_addr" THEN Zeros(die.attrs[k].fields)
                ELSE Resolved(d, die.attrs[k].fields)
      off   == die.offset + LebSize(AbbrevOf(d, i)) + BytesBefore(die.attrs, k)
      list  == IF die.attrs[k].form # "string" THEN d.strings
               ELSE Append(d.strings, [off |-> off, n |-> SizeOf(fields)])
  IN Then(Chunk(d, "info", SizeOf(fields), fields), LAMBDA a : [a EXCEPT !.strings = list])

Pass2(d, i) ==
  IF i = 0 THEN Chunk(d, "info", 1, <<Field("null", 1, 0)>>)
  ELSE LET die    == d.dies[i]
           marked == IF die.marker = 0 THEN d
                     ELSE [d EXCEPT !.markers = Append(@, [off |-> die.offset,
                                                           marker |-> die.marker])]
       IN Each(Chunk(marked, "info", LebSize(AbbrevOf(d, i)), <<Leb("code", AbbrevOf(d, i))>>),
               [k \in DOMAIN die.attrs |-> k], LAMBDA a, k : Pass2Attr(a, i, k))

(* An abbreviation: code, tag, children, the pairs and two zeros.           *)
AbbrevChunks(d, c) ==
  LET abb   == d.abbrevs[c]
      pairs == FlattenSeq([k \in DOMAIN abb.attrs |->
                             <<Field("at", 1, abb.attrs[k][1]),
                               Field("form", 1, abb.attrs[k][2])>>])
      list  == <<Leb("acode", c), Field("tag", 1, abb.tag),
                 Field("children", 1, abb.children)>> \o pairs \o <<Field("end", 2, 0)>>
  IN Each(d, list, LAMBDA a, f : Chunk(a, "abbrev", f.n, <<f>>))

generate_debuginfo(d, lines) ==
  LET k      == Len(d.sects) + 1
      header == Chunk(d, "info", SizeOf(InfoHeader(d)), InfoHeader(d))
      macros == Then(header, LAMBDA a :
                  IF a.macs = <<>> THEN a ELSE add_AT_offset(a, 1, "macro_info", 0, "macinfo"))
      listed == Then(macros, LAMBDA a :
                  IF lines THEN add_AT_offset(a, 1, "stmt_list", 0, "line") ELSE a)
      abbrev == Then(listed, LAMBDA a :
                  reloc_name(a, "info", BEGIN_LEN_SIZE(a) + 2, "abbrev", "data", a.conf.off))
      one    == Then(abbrev, LAMBDA a :
                  Each([Siblings(a) EXCEPT !.die_off = SizeOf(InfoHeader(a))],
                       Walk(a.dies), Pass1))
      two    == Then(Then(one, SideLists), LAMBDA a : Each(a, Walk(a.dies), Pass2))
      all    == Then(two, LAMBDA a : Patched(a, k, a.die_off - BEGIN_LEN_SIZE(a)))
      abbs   == Then(all, LAMBDA a :
                  Each(a, [c \in DOMAIN a.abbrevs |-> c], AbbrevChunks))
  IN Then(abbs, LAMBDA a : Chunk(a, "abbrev", 1, <<Field("end", 1, 0)>>))
===============================================================================
