---------------------------- MODULE ProducerSections ----------------------------
(***************************************************************************)
(* The other sections of the producer, and all of them put together         *)
(* (dwarf_transform_to_disk_form() of src/libdwarf/pro_section.c):          *)
(* .debug_line (pro_line.c), .debug_frame (pro_frame.c), .debug_macinfo     *)
(* (pro_macinfo.c), .debug_aranges (pro_arange.c) and the sections of names *)
(* (pro_types.c and the others).                                            *)
(*                                                                         *)
(* These use of a Dwarf_P_Debug                                            *)
(*   dirs, files   the declarations [len, dir, args]; len is NULL without a name *)
(*   lines    [opc, address, line, sym]                                     *)
(*   cies, fdes   [v0, inst] and [die, cie, initloc, sym, end, range, exc,   *)
(*            inst, dbg, given]: dbg once it is added, and given the order   *)
(*   macs     the blocks of macro information: [id, space, fields]          *)
(*   aranges  [begin, length, sym, end]                                     *)
(*   names    the entries of each section of names: [die, len]              *)
(*   gave_up  the sections that were left as they were because a            *)
(*            relocation could not be stored, which is reported as success   *)
(***************************************************************************)
EXTENDS ProducerDies

CONSTANTS MIN_INST_LENGTH,
          BASE_MACINFO_MALLOC_LEN     \* 2048

NameSections == <<"pubnames", "funcnames", "typenames", "varnames", "weaknames">>

(* DW_DLE_ALLOC_FAIL and `return (0)': not a negative count of buffers.     *)
GiveUp(d, s) ==
  IF d.res = "OK" THEN d ELSE [d EXCEPT !.res = "OK", !.gave_up = @ \cup {s}]

(* What brings n to a multiple of k.                                        *)
Padding(n, k) == k - 1 - ((n - 1) % k)

-------------------------------------------------------------------------------
(* .debug_line                                                             *)

(* dwarf_add_directory_decl(), dwarf_add_file_decl(): the entry is in the    *)
(* list before there is memory for its name and its numbers.                *)
add_decl(d, list, len, dir) ==
  LET entry == Alloc(d, DBG)
      name  == Then(entry, LAMBDA a : Alloc(a, DBG))
      args  == Then(name, LAMBDA a : IF list = "files" THEN Alloc(a, DBG) ELSE a)
  IN IF entry.res # "OK" THEN entry
     ELSE [args EXCEPT ![list] = Append(@, [len  |-> IF name.res = "OK" THEN len ELSE NULL,
                                            dir |-> dir, args |-> args.res = "OK"])]

(* _dwarf_pro_add_line_entry(), for its three callers.                      *)
add_line(d, opc, address, line, sym) ==
  Then(Alloc(d, DBG), LAMBDA a :
    [a EXCEPT !.lines = Append(@, [opc |-> opc, address |-> address,
                                   line |-> line, sym |-> sym])])

need_debug_line(d) == d.lines # <<>> \/ d.dirs # <<>> \/ d.files # <<>>

(* The numbers of a file are a directory, a time and a length.              *)
Decls(decls, files) ==
  FlattenSeq([k \in DOMAIN decls |->
                <<Field("str", decls[k].len + 1, decls[k].len)>>
                \o (IF ~files \/ ~decls[k].args THEN <<>>
                    ELSE <<Leb("dir", decls[k].dir), Leb("time", 0), Leb("length", 0)>>)])
  \o <<Field("end", 1, 0)>>

LineProlog(d) ==
  LET rest == <<Field("min_inst", 1, MIN_INST_LENGTH), Field("is_stmt", 1, FALSE),
                Field("line_base", 1, -1), Field("line_range", 1, 4),
                Field("opcode_base", 1, 10), Field("opcode_lens", 9, 0)>>
              \o Decls(d.dirs, FALSE) \o Decls(d.files, TRUE)
  IN Escape(d) \o <<Field("length", d.conf.off, 0), Field("version", 2, 2),
                    Field("header_length", d.conf.off, SizeOf(rest))>> \o rest

(* A special opcode makes both advances (LineProducer!get_opc).             *)
IsSpecial(addr_adv, line_adv) ==
  /\ <<addr_adv \div MIN_INST_LENGTH, line_adv>> # <<0, 0>>
  /\ line_adv \in -1..2
  /\ line_adv + 1 + (addr_adv \div MIN_INST_LENGTH) * 4 + 10 <= 255

Advance(addr_adv) ==
  IF addr_adv = 0 THEN <<>>
  ELSE <<<<Field("lns", 1, "advance_pc"), Leb("advance", addr_adv \div MIN_INST_LENGTH)>>>>

(* What is written for an entry, in pieces: LineProducer.tla has what it    *)
(* does.  Only the address and the line change here.                        *)
LinePieces(d, prev, e) ==
  LET addr_adv == e.address - prev.address
      line_adv == e.line - prev.line
  IN CASE e.opc = "end_sequence" ->
            Advance(addr_adv) \o <<<<Field("lne", 1, 0)>>, <<Leb("len", 1)>>,
                                   <<Field("lne_op", 1, "end_sequence")>>>>
       [] e.opc = "set_address" ->
            <<<<Field("lne", 1, 0)>>, <<Leb("len", 1 + d.conf.ptr)>>,
              <<Field("lne_op", 1, "set_address"),
                RelField("addr", d.conf.ptr, e.address, e.sym)>>>>
       [] e.opc = "none" /\ IsSpecial(addr_adv, line_adv) -> <<<<Field("special", 1, 0)>>>>
       [] OTHER ->
            Advance(addr_adv)
            \o (IF line_adv = 0 THEN <<>>
                ELSE <<<<Field("lns", 1, "advance_line"),
                         Field("s", SignedLebSize(line_adv), line_adv)>>>>)
            \o <<<<Field("lns", 1, "copy")>>>>

NextPrev(prev, e) ==
  CASE e.opc = "end_sequence" -> [address |-> 0, line |-> 1]
    [] e.opc = "set_address"  -> [prev EXCEPT !.address = e.address]
    [] OTHER                  -> [address |-> e.address, line |-> e.line]

(* sum_bytes: what the section has.                                         *)
SumBytes(d, s) ==
  FoldLeft(LAMBDA n, b : IF b.sect = s THEN n + b.nbytes ELSE n, 0, d.sects)

(* The relocation of an address has the size of an offset.                  *)
LineEntry(acc, e) ==
  LET d == acc.d
      written == Each(d, LinePieces(d, acc.prev, e), LAMBDA a, p : Chunk(a, "line", SizeOf(p), p))
      relocated == Then(written, LAMBDA a :
                     IF e.opc # "set_address" THEN a
                     ELSE reloc_name(a, "line", SumBytes(a, "line") - a.conf.ptr,
                                     e.sym, "data", a.conf.off))
  IN IF d.res # "OK" THEN acc
     ELSE IF e.opc = "none" /\ (e.address - acc.prev.address) % MIN_INST_LENGTH # 0
     THEN [acc EXCEPT !.d.res = "ERROR"]                     \* DW_DLE_WRONG_ADDRESS
     ELSE [d |-> relocated, prev |-> NextPrev(acc.prev, e)]

generate_debugline(d) ==
  LET k      == Len(d.sects) + 1
      prolog == Chunk(d, "line", SizeOf(LineProlog(d)), LineProlog(d))
      prev   == Then(prolog, LAMBDA a : Alloc(a, DBG))
      all    == FoldLeft(LineEntry, [d |-> prev, prev |-> [address |-> 0, line |-> 1]],
                         d.lines).d
  IN IF \E x \in Range(d.dirs \o d.files) : x.len = NULL THEN [d EXCEPT !.res = "CRASH"]
     ELSE Then(all, LAMBDA a : Patched(a, k, SumBytes(a, "line") - BEGIN_LEN_SIZE(a)))

-------------------------------------------------------------------------------
(* .debug_frame                                                            *)

add_frame_cie(d, v0, inst) ==
  Then(Alloc(d, DBG), LAMBDA a : [a EXCEPT !.cies = Append(@, [v0 |-> v0, inst |-> inst])])

new_fde(d) ==
  Then(Alloc(d, DBG), LAMBDA a :
    [a EXCEPT !.fdes = Append(@, [die |-> 0, cie |-> 0, initloc |-> 0, sym |-> NULL,
                                  end |-> NULL, range |-> 0, exc |-> -1, inst |-> <<>>,
                                  dbg |-> NULL, given |-> 0])])

(* dwarf_fde_cfa_offset(), dwarf_add_fde_inst(): an opcode and n bytes of    *)
(* operands; their memory is in no list while the FDE has no Dwarf_P_Debug.  *)
add_fde_inst(d, f, n) ==
  LET dbg == d.fdes[f].dbg
      a   == Then(Alloc(d, dbg), LAMBDA x : IF n = 0 THEN x ELSE Alloc(x, dbg))
  IN Then(a, LAMBDA x : [x EXCEPT !.fdes[f].inst = Append(@, n + 1)])

(* dwarf_add_frame_fde_b(), dwarf_add_frame_info_b(): the first has no      *)
(* exception table, -1.                                                    *)
add_frame_info(d, f, die, cie, initloc, sym, end, range, exc) ==
  [d EXCEPT !.fdes[f] =
     [@ EXCEPT !.die = die, !.cie = cie, !.initloc = initloc, !.sym = sym, !.end = end,
               !.range = range, !.exc = exc, !.dbg = DBG,
               !.given = Cardinality({g \in DOMAIN d.fdes : d.fdes[g].dbg # NULL}) + 1]]

Sum(ns) == FoldLeft(LAMBDA n, m : n + m, 0, ns)

(* The length field is known before what is after it.                       *)
WithLength(d, rest) ==
  LET all == rest \o <<Field("pad", Padding(SizeOf(rest), d.conf.ptr), 0)>>
  IN Escape(d) \o <<Field("length", d.conf.off, SizeOf(all))>> \o all

CieFields(d, cie) ==
  WithLength(d, <<Field("id", d.conf.off, "CIE"), Field("version", 1, 1),
                  Field("aug", IF cie.v0 THEN 2 ELSE 1, cie.v0),
                  Field("code_align", 1, 1), Field("data_align", 1, -4),
                  Field("ret_reg", 1, 31)>>
                \o (IF cie.v0 THEN <<Leb("aug_len", 0)>> ELSE <<>>)
                \o <<Field("inst", cie.inst, 0)>>)

CieOffs(d, c) == Sum([k \in 1..(c - 1) |-> SizeOf(CieFields(d, d.cies[k]))])

(* The length of an FDE counts a length field where the pointer to the CIE   *)
(* is: with the escape before it, four bytes more than are written.         *)
fde_length(d, fde) ==
  LET n == Sum(fde.inst) + BEGIN_LEN_SIZE(d) + 2 * d.conf.ptr
           + (IF d.cies[fde.cie].v0 THEN 5 ELSE 0)
  IN n + Padding(n, d.conf.ptr)

FdeFields(d, fde) ==
  LET length  == fde_length(d, fde)
      written == <<RelField("cie", d.conf.off, CieOffs(d, fde.cie), "frame"),
                   RelField("initloc", d.conf.ptr, fde.initloc, fde.sym),
                   RelField("range", d.conf.ptr, fde.range,
                            IF d.conf.symbolic /\ fde.end # NULL /\ fde.range = 0
                            THEN fde.end ELSE NULL)>>
                 \o (IF ~d.cies[fde.cie].v0 THEN <<>>
                     ELSE <<Leb("aug_len", 4),
                            RelField("exc", 4, fde.exc,
                                     IF fde.exc >= 0 THEN "eh" ELSE NULL)>>)
                 \o <<Field("inst", Sum(fde.inst), 0)>>
  IN Escape(d) \o <<Field("length", d.conf.off, length)>> \o written
     \o <<Field("pad", length - SizeOf(written), 0)>>

WriteCie(d, c) ==
  LET fields == CieFields(d, d.cies[c]) IN Chunk(d, "frame", SizeOf(fields), fields)

(* How far an FDE moves cur_off.                                            *)
FdeStep(fde_len, d) == fde_len + d.conf.off

(* The FDE that was added g-th: its attribute, its relocations, its bytes.  *)
WriteFde(acc, g) ==
  LET f   == CHOOSE x \in DOMAIN acc.d.fdes : acc.d.fdes[x].given = g
      fde == acc.d.fdes[f]
      at  == acc.cur_off + BEGIN_LEN_SIZE(acc.d)
      fields == FdeFields(acc.d, fde)
      pair   == acc.d.conf.symbolic /\ fde.end # NULL /\ fde.range = 0
      attr == add_AT_offset(acc.d, fde.die, "MIPS_fde", acc.cur_off, "frame")
      cie  == Then(attr, LAMBDA a : reloc_name(a, "frame", at, "frame", "data", a.conf.off))
      loc  == Then(cie, LAMBDA a :
                reloc_name(a, "frame", at + a.conf.ptr, fde.sym, "data", a.conf.ptr))
      exc  == Then(loc, LAMBDA a :
                IF ~a.cies[fde.cie].v0 \/ fde.exc < 0 THEN a
                ELSE reloc_name(a, "frame", at + a.conf.off + 2 * a.conf.ptr + 1,
                                "eh", "segment", 4))
      out  == Then(exc, LAMBDA a : Chunk(a, "frame", fde_length(a, fde) + BEGIN_LEN_SIZE(a),
                                         fields))
      pairs == Then(out, LAMBDA a :
                 IF ~pair THEN a
                 ELSE GiveUp(reloc_pair(a, "frame",
                               acc.cur_off + 2 * a.conf.off + a.conf.ptr,
                               fde.sym, fde.end, a.conf.ptr), "frame"))
  IN IF acc.d.res # "OK" \/ "frame" \in acc.d.gave_up THEN acc
     ELSE IF fde.cie > Len(acc.d.cies)
     THEN [acc EXCEPT !.d.res = "ERROR"]                              \* DW_DLE_CIE_NULL
     ELSE [d |-> pairs, cur_off |-> acc.cur_off + FdeStep(fde_length(acc.d, fde), acc.d)]

generate_debugframe(d) ==
  LET cies  == Then(Alloc(d, DBG), LAMBDA a :
                 Each(a, [c \in DOMAIN a.cies |-> c], WriteCie))
      added == {f \in DOMAIN d.fdes : d.fdes[f].dbg # NULL}
  IN FoldLeft(WriteFde, [d |-> cies, cur_off |-> CieOffs(d, Len(d.cies) + 1)],
              [g \in 1..Cardinality(added) |-> g]).d
===============================================================================
