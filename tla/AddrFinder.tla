------------------------------- MODULE AddrFinder -------------------------------
(***************************************************************************)
(* The IRIX address finder (src/libdwarf/dwarf_addr_finder.c): it notes each *)
(* address in the sections, with its offset, so that a program that moves    *)
(* the code can change them all.                                           *)
(*                                                                         *)
(* A note is <<section, offset, address>>; a result is [res, notes], and     *)
(* what was noted before an error stays noted.                             *)
(***************************************************************************)
EXTENDS SectionReaders

Noted(res, notes) == [res |-> res, notes |-> notes]

(* F for each of them, until one is an error.                               *)
With(acc, more) == Noted(more.res, acc.notes \o more.notes)
ForEach(list, F(_)) ==
  FoldLeft(LAMBDA acc, e : IF acc.res = "ERROR" THEN acc ELSE With(acc, F(e)),
           Noted("OK", <<>>), list)

-------------------------------------------------------------------------------
(* .debug_info                                                             *)

might_have_addr    == <<"high_pc", "low_pc">>
might_have_locdesc == <<"segment", "return_addr", "frame_base", "static_link",
                        "data_member_location", "string_length", "location",
                        "use_location", "vtable_elem_location">>

(* handle_attr_addr(): dwarf_formaddr() refuses a ref_addr.                 *)
handle_attr_addr(cu, a) ==
  LET addr == formaddr(cu, a)
  IN IF a.form \notin {"addr", "ref_addr"} THEN Noted("OK", <<>>)
     ELSE IF addr.res # "OK" THEN Noted("ERROR", <<>>)
     ELSE Noted("OK", <<<<"info", a.p, addr.v>>>>)

(* handle_attr_locdesc(): the addresses in a block.                         *)
handle_attr_locdesc(cu, a) ==
  LET list == loclist(cu, a)
      addrs == SelectSeq(list.v.ops, LAMBDA op : op.lr_atom = "addr")
  IN IF a.form # "block1" THEN Noted("OK", <<>>)
     ELSE IF list.res # "OK" THEN Noted("ERROR", <<>>)
     ELSE Noted("OK", [k \in DOMAIN addrs |->
                         <<"info", a.p + addrs[k].lr_offset + 1, addrs[k].lr_number>>])

(* _dwarf_internal_srclines() for addresses only: the operand of each        *)
(* DW_LNE_set_address of the program.                                      *)
SetAddresses(cu, table) ==
  LET prog  == SubSeq(cu.line, Len(cu.line) - Len(From(cu.line, table.v.program)) + 1,
                      Len(cu.line))
      sets  == SelectSeq([k \in DOMAIN prog |-> k], LAMBDA k :
                 prog[k].w = "lne_op" /\ prog[k].v = "set_address")
      at(k) == table.v.program + Bytes(SubSeq(prog, 1, k))
  IN IF table.res # "OK" THEN Noted(table.res, <<>>)
     ELSE Noted("OK", [j \in DOMAIN sets |->
                         <<"line", at(sets[j]), Read([cu EXCEPT !.fields = cu.line],
                                                     at(sets[j]), cu.conf.ptr).v>>])
handle_debug_line(cu, p) == SetAddresses(cu, LineTableOf(cu, p))

(* process_this_die_attrs()                                                *)
process_this_die_attrs(cu, p) ==
  LET might_have(list) == SelectSeq(list, LAMBDA at : hasattr(cu, p, at))
  IN ForEach(<<IF tag(cu, p) = "cu" THEN handle_debug_line(cu, p) ELSE Noted("OK", <<>>),
               ForEach(might_have(might_have_addr),
                       LAMBDA at : handle_attr_addr(cu, attr(cu, p, at).v)),
               ForEach(might_have(might_have_locdesc),
                       LAMBDA at : handle_attr_locdesc(cu, attr(cu, p, at).v))>>,
             LAMBDA part : part)

(* handle_debug_info(): the tree in preorder, which is the order of the      *)
(* section (DieReader.tla has how the reader gets from DIE to DIE).         *)
handle_debug_info(cu) ==
  ForEach(Offsets(cu.fields, LAMBDA f : f.w = "code"),
          LAMBDA p : process_this_die_attrs(cu, p))

-------------------------------------------------------------------------------
(* The other sections                                                      *)

(* _dwarf_get_aranges_addr_offsets(): pairs up to one of zeros, an address   *)
(* and a length that is read with the size of an offset.                    *)
handle_debug_aranges(cu) ==
  LET sect    == [cu EXCEPT !.fields = cu.aranges]
      header  == cu.conf.ext + 2 * cu.conf.off + 4
      first   == header + (2 * cu.conf.ptr - 1 - ((header - 1) % (2 * cu.conf.ptr)))
      pair(k) == first + (k - 1) * (cu.conf.ptr + cu.conf.off)
      range(k) == <<Read(sect, pair(k), cu.conf.ptr).v,
                    Read(sect, pair(k) + cu.conf.ptr, cu.conf.off).v>>
      zeros(k) == At(cu.aranges, pair(k)).w = "end" \/ range(k) = <<0, 0>>
      count   == (Bytes(cu.aranges) - first) \div (cu.conf.ptr + cu.conf.off)
      stop    == SelectInSeq([k \in 1..count |-> k], zeros)
  IN IF cu.aranges = <<>> THEN Noted("NO_ENTRY", <<>>)
     ELSE IF stop # count \/ pair(count + 1) # Bytes(cu.aranges)
     THEN Noted("ERROR", <<>>)                                     \* ARANGE_LENGTH_BAD
     ELSE Noted(IF count = 1 THEN "NO_ENTRY" ELSE "OK",
                [k \in 1..(count - 1) |-> <<"aranges", pair(k), range(k)[1]>>])

(* _dwarf_frame_address_offsets(): the initial location of each FDE, behind  *)
(* the pointer to its CIE.  (The producer writes no DW_CFA_set_loc.)        *)
handle_debug_frame(cu) ==
  LET behind(p) == p + cu.conf.ext + cu.conf.off                  \* its length
      starts == FoldLeft(LAMBDA acc, f :
                  IF acc = <<>> \/ Last(acc) >= Bytes(cu.frame) THEN acc
                  ELSE Append(acc, behind(Last(acc)) + At(cu.frame, Last(acc) + cu.conf.ext).v),
                <<0>>, cu.frame)
      fdes   == SelectSeq(starts, LAMBDA p : At(cu.frame, behind(p)).w = "cie")
  IN IF cu.frame = <<>> THEN Noted("NO_ENTRY", <<>>)
     ELSE Noted("OK", [k \in DOMAIN fdes |->
            LET at == behind(fdes[k]) + cu.conf.off
            IN <<"frame", at, Read([cu EXCEPT !.fields = cu.frame], at, cu.conf.ptr).v>>])

-------------------------------------------------------------------------------
(* _dwarf_addr_finder(): location lists are not looked at.                   *)
Found(all) == IF all.res = "ERROR" THEN all ELSE Noted("OK", all.notes)
addr_finder(cu) ==
  Found(ForEach(<<handle_debug_info(cu), handle_debug_aranges(cu), handle_debug_frame(cu)>>,
                LAMBDA part : part))
===============================================================================
