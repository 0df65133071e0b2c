----------------------------- MODULE ProducerTables -----------------------------
(***************************************************************************)
(* .debug_macinfo, .debug_aranges and the sections of names, and            *)
(* dwarf_transform_to_disk_form(): see ProducerSections.tla.                *)
(***************************************************************************)
EXTENDS ProducerSections

-------------------------------------------------------------------------------
(* .debug_macinfo                                                          *)

COMMAND_LEN == 16
LINE_LEN    == 16

(* libdwarf_compose_begin(): room for the entry in the current block, or     *)
(* another one.                                                            *)
compose_begin(d, maxlen) ==
  LET room(block) == block.space - SizeOf(block.fields)
      least(n)    == IF n < maxlen THEN 2 * maxlen ELSE n
      block(n)    == Then(Alloc(d, DBG), LAMBDA a :
                       [a EXCEPT !.macs = Append(@, [id |-> a.mem.made, space |-> least(n),
                                                     fields |-> <<>>])])
  IN IF d.macs = <<>> THEN block(BASE_MACINFO_MALLOC_LEN)
     ELSE IF room(Last(d.macs)) < maxlen THEN block(2 * Last(d.macs).space)
     ELSE d

(* libdwarf_compose_complete(): what was written is counted.                *)
compose(d, maxlen, fields) ==
  Then(compose_begin(d, maxlen), LAMBDA a :
    [a EXCEPT !.macs[Len(a.macs)].fields = @ \o fields])

(* libdwarf_compose_add_string(): a terminator too many is counted, and the  *)
(* byte after the string is copied.                                        *)
MacString(len) == <<Field("str", len + 1, len), Field("junk", 1, 0)>>

(* dwarf_def_macro(); value is -1 for no value.                             *)
def_macro(d, line, name, value) ==
  compose(d, COMMAND_LEN + LINE_LEN + name + 1 + (IF value >= 0 THEN value + 1 ELSE 0) + 1,
          <<Field("type", 1, "define"), Leb("line", line)>> \o MacString(name)
          \o <<Field("str", 2, 1)>>
          \o (IF value >= 0 THEN <<Field("str", 2, 1)>> \o MacString(value) ELSE <<>>))

(* dwarf_undef_macro(), dwarf_vendor_ext()                                  *)
undef_macro(d, type, number, name) ==
  compose(d, COMMAND_LEN + LINE_LEN + name + 1,
          <<Field("type", 1, type), Leb("line", number)>> \o MacString(name))

(* dwarf_start_macro_file(): complete is not called, and the next entry is   *)
(* written over this one.                                                  *)
start_macro_file(d) == compose_begin(d, COMMAND_LEN + 2 * LINE_LEN)

end_macro_file(d) == compose(d, COMMAND_LEN, <<Field("type", 1, "end_file")>>)

(* A new block is linked to the first one, whatever was.                    *)
Chained(blocks) == IF Len(blocks) <= 2 THEN blocks ELSE <<Head(blocks), Last(blocks)>>

transform_macro_info_to_disk(d) ==
  LET blocks == Chained(d.macs)
      fields == FlattenSeq([b \in DOMAIN blocks |-> blocks[b].fields])
                \o <<Field("end", 1, 0)>>
  IN Then(Chunk(d, "macinfo", SizeOf(fields), fields), LAMBDA a :
       [BlocksFreed(a, blocks) EXCEPT !.macs = <<>>])

-------------------------------------------------------------------------------
(* .debug_aranges                                                          *)

(* dwarf_add_arange_b()                                                    *)
add_arange(d, begin, length, sym, end) ==
  Then(Alloc(d, DBG), LAMBDA a :
    [a EXCEPT !.aranges = Append(@, [begin |-> begin, length |-> length,
                                     sym |-> sym, end |-> end])])

IsPair(d, r) == d.conf.symbolic /\ r.end # NULL /\ r.length = 0

ArangeHeaderSize(d) == BEGIN_LEN_SIZE(d) + 2 + d.conf.off + 2

(* The ranges begin on a multiple of twice the size of an address.          *)
Aligned(n, ptr) == IF n % (2 * ptr) = 0 THEN n ELSE n + 2 * ptr - (n % (2 * ptr))

ArangeFields(d, nbytes) ==
  Escape(d)
  \o <<Field("length", d.conf.off, nbytes - BEGIN_LEN_SIZE(d)), Field("version", 2, 2),
       RelField("cu", d.conf.off, 0, "info"), Field("address_size", 1, d.conf.ptr),
       Field("segment_size", 1, 0),
       Field("pad", Aligned(ArangeHeaderSize(d), d.conf.ptr) - ArangeHeaderSize(d), 0)>>
  \o FlattenSeq([k \in DOMAIN d.aranges |->
       <<RelField("addr", d.conf.ptr, d.aranges[k].begin, d.aranges[k].sym),
         RelField("range", d.conf.ptr, d.aranges[k].length,
                  IF IsPair(d, d.aranges[k]) THEN d.aranges[k].end ELSE NULL)>>])
  \o <<Field("end", 2 * d.conf.ptr, 0)>>

ArangeRelocs(d, k) ==
  LET off == Aligned(ArangeHeaderSize(d), d.conf.ptr) + (k - 1) * 2 * d.conf.ptr
      r   == d.aranges[k]
      begin == reloc_name(d, "aranges", off, r.sym, "data", d.conf.ptr)
  IN Then(begin, LAMBDA a :
       IF ~IsPair(a, r) THEN a
       ELSE reloc_pair(a, "aranges", off + a.conf.ptr, r.sym, r.end, a.conf.ptr))

transform_arange_to_disk(d) ==
  LET n      == Len(d.aranges)
      nbytes == Aligned(ArangeHeaderSize(d), d.conf.ptr) + 2 * d.conf.ptr * (n + 1)
      out    == Chunk(d, "aranges", nbytes, ArangeFields(d, nbytes))
      slots  == Then(out, LAMBDA a :
                  pre_alloc_n_reloc_slots(a, "aranges",
                                          IF a.conf.symbolic THEN 3 * n + 1 ELSE n + 1))
      cu     == Then(slots, LAMBDA a :
                  [reloc_name(a, "aranges", BEGIN_LEN_SIZE(a) + 2, "info", "data", a.conf.off)
                     EXCEPT !.res = "OK"])                      \* nobody looks at the result
  IN IF out.res # "OK" THEN out
     ELSE GiveUp(Each(cu, [k \in 1..n |-> k], ArangeRelocs), "aranges")

-------------------------------------------------------------------------------
(* The sections of names.                                                  *)

(* _dwarf_add_simple_name_entry()                                          *)
add_simple_name_entry(d, s, die, len) ==
  Then(Allocs(d, 2), LAMBDA a :
    [a EXCEPT !.names[s] = Append(@, [die |-> die, len |-> len])])

BugOneBuffer(d) ==
  LET k == SelectInSeq(d.sects, LAMBDA b : b.sect = "info") IN d.sects[k].nbytes

(* The size of .debug_info, over all its buffers.                           *)
debug_info_size(d) == SumBytes(d, "info")

NameFields(d, s, nbytes) ==
  Escape(d)
  \o <<Field("length", d.conf.off, nbytes - BEGIN_LEN_SIZE(d)), Field("version", 2, 2),
       RelField("cu", d.conf.off, 0, "info"),
       Field("info_size", d.conf.off, debug_info_size(d))>>
  \o FlattenSeq([k \in DOMAIN d.names[s] |->
       <<Field("die", d.conf.off, d.dies[d.names[s][k].die].offset),
         Field("str", d.names[s][k].len + 1, d.names[s][k].len)>>])
  \o <<Field("end", d.conf.off, 0)>>

transform_simplename_to_disk(d, s) ==
  LET net_len == Sum([k \in DOMAIN d.names[s] |-> d.conf.off + d.names[s][k].len + 1])
      nbytes  == BEGIN_LEN_SIZE(d) + 2 + 2 * d.conf.off + net_len + d.conf.off
      out     == Chunk(d, s, nbytes, NameFields(d, s, nbytes))
  IN Then(out, LAMBDA a :
       GiveUp(reloc_name(a, s, BEGIN_LEN_SIZE(a) + 2, "info", "data", a.conf.off), s))

-------------------------------------------------------------------------------
(* dwarf_transform_to_disk_form()                                          *)

(* What there is something for.                                            *)
Needed(d, s) ==
  CASE s \in {"info", "abbrev"}   -> d.dies # <<>>
    [] s = "line"                 -> need_debug_line(d)
    [] s = "frame"                -> d.cies # <<>>
    [] s = "aranges"              -> d.aranges # <<>>
    [] s = "macinfo"              -> d.macs # <<>>
    [] s \in Range(NameSections)  -> d.names[s] # <<>>

(* The client is asked for all the sections first: it may refuse one.       *)
Sections(d, refused) ==
  Each(d, SelectSeq(SectionNames, LAMBDA s : Needed(d, s)), LAMBDA a, s :
    IF s = refused THEN [a EXCEPT !.res = "ERROR"]
    ELSE [a EXCEPT !.elf_sects = @ \cup {s}])

Generate(d, s, lines) ==
  CASE s = "line"    -> generate_debugline(d)
    [] s = "frame"   -> generate_debugframe(d)
    [] s = "macinfo" -> transform_macro_info_to_disk(d)
    [] s = "info"    -> generate_debuginfo(d, lines)
    [] s = "aranges" -> transform_arange_to_disk(d)
    [] OTHER         -> transform_simplename_to_disk(d, s)

(* The order matters: an FDE adds an attribute to its DIE, and a name needs  *)
(* the offset of its own.                                                  *)
Order == <<"line", "frame", "macinfo", "info", "aranges">> \o NameSections

transform_to_disk_form(d, refused) ==
  LET sections == Sections(d, refused)
      written  == Each(sections, Order, LAMBDA a, s :
                    IF Needed(a, s) THEN Generate(a, s, need_debug_line(a)) ELSE a)
  IN Then(written, LAMBDA a : transform_relocs_to_disk(a, refused))
===============================================================================
