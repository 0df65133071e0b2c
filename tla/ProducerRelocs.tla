----------------------------- MODULE ProducerRelocs -----------------------------
(***************************************************************************)
(* The relocations of the producer (src/libdwarf/pro_reloc.c,              *)
(* pro_reloc_stream.c, pro_reloc_symbolic.c) and the buffers of section     *)
(* data (_dwarf_pro_buffer() of pro_section.c).                            *)
(*                                                                         *)
(* A Dwarf_P_Debug is a record; these modules use of it                    *)
(*   conf     [ptr, off, ext, symbolic, is64]: the sizes of an address, an  *)
(*            offset and the 64-bit escape, and the kind of relocations    *)
(*   mem      its memory                                                   *)
(*   res      how the current call goes: "OK", or "ERROR"                  *)
(*   sects    the buffers, in order: [sect, nbytes, alloc, fields]         *)
(*   next     the one that dwarf_get_section_bytes() returns next          *)
(*   reloc    the relocations of each section: [count, slots, blocks, sect] *)
(*   elf_sects  the sections that were created                             *)
(* What is written is a sequence of fields [w, n, v, sym]: what it is, its  *)
(* bytes, its value, and the symbol it is to be relocated by, if any.      *)
(***************************************************************************)
EXTENDS ProducerMemory

CONSTANTS CHUNK_SIZE,
          DEFAULT_SLOTS_PER_BLOCK

ASSUME BufferAssumption ==
  /\ CHUNK_SIZE \in Nat \ {0}
  /\ DEFAULT_SLOTS_PER_BLOCK \in Nat \ {0}

SectionNames == <<"info", "line", "abbrev", "frame", "aranges", "pubnames",
                  "funcnames", "typenames", "varnames", "weaknames", "macinfo">>

Rel(s) == "rel." \o s

(* The calls of a function that may end it with an error.                   *)
Then(d, F(_)) == IF d.res = "OK" THEN F(d) ELSE d
Each(d, list, F(_, _)) ==
  FoldLeft(LAMBDA acc, e : IF acc.res = "OK" THEN F(acc, e) ELSE acc, d, list)

Alloc(d, dbg) ==
  [d EXCEPT !.mem = get_alloc(@, dbg), !.res = IF d.mem.left = 0 THEN "ERROR" ELSE @]

Allocs(d, n) == Each(d, [i \in 1..n |-> i], LAMBDA acc, i : Alloc(acc, DBG))

SizeOf(fields) == FoldLeft(LAMBDA n, f : n + f.n, 0, fields)

-------------------------------------------------------------------------------
(* Buffers.                                                                *)

Fits(cur, nbytes) == cur.nbytes + nbytes <= cur.alloc

(* GET_CHUNK: _dwarf_pro_buffer(), and what is written there.               *)
Chunk(d, s, nbytes, fields) ==
  LET k == Len(d.sects)
  IN IF k > 0 /\ d.sects[k].sect = s /\ Fits(d.sects[k], nbytes)
     THEN [d EXCEPT !.sects[k].nbytes = @ + nbytes, !.sects[k].fields = @ \o fields]
     ELSE Then(Alloc(d, DBG), LAMBDA a :
            [a EXCEPT !.sects = Append(@, [sect |-> s, nbytes |-> nbytes,
                                           alloc |-> IF nbytes < CHUNK_SIZE
                                                     THEN CHUNK_SIZE ELSE nbytes,
                                           fields |-> fields])])

-------------------------------------------------------------------------------
(* Relocations.  A record is [off, sym, len, type].                         *)

NewRelocs == [count |-> 0, slots |-> DEFAULT_SLOTS_PER_BLOCK, blocks |-> <<>>,
              sect |-> NULL]

NewBlock(d, s, slots) ==
  Then(Alloc(d, DBG), LAMBDA a :
    [a EXCEPT !.reloc[s].blocks =
       Append(@, [id |-> a.mem.made, slots |-> slots, recs |-> <<>>])])

(* _dwarf_pro_pre_alloc_n_reloc_slots()                                    *)
pre_alloc_n_reloc_slots(d, s, n) ==
  IF d.reloc[s].blocks # <<>> THEN d ELSE NewBlock(d, s, n)

BugIsFull(block) == Len(block.recs) > block.slots

IsFull(block) == Len(block.recs) >= block.slots

(* _dwarf_pro_reloc_get_a_slot(), and what is written there; NULL for a     *)
(* slot that stays empty.                                                  *)
reloc_get_a_slot(d, s, rec) ==
  LET blocks == d.reloc[s].blocks
      room   == IF blocks = <<>> THEN NewBlock(d, s, d.reloc[s].slots)
                ELSE IF IsFull(Last(blocks)) THEN NewBlock(d, s, d.reloc[s].slots)
                ELSE d
  IN Then(room, LAMBDA a :
       [a EXCEPT !.reloc[s].count = @ + 1,
                 !.reloc[s].blocks[Len(a.reloc[s].blocks)].recs = Append(@, rec)])

(* dbg->de_reloc_name.  In a stream a record has the width of its type: of  *)
(* the object for an address or an offset, which is all there may be.       *)
reloc_name(d, s, off, sym, type, len) ==
  IF d.conf.symbolic
  THEN reloc_get_a_slot(d, s, [off |-> off, sym |-> sym, len |-> len, type |-> type])
  ELSE IF type = "data" /\ len \notin {d.conf.off, d.conf.ptr}
  THEN [reloc_get_a_slot(d, s, NULL) EXCEPT !.res = "ERROR"]
  ELSE reloc_get_a_slot(d, s,
         [off |-> off, sym |-> sym, type |-> type,
          len |-> IF type = "segment" THEN 4 ELSE IF d.conf.is64 THEN 8 ELSE 4])

(* dbg->de_reloc_pair, which a stream has not: two records.                 *)
reloc_pair(d, s, off, start, end, len) ==
  Then(reloc_get_a_slot(d, s, [off |-> off, sym |-> start, len |-> len, type |-> "first"]),
       LAMBDA a : reloc_get_a_slot(a, s, [off |-> off, sym |-> end, len |-> len,
                                          type |-> "second"]))

Recs(d, s) == FlattenSeq([i \in DOMAIN d.reloc[s].blocks |-> d.reloc[s].blocks[i].recs])

BlocksFreed(d, blocks) ==
  [d EXCEPT !.mem = FoldLeft(LAMBDA m, b : dealloc(m, b.id), @, blocks)]

(* The section of the relocations: de_func may refuse it.                   *)
RelSection(d, s, refused) ==
  IF d.reloc[s].sect # NULL THEN d
  ELSE IF refused = Rel(s) THEN [d EXCEPT !.res = "ERROR"]
  ELSE [d EXCEPT !.reloc[s].sect = Rel(s)]

RecordSize(conf) == IF conf.symbolic THEN 24 ELSE IF conf.is64 THEN 16 ELSE 8

(* _dwarf_stream_relocs_to_disk() for one section: one buffer.              *)
stream_relocs_to_disk(d, s, refused) ==
  LET copied == [i \in DOMAIN Recs(d, s) |->
                   [w |-> "rel", n |-> RecordSize(d.conf), v |-> Recs(d, s)[i], sym |-> NULL]]
      sect   == RelSection(d, s, refused)
      chunk  == Then(sect, LAMBDA a :
                  Chunk(a, Rel(s), d.reloc[s].count * RecordSize(d.conf), copied))
  IN Then(chunk, LAMBDA a :
       [BlocksFreed(a, a.reloc[s].blocks) EXCEPT !.reloc[s].blocks = <<>>])

(* The block all the records of a section are copied into.                  *)
Consolidated(d, s) == [id |-> d.mem.made, slots |-> d.reloc[s].count, recs |-> Recs(d, s)]

(* _dwarf_symbolic_relocs_to_disk() for one section: one block.  The fields *)
(* are reset before there is memory for it.                                *)
symbolic_relocs_to_disk(d, s, refused) ==
  LET sect  == RelSection(d, s, refused)
      reset == [sect EXCEPT !.reloc[s].blocks = <<>>, !.reloc[s].count = 0,
                            !.reloc[s].slots = d.reloc[s].count]
  IN IF sect.res # "OK" \/ Len(d.reloc[s].blocks) <= 1 THEN sect
     ELSE LET a == Alloc(reset, DBG)
          IN IF a.res # "OK" THEN a
             ELSE [BlocksFreed(a, d.reloc[s].blocks) EXCEPT
                     !.reloc[s].blocks =
                        <<Consolidated([a EXCEPT !.reloc[s] = d.reloc[s]], s)>>,
                     !.reloc[s].count = d.reloc[s].count]

transform_relocs_to_disk(d, refused) ==
  Each(d, SectionNames, LAMBDA a, s :
    IF a.reloc[s].count = 0 THEN a
    ELSE IF d.conf.symbolic THEN symbolic_relocs_to_disk(a, s, refused)
    ELSE stream_relocs_to_disk(a, s, refused))

-------------------------------------------------------------------------------
(* What the client gets.                                                   *)

(* dwarf_get_section_bytes(): NULL when there are no more.                  *)
SectionBytes(d) == IF d.next > Len(d.sects) THEN NULL ELSE d.sects[d.next]

WithRelocs(d) == SelectSeq(SectionNames, LAMBDA s : d.reloc[s].count > 0)

(* dwarf_get_relocation_info_count()                                       *)
relocation_info_count(d) == IF d.conf.symbolic THEN Len(WithRelocs(d)) ELSE 0

(* dwarf_get_relocation_info(): of the next of these sections, the count    *)
(* and the data of the first block.                                        *)
relocation_info(d) ==
  LET s == WithRelocs(d)[d.reloc_next]
  IN IF ~d.conf.symbolic THEN [res |-> "NO_ENTRY"]
     ELSE IF d.reloc_next > Len(WithRelocs(d)) THEN [res |-> "ERROR"]
     ELSE [res |-> "OK", link |-> s, sect |-> d.reloc[s].sect, count |-> d.reloc[s].count,
           data |-> Head(d.reloc[s].blocks).recs]
===============================================================================
