-------------------------------- MODULE Producer --------------------------------
(***************************************************************************)
(* A client of the producer (src/libdwarf/pro_*.c): it describes a program,  *)
(* one call after the other, has it put into sections once, reads the        *)
(* sections and their relocations, and gives everything back.               *)
(*                                                                         *)
(* d is the Dwarf_P_Debug (ProducerRelocs.tla, ProducerDies.tla,            *)
(* ProducerSections.tla have its fields); a call is one step.  One malloc()  *)
(* of a behaviour may fail, or the client refuse one section.               *)
(*                                                                         *)
(* A definition whose name starts with Bug, here and in these modules, is    *)
(* the next definition with a plausible mistake in it; nothing uses it, it   *)
(* shows that a property can fail.                                         *)
(***************************************************************************)
EXTENDS ProducerTables

CONSTANTS Clients,     \* [conf, uses, attrs, calls]: what a client does, at most
          Faults       \* which of the mallocs of a call may fail; Nat

VARIABLES d,
          client,      \* the one of Clients that this is
          phase,       \* "building", "done", "failed", "crashed", "finished"
          calls,       \* calls of the client, for the bound
          given,       \* the attributes it gave: [die, at, op, v]
          faulty       \* whether a malloc failed or a section was refused

vars == <<d, client, phase, calls, given, faulty>>

Reader == INSTANCE AddrFinder

(* dwarf_producer_init(), common_init(): no malloc but that of the           *)
(* Dwarf_P_Debug.                                                          *)
NewDebug(conf) ==
  [conf |-> conf, mem |-> NewMemory, res |-> "OK",
   sects |-> <<>>, next |-> 1, elf_sects |-> {}, gave_up |-> {},
   reloc |-> [s \in Range(SectionNames) |-> NewRelocs], reloc_next |-> 1,
   dies |-> <<>>, expr |-> NULL, abbrevs |-> <<>>, markers |-> <<>>, strings |-> <<>>,
   die_off |-> 0, dirs |-> <<>>, files |-> <<>>, lines |-> <<>>, cies |-> <<>>, fdes |-> <<>>,
   macs |-> <<>>, aranges |-> <<>>, names |-> [s \in Range(NameSections) |-> <<>>]]

Init ==
  /\ client \in Clients
  /\ d = NewDebug(client.conf)
  /\ phase = "building" /\ calls = 0 /\ given = <<>> /\ faulty = FALSE

-------------------------------------------------------------------------------
Does(what) == what \in client.uses

(* The malloc that fails: none for -1.                                      *)
Failing == {-1} \cup IF Does("faults") /\ ~faulty THEN Faults ELSE {}

(* The result of a call F, in which the n-th malloc may fail.               *)
Call(F(_)) ==
  /\ phase = "building" /\ calls < client.calls
  /\ \E n \in Failing :
       /\ d' = F([d EXCEPT !.mem.left = n, !.res = "OK"])
       /\ d'.mem.left = -1
       /\ faulty' = (faulty \/ n # -1)
  /\ calls' = calls + 1
  /\ UNCHANGED <<client, phase>>

(* For the bound, the DIEs are made before anything is said of them.        *)
NewDie ==
  /\ Does("dies") /\ calls <= Len(d.dies) + (IF faulty THEN 1 ELSE 0)
  /\ \E parent \in IF d.dies = <<>> THEN {0} ELSE DOMAIN d.dies :
       Call(LAMBDA x : new_die(x, IF parent = 0 THEN "cu" ELSE "die", parent))
  /\ UNCHANGED given

(* An attribute a of Attributes for a die; each once.                       *)
WithAttribute(x, i, a) ==
  CASE a.op = "address"     -> add_AT_address(x, i, a.at, "addr", a.v, a.sym)
    [] a.op = "ref_address" -> add_AT_address(x, i, a.at, "ref_addr", a.v, a.sym)
    [] a.op = "dataref"     -> add_AT_address(x, i, a.at, data_form(x.conf), a.v, a.sym)
    [] a.op = "unsigned"    -> add_AT_unsigned_const(x, i, a.at, a.v)
    [] a.op = "signed"      -> add_AT_signed_const(x, i, a.at, a.v)
    [] a.op = "sdata"       -> add_AT_const_value_int(x, i, a.v, TRUE)
    [] a.op = "udata"       -> add_AT_const_value_int(x, i, a.v, FALSE)
    [] a.op = "flag"        -> add_AT_flag(x, i, a.at, a.v)
    [] a.op = "string"      -> add_AT_string(x, i, a.at, a.v)
    [] a.op = "block"       -> add_AT_block(x, i, a.at, a.v)

Gives(i, at, op, v) ==
  given' = IF d'.res = "OK" THEN Append(given, [die |-> i, at |-> at, op |-> op, v |-> v])
           ELSE given

New(i, at) == \A g \in Range(given) : <<g.die, g.at>> # <<i, at>>

AddAttribute ==
  \E i \in DOMAIN d.dies, a \in client.attrs :
    /\ New(i, a.at)
    /\ Call(LAMBDA x : WithAttribute(x, i, a)) /\ Gives(i, a.at, a.op, a.v)

AddReference ==
  /\ Does("references")
  /\ \E i, j \in DOMAIN d.dies :
       /\ New(i, "type")
       /\ Call(LAMBDA x : add_AT_reference(x, i, "type", j)) /\ Gives(i, "type", "reference", j)

AddDieMarker ==
  /\ Does("markers")
  /\ \E i \in DOMAIN d.dies :
       d.dies[i].marker = 0 /\ Call(LAMBDA x : [x EXCEPT !.dies[i].marker = calls + 1])
  /\ UNCHANGED given

NewExpr ==
  /\ Does("expressions") /\ d.expr = NULL
  /\ Call(LAMBDA x : new_expr(x)) /\ UNCHANGED given

AddExpr ==
  /\ d.expr # NULL
  /\ \/ \E op \in {"plus", "const2u", "fbreg", "bit_piece"} :
          Call(LAMBDA x : add_expr_gen(x, op, -70, 0))
     \/ \E sym \in {NULL, "text"} : Call(LAMBDA x : add_expr_addr_b(x, 1, sym))
  /\ UNCHANGED given

ExprReset ==
  /\ Does("reset") /\ d.expr # NULL
  /\ Call(LAMBDA x : expr_reset(x)) /\ UNCHANGED given

AddLocationExpr ==
  /\ d.expr # NULL
  /\ \E i \in DOMAIN d.dies :
       /\ New(i, "location")
       /\ Call(LAMBDA x : add_AT_location_expr(x, i, "location"))
       /\ Gives(i, "location", "location", d.expr.fields)

AddName ==
  /\ Does("names")
  /\ \E s \in {"pubnames", "weaknames"}, i \in DOMAIN d.dies, len \in {1, 3} :
       Call(LAMBDA x : add_simple_name_entry(x, s, i, len))
  /\ UNCHANGED given

AddArange ==
  /\ Does("aranges")
  /\ \E length \in {0, 4}, end \in {NULL, "etext"} :
       Call(LAMBDA x : add_arange(x, calls + 1, length, "text", end))
  /\ UNCHANGED given

AddMacro ==
  /\ Does("macros")
  /\ \/ \E name \in {0, 6}, value \in {-1, 2} : Call(LAMBDA x : def_macro(x, 1, name, value))
     \/ \E type \in {"undef", "vendor_ext"} : Call(LAMBDA x : undef_macro(x, type, 200, 2))
     \/ Call(LAMBDA x : start_macro_file(x))
     \/ Call(LAMBDA x : end_macro_file(x))
  /\ UNCHANGED given

AddDecl ==
  /\ Does("decls")
  /\ \/ Call(LAMBDA x : add_decl(x, "dirs", 2, 0))
     \/ \E dir \in {0, 1} : Call(LAMBDA x : add_decl(x, "files", 3 + Len(x.files), dir))
  /\ UNCHANGED given

LastAddress == IF d.lines = <<>> \/ Last(d.lines).opc = "end_sequence" THEN 0
               ELSE Last(d.lines).address

(* Addresses grow in a sequence: LineTable.tla has what happens otherwise.   *)
AddLine ==
  /\ Does("lines")
  /\ \/ \E adv \in {4, 6, 400}, line \in {2, 30} :
          Call(LAMBDA x : add_line(x, "none", LastAddress + adv, line, NULL))
     \/ Call(LAMBDA x : add_line(x, "set_address", LastAddress, 0, "text"))
     \/ Call(LAMBDA x : add_line(x, "end_sequence", LastAddress + 4, 0, NULL))
  /\ UNCHANGED given

(* For the bound, the CIEs are first, and an FDE is added before the next is  *)
(* begun; plain frames have no more than they must.                              *)
AddFrameCie ==
  /\ Does("frames") /\ d.fdes = <<>>
  /\ \E v0 \in BOOLEAN :
       (Does("plain frames") => ~v0) /\ Call(LAMBDA x : add_frame_cie(x, v0, 2))
  /\ UNCHANGED given

NewFde ==
  /\ Does("frames") /\ \A f \in DOMAIN d.fdes : d.fdes[f].dbg # NULL
  /\ Call(LAMBDA x : new_fde(x)) /\ UNCHANGED given

AddFdeInst ==
  /\ ~Does("plain frames")
  /\ \E f \in DOMAIN d.fdes, n \in {0, 2} :
       Call(LAMBDA x : add_fde_inst(x, f, n))
  /\ UNCHANGED given

(* A CIE may be named that is not there.                                    *)
AddFrameInfo ==
  \E f \in DOMAIN d.fdes, i \in DOMAIN d.dies, cie \in 1..(Len(d.cies) + 1),
     end \in {NULL, "etext"}, exc \in {-1, 8} :
       /\ Does("plain frames") => exc = -1 /\ end = NULL /\ cie <= Len(d.cies)
       /\ d.fdes[f].dbg = NULL /\ New(i, "MIPS_fde")
       /\ Call(LAMBDA x : add_frame_info(x, f, i, cie, 16, "text", end, 0, exc))
       /\ given' = Append(given, [die |-> i, at |-> "MIPS_fde", op |-> "fde", v |-> f])

-------------------------------------------------------------------------------
(* dwarf_transform_to_disk_form(), once.                                    *)
Transform ==
  /\ phase = "building"
  /\ \E n \in Failing, refused \in {"none"} \cup IF Does("faults") THEN {"info", Rel("info")} ELSE {} :
       /\ refused # "none" => n = -1
       /\ d' = transform_to_disk_form([d EXCEPT !.mem.left = n, !.res = "OK"], refused)
       /\ d'.mem.left = -1 /\ (refused # "none" => d'.res = "ERROR")
       /\ faulty' = (faulty \/ n # -1 \/ refused # "none")
  /\ phase' = CASE d'.res = "OK" -> "done" [] d'.res = "ERROR" -> "failed"
                [] d'.res = "CRASH" -> "crashed"
  /\ UNCHANGED <<client, calls, given>>

(* dwarf_get_section_bytes(), dwarf_get_relocation_info() and                *)
(* dwarf_reset_section_bytes().                                            *)
Reading(new) == phase = "done" /\ Does("read") /\ d' = new
                /\ UNCHANGED <<client, phase, calls, given, faulty>>

GetSectionBytes == SectionBytes(d) # NULL /\ Reading([d EXCEPT !.next = @ + 1])
GetRelocationInfo ==
  d.reloc_next <= relocation_info_count(d) /\ Reading([d EXCEPT !.reloc_next = @ + 1])
ResetSectionBytes ==
  d.next > 1 /\ d.reloc_next > 1 /\ Reading([d EXCEPT !.next = 1, !.reloc_next = 1])

(* dwarf_producer_finish()                                                 *)
Finish ==
  /\ phase \in {"building", "done", "failed"}
  /\ d' = [d EXCEPT !.mem = dealloc_all(@)]
  /\ phase' = "finished"
  /\ UNCHANGED <<client, calls, given, faulty>>

Next ==
  \/ NewDie \/ AddAttribute \/ AddReference \/ AddDieMarker
  \/ NewExpr \/ AddExpr \/ ExprReset \/ AddLocationExpr
  \/ AddName \/ AddArange \/ AddMacro \/ AddDecl \/ AddLine
  \/ AddFrameCie \/ NewFde \/ AddFdeInst \/ AddFrameInfo
  \/ Transform \/ GetSectionBytes \/ GetRelocationInfo \/ ResetSectionBytes \/ Finish

Spec == Init /\ [][Next]_vars
-------------------------------------------------------------------------------
(* What the sections hold.                                                 *)

Fields(s) == FlattenSeq([k \in DOMAIN d.sects |->
                           IF d.sects[k].sect = s THEN d.sects[k].fields ELSE <<>>])

OffsetOf(fields, k) == SizeOf(SubSeq(fields, 1, k - 1))

(* The value of a field that there is one of.                               *)
ValueOf(fields, w) == fields[SelectInSeq(fields, LAMBDA f : f.w = w)].v

Written(s) == phase = "done" /\ Fields(s) # <<>> /\ s \notin d.gave_up

Cu == [conf |-> d.conf, fields |-> Fields("info"), abbrevs |-> Fields("abbrev"),
       line |-> Fields("line"), frame |-> Fields("frame"), aranges |-> Fields("aranges")]

(* The relocations a client finds: those of dwarf_get_relocation_info(), or  *)
(* the section of them, whose records have no length of their own.          *)
Delivered(s) ==
  IF d.conf.symbolic
  THEN LET k == SelectInSeq(WithRelocs(d), LAMBDA t : t = s)
           info == relocation_info([d EXCEPT !.reloc_next = k])
       IN IF k = 0 THEN <<>> ELSE SubSeq(info.data, 1, info.count)
  ELSE [k \in DOMAIN Fields(Rel(s)) |-> Fields(Rel(s))[k].v]

(* Where the code is known to put a relocation beside its field, or to give  *)
(* it another size: the README has the list.                               *)
KnownBeside(s) ==
  \/ d.conf.ptr # d.conf.off /\ (s \in {"frame", "line"} \/ ~d.conf.symbolic)
  \/ d.conf.ext > 0 /\ s = "frame"
  \/ Does("reset") /\ s = "info"

-------------------------------------------------------------------------------
(* Types; the bytes of every buffer are those that were written into it, and *)
(* no more than were allocated; the records of relocations are in blocks that *)
(* have room for them, and are counted (_dwarf_pro_buffer(),                 *)
(* _dwarf_pro_reloc_get_a_slot()).                                          *)
TypeOK ==
  /\ client \in Clients /\ calls \in 0..client.calls /\ faulty \in BOOLEAN
  /\ phase \in {"building", "done", "failed", "crashed", "finished"}
  /\ d.res \in {"OK", "ERROR", "CRASH"}
  /\ \A k \in DOMAIN d.sects :
       SizeOf(d.sects[k].fields) = d.sects[k].nbytes /\ d.sects[k].nbytes <= d.sects[k].alloc
  /\ \A s \in DOMAIN d.reloc :
       /\ \A b \in DOMAIN d.reloc[s].blocks :
            Len(d.reloc[s].blocks[b].recs) <= d.reloc[s].blocks[b].slots
       /\ d.reloc[s].blocks # <<>> => Len(Recs(d, s)) = d.reloc[s].count

(* When the sections were made, every field that a symbol is to be added to  *)
(* has one relocation, of its offset, its size and its symbol, and there are *)
(* no others; of the two ends of a range both are there.  The relocations    *)
(* are computed apart from the bytes, before the buffers of .debug_info are   *)
(* filled, over several blocks, and reach the client by three ways.          *)
RelocsAtFields ==
  \A s \in Range(SectionNames) : Written(s) /\ ~KnownBeside(s) =>
    LET fields == Fields(s)
        asked  == {k \in DOMAIN fields : fields[k].sym # NULL}
        recs   == Delivered(s)
        pairs  == {k \in asked : fields[k].w = "range"}
    IN /\ Len(recs) = Cardinality(asked) + Cardinality(pairs)
       /\ \A k \in asked : \E r \in Range(recs) :
            <<r.off, r.sym, r.len>> = <<OffsetOf(fields, k), fields[k].sym, fields[k].n>>
       /\ \A k \in pairs : \E r \in Range(recs) :
            r.off = OffsetOf(fields, k) /\ r.type = "first"

(* The producer takes any number for the directory of a file.               *)
DirsAreThere == \A f \in Range(d.files) : f.dir <= Len(d.dirs)

(* The compilation directory that was given, if any, and the directory of a  *)
(* file that was declared in one.                                           *)
CompDirGiven ==
  SetToSeq({g.v : g \in {x \in Range(given) : x.die = 1 /\ x.at = "comp_dir"}})
Declared(f) == IF f.dir = 0 THEN <<>> ELSE <<d.dirs[f.dir].len>>

FilesReadBack(files) ==
  IF ~DirsAreThere THEN files = Reader!Error
  ELSE IF d.files = <<>> THEN files = Reader!NoEntry
  ELSE files.v = [k \in DOMAIN d.files |->
                    (IF d.files[k].dir = 0 THEN CompDirGiven ELSE Declared(d.files[k]))
                    \o <<d.files[k].len>>]

LineReadsBack(f, path) == path = CompDirGiven \o Declared(f) \o <<f.len>>

(* A ref_addr and a dataref are written with the size of an address and read *)
(* with that of an offset: the reader goes on at the right place only when   *)
(* the sizes are the same.                                                  *)
FormsFit ==
  d.conf.ptr = d.conf.off \/ \A g \in Range(given) : g.op \notin {"ref_address", "dataref"}

(* The source files are those that were declared, in order, each under its   *)
(* directory, if it has one; and a line says the same of its file, but for    *)
(* the compilation directory before a declared one (dwarf_srcfiles(),         *)
(* dwarf_linesrc()).  A directory that is not there makes the table           *)
(* unreadable.                                                             *)
SourcesReadBack ==
  Written("info") /\ Written("line") /\ FormsFit /\ (\A f \in Range(d.files) : f.args) =>
    \E cu \in {Cu} :
      /\ FilesReadBack(Reader!srcfiles(cu, d.dies[1].offset))
      /\ DirsAreThere => \A k \in DOMAIN d.files :
           LineReadsBack(d.files[k], Reader!linesrc(cu, d.dies[1].offset, k).v)

(* A length says how far a section goes, whatever buffers it is in; a name   *)
(* has the offset at which its DIE begins, and the size of .debug_info;       *)
(* ranges begin on a multiple of twice an address; DW_AT_MIPS_fde is the     *)
(* offset of the FDE, and that names its CIE.                               *)
SectionsReadBack ==
  /\ \A s \in {"info", "line", "aranges"} \cup Range(NameSections) : Written(s) =>
       ValueOf(Fields(s), "length") = SizeOf(Fields(s)) - BEGIN_LEN_SIZE(d)
  /\ \A s \in Range(NameSections) : Written(s) =>
       /\ ValueOf(Fields(s), "info_size") = SizeOf(Fields("info"))
       /\ LET named == SelectSeq(Fields(s), LAMBDA f : f.w = "die")
          IN \A k \in DOMAIN d.names[s] :
               /\ named[k].v = d.dies[d.names[s][k].die].offset
               /\ Reader!At(Fields("info"), named[k].v).w = "code"
  /\ Written("aranges") => \A k \in DOMAIN Fields("aranges") :
       Fields("aranges")[k].w = "addr" => OffsetOf(Fields("aranges"), k) % (2 * d.conf.ptr) = 0
  /\ Written("frame") /\ d.conf.ext = 0 /\ FormsFit => \A g \in Range(given) : g.op = "fde" =>
       LET cu  == Cu
           fde == Reader!attr(cu, d.dies[g.die].offset, "MIPS_fde").v
           at  == Reader!formudata(cu, fde).v + d.conf.off
           cie == Reader!At(Fields("frame"), at)
       IN cie.w = "cie" /\ Reader!At(Fields("frame"), cie.v + d.conf.off).w = "id"
  /\ SourcesReadBack

(* The operations of an expression, all of it.                              *)
Operations(list, fields) ==
  /\ list.res = "OK" /\ list.v.read = SizeOf(fields)
  /\ LET ops == SelectSeq(fields, LAMBDA f : f.w = "op")
     IN [k \in DOMAIN ops |-> ops[k].v] = [k \in DOMAIN list.v.ops |-> list.v.ops[k].lr_atom]

(* What the reader answers for an attribute that the client gave: for a      *)
(* ref_addr nothing, until it is relocated.                                *)
ReadsAs(cu, g, a) ==
  CASE g.op = "address"               -> Reader!formaddr(cu, a) = Reader!Ok(g.v)
    [] g.op = "ref_address"           -> Reader!global_formref(cu, a) = Reader!Ok(0)
    [] g.op \in {"unsigned", "udata", "dataref"} -> Reader!formudata(cu, a) = Reader!Ok(g.v)
    [] g.op \in {"signed", "sdata"}   -> Reader!formsdata(cu, a) = Reader!Ok(g.v)
    [] g.op = "flag"                  -> Reader!formflag(cu, a) = Reader!Ok(g.v # 0)
    [] g.op = "string"                -> Reader!formstring(cu, a) = Reader!Ok(g.v)
    [] g.op = "block"                 -> Reader!formblock(cu, a) = Reader!Ok(g.v)
    [] g.op = "location"              -> Reader!formblock(cu, a) = Reader!Ok(SizeOf(g.v))
                                         /\ Operations(Reader!loclist(cu, a), g.v)
    [] g.op = "reference"  -> Reader!formref(cu, a) = Reader!Ok(d.dies[g.v].offset)
    [] g.op = "fde"                   -> Reader!formudata(cu, a).res = "OK"

Made == {"sibling", "stmt_list"}

(* A sibling is the next DIE of the same parent.                            *)
IsNext(i, p) ==
  \E j \in DOMAIN d.dies :
    /\ d.dies[j].offset = p /\ j > i /\ d.dies[j].parent = d.dies[i].parent
    /\ \A k \in i + 1 .. j - 1 : d.dies[k].parent # d.dies[i].parent

(* The abbreviations by their offsets: in the order of their codes, each with *)
(* the pairs it was made with, then two zeros.                             *)
AbbrevsReadBack ==
  Written("info") =>
    \E cu \in {Cu} : \E list \in {Reader!Abbrevs(cu)} :
       /\ Len(list) = Len(d.abbrevs) + 1 /\ Last(list).code = 0
       /\ \A k \in DOMAIN d.abbrevs :
            LET abb == d.abbrevs[k]
                entry(i) == Reader!get_abbrev_entry(cu, list[k], i)
            IN /\ list[k].code = k /\ list[k].tag = abb.tag
               /\ list[k].children = abb.children /\ list[k].count = Len(abb.attrs)
               /\ \A i \in DOMAIN abb.attrs :
                    <<entry(i - 1).v.at, entry(i - 1).v.form>> = abb.attrs[i]
               /\ entry(Len(abb.attrs)).v.at = 0
               /\ entry(Len(abb.attrs) + 1) = Reader!NoEntry

(* The reader finds each DIE where the producer says it is, with its tag and *)
(* the attributes the client gave and no others, and each has the value it    *)
(* was given; markers and strings are where the client is told they are.     *)
(* DIEs share abbreviations, which may have the attributes in another order;  *)
(* offsets are computed one pass before the bytes are written; and the        *)
(* reader skips an attribute by the size it knows for its form.  (Without a   *)
(* CIE no FDE is written, and no DW_AT_MIPS_fde.)  Said only where that size  *)
(* is the one the producer used.                                            *)
DiesReadBack ==
  Written("info") /\ FormsFit => \E cu \in {Cu} :
    /\ \A i \in DOMAIN d.dies :
         LET p    == d.dies[i].offset
             mine == {g \in Range(given) : g.die = i /\ (g.op = "fde" => d.cies # <<>>)}
         IN /\ Reader!At(cu.fields, p).w = "code" /\ Reader!tag(cu, p) = d.dies[i].tag
            /\ {a.at : a \in Range(Reader!attrlist(cu, p))} \ Made = {g.at : g \in mine}
            /\ \A g \in mine : ReadsAs(cu, g, Reader!attr(cu, p, g.at).v)
            /\ Reader!hasattr(cu, p, "sibling") =>
                 IsNext(i, Reader!formref(cu, Reader!attr(cu, p, "sibling").v).v)
    /\ {m.off : m \in Range(d.markers)}
         = {d.dies[i].offset : i \in {j \in DOMAIN d.dies : d.dies[j].marker # 0}}
    /\ \A x \in Range(d.strings) : Reader!At(cu.fields, x.off).w = "str"
    /\ Len(d.strings) = Cardinality({g \in Range(given) : g.op = "string"})
    /\ AbbrevsReadBack

(* A program that moves the code finds every address: of a DIE, within a      *)
(* location expression, in a line number program, of a range, of an FDE;      *)
(* each with the offset of its own bytes and its value, and no other place    *)
(* (dwarf_addr_finder.c).  The finder knows an address in an expression by    *)
(* the place of the byte behind its atom and the one byte of the length.      *)
AddressesFound ==
  Written("info") /\ FormsFit /\ (d.fdes # <<>> => d.conf.ext = 0)
                  /\ (d.aranges # <<>> => d.conf.ptr = d.conf.off) /\ DirsAreThere =>
    LET addresses(s, P(_)) ==
          {<<s, OffsetOf(Fields(s), k), Fields(s)[k].v>> :
             k \in {j \in DOMAIN Fields(s) : P(Fields(s)[j])}}
    IN \E found \in {Reader!addr_finder(Cu)} :
       /\ found.res = "OK"
       /\ Range(found.notes)
            = addresses("info", LAMBDA f : f.w = "addr" /\ f.sym \notin {"info", "ranges"})
              \cup addresses("frame", LAMBDA f : f.w = "initloc")
              \cup addresses("line", LAMBDA f : f.w = "addr")
              \cup addresses("aranges", LAMBDA f : f.w = "addr")

(* The blocks of a Dwarf_P_Debug are in one ring with it, both ways, and     *)
(* those it still uses are in it; when it is finished there is no block that *)
(* was in its ring.  What is left are the instructions of an FDE that was    *)
(* not added yet, in rings of their own.                                    *)
BlocksRight ==
  /\ DOMAIN d.mem.next = DOMAIN d.mem.prev
  /\ \A b \in DOMAIN d.mem.next : d.mem.next[b] \in DOMAIN d.mem.prev
                                  /\ d.mem.prev[d.mem.next[b]] = b
  /\ phase # "finished" =>
       {DBG} \cup {d.macs[k].id : k \in DOMAIN d.macs}
             \cup UNION {{d.reloc[s].blocks[k].id : k \in DOMAIN d.reloc[s].blocks}
                          : s \in Range(SectionNames)}
         \subseteq DOMAIN d.mem.next
  /\ phase = "finished" => \A b \in DOMAIN d.mem.next : b # DBG /\ d.mem.next[b] = b

(* An entry of .debug_macinfo is a type, a number and at most one string,    *)
(* which for a definition has the name, a space and the value: a reader takes  *)
(* what follows for the next entry (dwarf_def_macro(); libdwarf2p.1.mm:2008). *)
MacrosReadBack ==
  Written("macinfo") =>
    LET w == [k \in DOMAIN Fields("macinfo") |-> Fields("macinfo")[k].w]
    IN \A k \in DOMAIN w : w[k] = "str" => w[k - 1] = "line" /\ w[k + 1] \in {"type", "end"}
===============================================================================
