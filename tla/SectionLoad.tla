------------------------------ MODULE SectionLoad ------------------------------
(***************************************************************************)
(* Opening an object file and loading its sections                         *)
(* (src/libdwarf/dwarf_original_elf_init.c, dwarf_init_finish.c,           *)
(* dwarf_elf_access.c, dwarf_error.c).                                     *)
(*                                                                         *)
(* _dwarf_setup() goes once through the section headers and notes where    *)
(* each DWARF section and its relocations are.  A section is loaded when a *)
(* call first needs it, and relocated, in a copy of its own, if it has     *)
(* relocations.  libelf, malloc and the file itself may fail at each step; *)
(* `fault' names the step that fails.                                      *)
(*                                                                         *)
(* The bytes of a section are abstracted to where they are: dss_data is    *)
(* NULL, libelf's buffer, or a relocated copy.                             *)
(***************************************************************************)
EXTENDS Naturals, Sequences, FiniteSets, SequencesExt

CONSTANTS Objects   \* object files: [sections |-> the section headers, ...]

SectionHeaders == [name : STRING, rela : BOOLEAN, size : Nat, link : Nat]

ASSUME ObjectsAssumption == \A o \in Objects : o.sections \in Seq(SectionHeaders)

VARIABLES
  object,           \* the object file
  owned,            \* libdwarf_owns_elf: dwarf_init() opened it, not the caller
  apply,            \* _dwarf_apply_relocs
  phase,            \* "closed", "open", "finished", "failed", "refused", ...
  secs,             \* the Dwarf_Section_s structs of the Dwarf_Debug, by name
  symtab,           \* obj->symtab (and obj->strtab) is set
  elf,              \* the Elf handle: "none", "open", "ended"
  access,           \* the Dwarf_Obj_Access_Interface is allocated
  heap,             \* what relocation has malloc'ed and not freed
  result            \* the last call's answer, and where its error is allocated

svars == <<object, owned, apply, phase, secs, symtab, elf, access, heap, result>>

NULL == "NULL"

DebugNames == {"info", "abbrev", "aranges", "line", "frame", "loc", "pubnames",
               "str", "funcnames", "typenames", "pubtypes", "varnames",
               "weaknames", "macinfo", "ranges"}
Names == DebugNames \cup {"eh_frame", "symtab", "strtab"}

(* ".rela.debug_" and the name of the section: .eh_frame does not match.    *)
RelaNames == DebugNames \ {"ranges"}

(* find_section_to_relocate() knows these.                                  *)
RelocatableNames == (DebugNames \cup {"eh_frame"}) \ {"str"}

MarksDwarf == {"info", "frame", "eh_frame", "ranges"}
NeverEmpty == {"info", "abbrev"}

NoSection == [dss_index |-> 0, dss_link |-> 0, dss_data |-> NULL,
              dss_reloc_index |-> 0, dss_reloc_size |-> 0, dss_reloc_link |-> 0,
              dss_data_was_malloc |-> FALSE]

Ok          == [res |-> "OK", error |-> "none"]
NoEntry     == [res |-> "NO_ENTRY", error |-> "none"]

(* _dwarf_error(): from the Dwarf_Debug once _dwarf_setup_debug() has made  *)
(* its allocator, and from malloc before that and without a Dwarf_Debug.   *)
Error(sized) == [res |-> "ERROR", error |-> IF sized THEN "dbg" ELSE "special"]

-------------------------------------------------------------------------------
(* The section headers.                                                    *)

BugLastWins(sec, header, i, name) ==
  IF header.size = 0
    THEN [ok |-> name \notin NeverEmpty, sec |-> sec]
    ELSE [ok |-> TRUE, sec |-> [sec EXCEPT !.dss_index = i, !.dss_link = header.link]]

get_basic_section_data(sec, header, i, name) ==
  IF sec.dss_index # 0 THEN [ok |-> FALSE, sec |-> sec]
  ELSE IF header.size = 0 THEN [ok |-> name \notin NeverEmpty, sec |-> sec]
  ELSE [ok  |-> TRUE,
        sec |-> [sec EXCEPT !.dss_index = i, !.dss_link = header.link]]

add_rela_data(sec, header, i) ==
  [sec EXCEPT !.dss_reloc_index = i, !.dss_reloc_size = header.size,
              !.dss_reloc_link = header.link]

(* One turn of the loop.  `bad' is the index where get_section_info() fails. *)
SetupSection(st, i, bad) ==
  LET header == object.sections[i]
      name   == header.name
      basic  == get_basic_section_data(st.secs[name], header, i, name)
  IN CASE st.res # "OK" -> st
       [] st.res = "OK" /\ i = bad -> [st EXCEPT !.res = "ERROR"]
       [] st.res = "OK" /\ i # bad /\ name \notin Names -> st
       [] st.res = "OK" /\ i # bad /\ name \in Names /\ header.rela ->
            IF name \in RelaNames
            THEN [st EXCEPT !.secs[name] = add_rela_data(@, header, i)]
            ELSE st
       [] OTHER ->
            IF basic.ok
            THEN [st EXCEPT !.secs[name] = basic.sec,
                            !.found = @ \/ name \in MarksDwarf]
            ELSE [st EXCEPT !.res = "ERROR"]

NothingFound == [res |-> "OK", found |-> FALSE, secs |-> [n \in Names |-> NoSection]]

(* What the loop has gathered after its first i turns.                      *)
Gathered(bad) ==
  LET after[i \in 0..Len(object.sections)] ==
        IF i = 0 THEN NothingFound ELSE SetupSection(after[i - 1], i, bad)
  IN after

_dwarf_setup(bad) ==
  LET end == Gathered(bad)[Len(object.sections)]
  IN IF end.res = "OK" /\ ~end.found THEN [end EXCEPT !.res = "NO_ENTRY"] ELSE end

-------------------------------------------------------------------------------
(* Opening and closing.                                                    *)

SInit ==
  /\ object \in Objects /\ owned \in BOOLEAN /\ apply \in BOOLEAN
  /\ phase = "closed"
  /\ secs = [n \in Names |-> NoSection]
  /\ symtab = FALSE
  /\ elf = IF owned THEN "none" ELSE "open"
  /\ access = FALSE
  /\ heap = {}
  /\ result = Ok

(* Not a regular file, or wrong access, or libelf cannot begin; or no       *)
(* memory for the access object, or libelf does not know the file.  In the *)
(* second case the handle is left open.                                    *)
OpenRefused ==
  /\ phase = "closed" /\ phase' = "refused"
  /\ elf' \in IF owned THEN {"none", "open"} ELSE {"open"}
  /\ result' = Error(FALSE)
  /\ UNCHANGED <<object, owned, apply, secs, symtab, access, heap>>

(* dwarf_elf_object_access_finish(): elf_end(), and free the object.         *)
AccessFinish ==
  /\ elf' = IF owned THEN "ended" ELSE elf
  /\ access' = FALSE

(* In dwarf_object_init(), _dwarf_setup() comes before _dwarf_setup_debug(). *)
SizedAtSetup == FALSE

OpenFails(bad) ==
  LET setup == _dwarf_setup(bad)
  IN /\ phase = "closed" /\ setup.res # "OK"
     /\ phase' = "failed"
     /\ result' = IF setup.res = "NO_ENTRY" THEN NoEntry ELSE Error(SizedAtSetup)
     /\ AccessFinish
     /\ UNCHANGED <<object, owned, apply, secs, symtab, heap>>

(* No memory for the Dwarf_Debug.                                           *)
OpenNoMemory ==
  /\ phase = "closed" /\ phase' = "failed"
  /\ result' = Error(FALSE)
  /\ AccessFinish
  /\ UNCHANGED <<object, owned, apply, secs, symtab, heap>>

OpenWorks ==
  LET setup == _dwarf_setup(0)
  IN /\ phase = "closed" /\ setup.res = "OK"
     /\ phase' = "open"
     /\ secs' = setup.secs
     /\ elf' = "open" /\ access' = TRUE
     /\ result' = Ok
     /\ UNCHANGED <<object, owned, apply, symtab, heap>>

(* rela_free() of every section.                                           *)
Freed == {<<"copy", n>> : n \in {m \in Names : secs[m].dss_data_was_malloc}}

(* dwarf_finish(): the access object first, then all of the Dwarf_Debug.    *)
Finish ==
  /\ phase = "open" /\ phase' = "finished"
  /\ AccessFinish
  /\ heap' = heap \ Freed
  /\ secs' = [n \in Names |-> NoSection]
  /\ symtab' = FALSE
  /\ result' = Ok
  /\ UNCHANGED <<object, owned, apply>>

-------------------------------------------------------------------------------
(* Loading.  The state it works on is [secs, symtab, heap, res, error].     *)

Loaded(st, n) == [st EXCEPT !.secs[n].dss_data = "elf", !.res = "OK"]

BugLoadData(st, n, fails) ==
  IF fails THEN [st EXCEPT !.res = "ERROR"] ELSE Loaded(st, n)

(* dwarf_elf_object_access_load_section()                                   *)
LoadData(st, n, fails) ==
  IF st.secs[n].dss_index = 0 THEN [st EXCEPT !.res = "NO_ENTRY"]
  ELSE IF fails THEN [st EXCEPT !.res = "ERROR"]
  ELSE Loaded(st, n)

(* loop_through_relocations(): the entries, then the copy, which the        *)
(* relocations are applied to.  The entries are lost if there is no copy.  *)
LoopThroughRelocations(st, n, what) ==
  CASE what = "entries" -> [st EXCEPT !.res = "ERROR"]
    [] what = "copy" -> [st EXCEPT !.res = "ERROR", !.heap = @ \cup {<<"relas", n>>}]
    [] OTHER -> [st EXCEPT !.res = "OK", !.heap = @ \cup {<<"copy", n>>},
                           !.secs[n].dss_data = "copy",
                           !.secs[n].dss_data_was_malloc = TRUE]

(* The part of dwarf_elf_object_relocate_a_section() after the checks: load *)
(* the symbols and their strings, unless they are there, and relocate.     *)
WithSymbols(st, n, what) ==
  LET sym == IF st.secs["symtab"].dss_data # NULL THEN [st EXCEPT !.res = "OK"]
             ELSE LoadData(st, "symtab", what = "symtab")
      str == IF sym.res # "OK" \/ sym.secs["strtab"].dss_data # NULL THEN sym
             ELSE LoadData(sym, "strtab", what = "strtab")
  IN IF str.res # "OK" THEN str ELSE LoopThroughRelocations(str, n, what)

relocate_a_section(st, n, what) ==
  LET sec == st.secs[n]
      set == [st EXCEPT !.symtab = TRUE]
  IN CASE sec.dss_index = 0 -> [st EXCEPT !.res = "NO_ENTRY"]
       [] sec.dss_index # 0 /\ (\/ n \notin RelocatableNames
                                \/ sec.dss_reloc_index = 0
                                \/ what = "relocs") -> [st EXCEPT !.res = "ERROR"]
       [] OTHER ->
            IF \/ st.secs["symtab"].dss_index # sec.dss_reloc_link
               \/ st.secs["strtab"].dss_index # st.secs["symtab"].dss_link
            THEN [set EXCEPT !.res = "ERROR"]
            ELSE WithSymbols(set, n, what)

BugLoadAgain(st, n, fault) ==
  LET what == IF fault[1] = n THEN fault[2] ELSE "none"
      data == LoadData(st, n, what = "data")
  IN IF data.res = "ERROR" THEN [data EXCEPT !.error = "dbg"]
     ELSE IF ~apply \/ st.secs[n].dss_reloc_size = 0
             \/ st.secs[n].dss_data_was_malloc THEN data
     ELSE relocate_a_section(data, n, what)

(* An error of the relocations is returned without a Dwarf_Error, and the   *)
(* data stay loaded.                                                       *)
_dwarf_load_section(st, n, fault) ==
  LET what == IF fault[1] = n THEN fault[2] ELSE "none"
      data == LoadData(st, n, what = "data")
  IN IF st.secs[n].dss_data # NULL THEN [st EXCEPT !.res = "OK"]
     ELSE IF data.res = "ERROR" THEN [data EXCEPT !.error = "dbg"]
     ELSE IF ~apply \/ st.secs[n].dss_reloc_size = 0 THEN data
     ELSE relocate_a_section(data, n, what)

(* A call that loads sections: what it finds, and the next section, if what *)
(* it loaded before is there.                                              *)
Found == [secs |-> secs, symtab |-> symtab, heap |-> heap, res |-> "OK", error |-> "none"]

ThenLoad(st, n, fault) == IF st.res = "OK" THEN _dwarf_load_section(st, n, fault) ELSE st

BugInfoFirst(st, fault) ==
  IF st.secs["info"].dss_data # NULL THEN st
  ELSE ThenLoad(ThenLoad(st, "info", fault), "abbrev", fault)

(* .debug_info in memory means both are.                                    *)
_dwarf_load_debug_info(st, fault) ==
  IF st.secs["info"].dss_data # NULL THEN st
  ELSE ThenLoad(ThenLoad(st, "abbrev", fault), "info", fault)

(* A table from section `from' is read; some calls need .debug_info as well. *)
WithInfo(from) == {from, "abbrev", "info"}
LoadsWithInfo(from, fault) == _dwarf_load_debug_info(ThenLoad(Found, from, fault), fault)

(* The steps that may fail, of the sections that are not there yet.         *)
What(n) == {"data"} \cup IF secs[n].dss_reloc_size = 0 THEN {}
                         ELSE {"relocs", "symtab", "strtab", "entries", "copy"}
Faults(names) ==
  {<<"", "none">>} \cup
  UNION {{n} \X What(n) : n \in {m \in names : secs[m].dss_data = NULL}}

-------------------------------------------------------------------------------
(* What is promised.                                                       *)

(* The variables have their types, and a section the file has not (index 0) *)
(* is never given data.                                                    *)
STypeOK ==
  /\ object \in Objects /\ {owned, apply, symtab, access} \subseteq BOOLEAN
  /\ phase \in {"closed", "open", "finished", "failed", "refused", "aborted", "crashed"}
  /\ secs \in [Names ->
       [dss_index : Nat, dss_link : Nat, dss_data : {NULL, "elf", "copy"},
        dss_reloc_index : Nat, dss_reloc_size : Nat, dss_reloc_link : Nat,
        dss_data_was_malloc : BOOLEAN]]
  /\ \A n \in Names : secs[n].dss_index = 0 => secs[n].dss_data = NULL
  /\ elf \in {"none", "open", "ended"}
  /\ heap \subseteq {"copy", "relas"} \X Names
  /\ result \in [res : {"OK", "NO_ENTRY", "ERROR"}, error : {"none", "dbg", "special"}]

(* The headers of the section called n, but not its relocations.            *)
Headers(n) == {i \in DOMAIN object.sections :
                 object.sections[i].name = n /\ ~object.sections[i].rela}
HasData(n) == {i \in Headers(n) : object.sections[i].size # 0}

(* What _dwarf_setup() gathers one header at a time is what the headers say *)
(* taken together: a file is refused for a second section of a name that   *)
(* has data, and otherwise each name stands for the one section with data, *)
(* in whatever order the sections come.  What makes it a file with DWARF is *)
(* any of the sections of MarksDwarf, as in the code; the comment above     *)
(* _dwarf_setup() knows only .debug_info and .debug_frame                  *)
(* (dwarf_init_finish.c:136).                                              *)
SetupIsRight ==
  /\ phase = "open" =>
       /\ \E n \in MarksDwarf : Headers(n) # {}
       /\ \A n \in Names : /\ \A i \in HasData(n), j \in Headers(n) : j <= i
                           /\ secs[n].dss_index = IF HasData(n) = {} THEN 0
                                                  ELSE CHOOSE i \in HasData(n) : TRUE
                           /\ n \in NeverEmpty => Headers(n) = HasData(n)
  /\ phase = "failed" /\ result.res = "NO_ENTRY" =>
       \A n \in MarksDwarf : Headers(n) = {}

(* After dwarf_finish(), and after a dwarf_init() that got as far as the    *)
(* sections, the copies of the relocated sections, the access object and   *)
(* an Elf handle that libdwarf opened are gone, and the caller's own is    *)
(* not; the error of a failed dwarf_init() is not part of the Dwarf_Debug  *)
(* that was freed with it.  The handle is ended as the code does it; the    *)
(* documentation says that it is not (libdwarf2.1.mm:1350).                 *)
NothingLeft ==
  phase \in {"finished", "failed"} =>
    /\ ~access /\ elf = IF owned THEN "ended" ELSE "open"
    /\ \A n \in Names : <<"copy", n>> \notin heap
    /\ result.error # "dbg"

(* .debug_info is never there without .debug_abbrev, and a section with its *)
(* own memory is in it: what dwarf_finish() frees is what the readers read. *)
InfoHasAbbrev ==
  /\ secs["info"].dss_data # NULL => secs["abbrev"].dss_data # NULL
  /\ \A n \in Names : (secs[n].dss_data = "copy") <=> (<<"copy", n>> \in heap)

(* Sections are set up as the headers say, and nothing of them outlives the   *)
(* session.                                                                *)
SetupRight == SetupIsRight /\ NothingLeft

-------------------------------------------------------------------------------
(* A statement of the documentation that the code does not keep.           *)

(* "If DW_DLV_ERROR is returned and a pointer to a Dwarf_Error pointer is   *)
(* passed to the function, then a Dwarf_Error handle is returned through   *)
(* the pointer" (libdwarf2.1.mm): not when relocating a section fails.     *)
ErrorIsDelivered == result.res = "ERROR" => result.error # "none"
===============================================================================
