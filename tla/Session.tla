-------------------------------- MODULE Session --------------------------------
(***************************************************************************)
(* A consumer that opens an object file, reads its tables, gives some of   *)
(* the answers back and finishes: SectionLoad and TableReaders together.   *)
(*                                                                         *)
(* A call loads the sections it needs, each of which may fail, and then    *)
(* sweeps its table, for which memory may run out after any number of      *)
(* allocations.  The answers point to structs of the Dwarf_Debug, and      *)
(* those point into the section data.                                      *)
(***************************************************************************)
EXTENDS SectionLoad, TableReaders

CONSTANTS STARTERMAX,
          MaxCalls      \* bound on the calls, for TLC

ASSUME SessionAssumption ==
  /\ STARTERMAX \in Nat \ {0}
  /\ MaxCalls \in Nat

NameTables == {"pubnames", "funcnames", "typenames", "pubtypes", "varnames", "weaknames"}

(* What the tables of an object file are made of.                           *)
ASSUME TablesAssumption ==
  \A o \in Objects :
    /\ \A n \in NameTables : o.tables[n] \in Seq(NameSets)
    /\ o.tables["aranges"] \in Seq(ArangeSets)
    /\ o.tables["ranges"] \in Seq(RangeEntries)
    /\ o.tables["loc"] \in Seq(Expressions)
    /\ o.tables["macinfo"] \in Seq(MacroEntries)

VARIABLES
  structs,      \* what is allocated: records [call, at, kind, alone]
  lists,        \* the answers the consumer has and has not given back
  calls,        \* how many calls there were
  faultless,    \* none of them ran into a fault
  misfreed      \* something was freed that was not allocated

rvars == <<structs, lists, calls, faultless, misfreed>>
vars  == <<svars, rvars>>

Init ==
  /\ SInit
  /\ structs = {} /\ lists = {} /\ calls = 0
  /\ faultless = TRUE /\ misfreed = FALSE

-------------------------------------------------------------------------------
(* The calls.                                                              *)

(* A struct is alone in its part of the table: the context of an empty set. *)
Alone(sweep, k) == \A j \in DOMAIN sweep.structs :
                     sweep.structs[j].part = sweep.structs[k].part => j = k

Made(ids, sweep) ==
  {[call |-> calls, at |-> k, kind |-> sweep.structs[k].kind,
    alone |-> Alone(sweep, k)] : k \in ids}

AnError == {[call |-> calls, at |-> 0, kind |-> "error", alone |-> TRUE]}

(* The sections are loaded up to here, and `st' is how that went.           *)
Loading(st) ==
  /\ phase = "open" /\ calls < MaxCalls
  /\ calls' = calls + 1
  /\ secs' = st.secs /\ symtab' = st.symtab /\ heap' = st.heap

(* The call ends with res, an error if that says so: with no memory for the *)
(* error struct, _dwarf_error() aborts.                                    *)
Ends(res, kept) ==
  /\ \/ /\ phase' = phase
        /\ result' = [res |-> res, error |-> IF res = "ERROR" THEN "dbg" ELSE "none"]
        /\ structs' = structs \cup kept \cup IF res = "ERROR" THEN AnError ELSE {}
     \/ /\ res = "ERROR" /\ phase' = "aborted"
        /\ UNCHANGED <<result, structs>>
  /\ UNCHANGED <<object, owned, apply, elf, access, misfreed>>

NotLoaded(st) ==
  /\ Loading(st) /\ st.res # "OK"
  /\ faultless' = (faultless /\ st.res # "ERROR")
  /\ lists' = lists
  /\ IF st.error = "dbg" THEN Ends("ERROR", {})
     ELSE /\ result' = [res |-> st.res, error |-> "none"]
          /\ UNCHANGED <<object, owned, apply, phase, elf, access, structs, misfreed>>

(* The answer to a call about the section `from'.                           *)
Answer(api, from, sweep, ids, st) ==
  [call |-> calls, api |-> api, from |-> from, data |-> st.secs[from].dss_data,
   items |-> sweep.items, structs |-> sweep.structs, ids |-> ids]

(* The sections are there, and the table is swept.  `gives' are the structs *)
(* given back when the call fails after the first m allocations.           *)
Swept(api, from, sweep, m, gives, st) ==
  /\ Loading(st) /\ st.res = "OK"
  /\ IF ~Out(sweep, m) /\ sweep.res = "OK"
     THEN /\ Ends("OK", Made(Answered(sweep), sweep))
          /\ lists' = lists \cup {Answer(api, from, sweep, Answered(sweep), st)}
          /\ faultless' = faultless
     ELSE /\ Ends(IF Out(sweep, m) THEN "ERROR" ELSE sweep.res,
                  Made(((1..m) \ Copied(sweep, m)) \ gives, sweep))
          /\ lists' = lists
          /\ faultless' = (faultless /\ sweep.res = "NO_ENTRY" /\ sweep.structs = <<>>)

(* The call as a whole, when loading left `st'.                            *)
Sweeping(api, from, sweep, st) ==
  \/ NotLoaded(st)
  \/ \E m \in 0..Len(sweep.structs) : Swept(api, from, sweep, m, {}, st)

(* The call about one section.                                             *)
SweepingOnly(api, from, sweep) ==
  \E fault \in Faults({from}) : Sweeping(api, from, sweep, ThenLoad(Found, from, fault))

(* _dwarf_internal_get_pubnames_like_data() and its six callers.            *)
GetNames(api, from) ==
  \E fault \in Faults(WithInfo(from)) :
    Sweeping(api, from, SweepNames(object.tables[from]), LoadsWithInfo(from, fault))

GetGlobals  == GetNames("globals", "pubnames")
GetFuncs    == GetNames("funcs", "funcnames")
GetTypes    == GetNames("types", "typenames")
GetPubtypes == GetNames("pubtypes", "pubtypes")
GetVars     == GetNames("vars", "varnames")
GetWeaks    == GetNames("weaks", "weaknames")

GetAranges ==
  SweepingOnly("aranges", "aranges", SweepAranges(object.tables["aranges"]))

GetArangesAddrOffsets ==
  SweepingOnly("addr_offsets", "aranges", AddrOffsets(object.tables["aranges"]))

(* From any offset; at the end of the section it is a bad one.              *)
GetRanges ==
  \E offset \in 0..Len(object.tables["ranges"]) :
    LET table == SubSeq(object.tables["ranges"], offset + 1, Len(object.tables["ranges"]))
        bad   == [structs |-> <<>>, res |-> "ERROR", ends |-> 0, items |-> <<>>]
    IN SweepingOnly("ranges", "ranges", IF table = <<>> THEN bad ELSE SweepRanges(table))

(* An error that _dwarf_error() is given no Dwarf_Debug for.                *)
EndsSpecially(st) ==
  /\ Loading(st) /\ st.res = "OK"
  /\ \/ phase' = phase /\ result' = Error(FALSE)
     \/ phase' = "aborted" /\ UNCHANGED result
  /\ UNCHANGED <<object, owned, apply, elf, access, structs, lists, faultless, misfreed>>

LoclistN ==
  \E offset \in 0..Len(object.tables["loc"]), fault \in Faults({"loc"}) :
    LET sweep == SweepLoclist(SubSeq(object.tables["loc"], offset + 1,
                                     Len(object.tables["loc"])))
        large == sweep.res = "ERROR" /\ sweep.structs = <<>>
        st    == ThenLoad(Found, "loc", fault)
    IN \/ NotLoaded(st)
       \/ ~large /\ \E m \in 0..Len(sweep.structs) :
            Swept("loclist", "loc", sweep, m, GivesBack(sweep, m), st)
       \/ large /\ EndsSpecially(st)

(* A block of the DIE, which is loaded.                                     *)
LoclistOfBlock ==
  \E i \in DOMAIN object.tables["loc"] :
    LET sweep == SweepLocExpr(object.tables["loc"][i])
    IN /\ secs["info"].dss_data # NULL
       /\ object.tables["loc"][i].flaw \in {"none", "op"}
       /\ \E m \in 0..Len(sweep.structs) :
            Swept("loclist", "info", sweep, m, GivesBackExpr(sweep, m), Found)

(* dwarf_next_cu_header(), as far as the sections go.                       *)
NextCuHeader ==
  \E fault \in Faults({"abbrev", "info"}) :
    LET st == _dwarf_load_debug_info(Found, fault)
    IN \/ NotLoaded(st)
       \/ /\ Loading(st) /\ st.res = "OK" /\ Ends("OK", {})
          /\ UNCHANGED <<lists, faultless>>

(* dwarf_get_macro_details() without a maximum, from the start of a unit.   *)
(* `failing' is the growth of the stack that finds no memory.              *)
UnitStarts(table) == {offset \in 0..Len(table) : offset = 0 \/ table[offset].op = "0"}

GetMacroDetails ==
  \E offset \in UnitStarts(object.tables["macinfo"]),
     fault \in Faults({"macinfo"}), failing \in 0..2 :
    LET st    == ThenLoad(Found, "macinfo", fault)
        sweep == SweepMacros(SubSeq(object.tables["macinfo"], offset + 1,
                                    Len(object.tables["macinfo"])), STARTERMAX, failing)
    IN \/ NotLoaded(st)
       \/ \E m \in 0..Len(sweep.structs) :
            ~(sweep.crashed /\ ~Out(sweep, m)) /\ Swept("macros", "macinfo", sweep, m, {}, st)
       \/ /\ Loading(st) /\ st.res = "OK" /\ sweep.crashed
          /\ phase' = "crashed"
          /\ UNCHANGED <<object, owned, apply, elf, access, result,
                         structs, lists, faultless, misfreed>>

(* _dwarf_internal_globals_dealloc(): what it frees, in order; a context    *)
(* before the first global of its set.                                     *)
ContextOf(list, g) ==
  CHOOSE c \in DOMAIN list.structs : /\ list.structs[c].kind = "context"
                                     /\ list.structs[c].part = list.structs[g].part

FreeGlobal(acc, c, g) ==
  [last |-> c, frees |-> acc.frees \o IF c = acc.last THEN <<g>> ELSE <<c, g>>]

globals_dealloc(list) ==
  LET after[g \in 0..Len(list.structs)] ==
        IF g = 0 THEN [last |-> 0, frees |-> <<>>]
        ELSE IF list.structs[g].kind # "global" THEN after[g - 1]
        ELSE FreeGlobal(after[g - 1], ContextOf(list, g), g)
  IN after[Len(list.structs)].frees \o <<Len(list.structs)>>

NameApis == {"globals", "funcs", "types", "pubtypes", "vars", "weaks"}

(* The other answers are given back struct by struct, as the documentation  *)
(* says, or with dwarf_ranges_dealloc().                                   *)
Dealloc(list) ==
  LET frees == IF list.api \in NameApis THEN globals_dealloc(list) ELSE <<>>
      ids   == IF list.api \in NameApis THEN Range(frees) ELSE list.ids
      gone  == {s \in structs : s.call = list.call /\ s.at \in ids}
  IN /\ phase = "open"
     /\ lists' = lists \ {list}
     /\ structs' = structs \ gone
     /\ misfreed' = (misfreed \/ Cardinality(gone) # Cardinality(ids)
                               \/ Cardinality(Range(frees)) # Len(frees))
     /\ UNCHANGED <<svars, calls, faultless>>

(* dwarf_finish() frees what the Dwarf_Debug keeps track of.  The consumer  *)
(* may still have answers; their data are gone, and of their structs those *)
(* that were malloced stay.                                                *)
Close ==
  /\ Finish
  /\ structs' = {s \in structs : s.kind \in Malloced}
  /\ UNCHANGED <<lists, calls, faultless, misfreed>>

Opening ==
  /\ \/ OpenRefused \/ OpenWorks \/ OpenNoMemory
     \/ \E bad \in 0..Len(object.sections) : OpenFails(bad)
  /\ UNCHANGED rvars

Reading ==
  \/ GetGlobals \/ GetFuncs \/ GetTypes \/ GetPubtypes \/ GetVars \/ GetWeaks
  \/ GetAranges \/ GetArangesAddrOffsets \/ GetRanges
  \/ LoclistN \/ LoclistOfBlock \/ GetMacroDetails \/ NextCuHeader

Next ==
  \/ Opening
  \/ Reading
  \/ \E list \in lists : Dealloc(list)
  \/ Close

Spec == Init /\ [][Next]_vars

-------------------------------------------------------------------------------
(* Properties.                                                             *)

(* The variables have their types.                                          *)
TypeOK ==
  /\ STypeOK
  /\ structs \subseteq [call : 0..MaxCalls, at : Nat, alone : BOOLEAN, kind : Kinds]
  /\ calls \in 0..MaxCalls
  /\ {faultless, misfreed} \subseteq BOOLEAN

(* While the consumer has an answer, the section it was read from stays     *)
(* where it was, as names and macro strings point into it, and every struct *)
(* of the answer stays allocated, whatever other calls load, relocate, fail *)
(* at or give back in between.                                             *)
ListsStayValid ==
  phase = "open" =>
    \A l \in lists :
      /\ secs[l.from].dss_data = l.data /\ l.data # NULL
      /\ \A k \in l.ids : \E s \in structs : s.call = l.call /\ s.at = k

(* Nothing is given back twice, and as long as no call has failed whatever  *)
(* is allocated belongs to an answer that was not given back: the chains,  *)
(* the lists and the contexts never stay behind, except the context of a   *)
(* set that has no names, which no name leads to.  So a consumer that gives *)
(* every answer back leaves nothing behind dwarf_finish(), and one that    *)
(* does not leaves what was malloced for those answers.                    *)
NothingStrays ==
  /\ ~misfreed
  /\ faultless => \A s \in structs :
       \/ s.kind = "context" /\ s.alone
       \/ \E l \in lists : l.call = s.call /\ s.at \in l.ids

(* What the consumer has is whole and stays so, and the rest is given back.   *)
AnswersStayOwned == ListsStayValid /\ NothingStrays

Flawless(table) == \A i \in DOMAIN table : table[i].flaw = "none"

NamesWhole(l, table) ==
  /\ Flawless(table)
  /\ l.items = FlattenSeq([i \in DOMAIN table |->
                 [k \in DOMAIN table[i].dies |->
                    [cu |-> table[i].cu, die |-> table[i].cu + table[i].dies[k]]]])

AllAlike(table) == \A i \in DOMAIN table : table[i].size = "alike"

Ranges(table) ==
  FlattenSeq([i \in DOMAIN table |->
    [k \in DOMAIN table[i].ranges |->
       [ar_address |-> table[i].ranges[k][1], ar_length |-> table[i].ranges[k][2],
        ar_info_offset |-> table[i].cu]]])

(* Up to and with, or without, the first that ends a list.                  *)
RangesWhole(l, table) ==
  /\ Last(l.items) = "end" /\ "end" \notin Range(Front(l.items))
  /\ \E offset \in DOMAIN table :
       l.items = SubSeq(table, offset, offset + Len(l.items) - 1)

LoclistWhole(l, table) ==
  \E offset \in DOMAIN table :
    LET upto == offset + Len(l.items)
    IN /\ \/ l.from = "info" /\ Len(l.items) = 1
          \/ upto \in DOMAIN table /\ table[upto].kind = "end"
       /\ \A i \in offset..(upto - 1) : /\ table[i].kind # "end" \/ l.from = "info"
                                        /\ table[i].flaw = "none"
                                        /\ table[i].ops = l.items[i - offset + 1]

(* The file that a macro at entry i is in: that of the last start_file      *)
(* before it that is not closed before it.                                 *)
Balance(table, j, i) ==
  Cardinality({k \in j..i : table[k].op = "start"})
    - Cardinality({k \in j..i : table[k].op = "end"})

StillOpen(table, i) ==
  {j \in 1..(i - 1) : /\ table[j].op = "start"
                     /\ \A k \in j..(i - 1) : Balance(table, j, k) > 0}

FileOf(table, i) ==
  CASE table[i].op = "start" -> table[i].file
    [] table[i].op # "start" /\ StillOpen(table, i) = {} -> -1
    [] OTHER -> table[CHOOSE j \in StillOpen(table, i) :
                        \A k \in StillOpen(table, i) : k <= j].file

(* From the start of a unit up to its end, or that of the section.          *)
MacrosWhole(l, table) ==
  \E start \in DOMAIN table :
    LET unit == SubSeq(table, start, Len(table))
        n    == Len(l.items)
    IN /\ start = 1 \/ table[start - 1].op = "0"
       /\ n \in DOMAIN unit /\ (n = Len(unit) \/ unit[n].op = "0")
       /\ \A i \in 1..(n - 1) : unit[i].op # "0"
       /\ \A i \in 1..n : ~l.items[i].fault => l.items[i].file = FileOf(unit, i)

(* An answer has every entry of its table once, in order, each with the set *)
(* or the include file it is in, however the section is padded and however *)
(* many sets are empty; a table with a flaw gives no answer.  Of the macro  *)
(* entries after a fault of the stack of files (no memory, or more files   *)
(* closed than opened) the file is not said.  The offsets of address       *)
(* ranges are claimed only where the offsets of every set are as wide as   *)
(* its addresses: the length of a range is read as wide as an offset there  *)
(* (dwarf_arange.c:422), which dwarf_get_aranges() does not do.            *)
AnswersAreWhole ==
  \A l \in lists :
    LET table == object.tables[IF l.from = "info" THEN "loc" ELSE l.from]
    IN CASE l.api \in NameApis      -> NamesWhole(l, table)
         [] l.api = "aranges"       -> Flawless(table) /\ l.items = Ranges(table)
         [] l.api = "addr_offsets"  ->
              AllAlike(table) =>
              /\ Flawless(table) /\ \A i \in DOMAIN table : ~table[i].pad
              /\ l.items = [k \in DOMAIN Ranges(table) |-> Ranges(table)[k].ar_address]
         [] l.api = "ranges"        -> RangesWhole(l, table)
         [] l.api = "loclist"       -> LoclistWhole(l, table)
         [] l.api = "macros"        -> MacrosWhole(l, table)
===============================================================================
