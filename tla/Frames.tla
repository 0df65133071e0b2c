-------------------------------- MODULE Frames --------------------------------
(***************************************************************************)
(* The consumer's side of call frame information: the lists of CIEs and    *)
(* FDEs that src/libdwarf/dwarf_frame2.c makes from .debug_frame and       *)
(* .eh_frame, and the queries of src/libdwarf/dwarf_frame.c about them.    *)
(*                                                                         *)
(* A section is a sequence of entries, and the place of an entry in it     *)
(* stands for its offset.  An entry has                                    *)
(*   kind      "cie", "fde" or "zero" (a length of 0)                      *)
(*   flaw      "none", "prefix" (a length that is no multiple of the size  *)
(*             of an offset), "length" (nothing follows the CIE id in the  *)
(*             section) or "body" (an unknown version of a CIE, an unknown *)
(*             pointer encoding in a CIE or an FDE)                        *)
(*   aug, ra   of a CIE: its augmentation and return address register      *)
(*   ref       of an FDE: its CIE's offset, in .eh_frame the way back to it *)
(*   lo, range of an FDE: the addresses it is about                        *)
(*   code, data, prog   the factors of a CIE, the instructions of either   *)
(***************************************************************************)
EXTENDS FrameRules, FiniteSets

CONSTANTS
  Files,          \* the objects
  MaxRegisters,   \* bound on the columns asked for, for TLC
  MaxFailing      \* bound on the allocation of a query that fails, for TLC

ASSUME FramesAssumption == MaxRegisters \in Nat \ {0} /\ MaxFailing \in Nat

VARIABLES
  file,       \* [debug, eh, abi, count, numbers, calls]: the object, the numbers
              \* at the start, those the consumer may set, and how often it calls
  phase,      \* "open", "finished" or "crashed"
  abi,        \* the numbers de_frame_cfa_col_number and so on
  count,      \* de_frame_reg_rules_entry_count
  cies, fdes, \* the structs that are allocated, by an id
  lists,      \* the answers to dwarf_get_fde_list() the consumer has
  fde_count,  \* de_fde_count and de_fde_count_eh
  lost,       \* how many remembered tables were never given back
  calls,      \* how many calls there were
  answer,     \* that to the last one
  failed,     \* the CIEs for which making the initial table failed
  troubled    \* what has failed so far of "fde", the making of an FDE, and
              \* "instructions", a run of them

vars == <<file, phase, abi, count, cies, fdes, lists, fde_count, lost, calls,
          answer, failed, troubled>>

NoTable == [none |-> TRUE]
NoAnswer(api, res) == [api |-> api, res |-> res]
Places == {"debug", "eh"}

Init ==
  /\ file \in Files
  /\ phase = "open" /\ abi = file.abi /\ count = file.count
  /\ cies = << >> /\ fdes = << >> /\ lists = {}
  /\ fde_count = [sec \in Places |-> 0]
  /\ lost = 0 /\ calls = 0 /\ answer = NoAnswer("none", "OK")
  /\ failed = {} /\ troubled = {}

Calling == phase = "open" /\ calls < file.calls /\ calls' = calls + 1

-------------------------------------------------------------------------------
(* The walk over a section.  Its state is the chains of CIEs and FDEs, as   *)
(* the places of their entries, and the CIE used last; an FDE has the place *)
(* of its CIE as well.  Each new struct is one allocation.  What is still   *)
(* in the chains when the walk has ended stays allocated.                  *)

(* _dwarf_get_augmentation_type()                                           *)
AugmentationType(sec, aug) ==
  CASE aug = ""                              -> "empty_string"
    [] aug = "mti v1"                        -> "irix_mti_v1"
    [] aug \in {"z", "zR"} /\ sec = "eh"     -> "gcc_eh_z"
    [] aug = "z" /\ sec = "debug"            -> "irix_exception_table"
    [] aug \in {"eh", "eh2"}                 -> "eh"
    [] OTHER                                 -> "unknown"

Walked(w, res) == [w EXCEPT !.res = res]

(* An error, and what failed.                                               *)
Bad(w, what) == [w EXCEPT !.res = "ERROR", !.what = what]

(* dealloc_fde_cie_list_internal()                                          *)
Released(w) == [w EXCEPT !.cies = <<>>, !.fdes = <<>>]

BugChainToCurrent(w, at) ==
  IF w.cur = 0 THEN <<at>>
  ELSE SubSeq(w.cies, 1, CHOOSE k \in DOMAIN w.cies : w.cies[k] = w.cur) \o <<at>>

(* chain_up_cie(): at the tail, whichever CIE was used last.                *)
ChainUp(w, at) == Append(w.cies, at)

(* dwarf_create_cie_from_after_start() and chain_up_cie()                   *)
CreateCie(w, sec, at, regs) ==
  LET e == file[sec][at]
  IN IF \/ e.flaw = "body" \/ e.ra > regs
        \/ AugmentationType(sec, e.aug) = "eh" /\ (sec = "debug" \/ e.aug = "eh2")
        \/ w.allocs + 1 = w.failing
     THEN Bad(w, "cie")
     ELSE [w EXCEPT !.cies = ChainUp(w, at), !.cie_count = @ + 1, !.cur = at,
                    !.allocs = @ + 1]

(* dwarf_find_existing_cie_ptr(): the one used last, or any in the chain.   *)
Existing(w, at) == (w.cies # <<>> /\ w.cur = at) \/ \E k \in DOMAIN w.cies : w.cies[k] = at

(* Where the FDE at k says its CIE is: get_cieptr_given_offset().           *)
CieOf(sec, k) == IF sec = "eh" THEN k - file.eh[k].ref ELSE file[sec][k].ref

(* The CIE at a place that the walk may not have come to yet:               *)
(* dwarf_create_cie_from_start().                                          *)
GetCie(w, sec, at, regs) ==
  IF Existing(w, at) THEN [w EXCEPT !.cur = at]
  ELSE IF \/ at \notin DOMAIN file[sec]
          \/ file[sec][at].flaw = "prefix" \/ file[sec][at].kind # "cie"
       THEN Bad(w, "cie")
  ELSE CreateCie(w, sec, at, regs)

BugNotReleased(w) == w

(* Without a CIE the walk gives back what it has, whether it came to the    *)
(* CIE itself or by an FDE.                                                *)
CieMade(w) == IF w.res = "ERROR" THEN Released(w) ELSE w

(* dwarf_create_fde_from_after_start() and chain_up_fde(): when that fails  *)
(* the walk ends at once, and nothing is given back.                       *)
CreateFde(w, sec, k) ==
  IF w.res # "walking" THEN w
  ELSE IF \/ AugmentationType(sec, file[sec][w.cur].aug) = "unknown"
          \/ file[sec][k].flaw = "body" \/ w.allocs + 1 = w.failing
       THEN Bad(w, "fde")
  ELSE [w EXCEPT !.fdes = Append(@, [at |-> k, cie |-> w.cur]), !.allocs = @ + 1]

WalkEntry(w, sec, k, regs) ==
  LET e == file[sec][k]
  IN CASE w.res # "walking"       -> w
       [] e.flaw = "prefix"       -> Released(Bad(w, "prefix"))
       [] e.kind = "zero"         -> Walked(w, "end")
       [] e.flaw = "length"       -> Released(Bad(w, "length"))
       [] e.kind = "cie"          -> IF Existing(w, k) THEN [w EXCEPT !.cur = k]
                                     ELSE CieMade(CreateCie(w, sec, k, regs))
       [] OTHER                   ->
            CreateFde(CieMade(GetCie(w, sec, CieOf(sec, k), regs)), sec, k)

Walk(sec, regs, failing) ==
  FoldLeft(LAMBDA w, k : WalkEntry(w, sec, k, regs),
           [cies |-> <<>>, cie_count |-> 0, fdes |-> <<>>, cur |-> 0, res |-> "walking",
            what |-> "none", allocs |-> 0, failing |-> failing],
           [k \in DOMAIN file[sec] |-> k])

(* The two lists are the last allocations.  There is an answer only when    *)
(* there are CIEs and FDEs.                                                *)
Listed(w) ==
  CASE w.res = "ERROR"                   -> w
    [] w.cie_count = 0                   -> Released(Walked(w, "NO_ENTRY"))
    [] w.allocs + 1 = w.failing          -> Released(Bad(w, "list"))
    [] w.fdes = <<>>                     -> Released(Walked(w, "NO_ENTRY"))
    [] w.allocs + 2 = w.failing          -> Released(Bad(w, "list"))
    [] OTHER                             -> [w EXCEPT !.res = "OK"]

-------------------------------------------------------------------------------
(* dwarf_get_fde_list() and dwarf_get_fde_list_eh().                        *)

(* The structs the walk made get the id <<calls, place>>.                   *)
Id(at) == <<calls, at>>
NewCies(sec, w) ==
  [id \in {Id(w.cies[k]) : k \in DOMAIN w.cies} |->
     [sec |-> sec, at |-> id[2], initial |-> NoTable,
      ci_index |-> (CHOOSE k \in DOMAIN w.cies : w.cies[k] = id[2]) - 1]]
NewFdes(sec, w) ==
  [id \in {Id(w.fdes[k].at) : k \in DOMAIN w.fdes} |->
     LET k == CHOOSE j \in DOMAIN w.fdes : w.fdes[j].at = id[2]
     IN [sec |-> sec, at |-> id[2], fd_cie |-> Id(w.fdes[k].cie)]]

Lo(ids, k) == file[ids[k].sec][ids[k].at].lo

(* qsort() with qsort_compare(), which may put equal ones in any order.     *)
Sorted(sec, w, order) ==
  \A j, k \in DOMAIN w.fdes :
    j < k => file[sec][w.fdes[order[j]].at].lo <= file[sec][w.fdes[order[k]].at].lo

GetFdeList(sec) ==
  \E failing \in 0..(Len(file[sec]) + 2) :
    LET w == Listed(Walk(sec, count, failing))
    IN /\ Calling
       /\ file[sec] # <<>>
       /\ cies' = cies @@ NewCies(sec, w)
       /\ fdes' = fdes @@ NewFdes(sec, w)
       /\ answer' = NoAnswer("list", w.res)
       /\ troubled' = troubled \cup ({w.what} \cap {"fde"})
       /\ IF w.res # "OK" THEN UNCHANGED <<lists, fde_count>>
          ELSE /\ \E order \in Permutations(DOMAIN w.fdes) :
                    /\ Sorted(sec, w, order)
                    /\ lists' = lists \cup
                         {[sec |-> sec, cies |-> [k \in DOMAIN w.cies |-> Id(w.cies[k])],
                           fdes |-> [k \in DOMAIN w.fdes |-> Id(w.fdes[order[k]].at)]]}
               /\ fde_count' = [fde_count EXCEPT ![sec] = Len(w.fdes)]
  /\ UNCHANGED <<file, phase, abi, count, lost, failed>>

Given(l) == {l.cies[k] : k \in DOMAIN l.cies} \cup {l.fdes[k] : k \in DOMAIN l.fdes}

(* dwarf_fde_cie_list_dealloc(): the consumer has no more use for a list.   *)
ListDealloc ==
  \E l \in lists :
    /\ Calling
    /\ cies' = [id \in DOMAIN cies \ Given(l) |-> cies[id]]
    /\ fdes' = [id \in DOMAIN fdes \ Given(l) |-> fdes[id]]
    /\ lists' = lists \ {l}
    /\ failed' = failed \ Given(l)
    /\ answer' = NoAnswer("dealloc", "OK")
    /\ UNCHANGED <<file, phase, abi, count, fde_count, lost, troubled>>

-------------------------------------------------------------------------------
(* Finding an FDE in a list.                                               *)

(* dwarf_get_fde_n()                                                        *)
GetFdeN ==
  \E l \in lists, n \in 0..MaxRegisters :
    /\ Calling
    /\ answer' = IF n >= fde_count[l.sec] THEN NoAnswer("n", "NO_ENTRY")
                 ELSE [api |-> "n", res |-> "OK", list |-> l, fde |-> l.fdes[n + 1]]
    /\ UNCHANGED <<file, phase, abi, count, cies, fdes, lists, fde_count, lost,
                   failed, troubled>>

Middle(low, high) == (low + high) \div 2

(* The binary search of dwarf_get_fde_at_pc(): the index of an FDE about    *)
(* the pc, or -1.                                                          *)
AtPc(l, pc) ==
  LET e(k) == file[l.sec][fdes[l.fdes[k + 1]].at]
      search[low \in 0..Len(l.fdes), high \in -1..Len(l.fdes) - 1] ==
        IF low > high THEN -1
        ELSE LET middle == Middle(low, high)
             IN CASE pc < e(middle).lo -> search[low, middle - 1]
                  [] pc >= e(middle).lo + e(middle).range -> search[middle + 1, high]
                  [] OTHER -> middle
  IN search[0, fde_count[l.sec] - 1]

Pcs == 0..MaxRegisters * 2

GetFdeAtPc ==
  \E l \in lists, pc \in Pcs :
    /\ Calling
    /\ LET k == AtPc(l, pc)
       IN answer' = [api |-> "at", list |-> l, pc |-> pc,
                     res |-> IF k = -1 THEN "NO_ENTRY" ELSE "OK",
                     fde |-> IF k = -1 THEN <<>> ELSE l.fdes[k + 1]]
    /\ UNCHANGED <<file, phase, abi, count, cies, fdes, lists, fde_count, lost,
                   failed, troubled>>

-------------------------------------------------------------------------------
(* The row of an FDE at a pc.                                              *)

Context(cie, search, pc, initial, failing) ==
  [search |-> search, pc |-> pc, code |-> file[cie.sec][cie.at].code,
   data |-> file[cie.sec][cie.at].data, initial |-> initial, count |-> count,
   abi |-> abi, failing |-> failing]

Fresh == [regs |-> init_regrule_table(count, abi.initial),
          cfa |-> init_rule(abi.initial), loc |-> 0, under |-> abi]

(* The table that running the instructions of a CIE leaves there: kept,     *)
(* whatever they say.                                                      *)
TableMade(run) ==
  [table |-> IF run.res = "OK" THEN run.row @@ [under |-> abi] ELSE Fresh,
   res |-> run.res, allocs |-> run.allocs, left |-> run.left]

(* The initial table of a CIE, made for the first query.                    *)
InitialTable(cie, failing, before) ==
  IF cie.initial # NoTable
  THEN [table |-> cie.initial, res |-> "OK", allocs |-> before, left |-> 0]
  ELSE IF before + 1 = failing
  THEN [table |-> NoTable, res |-> "NO_FRAME", allocs |-> before + 1, left |-> 1]
  ELSE TableMade(exec_frame_instr(Context(cie, FALSE, 0, Fresh, failing),
                                  file[cie.sec][cie.at].prog, 0, before + 1))

InRange(e, pc) == pc >= e.lo /\ pc < e.lo + e.range

NoRow(res, init) ==
  [row |-> Fresh, res |-> res, table |-> init.table, left |-> init.left,
   fails |-> res # "OK" /\ init.res # "OK" /\ init.table # NoTable]

RowMade(init, run) ==
  [row |-> run.row, res |-> run.res, table |-> init.table,
   left |-> init.left + run.left, fails |-> FALSE]

RowFrom(init, cie, e, pc, failing) ==
  IF init.res # "OK" THEN NoRow(init.res, init)
  ELSE RowMade(init, exec_frame_instr(Context(cie, TRUE, pc, init.table, failing),
                                      e.prog, e.lo, init.allocs))

(* _dwarf_get_fde_info_for_a_pc_row(), after the `before' allocations.      *)
PcRow(fde, pc, failing, before) ==
  LET e   == file[fde.sec][fde.at]
      cie == cies[fde.fd_cie]
  IN IF ~InRange(e, pc)
     THEN NoRow("ERROR", [table |-> cie.initial, left |-> 0, res |-> "OK"])
     ELSE RowFrom(InitialTable(cie, failing, before), cie, e, pc, failing)

(* The columns an api answers, -1 for the CFA.  The two oldest ones have    *)
(* the CFA in a column of the table and give no blocks, and one of them     *)
(* gives of a rule, the CFA's too, only whether there is an offset, the    *)
(* register and the offset.                                                *)
CFA == -1
WithoutBlock(rule) == [rule EXCEPT !.ru_block = <<>>]
RegisterAndOffset(rule) == <<rule.ru_is_off, rule.ru_register, rule.ru_offset_or_block_len>>
InColumn(r, row) == IF r = abi.cfa THEN row.cfa ELSE row.regs[r]

Columns(api, column, row) ==
  CASE api = "all_regs"  -> [r \in DOMAIN row.regs |-> WithoutBlock(InColumn(r, row))]
    [] api = "all_regs3" -> row.regs @@ (CFA :> row.cfa)
    [] api = "reg"       -> column :> RegisterAndOffset(InColumn(column, row))
    [] api = "reg3"      -> column :> row.regs[column]
    [] OTHER             -> CFA :> row.cfa

(* dwarf_get_fde_info_for_reg() has no way to give a rule that is not       *)
(* register and offset, and looks at the column of the table to know, in   *)
(* that of the CFA too, where the rule it gives is another.                *)
Unrepresentable(api, column, row) ==
  api = "reg" /\ row.regs[column].ru_value_type # "OFFSET"

Apis == {"all_regs", "all_regs3", "reg", "reg3", "cfa_reg3"}

Asked(api, id, pc, column, failing) ==
  [api |-> "row", by |-> api, fde |-> id, pc |-> pc, column |-> column,
   fault |-> failing # 0, res |-> "ERROR"]

RowGiven(asked, api, column, run) ==
  IF run.res # "OK" \/ Unrepresentable(api, column, run.row) THEN asked
  ELSE [asked EXCEPT !.res = "OK"]
         @@ [loc |-> run.row.loc, abi |-> abi, under |-> run.table.under,
             rules |-> Columns(api, column, run.row)]

(* The table that the calls fill is their first allocation, and             *)
(* dwarf_get_fde_info_for_all_regs3() goes on without it.                   *)
NotTried(api, column, failing) ==
  \/ failing = 1 /\ api # "all_regs3"
  \/ api \in {"reg", "reg3"} /\ column >= count

(* A frame for which there is no memory is constructed all the same.        *)
Tried(asked, failing, run) ==
  IF run.res = "NO_FRAME" \/ (failing = 1 /\ run.res = "OK")
  THEN /\ phase' = "crashed"
       /\ UNCHANGED <<answer, cies, lost, failed, troubled>>
  ELSE /\ cies' = [cies EXCEPT ![fdes[asked.fde].fd_cie].initial = run.table]
       /\ lost' = lost + run.left
       /\ failed' = IF run.fails THEN failed \cup {fdes[asked.fde].fd_cie} ELSE failed
       /\ troubled' = troubled \cup
            {what \in {"instructions"} :
               run.res # "OK" /\ InRange(file[fdes[asked.fde].sec][fdes[asked.fde].at], asked.pc)}
       /\ answer' = RowGiven(asked, asked.by, asked.column, run)
       /\ phase' = phase

(* The five dwarf_get_fde_info_for_...() calls.                             *)
GetFdeInfo ==
  \E l \in lists, pc \in Pcs, api \in Apis :
  \E id \in {l.fdes[k] : k \in DOMAIN l.fdes},
     column \in IF api \in {"reg", "reg3"} THEN 0..MaxRegisters ELSE {0},
     failing \in 0..MaxFailing :
    LET asked == Asked(api, id, pc, column, failing)
    IN /\ Calling
       /\ IF NotTried(api, column, failing)
          THEN answer' = asked /\ UNCHANGED <<phase, cies, lost, failed, troubled>>
          ELSE Tried(asked, failing, PcRow(fdes[id], pc, failing, 1))
       /\ UNCHANGED <<file, abi, count, fdes, lists, fde_count>>

-------------------------------------------------------------------------------
(* The calls that read through a NULL Dwarf_Cie.                           *)

(* dwarf_expand_frame_instructions() runs the machine without a CIE, and    *)
(* that reads ci_address_size.                                             *)
ExpandFrameInstructions ==
  /\ Calling /\ phase' = "crashed"
  /\ UNCHANGED <<file, abi, count, cies, fdes, lists, fde_count, lost, answer,
                 failed, troubled>>

(* dwarf_get_fde_for_die(): past the prefix of the entry that DW_AT_MIPS_fde *)
(* names, the FDE is created with no CIE.                                  *)
GetFdeForDie ==
  \E k \in DOMAIN file.debug :
    /\ Calling
    /\ LET e == file.debug[k]
       IN IF e.flaw = "prefix" \/ e.kind = "zero"
          THEN /\ answer' = NoAnswer("die", IF e.flaw = "prefix" THEN "ERROR" ELSE "NO_ENTRY")
               /\ phase' = phase
          ELSE phase' = "crashed" /\ answer' = answer
    /\ UNCHANGED <<file, abi, count, cies, fdes, lists, fde_count, lost, failed, troubled>>

-------------------------------------------------------------------------------
(* dwarf_set_frame_rule_table_size() and the calls that set a number, which  *)
(* return the one there was; dwarf_set_frame_undefined_value() another.     *)
SetTableSize ==
  \E n \in 1..MaxRegisters :
    /\ Calling /\ n # count /\ file.numbers # {}
    /\ count' = n /\ answer' = NoAnswer("set", count)
    /\ UNCHANGED <<file, phase, abi, cies, fdes, lists, fde_count, lost, failed, troubled>>

SetFrameNumber ==
  \E which \in DOMAIN abi, n \in file.numbers :
    /\ Calling
    /\ abi' = [abi EXCEPT ![which] = n]
    /\ answer' = NoAnswer("set", IF which = "undefined" THEN abi.same ELSE abi[which])
    /\ UNCHANGED <<file, phase, count, cies, fdes, lists, fde_count, lost, failed, troubled>>

(* dwarf_finish(): everything goes.                                         *)
Finish ==
  /\ phase = "open" /\ phase' = "finished"
  /\ cies' = << >> /\ fdes' = << >> /\ lists' = {} /\ failed' = {}
  /\ answer' = NoAnswer("finish", "OK")
  /\ UNCHANGED <<file, abi, count, fde_count, lost, calls, troubled>>

GetFdeListDebug == GetFdeList("debug")
GetFdeListEh    == GetFdeList("eh")

Next == \/ GetFdeListDebug \/ GetFdeListEh \/ ListDealloc \/ GetFdeN \/ GetFdeAtPc
        \/ GetFdeInfo \/ ExpandFrameInstructions \/ GetFdeForDie
        \/ SetTableSize \/ SetFrameNumber \/ Finish

Spec == Init /\ [][Next]_vars

-------------------------------------------------------------------------------
(* Properties.                                                             *)

(* The variables have their types.                                          *)
TypeOK ==
  /\ phase \in {"open", "finished", "crashed"}
  /\ count \in 1..MaxRegisters /\ calls \in 0..file.calls /\ lost \in Nat
  /\ abi \in [{"cfa", "same", "undefined", "initial"} -> Nat]
  /\ fde_count \in [Places -> Nat]
  /\ \A id \in DOMAIN cies : /\ cies[id].at \in DOMAIN file[cies[id].sec]
                             /\ cies[id].ci_index \in Nat
                             /\ \/ cies[id].initial = NoTable
                                \/ \E n \in 1..MaxRegisters :
                                     DOMAIN cies[id].initial.regs = 0..(n - 1)
  /\ \A id \in DOMAIN fdes : fdes[id].at \in DOMAIN file[fdes[id].sec]
  /\ failed \subseteq DOMAIN cies /\ troubled \subseteq {"fde", "instructions"}
  /\ answer.api \in {"none", "list", "dealloc", "n", "at", "row", "die", "set", "finish"}

(* The entries of a section that count: those before a length of 0.         *)
Entries(sec) ==
  {k \in DOMAIN file[sec] : \A j \in 1..k : file[sec][j].kind # "zero"}
OfKind(sec, kind) == {k \in Entries(sec) : file[sec][k].kind = kind}

(* A list the consumer has is its section: every FDE is in it once, in the  *)
(* order of the addresses, with the CIE its entry names, in .eh_frame by a  *)
(* distance; every CIE is in it once, with its index, whether an FDE led to *)
(* it before the walk came to it, and however often earlier ones are used  *)
(* again in between.                                                       *)
ListsAreRight ==
  \A l \in lists :
    LET at(ids, k) == ids[k].at
        cieat == [k \in DOMAIN l.cies |-> cies[l.cies[k]].at]
        fdeat == [k \in DOMAIN l.fdes |-> fdes[l.fdes[k]].at]
    IN /\ ToSet(fdeat) = OfKind(l.sec, "fde") /\ IsInjective(fdeat)
       /\ \A j, k \in DOMAIN fdeat :
            j < k => file[l.sec][fdeat[j]].lo <= file[l.sec][fdeat[k]].lo
       /\ OfKind(l.sec, "cie") \subseteq ToSet(cieat) /\ IsInjective(cieat)
       /\ ToSet(cieat) = OfKind(l.sec, "cie")
                           \cup {CieOf(l.sec, k) : k \in OfKind(l.sec, "fde")}
       /\ \A k \in DOMAIN l.cies : cies[l.cies[k]].ci_index = k - 1
       /\ \A k \in DOMAIN l.fdes :
            LET cie == fdes[l.fdes[k]].fd_cie
            IN cie \in ToSet(l.cies) /\ cies[cie].at = CieOf(l.sec, fdeat[k])

(* What dwarf_get_fde_at_pc() finds is an FDE about the pc, and when no two *)
(* of them overlap it finds the one there is.                              *)
FoundAtPc ==
  answer.api = "at" /\ answer.list \in lists =>
    LET e(id)   == file[fdes[id].sec][fdes[id].at]
        of      == ToSet(answer.list.fdes)
        about   == {id \in of : InRange(e(id), answer.pc)}
        overlap == \E x, y \in of : x # y /\ \E pc \in Pcs : /\ InRange(e(x), pc)
                                                            /\ InRange(e(y), pc)
    IN /\ answer.res = "OK" => answer.fde \in about
       /\ ~overlap => (answer.res = "OK" <=> about # {})

(* What an answer was asked of, and the row it should have.                 *)
FdeEntry(a) == file[fdes[a.fde].sec][fdes[a.fde].at]
CieEntry(a) == LET c == cies[fdes[a.fde].fd_cie] IN file[c.sec][c.at]
Numbers(a, under) ==
  [code |-> CieEntry(a).code, data |-> CieEntry(a).data, count |-> count, abi |-> under]
Applied(a) ==
  AppliesTo(FdeEntry(a).prog, CieEntry(a).code, FdeEntry(a).lo, a.pc)

FirstRule(under) == <<"OFFSET", 0, under.initial, 0>>
RuleAt(a, r) ==
  RuleAfter(Numbers(a, a.abi), Applied(a), r,
            RuleAfter(Numbers(a, a.under), CieEntry(a).prog, r, FirstRule(a.under)))
CfaOfCie(a) == CfaAfter(Numbers(a, a.under), CieEntry(a).prog, FirstRule(a.under))
CfaAt(a) == CfaAfter(Numbers(a, a.abi), Applied(a), CfaOfCie(a))

IsCfa(a, column) ==
  column = CFA \/ (a.by \in {"all_regs", "reg"} /\ column = a.abi.cfa)

(* The block of a DW_CFA_expression or DW_CFA_def_cfa_expression is not      *)
(* stepped over but run: only programs in which theirs are empty are        *)
(* followed.                                                               *)
NoBlockIsRun(a) ==
  \A i \in ToSet(CieEntry(a).prog) \cup ToSet(Applied(a)) :
    i.op \in {"expression", "def_cfa_expression"} => i.block = <<>>

(* What the call that answered a says of a rule, and what that should be    *)
(* when the rule means m: of a block, at most its length.                  *)
Blocks == {"EXPRESSION", "VAL_EXPRESSION"}
Said(a, rule) ==
  CASE a.by = "reg" -> rule
    [] a.by = "all_regs" /\ rule.ru_value_type \in Blocks ->
         <<rule.ru_value_type, rule.ru_offset_or_block_len>>
    [] OTHER -> Meaning(rule)
ToBeSaid(a, m) ==
  CASE a.by = "reg" -> Tail(m)
    [] a.by = "all_regs" /\ m[1] \in Blocks -> <<m[1], Len(m[2])>>
    [] OTHER -> m

(* A CFA that the call has no way to give.                                  *)
CfaIsMisleading(a) == a.by = "reg" /\ CfaAt(a)[1] # "OFFSET"

(* The row of an answer is what the instructions of the CIE and those of    *)
(* the FDE up to the pc say, with the numbers the consumer has set, and a   *)
(* remembered state is restored as it was.  Said only where the CIE's own  *)
(* instructions did not fail (after that, its initial table is a wrong     *)
(* one), where no block is run, and of a CFA that has a register and an     *)
(* offset if the call can give nothing else.                               *)
RowIsRight ==
  answer.api = "row" /\ answer.res = "OK" /\ answer.fde \in DOMAIN fdes
  /\ fdes[answer.fde].fd_cie \notin failed /\ NoBlockIsRun(answer) =>
    /\ LET loc == LocAfter(Applied(answer), CieEntry(answer).code, FdeEntry(answer).lo)
       IN answer.loc = loc[Len(Applied(answer))]
    /\ \A column \in DOMAIN answer.rules :
         LET said == Said(answer, answer.rules[column])
         IN IF ~IsCfa(answer, column)
            THEN said = ToBeSaid(answer, RuleAt(answer, column))
            ELSE /\ PartsAreThere(CieEntry(answer).prog, FirstRule(answer.under))
                 /\ PartsAreThere(Applied(answer), CfaOfCie(answer))
                 /\ ~CfaIsMisleading(answer)
                 => said = ToBeSaid(answer, CfaAt(answer))

(* A query is refused only for a reason: no memory, a pc that is not the    *)
(* FDE's, a column that is not in the table or that the interface has no    *)
(* way to give, instructions no one could follow, a table that has changed *)
(* its size; and those that no one could follow are never answered.        *)
RefusedForAReason ==
  answer.api = "row" /\ answer.fde \in DOMAIN fdes
  /\ fdes[answer.fde].fd_cie \notin failed /\ NoBlockIsRun(answer) =>
    LET inrange == InRange(FdeEntry(answer), answer.pc)
        legal   == /\ Legal(Numbers(answer, abi), CieEntry(answer).prog, 0)
                   /\ Legal(Numbers(answer, abi), Applied(answer), FdeEntry(answer).lo)
    IN /\ answer.res = "OK" => inrange /\ legal
       /\ inrange /\ legal /\ ~answer.fault /\ file.numbers = {}
          /\ answer.by \in {"all_regs", "all_regs3", "cfa_reg3"} => answer.res = "OK"

(* Whatever is allocated belongs to a list the consumer has: at whichever   *)
(* of its returns a call ends, with or without an answer, it has given back *)
(* what it made and does not hand out, and a list takes all its structs    *)
(* with it.  Not so of CIEs and FDEs after the making of an FDE has failed  *)
(* (dwarf_frame2.c:356, against the comment at :911), nor of remembered     *)
(* tables after instructions have.                                         *)
OnlyListsHold ==
  /\ DOMAIN cies = UNION {ToSet(l.cies) : l \in lists}
  /\ DOMAIN fdes = UNION {ToSet(l.fdes) : l \in lists}

NothingStrays ==
  /\ "fde" \notin troubled => OnlyListsHold
  /\ "instructions" \notin troubled => lost = 0

(* The lists are the section, and searching them finds what is there.        *)
ListsDeliver == ListsAreRight /\ FoundAtPc

(* A query gives the row there is, or has a reason not to.                   *)
RowsDeliver == RowIsRight /\ RefusedForAReason
===============================================================================
