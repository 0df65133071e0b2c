------------------------------ MODULE FrameRules ------------------------------
(***************************************************************************)
(* The register rule machine of call frame information: what               *)
(* _dwarf_exec_frame_instr() of src/libdwarf/dwarf_frame.c does with a     *)
(* list of frame instructions.                                             *)
(*                                                                         *)
(* An instruction is a record [op, r, n, block]: a register number, a      *)
(* number (an offset, an address or a second register) and the DWARF       *)
(* expression of the ops that have one, given as the frame instructions    *)
(* its bytes would be if they were decoded.  The _sf ops differ from those *)
(* without it in the encoding of n.                                         *)
(*                                                                         *)
(* A context c is what the machine is run with:                            *)
(*   search, pc         the arguments search_pc, search_pc_val             *)
(*   code, data         the alignment factors of the CIE                   *)
(*   initial            the row ci_initial_table, which is there when the  *)
(*                      machine is run                                     *)
(*   count              de_frame_reg_rules_entry_count                     *)
(*   abi                the numbers the dwarf_set_frame_...() calls set    *)
(*   failing            which allocation of the call fails; 0: none does   *)
(***************************************************************************)
EXTENDS Integers, Sequences, SequencesExt

Rule(is_off, type, register, offset) ==
  [ru_is_off |-> is_off, ru_value_type |-> type, ru_register |-> register,
   ru_offset_or_block_len |-> offset, ru_block |-> <<>>]

init_rule(value) == Rule(0, "OFFSET", value, 0)
BugOneMore(count, value) == [r \in 0..count |-> init_rule(value)]
init_regrule_table(count, value) == [r \in 0..(count - 1) |-> init_rule(value)]

Failed(st) == [st EXCEPT !.res = "ERROR"]

-------------------------------------------------------------------------------
(* One instruction.  The state of the machine is the local rule table, the  *)
(* CFA rule, the stack of remembered tables and the location.              *)

(* ERROR_IF_REG_NUM_TOO_HIGH *)
TooHigh(st, i) == i.r \notin DOMAIN st.regs

(* Rules that are set field by field: ru_block stays what it was.           *)
SetRule(st, i, is_off, type, register, offset) ==
  IF TooHigh(st, i) THEN Failed(st)
  ELSE [st EXCEPT !.regs[i.r] = [Rule(is_off, type, register, offset) EXCEPT
                                   !.ru_block = st.regs[i.r].ru_block]]

SetExpression(st, i, type) ==
  IF TooHigh(st, i) THEN Failed(st)
  ELSE [st EXCEPT !.regs[i.r] = [Rule(0, type, @.ru_register, Len(i.block)) EXCEPT
                                   !.ru_block = i.block]]

(* DW_CFA_val_offset_sf does not set ru_register.                           *)
SetValOffsetSf(c, st, i) ==
  IF TooHigh(st, i) THEN Failed(st)
  ELSE [st EXCEPT !.regs[i.r].ru_is_off = 1, !.regs[i.r].ru_value_type = "VAL_OFFSET",
                  !.regs[i.r].ru_offset_or_block_len = i.n * c.data]

BugStaysAtPc(c, st, to) ==
  IF c.search /\ to >= c.pc THEN [st EXCEPT !.over = TRUE] ELSE [st EXCEPT !.loc = to]

(* Past the pc that is searched for the old location stays.                 *)
MoveTo(c, st, to) ==
  IF c.search /\ to > c.pc THEN [st EXCEPT !.over = TRUE] ELSE [st EXCEPT !.loc = to]

AdvanceLoc(c, st, i) == MoveTo(c, st, st.loc + i.n * c.code)

SetLoc(c, st, i) ==
  IF i.n # 0 /\ st.loc # 0 /\ i.n <= st.loc THEN Failed(st) ELSE MoveTo(c, st, i.n)

Restore(c, st, i) ==
  IF TooHigh(st, i) THEN Failed(st)
  ELSE [st EXCEPT !.regs[i.r] = c.initial.regs[i.r]]

(* The other register may be one too high.                                  *)
Register(c, st, i) ==
  IF i.n > c.count THEN Failed(st) ELSE SetRule(st, i, 0, "OFFSET", i.n, 0)

RememberState(c, st) ==
  LET asked == [st EXCEPT !.allocs = @ + 1]
  IN IF asked.allocs = c.failing THEN [asked EXCEPT !.res = "NO_FRAME"]
     ELSE [asked EXCEPT !.stack = Append(@, st.regs)]

(* The CFA rule is not part of what is remembered.                          *)
RestoreState(c, st) ==
  IF st.stack = <<>> THEN Failed(st)
  ELSE [st EXCEPT !.regs = Last(st.stack), !.stack = Front(@)]

DefCfa(st, i, offset) ==
  IF TooHigh(st, i) THEN Failed(st)
  ELSE [st EXCEPT !.cfa = [Rule(1, "OFFSET", i.r, offset) EXCEPT !.ru_block = st.cfa.ru_block]]

DefCfaRegister(st, i) ==
  IF TooHigh(st, i) THEN Failed(st) ELSE [st EXCEPT !.cfa.ru_register = i.r]

DefCfaOffset(st, offset) ==
  [st EXCEPT !.cfa.ru_is_off = 1, !.cfa.ru_value_type = "OFFSET",
             !.cfa.ru_offset_or_block_len = offset]

DefCfaExpression(st, i) ==
  [st EXCEPT !.cfa.ru_is_off = 0, !.cfa.ru_value_type = "EXPRESSION",
             !.cfa.ru_offset_or_block_len = Len(i.block), !.cfa.ru_block = i.block]

ExecInstr(c, st, i) ==
  CASE i.op = "advance_loc"        -> AdvanceLoc(c, st, i)
    [] i.op = "set_loc"            -> SetLoc(c, st, i)
    [] i.op = "offset"             -> SetRule(st, i, 1, "OFFSET", c.abi.cfa, i.n * c.data)
    [] i.op = "restore"            -> Restore(c, st, i)
    [] i.op = "undefined"          -> SetRule(st, i, 0, "OFFSET", c.abi.undefined, 0)
    [] i.op = "same_value"         -> SetRule(st, i, 0, "OFFSET", c.abi.same, 0)
    [] i.op = "register"           -> Register(c, st, i)
    [] i.op = "remember_state"     -> RememberState(c, st)
    [] i.op = "restore_state"      -> RestoreState(c, st)
    [] i.op = "def_cfa"            -> DefCfa(st, i, i.n)
    [] i.op = "def_cfa_sf"         -> DefCfa(st, i, i.n * c.data)
    [] i.op = "def_cfa_register"   -> DefCfaRegister(st, i)
    [] i.op = "def_cfa_offset"     -> DefCfaOffset(st, i.n)
    [] i.op = "def_cfa_offset_sf"  -> DefCfaOffset(st, i.n * c.data)
    [] i.op = "def_cfa_expression" -> DefCfaExpression(st, i)
    [] i.op = "expression"         -> SetExpression(st, i, "EXPRESSION")
    [] i.op = "val_offset"         -> SetRule(st, i, 1, "VAL_OFFSET", c.abi.cfa, i.n * c.data)
    [] i.op = "val_offset_sf"      -> SetValOffsetSf(c, st, i)
    [] i.op = "val_expression"     -> SetExpression(st, i, "VAL_EXPRESSION")
    [] i.op \in {"nop", "GNU_args_size", "GNU_window_save"} -> st
    [] OTHER                       -> Failed(st)

-------------------------------------------------------------------------------
(* A list of instructions.                                                 *)

(* What is decoded: only DW_CFA_val_expression steps over its block.        *)
Decoded(program) ==
  FlattenSeq([k \in DOMAIN program |->
    <<program[k]>> \o IF program[k].op \in {"expression", "def_cfa_expression"}
                      THEN program[k].block ELSE <<>>])

(* The first row: the CIE's, if the table has not changed its size since.   *)
(* Room for it is the first allocation after the `before' of the caller.   *)
FirstRow(c, initial_loc, before) ==
  [regs |-> c.initial.regs, cfa |-> c.initial.cfa, loc |-> initial_loc,
   stack |-> <<>>, over |-> FALSE, allocs |-> before + 1,
   res |-> IF before + 1 = c.failing \/ DOMAIN c.initial.regs # 0..(c.count - 1)
           THEN "ERROR" ELSE "OK"]

(* How many frames are never given back: those on the stack when it fails,  *)
(* and one that could not be constructed.                                  *)
Left(st) ==
  CASE st.res = "OK"       -> 0
    [] st.res = "NO_FRAME" -> Len(st.stack) + 1
    [] OTHER               -> Len(st.stack)

EndOfRun(st) ==
  [row |-> [regs |-> st.regs, cfa |-> st.cfa, loc |-> st.loc],
   res |-> st.res, allocs |-> st.allocs, left |-> Left(st)]

(* The row the instructions lead to.                                       *)
exec_frame_instr(c, program, initial_loc, before) ==
  EndOfRun(FoldLeft(LAMBDA st, i : IF st.over \/ st.res # "OK" THEN st
                                   ELSE ExecInstr(c, st, i),
                    FirstRow(c, initial_loc, before), Decoded(program)))

-------------------------------------------------------------------------------
(* What the instructions mean, said of the list as a whole.                *)

MovesLoc(i) == i.op \in {"advance_loc", "set_loc"}
HasRegister(i) == i.op \in {"offset", "restore", "undefined", "same_value", "register",
                            "def_cfa", "def_cfa_sf", "def_cfa_register", "expression",
                            "val_offset", "val_offset_sf", "val_expression"}

(* The location after each instruction.                                     *)
LocAfter(program, code, initial_loc) ==
  LET loc[k \in 0..Len(program)] ==
        CASE k = 0 -> initial_loc
          [] k > 0 /\ program[k].op = "advance_loc" -> loc[k - 1] + program[k].n * code
          [] k > 0 /\ program[k].op = "set_loc"     -> program[k].n
          [] OTHER -> loc[k - 1]
  IN loc

(* The instructions that apply to pc: those before the first that goes past *)
(* it.                                                                     *)
AppliesTo(program, code, initial_loc, pc) ==
  LET loc  == LocAfter(program, code, initial_loc)
      past == {k \in DOMAIN program : MovesLoc(program[k]) /\ loc[k] > pc}
  IN IF past = {} THEN program
     ELSE SubSeq(program, 1, (CHOOSE k \in past : \A j \in past : k <= j) - 1)

(* The DW_CFA_remember_state that a DW_CFA_restore_state at k goes back to:  *)
(* the last before it that is not gone back to in between.  0: there is none. *)
Depth(program, j, k) ==
  Len(SelectSeq(SubSeq(program, j, k), LAMBDA i : i.op = "remember_state"))
  - Len(SelectSeq(SubSeq(program, j, k), LAMBDA i : i.op = "restore_state"))
Remembered(program, k) ==
  LET open == {j \in 1..(k - 1) : /\ program[j].op = "remember_state"
                                  /\ \A m \in j..(k - 1) : Depth(program, j, m) > 0}
  IN IF open = {} THEN 0 ELSE CHOOSE j \in open : \A m \in open : m <= j

(* The instructions are ones the machine need not refuse.                   *)
Legal(c, program, initial_loc) ==
  LET loc == LocAfter(program, c.code, initial_loc)
  IN \A k \in DOMAIN program :
       /\ HasRegister(program[k]) => program[k].r < c.count
       /\ program[k].op = "register" => program[k].n <= c.count
       /\ program[k].op = "restore_state" => Remembered(program, k) # 0
       /\ program[k].op = "set_loc" =>
            0 \in {program[k].n, loc[k - 1]} \/ program[k].n > loc[k - 1]
       /\ program[k].op # "unknown"

(* A rule as the consumer reads it: the block only where there is one, and   *)
(* the register only where it is not always the CFA.                        *)
Meaning(rule) ==
  IF rule.ru_value_type \in {"EXPRESSION", "VAL_EXPRESSION"}
  THEN <<rule.ru_value_type, rule.ru_block>>
  ELSE IF rule.ru_value_type = "VAL_OFFSET"
  THEN <<"VAL_OFFSET", rule.ru_is_off, rule.ru_offset_or_block_len>>
  ELSE <<rule.ru_value_type, rule.ru_is_off, rule.ru_register, rule.ru_offset_or_block_len>>

RuleOf(c, i) ==
  CASE i.op = "offset"         -> <<"OFFSET", 1, c.abi.cfa, i.n * c.data>>
    [] i.op \in {"val_offset", "val_offset_sf"} -> <<"VAL_OFFSET", 1, i.n * c.data>>
    [] i.op = "undefined"      -> <<"OFFSET", 0, c.abi.undefined, 0>>
    [] i.op = "same_value"     -> <<"OFFSET", 0, c.abi.same, 0>>
    [] i.op = "register"       -> <<"OFFSET", 0, i.n, 0>>
    [] i.op = "expression"     -> <<"EXPRESSION", i.block>>
    [] i.op = "val_expression" -> <<"VAL_EXPRESSION", i.block>>

(* The rule of register r after the instructions: that of the last one that *)
(* says something about r, where a restored state is what it was when it   *)
(* was remembered.                                                         *)
RuleAfter(c, program, r, first) ==
  LET rule[k \in 0..Len(program)] ==
        IF k = 0 THEN first
        ELSE LET i == program[k]
             IN CASE i.op = "restore_state" -> rule[Remembered(program, k) - 1]
                  [] i.op = "restore" /\ i.r = r -> first
                  [] /\ HasRegister(i) /\ i.r = r
                     /\ i.op \notin {"restore", "def_cfa", "def_cfa_sf", "def_cfa_register"}
                       -> RuleOf(c, i)
                  [] OTHER -> rule[k - 1]
  IN rule[Len(program)]

(* The CFA: its register and its offset, each from the last instruction     *)
(* that says one.                                                          *)
CfaAfter(c, program, first) ==
  LET cfa[k \in 0..Len(program)] ==
        IF k = 0 THEN first
        ELSE LET i == program[k]
             IN CASE i.op = "def_cfa"            -> <<"OFFSET", 1, i.r, i.n>>
                  [] i.op = "def_cfa_sf"         -> <<"OFFSET", 1, i.r, i.n * c.data>>
                  [] i.op = "def_cfa_expression" -> <<"EXPRESSION", i.block>>
                  [] i.op = "def_cfa_register"   -> [cfa[k - 1] EXCEPT ![3] = i.r]
                  [] i.op = "def_cfa_offset"     -> [cfa[k - 1] EXCEPT ![2] = 1, ![4] = i.n]
                  [] i.op = "def_cfa_offset_sf"  ->
                       [cfa[k - 1] EXCEPT ![2] = 1, ![4] = i.n * c.data]
                  [] OTHER -> cfa[k - 1]
  IN cfa[Len(program)]

(* A part of the CFA is only changed where it has parts: the standard gives *)
(* no meaning to anything else.                                            *)
PartsAreThere(program, first) ==
  \A k \in DOMAIN program :
    program[k].op \in {"def_cfa_register", "def_cfa_offset", "def_cfa_offset_sf"} =>
      LET sets == {j \in 1..(k - 1) : program[j].op \in {"def_cfa", "def_cfa_sf",
                                                        "def_cfa_expression"}}
      IN IF sets = {} THEN first[1] = "OFFSET"
         ELSE program[CHOOSE j \in sets : \A m \in sets : m <= j].op # "def_cfa_expression"
===============================================================================
