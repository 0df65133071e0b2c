------------------------------ MODULE LineProducer ------------------------------
(***************************************************************************)
(* The line table producer: the loop over de_lines in                      *)
(* _dwarf_pro_generate_debugline() (src/libdwarf/pro_section.c).           *)
(*                                                                         *)
(* de_lines is a list the client built with dwarf_add_line_entry(),        *)
(* dwarf_lne_set_address() and dwarf_lne_end_sequence() before; the loop   *)
(* looks at one entry at a time, so any entry of Entries may be the next.  *)
(* A step is one `if' of the loop's body, which writes one operation or     *)
(* none: `out' is what the last step wrote.  Addresses wrap at AddrSize,   *)
(* and an int at IntSize.                                                  *)
(*                                                                         *)
(* A definition whose name starts with Bug is the next definition with a   *)
(* plausible mistake in it; nothing uses it, it shows that a property can  *)
(* fail.                                                                   *)
(***************************************************************************)
EXTENDS Integers, Sequences

CONSTANTS AddrSize,          \* 2^64
          IntSize,           \* 2^32
          MIN_INST_LENGTH,   \* 1 or 4
          Entries            \* [address, file, line, column, is_stmt, basic_block, opc]

VARIABLES pc,                \* the `if' the loop is at
          prevline,          \* the entry the program written so far leads to
          curline,
          out                \* the operation the last step wrote: <<>> or <<op>>

pvars == <<pc, prevline, curline, out>>

LINE_BASE == -1
LINE_RANGE == 4
OPCODE_BASE == 10
MAX_OPCODE == 255
DEFAULT_IS_STMT == FALSE

OPC_INCS_ZERO == -1
OPC_OUT_OF_RANGE == -2
LINE_OUT_OF_RANGE == -3

(* _dwarf_pro_reg_init().                                                  *)
reg_init == [address |-> 0, file |-> 1, line |-> 1, column |-> 0,
             is_stmt |-> DEFAULT_IS_STMT, basic_block |-> FALSE, opc |-> "none"]

ProducerInit == pc = "next" /\ prevline = reg_init /\ curline = reg_init /\ out = <<>>

(* Conversion of an unsigned to an int.                                    *)
ToInt(n) == IF n % IntSize < IntSize \div 2 THEN n % IntSize ELSE (n % IntSize) - IntSize

BugGetOpc(addr_adv, line_adv) ==
  LET adv == addr_adv \div MIN_INST_LENGTH
      opc == ToInt((line_adv - LINE_BASE + adv * LINE_RANGE + OPCODE_BASE) % AddrSize)
  IN IF line_adv = 0 /\ adv = 0 THEN OPC_INCS_ZERO
     ELSE IF line_adv \notin LINE_BASE..(LINE_BASE + LINE_RANGE) THEN LINE_OUT_OF_RANGE
     ELSE IF opc > MAX_OPCODE THEN OPC_OUT_OF_RANGE
     ELSE opc

(* _dwarf_pro_get_opc(): a special opcode that makes both advances.        *)
get_opc(addr_adv, line_adv) ==
  LET adv == addr_adv \div MIN_INST_LENGTH
      opc == ToInt((line_adv - LINE_BASE + adv * LINE_RANGE + OPCODE_BASE) % AddrSize)
  IN IF line_adv = 0 /\ adv = 0 THEN OPC_INCS_ZERO
     ELSE IF line_adv \notin LINE_BASE..(LINE_BASE + LINE_RANGE - 1) THEN LINE_OUT_OF_RANGE
     ELSE IF opc > MAX_OPCODE THEN OPC_OUT_OF_RANGE
     ELSE opc

addr_adv == (curline.address - prevline.address) % AddrSize
line_adv == curline.line - prevline.line
-------------------------------------------------------------------------------
Op(name, arg) == <<[op |-> name, arg |-> arg]>>

(* The next `if', after writing o.                                         *)
Go(to, o) == pc' = to /\ out' = o /\ curline' = curline

Take(e) ==
  /\ pc = "next"
  /\ curline' = e /\ out' = <<>> /\ prevline' = prevline
  /\ pc' = IF e.opc = "none" THEN "file" ELSE e.opc

WriteFile ==
  /\ pc = "file"
  /\ IF curline.file # prevline.file
     THEN /\ Go("column", Op("set_file", curline.file))
          /\ prevline' = [prevline EXCEPT !.file = curline.file]
     ELSE Go("column", <<>>) /\ UNCHANGED prevline

WriteColumn ==
  /\ pc = "column"
  /\ IF curline.column # prevline.column
     THEN /\ Go("is_stmt", Op("set_column", curline.column))
          /\ prevline' = [prevline EXCEPT !.column = curline.column]
     ELSE Go("is_stmt", <<>>) /\ UNCHANGED prevline

WriteIsStmt ==
  /\ pc = "is_stmt"
  /\ IF curline.is_stmt # prevline.is_stmt
     THEN /\ Go("basic_block", Op("negate_stmt", 0))
          /\ prevline' = [prevline EXCEPT !.is_stmt = curline.is_stmt]
     ELSE Go("basic_block", <<>>) /\ UNCHANGED prevline

WriteBasicBlock ==
  /\ pc = "basic_block"
  /\ IF curline.basic_block /\ ~prevline.basic_block
     THEN /\ Go("advance", Op("set_basic_block", 0))
          /\ prevline' = [prevline EXCEPT !.basic_block = TRUE]
     ELSE Go("advance", <<>>) /\ UNCHANGED prevline

(* DW_DLE_WRONG_ADDRESS: nothing more is written.                          *)
WrongAddress ==
  /\ pc = "advance" /\ addr_adv % MIN_INST_LENGTH # 0
  /\ Go("error", <<>>) /\ UNCHANGED prevline

BugSpecialRow == [prevline EXCEPT !.address = curline.address, !.line = curline.line]

(* prevline after a special opcode.                                        *)
SpecialRow == [prevline EXCEPT !.address = curline.address, !.line = curline.line,
                               !.basic_block = FALSE]

BugFallThrough ==
  /\ pc = "advance" /\ addr_adv % MIN_INST_LENGTH = 0
  /\ get_opc(addr_adv, line_adv) > 0
  /\ Go("copy", Op("special", get_opc(addr_adv, line_adv)))
  /\ prevline' = SpecialRow

WriteSpecial ==
  /\ pc = "advance" /\ addr_adv % MIN_INST_LENGTH = 0
  /\ get_opc(addr_adv, line_adv) > 0
  /\ Go("next", Op("special", get_opc(addr_adv, line_adv)))
  /\ prevline' = SpecialRow

(* Both advances also clear prevline's basic_block, although the row is     *)
(* not written yet.                                                        *)
WriteAdvancePc ==
  /\ pc = "advance" /\ addr_adv % MIN_INST_LENGTH = 0
  /\ get_opc(addr_adv, line_adv) <= 0
  /\ IF addr_adv > 0
     THEN /\ Go("advance_line", Op("advance_pc", addr_adv \div MIN_INST_LENGTH))
          /\ prevline' = [prevline EXCEPT !.basic_block = FALSE,
                                          !.address = curline.address]
     ELSE Go("advance_line", <<>>) /\ UNCHANGED prevline

WriteAdvanceLine ==
  /\ pc = "advance_line"
  /\ IF line_adv # 0
     THEN /\ Go("copy", Op("advance_line", line_adv))
          /\ prevline' = [prevline EXCEPT !.basic_block = FALSE,
                                          !.line = curline.line]
     ELSE Go("copy", <<>>) /\ UNCHANGED prevline

WriteCopy ==
  /\ pc = "copy"
  /\ Go("next", Op("copy", 0))
  /\ prevline' = [prevline EXCEPT !.basic_block = FALSE]

WriteSetAddress ==
  /\ pc = "set_address"
  /\ Go("next", Op("set_address", curline.address))
  /\ prevline' = [prevline EXCEPT !.address = curline.address]

(* The last advance of a sequence; a remainder is dropped.                 *)
WriteEndAdvance ==
  /\ pc = "end_sequence"
  /\ IF addr_adv > 0
     THEN /\ Go("end", Op("advance_pc", addr_adv \div MIN_INST_LENGTH))
          /\ prevline' = [prevline EXCEPT !.address = curline.address]
     ELSE Go("end", <<>>) /\ UNCHANGED prevline

AtSequenceStart == reg_init

WriteEndSequence ==
  /\ pc = "end"
  /\ Go("next", Op("end_sequence", 0))
  /\ prevline' = AtSequenceStart

Write ==
  \/ WriteFile \/ WriteColumn \/ WriteIsStmt \/ WriteBasicBlock \/ WrongAddress
  \/ WriteSpecial \/ WriteAdvancePc \/ WriteAdvanceLine \/ WriteCopy
  \/ WriteSetAddress \/ WriteEndAdvance \/ WriteEndSequence

===============================================================================
