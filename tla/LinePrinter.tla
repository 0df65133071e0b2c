------------------------------ MODULE LinePrinter ------------------------------
(***************************************************************************)
(* How a line table is printed: the statement program loop of              *)
(* _dwarf_internal_printlines() (src/libdwarf/dwarf_print_lines.c), a second *)
(* version of the one in LineReader.tla.  It makes no rows, so it never runs  *)
(* out of memory.  The operations and the header are those of LineReader.   *)
(*                                                                         *)
(* A definition whose name starts with Bug is the next definition with a   *)
(* plausible mistake in it; nothing uses it, it shows that a property can  *)
(* fail.                                                                   *)
(***************************************************************************)
EXTENDS Integers, Sequences

CONSTANTS AddrSize, HalfSize

VARIABLES prefix,     \* the header of the table, which the reader got too
          shown,      \* the state machine registers, end_sequence among them
          same_size,  \* de_pointer_size is the size of an address in the CU
          line,       \* what the last operation printed: <<>> or <<row>>
          reading     \* "reading", "failed" or "lost"

print_vars == <<shown, line, reading>>

Table == INSTANCE LineReader
           WITH regs <- shown, added <- line, ended <- FALSE, status <- reading

Fresh == [f \in DOMAIN Table!Start \cup {"end_sequence"} |->
            IF f = "end_sequence" THEN FALSE ELSE Table!Start[f]]

(* The size of an address in the compilation unit, with which the reader takes *)
(* the operand of set_address, and that in the object file may differ.        *)
PrinterInit == same_size \in BOOLEAN /\ shown = Fresh /\ line = <<>> /\ reading = "reading"

(* print_line_detail(): all registers, the column as the Dwarf_Word it is.    *)
Detail(r) == line' = <<r>> /\ reading' = reading
Silent(r) == line' = <<>> /\ shown' = r /\ reading' = reading

Forward(r, n) ==
  [r EXCEPT !.address = (@ + prefix.pf_minimum_instruction_length * n) % AddrSize]

PrintSpecial(o) ==
  LET opcode == o.arg - prefix.pf_opcode_base
      r == [Forward(shown, opcode \div prefix.pf_line_range) EXCEPT
              !.line = @ + prefix.pf_line_base + (opcode % prefix.pf_line_range)]
  IN /\ o.op = "special" /\ opcode >= 0
     /\ Detail(r) /\ shown' = [r EXCEPT !.basic_block = FALSE]

PrintMistaken(o) ==
  /\ o.op = "special" /\ o.arg < prefix.pf_opcode_base
  /\ line' = <<>> /\ reading' = "lost" /\ UNCHANGED shown

(* The operands are counted in the entry of the next opcode here, too.       *)
PrintDiscard(o) ==
  /\ Table!Discards /\ o.op \in {Table!StandardOps[i] : i \in DOMAIN Table!StandardOps}
  /\ line' = <<>> /\ UNCHANGED shown
  /\ reading' = IF Table!OperandCount[Table!Number(o) + 1] = Table!OperandCount[Table!Number(o)]
                THEN reading ELSE "lost"

BugNoBase(r) == Forward(r, 255 \div prefix.pf_line_range)

ConstAdded(r) == Forward(r, (255 - prefix.pf_opcode_base) \div prefix.pf_line_range)

(* DW_LNS_copy only resets basic_block, where the reader resets the marks of  *)
(* prologue and epilogue as well.                                          *)
PrintStandard(o) ==
  /\ ~Table!Discards
  /\ \/ o.op = "copy" /\ Detail(shown) /\ shown' = [shown EXCEPT !.basic_block = FALSE]
     \/ o.op = "advance_pc" /\ Silent(Forward(shown, o.arg))
     \/ o.op = "advance_line" /\ Silent([shown EXCEPT !.line = @ + o.arg])
     \/ o.op = "set_file" /\ Silent([shown EXCEPT !.file = o.arg])
     \/ o.op = "set_column" /\ Silent([shown EXCEPT !.column = o.arg])
     \/ o.op = "negate_stmt" /\ Silent([shown EXCEPT !.is_stmt = ~@])
     \/ o.op = "set_basic_block" /\ Silent([shown EXCEPT !.basic_block = TRUE])
     \/ o.op = "const_add_pc" /\ Silent(ConstAdded(shown))
     \/ /\ o.op = "fixed_advance_pc"
        /\ Silent([shown EXCEPT !.address = (@ + o.arg) % AddrSize])
     \/ o.op = "set_prologue_end" /\ Silent([shown EXCEPT !.prologue_end = TRUE])
     \/ o.op = "set_epilogue_begin" /\ Silent([shown EXCEPT !.epilogue_begin = TRUE])
     \/ /\ o.op = "set_isa" /\ line' = <<>>
        /\ shown' = [shown EXCEPT !.isa = o.arg % 256]
        /\ reading' = IF o.arg < 256 THEN reading ELSE "failed"

(* As in the reader, isa is not reset.  An address is taken with the size of  *)
(* those in the object file, whatever the size the compilation unit has.     *)
PrintExtended(o) ==
  \/ /\ o.op = "end_sequence"
     /\ Detail([shown EXCEPT !.end_sequence = TRUE])
     /\ shown' = [Fresh EXCEPT !.isa = shown.isa]
  \/ o.op = "set_address" /\ same_size /\ Silent([shown EXCEPT !.address = o.arg])
  \/ /\ o.op = "set_address" /\ ~same_size
     /\ line' = <<>> /\ reading' = "lost" /\ shown' = Fresh

PrintOp(o) ==
  PrintSpecial(o) \/ PrintMistaken(o) \/ PrintDiscard(o) \/ PrintStandard(o) \/ PrintExtended(o)

(* What it has and prints once it is lost is not modelled.                  *)
ShowOp(o) ==
  /\ UNCHANGED same_size
  /\ \/ reading = "reading" /\ PrintOp(o)
     \/ reading # "reading" /\ line' = <<>> /\ UNCHANGED <<shown, reading>>
===============================================================================
