------------------------------- MODULE LineReader -------------------------------
(***************************************************************************)
(* The line table reader: the statement program loop of                    *)
(* _dwarf_internal_srclines() (src/libdwarf/dwarf_line.c), in the mode of  *)
(* dwarf_srclines().                                                       *)
(*                                                                         *)
(* A step reads one operation of the program: a record of its opcode `op'   *)
(* and its operand `arg', decoded.  Values of address type wrap at         *)
(* AddrSize.  The reader stops with an error when memory runs out, and is  *)
(* "lost" once it takes bytes of an operand for an opcode or the other way  *)
(* round: what it reads from then on is not modelled.                      *)
(*                                                                         *)
(* A definition whose name starts with Bug is the next definition with a   *)
(* plausible mistake in it; nothing uses it, it shows that a property can  *)
(* fail.                                                                   *)
(***************************************************************************)
EXTENDS Integers, Sequences

CONSTANTS AddrSize,   \* 2^64
          HalfSize    \* 2^16, of a Dwarf_Half

VARIABLES prefix,  \* what the reader got from the header of the table
          regs,    \* the state machine registers
          added,   \* the rows the last operation added: <<>> or <<row>>
          ended,   \* the last operation was an end_sequence
          status   \* "reading", "failed" or "lost"

rvars == <<prefix, regs, added, ended, status>>

(* Standard opcodes by number; the last is one the reader does not know.    *)
StandardOps ==
  <<"copy", "advance_pc", "advance_line", "set_file", "set_column",
    "negate_stmt", "set_basic_block", "const_add_pc", "fixed_advance_pc",
    "set_prologue_end", "set_epilogue_begin", "set_isa", "new_op">>

OpNames == {StandardOps[i] : i \in DOMAIN StandardOps}
             \cup {"special", "end_sequence", "set_address"}

(* An operation as it is decoded: an address has the width of the target, and *)
(* an isa is not negative.                                                 *)
Operations == {o \in [op : OpNames, arg : Int] :
                 /\ o.op = "set_address" => o.arg \in 0..(AddrSize - 1)
                 /\ o.op = "set_isa" => o.arg \in Nat}

(* What the reader keeps of the header of a table.                          *)
Prefixes == [pf_minimum_instruction_length : Nat, pf_line_base : Int,
             pf_line_range : Nat \ {0}, pf_opcode_base : Nat,
             pf_default_is_stmt : BOOLEAN, pf_std_op_count : Nat]

OperandCount == <<0, 1, 1, 1, 1, 0, 0, 0, 1, 0, 0, 1, 0, 0>>

MAX_LINE_OP_CODE == 255

Start == [address |-> 0, file |-> 1, line |-> 1, column |-> 0,
          is_stmt |-> prefix.pf_default_is_stmt, basic_block |-> FALSE,
          prologue_end |-> FALSE, epilogue_begin |-> FALSE, isa |-> 0]

ReaderInit(prefixes) ==
  /\ prefix \in prefixes
  /\ regs = Start /\ added = <<>> /\ ended = FALSE /\ status = "reading"

Advanced(r, n) ==
  [r EXCEPT !.address = (@ + prefix.pf_minimum_instruction_length * n) % AddrSize]

(* li_column is a Dwarf_Half.                                              *)
Row(r, is_stmt, end_sequence) ==
  [address |-> r.address, file |-> r.file, line |-> r.line,
   column |-> r.column % HalfSize, is_stmt |-> is_stmt,
   basic_block |-> r.basic_block, end_sequence |-> end_sequence,
   prologue_end |-> r.prologue_end, epilogue_begin |-> r.epilogue_begin,
   isa |-> r.isa]

(* Add a row and go on with the registers r, or run out of memory.         *)
Add(row, r) ==
  \/ added' = <<row>> /\ regs' = r /\ status' = status
  \/ added' = <<>> /\ regs' = regs /\ status' = "failed"

NoRow(r) == added' = <<>> /\ regs' = r /\ status' = status

(* A special opcode advances both address and line.  Its row takes its      *)
(* end_sequence flag from the epilogue_begin register.                     *)
ReadSpecial(o) ==
  LET adjusted == o.arg - prefix.pf_opcode_base
      r == [Advanced(regs, adjusted \div prefix.pf_line_range) EXCEPT
              !.line = @ + prefix.pf_line_base + (adjusted % prefix.pf_line_range)]
  IN /\ o.op = "special" /\ o.arg >= prefix.pf_opcode_base
     /\ Add(Row(r, r.is_stmt, r.epilogue_begin), [r EXCEPT !.basic_block = FALSE])

(* A byte below pf_opcode_base is a standard opcode, whoever wrote it.      *)
ReadMistaken(o) ==
  /\ o.op = "special" /\ o.arg < prefix.pf_opcode_base
  /\ added' = <<>> /\ status' = "lost" /\ UNCHANGED regs

(* WHAT_IS_OPCODE: with more standard opcodes in the table than the reader  *)
(* knows, none of them is known.                                           *)
Discards == prefix.pf_std_op_count + 1 < prefix.pf_opcode_base

Number(o) == CHOOSE i \in DOMAIN StandardOps : StandardOps[i] = o.op

(* The operands to skip are counted in the entry of the next opcode.       *)
ReadDiscard(o) ==
  /\ Discards /\ o.op \in {StandardOps[i] : i \in DOMAIN StandardOps}
  /\ added' = <<>> /\ UNCHANGED regs
  /\ status' = IF OperandCount[Number(o) + 1] = OperandCount[Number(o)]
               THEN status ELSE "lost"

ReadCopy(o) ==
  /\ o.op = "copy" /\ ~Discards
  /\ Add(Row(regs, regs.is_stmt, FALSE),
         [regs EXCEPT !.basic_block = FALSE, !.prologue_end = FALSE,
                      !.epilogue_begin = FALSE])

(* The address advance of special opcode 255.                              *)
ConstAddPc == (MAX_LINE_OP_CODE - prefix.pf_opcode_base) \div prefix.pf_line_range

(* The standard opcodes that only change a register.                       *)
ReadStandard(o) ==
  /\ ~Discards
  /\ \/ o.op = "advance_pc" /\ NoRow(Advanced(regs, o.arg))
     \/ o.op = "advance_line" /\ NoRow([regs EXCEPT !.line = @ + o.arg])
     \/ o.op = "set_file" /\ NoRow([regs EXCEPT !.file = o.arg])
     \/ o.op = "set_column" /\ NoRow([regs EXCEPT !.column = o.arg])
     \/ o.op = "negate_stmt" /\ NoRow([regs EXCEPT !.is_stmt = ~@])
     \/ o.op = "set_basic_block" /\ NoRow([regs EXCEPT !.basic_block = TRUE])
     \/ o.op = "const_add_pc" /\ NoRow(Advanced(regs, ConstAddPc))
     \/ /\ o.op = "fixed_advance_pc"
        /\ NoRow([regs EXCEPT !.address = (@ + o.arg) % AddrSize])
     \/ o.op = "set_prologue_end" /\ NoRow([regs EXCEPT !.prologue_end = TRUE])
     \/ o.op = "set_epilogue_begin" /\ NoRow([regs EXCEPT !.epilogue_begin = TRUE])

(* The isa register is a byte: a larger value is an error.                 *)
ReadSetIsa(o) ==
  /\ o.op = "set_isa" /\ ~Discards
  /\ added' = <<>>
  /\ IF o.arg < 256
     THEN regs' = [regs EXCEPT !.isa = o.arg] /\ status' = status
     ELSE status' = "failed" /\ UNCHANGED regs

(* The registers a new sequence starts with: all but isa are reset.        *)
AfterEnd(r) == [Start EXCEPT !.isa = r.isa]

ReadEndSequence(o) ==
  /\ o.op = "end_sequence"
  /\ Add(Row(regs, prefix.pf_default_is_stmt, TRUE), AfterEnd(regs))

ReadSetAddress(o) ==
  /\ o.op = "set_address"
  /\ NoRow([regs EXCEPT !.address = o.arg])

Read(o) ==
  /\ status = "reading"
  /\ \/ ReadSpecial(o) \/ ReadMistaken(o) \/ ReadDiscard(o) \/ ReadCopy(o)
     \/ ReadStandard(o) \/ ReadSetIsa(o) \/ ReadEndSequence(o)
     \/ ReadSetAddress(o)
  /\ ended' = (o.op = "end_sequence")
  /\ prefix' = prefix

===============================================================================
