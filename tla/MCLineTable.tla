----------------------------- MODULE MCLineTable -----------------------------
(* LineTable on entries at a few addresses: neighbours, one that is not a    *)
(* whole instruction on, and some around the reach of a special opcode     *)
(* (at most 61 instructions, line advances from -1 to 2).                  *)
EXTENDS LineTable

Fields(addresses, files, lines, columns, flags, opcs) ==
  [address : addresses, file : files, line : lines, column : columns,
   is_stmt : flags, basic_block : flags, opc : opcs]

LineEntries(addresses) ==
  Fields(addresses, {1, 2}, {1, 2, 4}, {0, 7}, BOOLEAN, {"none"})

(* What dwarf_lne_set_address() and dwarf_lne_end_sequence() put in a line. *)
Marks(addresses) ==
  Fields(addresses, {0}, {0}, {0}, {FALSE}, {"set_address", "end_sequence"})

SpreadEntries == LineEntries({0, 6, 248}) \cup Marks({0, 4, 248})

Prefix(opcode_base, std_op_count) ==
  [pf_minimum_instruction_length |-> 1, pf_line_base |-> -3, pf_line_range |-> 15,
   pf_opcode_base |-> opcode_base, pf_default_is_stmt |-> TRUE,
   pf_std_op_count |-> std_op_count]

(* DWARF 3, and a table with one more standard opcode.                      *)
SomePrefixes == {Prefix(13, 12), Prefix(14, 12)}

(* Some operations of each kind; of the special opcodes, those that advance *)
(* by nothing, a line, and an instruction.                                 *)
SomeOps ==
  {[op |-> o[1], arg |-> o[2]] : o \in
     {<<"special", 16>>, <<"special", 17>>, <<"special", 32>>, <<"copy", 0>>,
      <<"advance_pc", 3>>, <<"advance_line", -1>>, <<"set_file", 2>>,
      <<"set_column", 65537>>, <<"negate_stmt", 0>>, <<"set_basic_block", 0>>,
      <<"const_add_pc", 0>>, <<"fixed_advance_pc", 5>>, <<"set_prologue_end", 0>>,
      <<"set_epilogue_begin", 0>>, <<"set_isa", 1>>, <<"set_isa", 256>>,
      <<"end_sequence", 0>>, <<"set_address", 8>>, <<"new_op", 0>>}}
=============================================================================
