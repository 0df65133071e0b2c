------------------------------- MODULE LineTable -------------------------------
(***************************************************************************)
(* A line table read by dwarf_srclines() (LineReader) and printed by        *)
(* dwarf_print_lines() (LinePrinter): one the producer wrote (LineProducer), *)
(* or one that comes from somewhere else.                                  *)
(*                                                                         *)
(* A program is read after it was written; but what an operation does       *)
(* depends on those before it only, so here an operation is read in the    *)
(* step that writes it, and tables of every length are covered by finitely *)
(* many states.                                                            *)
(***************************************************************************)
EXTENDS LineProducer

CONSTANTS HalfSize,         \* 2^16
          MaxJump,          \* how far a client of the producer goes at once
          ForeignPrefixes,  \* the headers of tables from elsewhere
          ForeignOps,       \* what the programs of those tables are made of
          MaxAddress,       \* bounds on address and line in those, for TLC
          MaxLine

VARIABLES prefix, regs, added, ended, status,    \* of the reader
          back,          \* the rows curline was read back as
          descended,     \* an address descended in a sequence
          shown, same_size, line, reading        \* of the printer

vars == <<pvars, prefix, regs, added, ended, status, back, descended, shown, same_size, line,
          reading>>

Reader  == INSTANCE LineReader
Printer == INSTANCE LinePrinter

ASSUME LineAssumption ==
  /\ AddrSize \in Nat \ {0} /\ IntSize \in Nat \ {0} /\ AddrSize % IntSize = 0
  /\ HalfSize \in Nat \ {0}
  /\ MIN_INST_LENGTH \in {1, 4} /\ AddrSize % 4 = 0
  /\ {MaxJump, MaxAddress, MaxLine} \subseteq Nat
  /\ 4 * MaxJump + MAX_OPCODE < IntSize \div 2
  /\ Entries \subseteq [address : 0..(AddrSize - 1), file : Nat, line : Nat,
                        column : 0..(HalfSize - 1), is_stmt : BOOLEAN, basic_block : BOOLEAN,
                        opc : {"none", "set_address", "end_sequence"}]
  /\ ForeignPrefixes \subseteq Reader!Prefixes /\ ForeignOps \subseteq Reader!Operations

(* What the reader makes of the header that the producer writes.           *)
OwnPrefix ==
  [pf_minimum_instruction_length |-> MIN_INST_LENGTH, pf_line_base |-> LINE_BASE,
   pf_line_range |-> LINE_RANGE, pf_opcode_base |-> OPCODE_BASE,
   pf_default_is_stmt |-> DEFAULT_IS_STMT, pf_std_op_count |-> 9]

Init == /\ ProducerInit
        /\ Reader!ReaderInit({OwnPrefix} \cup ForeignPrefixes)
        /\ Printer!PrinterInit /\ (prefix = OwnPrefix => same_size)
        /\ back = <<>> /\ descended = FALSE

(* An address is at most MaxJump from the last one of its sequence, and a   *)
(* sequence ends a whole number of instructions after its last row.        *)
Near(e) ==
  e.opc # "set_address" =>
    /\ e.address - prevline.address \in -MaxJump..MaxJump
    /\ e.opc = "end_sequence" => (e.address - prevline.address) % MIN_INST_LENGTH = 0

(* Addresses ascend in a sequence, as DWARF wants it.                      *)
Ascending(e) == e.opc # "set_address" => e.address >= prevline.address

NextEntry(e) ==
  /\ prefix = OwnPrefix /\ Near(e)
  /\ Take(e)
  /\ back' = <<>> /\ descended' = (descended \/ ~Ascending(e))
  /\ UNCHANGED <<prefix, regs, added, ended, status, shown, same_size, line, reading>>

WriteAndRead ==
  /\ prefix = OwnPrefix /\ status = "reading"
  /\ Write
  /\ IF out' = <<>>
     THEN UNCHANGED <<prefix, regs, added, ended, status, back, shown, same_size, line, reading>>
     ELSE Reader!Read(out'[1]) /\ Printer!ShowOp(out'[1]) /\ back' = back \o added'
  /\ descended' = descended

ReadForeign(o) ==
  /\ prefix # OwnPrefix
  /\ Reader!Read(o) /\ Printer!ShowOp(o)
  /\ regs'.address <= MaxAddress /\ regs'.line \in 0..MaxLine
  /\ UNCHANGED <<pvars, back, descended>>

Next ==
  \/ WriteAndRead
  \/ \E e \in Entries : NextEntry(e)
  \/ \E o \in ForeignOps : ReadForeign(o)

Spec == Init /\ [][Next]_vars

-------------------------------------------------------------------------------
(* Properties.                                                             *)

TypeOK ==
  /\ pc \in {"next", "file", "column", "is_stmt", "basic_block", "advance",
             "advance_line", "copy", "set_address", "end_sequence", "end", "error"}
  /\ curline \in Entries \cup {reg_init}
  /\ {prevline.address, regs.address} \subseteq 0..(AddrSize - 1)
  /\ {ended, descended} \subseteq BOOLEAN /\ Len(out) <= 1 /\ Len(added) <= 1 /\ Len(back) <= 1
  /\ status \in {"reading", "failed", "lost"}

(* In its own tables, the producer's idea of the registers is what a reader has in them: each  *)
(* operation is chosen from a difference with prevline, so a register out  *)
(* of step would shift every row after it.                                 *)
InStep ==
  prefix = OwnPrefix /\ status = "reading" =>
    /\ regs.address = prevline.address /\ regs.line = prevline.line
    /\ regs.file = prevline.file /\ regs.column = prevline.column
    /\ regs.is_stmt = prevline.is_stmt
    /\ pc = "next" => regs.basic_block = prevline.basic_block

(* Every line entry is read back as one row that says the same, an end of   *)
(* sequence as one row at its address, and a set_address as no row.        *)
RowReadsBack ==
  pc = "next" /\ out # <<>> /\ status = "reading" =>
    CASE curline.opc = "set_address" -> back = <<>>
      [] curline.opc = "end_sequence" ->
           /\ Len(back) = 1 /\ back[1].end_sequence
           /\ back[1].address = curline.address
      [] OTHER ->
           /\ Len(back) = 1 /\ ~back[1].end_sequence
           /\ \A field \in {"address", "file", "line", "column", "is_stmt", "basic_block"} :
                back[1][field] = curline[field]

(* A producer whose addresses ascend in every sequence, as DWARF wants it,  *)
(* never makes the reader take an operand for an opcode.                   *)
NeverLost == prefix = OwnPrefix /\ ~descended => status # "lost"

(* A sequence is read alike wherever it is in a table: nothing an earlier   *)
(* sequence did to the registers shows in it, except through isa.          *)
SequencesAlike ==
  ended /\ status = "reading" => [regs EXCEPT !.isa = 0] = Reader!Start

(* The two versions of the state machine agree: where dwarf_srclines() gets   *)
(* a row dwarf_print_lines() prints one for the same address and source      *)
(* position, at every operation of any program, and neither reads on where   *)
(* the other is lost or refuses.  But if addresses in the compilation unit   *)
(* have another size than in the object file, that is so only as far as the  *)
(* first set_address: there the printer loses its place, the reader does not. *)
PrintsWhatIsRead ==
  /\ status = "reading" /\ reading = "reading" =>
       /\ Len(line) = Len(added)
       /\ added # <<>> =>
            /\ \A f \in {"address", "file", "line", "basic_block", "isa"} :
                 line[1][f] = added[1][f]
            /\ line[1].column % HalfSize = added[1].column
            /\ line[1].end_sequence = ended
            /\ ~ended => line[1].is_stmt = added[1].is_stmt
  /\ status = "reading" /\ reading # "reading" => reading = "lost" /\ ~same_size
  /\ status = "lost" => reading = "lost"

(* The registers agree wherever an operation ends, with the producer's and at *)
(* the start of a sequence with those of every other sequence.             *)
RegistersAgree == InStep /\ SequencesAlike

(* What a producer writes is read back, entry by entry, or the reader loses   *)
(* its way, which takes a descending address.                               *)
ReadsBack == RowReadsBack /\ NeverLost
===============================================================================
