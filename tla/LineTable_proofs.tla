-------------------------- MODULE LineTable_proofs ----------------------------
(***************************************************************************)
(* Theorems about line tables, for all entries, programs and headers, and   *)
(* for every width of addresses and ints.                                  *)
(*                                                                         *)
(* What a producer writes is read back because the producer's registers     *)
(* (prevline) are the reader's at every operation; OwnInv says how far they  *)
(* agree at each `if' of the producer's loop, and PcInv which fields of the  *)
(* entry are already there.                                                *)
(***************************************************************************)
EXTENDS LineTable, TLAPS

Pcs == {"next", "file", "column", "is_stmt", "basic_block", "advance",
        "advance_line", "copy", "set_address", "end_sequence", "end", "error"}

Addresses == 0..(AddrSize - 1)

Positions == [address : Addresses, file : Nat, line : Nat, column : 0..(HalfSize - 1),
              is_stmt : BOOLEAN, basic_block : BOOLEAN,
              opc : {"none", "set_address", "end_sequence"}]

Registers == [address : Addresses, file : Int, line : Int, column : Int,
              is_stmt : BOOLEAN, basic_block : BOOLEAN, prologue_end : BOOLEAN,
              epilogue_begin : BOOLEAN, isa : Nat]

Shown == [address : Addresses, file : Int, line : Int, column : Int,
          is_stmt : BOOLEAN, basic_block : BOOLEAN, prologue_end : BOOLEAN,
          epilogue_begin : BOOLEAN, end_sequence : BOOLEAN, isa : Nat]

AtMostOne(s) == s = <<>> \/ \E x : s = <<x>>

Types ==
  /\ pc \in Pcs /\ prevline \in Positions /\ curline \in Entries \cup {reg_init}
  /\ prefix \in Reader!Prefixes /\ regs \in Registers
  /\ ended \in BOOLEAN /\ descended \in BOOLEAN
  /\ AtMostOne(out) /\ AtMostOne(added) /\ AtMostOne(back)
  /\ status \in {"reading", "failed", "lost"}

(* Where the producer is before the address of an entry is written, and     *)
(* before its row is.                                                      *)
Before == {"file", "column", "is_stmt", "basic_block", "advance"}
Inside == Before \cup {"advance_line", "copy"}

PcInv ==
  /\ pc \in Inside => curline.opc = "none"
  /\ pc = "set_address" => curline.opc = "set_address"
  /\ pc \in {"end_sequence", "end"} => curline.opc = "end_sequence"
  /\ pc \in Inside \ {"file"} => prevline.file = curline.file
  /\ pc \in Inside \ {"file", "column"} => prevline.column = curline.column
  /\ pc \in Inside \ {"file", "column", "is_stmt"} => prevline.is_stmt = curline.is_stmt
  /\ pc \in Before \cup {"end_sequence"} =>
       /\ curline.address - prevline.address \in -MaxJump..MaxJump
       /\ ~descended => curline.address >= prevline.address
  /\ pc = "end_sequence" => (curline.address - prevline.address) % MIN_INST_LENGTH = 0
  /\ pc \in {"advance_line", "copy", "end"} => prevline.address = curline.address
  /\ pc = "copy" => prevline.line = curline.line

(* The reader's registers; basic_block is behind in prevline between an      *)
(* advance and the row.                                                    *)
OwnInv ==
  prefix = OwnPrefix /\ status = "reading" =>
    /\ regs.address = prevline.address /\ regs.line = prevline.line
    /\ regs.file = prevline.file /\ regs.column = prevline.column
    /\ regs.is_stmt = prevline.is_stmt /\ ~regs.epilogue_begin
    /\ pc \notin {"advance_line", "copy"} => regs.basic_block = prevline.basic_block
    /\ pc \notin {"advance", "advance_line", "copy", "error"} => ~regs.basic_block
    /\ pc \in {"advance", "advance_line", "copy"} => regs.basic_block = curline.basic_block
    /\ pc # "next" => back = <<>>

(* The producer writes only where the table is its own.                      *)
ForeignInv == prefix # OwnPrefix => pc = "next" /\ out = <<>>

(* The printer has the reader's registers as long as neither lost its place.  *)
ShownInv ==
  status = "reading" /\ reading = "reading" =>
    /\ shown \in Shown /\ ~shown.end_sequence
    /\ shown.address = regs.address /\ shown.file = regs.file /\ shown.line = regs.line
    /\ shown.column = regs.column /\ shown.is_stmt = regs.is_stmt
    /\ shown.basic_block = regs.basic_block /\ shown.isa = regs.isa

IInv == /\ Types /\ PcInv /\ OwnInv /\ ForeignInv /\ ShownInv
        /\ SequencesAlike /\ ReadsBack /\ PrintsWhatIsRead
-------------------------------------------------------------------------------
(* Arithmetic and records.                                                 *)

LEMMA Sizes ==
  /\ AddrSize \in Nat \ {0} /\ HalfSize \in Nat \ {0} /\ IntSize \in Nat \ {0}
  /\ MIN_INST_LENGTH \in {1, 4} /\ MaxJump \in Nat
  /\ Entries \subseteq Positions
  BY LineAssumption DEF Positions, Addresses

LEMMA One == \A x : AtMostOne(<<x>>) /\ AtMostOne(<<>>)
  BY DEF AtMostOne

LEMMA Wraps == \A x \in Int : x % AddrSize \in Addresses
  BY Sizes DEF Addresses

(* One operation of a program.                                             *)
LEMMA OpTypes ==
  ASSUME NEW o \in Reader!Operations
  PROVE  /\ o.arg \in Int
         /\ o.op = "set_address" => o.arg \in Addresses
         /\ o.op = "set_isa" => o.arg \in Nat
  BY DEF Reader!Operations, Addresses

LEMMA AdvancedType ==
  ASSUME prefix \in Reader!Prefixes, NEW r \in Registers, NEW n \in Int
  PROVE  Reader!Advanced(r, n) \in Registers
<1>1. (r.address + prefix.pf_minimum_instruction_length * n) % AddrSize \in Addresses
  BY Wraps DEF Reader!Prefixes, Registers, Addresses
<1> QED
  BY <1>1 DEF Reader!Advanced, Registers

LEMMA StartType ==
  ASSUME prefix \in Reader!Prefixes
  PROVE  Reader!Start \in Registers
  BY Sizes DEF Reader!Start, Registers, Reader!Prefixes, Addresses

LEMMA AfterEndType ==
  ASSUME prefix \in Reader!Prefixes, NEW r \in Registers
  PROVE  /\ Reader!AfterEnd(r) \in Registers
         /\ [Reader!AfterEnd(r) EXCEPT !.isa = 0] = Reader!Start
<1>1. Reader!Start \in Registers /\ Reader!Start.isa = 0
  BY StartType DEF Reader!Start
<1> HIDE DEF Reader!Start
<1> QED
  BY <1>1 DEF Reader!AfterEnd, Registers

-------------------------------------------------------------------------------
(* What one operation does to the reader.                                  *)

LEMMA SpecialType ==
  ASSUME Types, NEW o \in Reader!Operations, Reader!ReadSpecial(o)
  PROVE  /\ regs' \in Registers /\ AtMostOne(added') /\ status' \in {status, "failed"}
<1> DEFINE n == (o.arg - prefix.pf_opcode_base) \div prefix.pf_line_range
           m == (o.arg - prefix.pf_opcode_base) % prefix.pf_line_range
           a == Reader!Advanced(regs, n)
           r == [a EXCEPT !.line = @ + prefix.pf_line_base + m]
<1>1. n \in Int /\ m \in Int /\ prefix.pf_line_base \in Int
  BY OpTypes DEF Types, Reader!Prefixes
<1>2. a \in Registers
  BY <1>1, AdvancedType DEF Types
<1> HIDE DEF n, m, a
<1>3. r \in Registers
  BY <1>1, <1>2 DEF Registers
<1> HIDE DEF r
<1>4. Reader!Add(Reader!Row(r, r.is_stmt, r.epilogue_begin), [r EXCEPT !.basic_block = FALSE])
  BY DEF Reader!ReadSpecial, r, a, n, m
<1>5. [r EXCEPT !.basic_block = FALSE] \in Registers
  BY <1>3 DEF Registers
<1> QED
  BY <1>4, <1>5, One DEF Reader!Add, Types

LEMMA CopyType ==
  ASSUME Types, NEW o, Reader!ReadCopy(o)
  PROVE  /\ regs' \in Registers /\ AtMostOne(added') /\ status' \in {status, "failed"}
<1>1. [regs EXCEPT !.basic_block = FALSE, !.prologue_end = FALSE,
                   !.epilogue_begin = FALSE] \in Registers
  BY DEF Types, Registers
<1> QED
  BY <1>1, One DEF Reader!ReadCopy, Reader!Add, Types

LEMMA StandardType ==
  ASSUME Types, NEW o \in Reader!Operations, Reader!ReadStandard(o)
  PROVE  regs' \in Registers /\ added' = <<>> /\ status' = status
<1>1. regs \in Registers /\ o.arg \in Int
  BY OpTypes DEF Types
<1>2. Reader!ConstAddPc \in Int
  BY DEF Reader!ConstAddPc, Reader!MAX_LINE_OP_CODE, Reader!Prefixes, Types
<1>3. \A n \in Int : Reader!Advanced(regs, n) \in Registers
  BY <1>1, AdvancedType DEF Types
<1>4. [regs EXCEPT !.line = @ + o.arg] \in Registers
  BY <1>1 DEF Registers
<1>5. [regs EXCEPT !.file = o.arg] \in Registers /\ [regs EXCEPT !.column = o.arg] \in Registers
  BY <1>1 DEF Registers
<1>6. [regs EXCEPT !.is_stmt = ~@] \in Registers
  BY <1>1 DEF Registers
<1>7. /\ [regs EXCEPT !.basic_block = TRUE] \in Registers
      /\ [regs EXCEPT !.prologue_end = TRUE] \in Registers
      /\ [regs EXCEPT !.epilogue_begin = TRUE] \in Registers
  BY <1>1 DEF Registers
<1>8. [regs EXCEPT !.address = (@ + o.arg) % AddrSize] \in Registers
  <2>1. (regs.address + o.arg) % AddrSize \in Addresses
    BY <1>1, Wraps DEF Registers, Addresses
  <2> QED
    BY <1>1, <2>1 DEF Registers
<1> QED
  BY <1>1, <1>2, <1>3, <1>4, <1>5, <1>6, <1>7, <1>8 DEF Reader!ReadStandard, Reader!NoRow

LEMMA ReadKeepsTypes ==
  ASSUME Types, NEW o \in Reader!Operations, Reader!Read(o)
  PROVE  /\ prefix' = prefix /\ regs' \in Registers /\ AtMostOne(added')
         /\ ended' \in BOOLEAN /\ status' \in {"reading", "failed", "lost"}
<1>1. prefix' = prefix /\ status = "reading" /\ ended' \in BOOLEAN
  BY DEF Reader!Read
<1>2. /\ regs \in Registers
  BY DEF Types
<1>3. CASE Reader!ReadSpecial(o)
  BY <1>1, <1>3, SpecialType
<1>4. CASE Reader!ReadMistaken(o)
  BY <1>1, <1>2, <1>4, One DEF Reader!ReadMistaken
<1>5. CASE Reader!ReadDiscard(o)
  BY <1>1, <1>2, <1>5, One DEF Reader!ReadDiscard
<1>6. CASE Reader!ReadCopy(o)
  BY <1>1, <1>6, CopyType
<1>7. CASE Reader!ReadStandard(o)
  BY <1>1, <1>7, StandardType, One
<1>8. CASE Reader!ReadSetIsa(o)
  <2>1. o.op = "set_isa" /\ o.arg \in Nat
    BY <1>8, OpTypes DEF Reader!ReadSetIsa
  <2>2. [regs EXCEPT !.isa = o.arg] \in Registers
    BY <1>2, <2>1 DEF Registers
  <2> QED
    BY <1>1, <1>2, <1>8, <2>2, One DEF Reader!ReadSetIsa
<1>9. CASE Reader!ReadEndSequence(o)
  <2>1. Reader!AfterEnd(regs) \in Registers
    BY <1>2, AfterEndType DEF Types
  <2> QED
    BY <1>1, <1>2, <1>9, <2>1, One DEF Reader!ReadEndSequence, Reader!Add
<1>10. CASE Reader!ReadSetAddress(o)
  <2>1. o.op = "set_address" /\ o.arg \in Addresses
    BY <1>10, OpTypes DEF Reader!ReadSetAddress
  <2>2. [regs EXCEPT !.address = o.arg] \in Registers
    BY <1>2, <2>1 DEF Registers
  <2> QED
    BY <1>1, <1>10, <2>2, One DEF Reader!ReadSetAddress, Reader!NoRow
<1> QED
  BY <1>3, <1>4, <1>5, <1>6, <1>7, <1>8, <1>9, <1>10 DEF Reader!Read

-------------------------------------------------------------------------------
(* The printer does the same.                                              *)

(* The printer's registers s are those of the reader, r.                     *)
Same(s, r) ==
  /\ s \in Shown /\ ~s.end_sequence
  /\ s.address = r.address /\ s.file = r.file /\ s.line = r.line
  /\ s.column = r.column /\ s.is_stmt = r.is_stmt
  /\ s.basic_block = r.basic_block /\ s.isa = r.isa

LEMMA SameAddress ==
  ASSUME NEW r \in Registers, NEW s, Same(s, r), NEW a \in Addresses
  PROVE  Same([s EXCEPT !.address = a], [r EXCEPT !.address = a])
  BY DEF Same, Registers, Shown

LEMMA SameLine ==
  ASSUME NEW r \in Registers, NEW s, Same(s, r), NEW l \in Int
  PROVE  Same([s EXCEPT !.line = l], [r EXCEPT !.line = l])
  BY DEF Same, Registers, Shown

LEMMA SameNumber ==
  ASSUME NEW r \in Registers, NEW s, Same(s, r), NEW n \in Int
  PROVE  /\ Same([s EXCEPT !.file = n], [r EXCEPT !.file = n])
         /\ Same([s EXCEPT !.column = n], [r EXCEPT !.column = n])
  BY DEF Same, Registers, Shown

LEMMA SameFlag ==
  ASSUME NEW r \in Registers, NEW s, Same(s, r), NEW b \in BOOLEAN
  PROVE  /\ Same([s EXCEPT !.is_stmt = b], [r EXCEPT !.is_stmt = b])
         /\ Same([s EXCEPT !.basic_block = b], [r EXCEPT !.basic_block = b])
         /\ Same([s EXCEPT !.prologue_end = b], [r EXCEPT !.prologue_end = b])
         /\ Same([s EXCEPT !.epilogue_begin = b], [r EXCEPT !.epilogue_begin = b])
  BY DEF Same, Registers, Shown

LEMMA SameIsa ==
  ASSUME NEW r \in Registers, NEW s, Same(s, r), NEW i \in Nat
  PROVE  Same([s EXCEPT !.isa = i], [r EXCEPT !.isa = i])
  BY DEF Same, Registers, Shown

LEMMA SameAdvance ==
  ASSUME prefix \in Reader!Prefixes, NEW r \in Registers, NEW s, Same(s, r), NEW n \in Int
  PROVE  Same(Printer!Forward(s, n), Reader!Advanced(r, n))
<1> DEFINE a == (r.address + prefix.pf_minimum_instruction_length * n) % AddrSize
<1>1. a \in Addresses /\ s.address = r.address
  BY Wraps DEF Reader!Prefixes, Registers, Addresses, Same
<1> HIDE DEF a
<1>2. Printer!Forward(s, n) = [s EXCEPT !.address = a]
  BY <1>1 DEF Printer!Forward, a, Same
<1>3. Reader!Advanced(r, n) = [r EXCEPT !.address = a]
  BY DEF Reader!Advanced, a
<1> QED
  BY <1>1, <1>2, <1>3, SameAddress

LEMMA SameFresh ==
  ASSUME prefix \in Reader!Prefixes
  PROVE  /\ Printer!Fresh \in Shown
         /\ Same(Printer!Fresh, Reader!Start)
<1>1. Printer!Table!Start = Reader!Start
  BY DEF Printer!Table!Start, Reader!Start
<1>2. Reader!Start \in Registers
  BY StartType
<1>3. DOMAIN Reader!Start = {"address", "file", "line", "column", "is_stmt", "basic_block",
                             "prologue_end", "epilogue_begin", "isa"}
  BY DEF Reader!Start
<1> HIDE DEF Reader!Start
<1>4. Printer!Fresh = [f \in {"address", "file", "line", "column", "is_stmt", "basic_block",
                              "prologue_end", "epilogue_begin", "isa"} \cup {"end_sequence"} |->
                         IF f = "end_sequence" THEN FALSE ELSE Reader!Start[f]]
  BY <1>1, <1>3 DEF Printer!Fresh
<1> QED
  BY <1>2, <1>4 DEF Same, Shown, Registers

(* A row is printed from registers that agree with those it is made of.      *)
LEMMA RowIsPrinted ==
  ASSUME NEW r \in Registers, NEW s, Same(s, r), NEW b \in BOOLEAN, NEW e \in BOOLEAN
  PROVE  /\ Reader!Row(r, b, e).address = s.address
         /\ Reader!Row(r, b, e).file = s.file
         /\ Reader!Row(r, b, e).line = s.line
         /\ Reader!Row(r, b, e).column = s.column % HalfSize
         /\ Reader!Row(r, b, e).basic_block = s.basic_block
         /\ Reader!Row(r, b, e).isa = s.isa
         /\ Reader!Row(r, b, e).is_stmt = b
  BY DEF Reader!Row, Same

LEMMA RowFollows ==
  ASSUME NEW r \in Registers, NEW s, Same(s, r), NEW b \in BOOLEAN, NEW e \in BOOLEAN,
         NEW q, Reader!Add(Reader!Row(r, b, e), q), status = "reading",
         NEW p, Same(p, q), shown' = p, reading' = "reading",
         NEW t, line' = <<t>>, t.address = s.address, t.file = s.file, t.line = s.line,
         t.column = s.column, t.basic_block = s.basic_block, t.isa = s.isa,
         t.end_sequence = ended', ~ended' => t.is_stmt = b
  PROVE  ShownInv' /\ PrintsWhatIsRead'
<1> DEFINE row == Reader!Row(r, b, e)
<1>1. /\ row.address = t.address /\ row.file = t.file /\ row.line = t.line
      /\ row.column = t.column % HalfSize /\ row.basic_block = t.basic_block
      /\ row.isa = t.isa /\ row.is_stmt = b
  BY RowIsPrinted
<1> HIDE DEF row
<1>2. CASE added' = <<row>> /\ regs' = q /\ status' = status
  <2>1. ShownInv'
    BY <1>2 DEF ShownInv, Same
  <2>2. line'[1] = t /\ added'[1] = row /\ Len(line') = 1 /\ Len(added') = 1
    BY <1>2
  <2>3. PrintsWhatIsRead'
    BY <1>1, <1>2, <2>2 DEF PrintsWhatIsRead
  <2> QED
    BY <2>1, <2>3
<1>3. CASE status' = "failed"
  BY <1>3 DEF ShownInv, PrintsWhatIsRead
<1> QED
  BY <1>2, <1>3 DEF Reader!Add, row

LEMMA SilentFollows ==
  ASSUME added' = <<>>, line' = <<>>, status' = "reading", reading' = "reading",
         NEW r, NEW s, Same(s, r), regs' = r, shown' = s
  PROVE  ShownInv' /\ PrintsWhatIsRead'
  BY DEF ShownInv, PrintsWhatIsRead, Same

LEMMA StoppedFollows ==
  ASSUME status' # "reading", status' = "lost" => reading' = "lost"
  PROVE  ShownInv' /\ PrintsWhatIsRead'
  BY DEF ShownInv, PrintsWhatIsRead

(* The reader goes on alone.                                                *)
LEMMA AloneFollows ==
  ASSUME status' # "lost", reading' = "lost", ~same_size, same_size' = same_size
  PROVE  ShownInv' /\ PrintsWhatIsRead'
  BY DEF ShownInv, PrintsWhatIsRead

(* The operation decides which of the cases of the two loops it is.           *)
StandardNames == {Reader!StandardOps[i] : i \in DOMAIN Reader!StandardOps}

LEMMA Names ==
  /\ "special" \notin StandardNames /\ "end_sequence" \notin StandardNames
  /\ "set_address" \notin StandardNames
  BY DEF StandardNames, Reader!StandardOps

LEMMA SameDiscards ==
  /\ Printer!Table!Discards = Reader!Discards
  /\ StandardNames = {Printer!Table!StandardOps[i] : i \in DOMAIN Printer!Table!StandardOps}
  /\ \A o : Printer!Table!Number(o) = Reader!Number(o)
  /\ Printer!Table!OperandCount = Reader!OperandCount
  BY DEF Printer!Table!Discards, Reader!Discards, Printer!Table!StandardOps, Reader!StandardOps,
         Printer!Table!Number, Reader!Number, Printer!Table!OperandCount, Reader!OperandCount,
         StandardNames

LEMMA ShowSpecial ==
  ASSUME NEW o, Printer!PrintOp(o), o.op = "special", o.arg \in Int, prefix \in Reader!Prefixes
  PROVE  \/ o.arg >= prefix.pf_opcode_base /\ Printer!PrintSpecial(o)
         \/ o.arg < prefix.pf_opcode_base /\ Printer!PrintMistaken(o)
<1>1. ~Printer!PrintDiscard(o)
  BY Names, SameDiscards DEF Printer!PrintDiscard
<1>2. ~Printer!PrintStandard(o) /\ ~Printer!PrintExtended(o)
  BY DEF Printer!PrintStandard, Printer!PrintExtended
<1>3. prefix.pf_opcode_base \in Int
  BY DEF Reader!Prefixes
<1>4. Printer!PrintSpecial(o) => o.arg >= prefix.pf_opcode_base
  BY <1>3 DEF Printer!PrintSpecial
<1>5. Printer!PrintMistaken(o) => o.arg < prefix.pf_opcode_base
  BY DEF Printer!PrintMistaken
<1> QED
  BY <1>1, <1>2, <1>4, <1>5 DEF Printer!PrintOp

LEMMA ShowStandard ==
  ASSUME NEW o, Printer!PrintOp(o), o.op \notin {"special", "end_sequence", "set_address"}
  PROVE  IF Reader!Discards /\ o.op \in StandardNames
         THEN Printer!PrintDiscard(o) ELSE Printer!PrintStandard(o)
<1>1. ~Printer!PrintSpecial(o) /\ ~Printer!PrintMistaken(o)
  BY DEF Printer!PrintSpecial, Printer!PrintMistaken
<1>2. ~Printer!PrintExtended(o)
  BY DEF Printer!PrintExtended
<1>3. Printer!PrintDiscard(o) => Reader!Discards /\ o.op \in StandardNames
  BY SameDiscards DEF Printer!PrintDiscard
<1>4. Printer!PrintStandard(o) => ~Reader!Discards
  BY SameDiscards DEF Printer!PrintStandard
<1> QED
  BY <1>1, <1>2, <1>3, <1>4 DEF Printer!PrintOp

LEMMA ShowExtended ==
  ASSUME NEW o, Printer!PrintOp(o), o.op \in {"end_sequence", "set_address"}
  PROVE  Printer!PrintExtended(o)
<1>1. ~Printer!PrintSpecial(o) /\ ~Printer!PrintMistaken(o)
  BY DEF Printer!PrintSpecial, Printer!PrintMistaken
<1>2. ~Printer!PrintDiscard(o)
  BY Names, SameDiscards DEF Printer!PrintDiscard
<1>3. ~Printer!PrintStandard(o)
  BY DEF Printer!PrintStandard
<1> QED
  BY <1>1, <1>2, <1>3 DEF Printer!PrintOp

LEMMA SpecialFollows ==
  ASSUME Types, ShownInv, PrintsWhatIsRead, status = "reading",
         reading = "reading", NEW o \in Reader!Operations, Reader!ReadSpecial(o), Printer!PrintOp(o),
         ended' = (o.op = "end_sequence")
  PROVE  ShownInv' /\ PrintsWhatIsRead'
<1> DEFINE n == (o.arg - prefix.pf_opcode_base) \div prefix.pf_line_range
           m == (o.arg - prefix.pf_opcode_base) % prefix.pf_line_range
           a == Reader!Advanced(regs, n)
           f == Printer!Forward(shown, n)
           r == [a EXCEPT !.line = @ + prefix.pf_line_base + m]
           s == [f EXCEPT !.line = @ + prefix.pf_line_base + m]
<1>1. /\ n \in Int /\ m \in Int /\ prefix.pf_line_base \in Int /\ o.arg \in Int
      /\ prefix.pf_opcode_base \in Int /\ regs \in Registers /\ prefix \in Reader!Prefixes
  BY OpTypes DEF Types, Reader!Prefixes
<1>2. Same(shown, regs)
  BY DEF ShownInv, Same
<1>3. o.op = "special" /\ o.arg >= prefix.pf_opcode_base /\ ~ended'
  BY DEF Reader!ReadSpecial
<1>4. Reader!Add(Reader!Row(r, r.is_stmt, r.epilogue_begin), [r EXCEPT !.basic_block = FALSE])
  BY DEF Reader!ReadSpecial
<1>5. Printer!PrintSpecial(o)
  BY <1>1, <1>3, ShowSpecial
<1>6. line' = <<s>> /\ reading' = reading /\ shown' = [s EXCEPT !.basic_block = FALSE]
  BY <1>5 DEF Printer!PrintSpecial, Printer!Detail
<1> HIDE DEF n, m
<1>7. a \in Registers /\ Same(f, a)
  BY <1>1, <1>2, AdvancedType, SameAdvance
<1> HIDE DEF a, f
<1>8. r \in Registers /\ Same(s, r)
  <2>1. a.line = f.line /\ a.line \in Int
    BY <1>7 DEF Same, Registers
  <2>2. r = [a EXCEPT !.line = a.line + prefix.pf_line_base + m]
    OBVIOUS
  <2>3. s = [f EXCEPT !.line = a.line + prefix.pf_line_base + m]
    BY <2>1
  <2>4. Same(s, r)
    BY <1>1, <1>7, <2>1, <2>2, <2>3, SameLine
  <2>5. r \in Registers
    BY <1>1, <1>7, <2>1 DEF Registers
  <2> QED
    BY <2>4, <2>5
<1> HIDE DEF r, s
<1>9. Same([s EXCEPT !.basic_block = FALSE], [r EXCEPT !.basic_block = FALSE])
  BY <1>8, SameFlag
<1>10. r.is_stmt \in BOOLEAN /\ r.epilogue_begin \in BOOLEAN
  BY <1>8 DEF Registers
<1>11. s.end_sequence = ended' /\ s.is_stmt = r.is_stmt
  BY <1>3, <1>8 DEF Same, Shown
<1>12. reading' = "reading"
  BY <1>6 DEF PrintsWhatIsRead
<1> QED
  BY <1>4, <1>6, <1>8, <1>9, <1>10, <1>11, <1>12, RowFollows

LEMMA CopyFollows ==
  ASSUME Types, ShownInv, PrintsWhatIsRead, status = "reading",
         reading = "reading", NEW o \in Reader!Operations, Reader!ReadCopy(o), Printer!PrintOp(o),
         ended' = (o.op = "end_sequence")
  PROVE  ShownInv' /\ PrintsWhatIsRead'
<1> DEFINE r == [regs EXCEPT !.basic_block = FALSE, !.prologue_end = FALSE,
                             !.epilogue_begin = FALSE]
           s == [shown EXCEPT !.basic_block = FALSE]
<1>1. regs \in Registers /\ Same(shown, regs) /\ reading = "reading"
  BY DEF Types, ShownInv, Same
<1>2. o.op = "copy" /\ ~Reader!Discards
  BY DEF Reader!ReadCopy
<1>3. Printer!PrintStandard(o)
  BY <1>2, ShowStandard
<1>4. line' = <<shown>> /\ shown' = s /\ reading' = "reading"
  BY <1>1, <1>2, <1>3 DEF Printer!PrintStandard, Printer!Detail
<1>5. Reader!Add(Reader!Row(regs, regs.is_stmt, FALSE), r)
  BY DEF Reader!ReadCopy
<1>6. Same(s, r)
  BY <1>1 DEF Same, Registers, Shown
<1>7. ~ended' /\ shown.end_sequence = FALSE /\ shown.is_stmt = regs.is_stmt
      /\ regs.is_stmt \in BOOLEAN
  BY <1>1, <1>2 DEF Same, Shown, Registers
<1>8. shown.end_sequence = ended'
  BY <1>2, <1>7
<1> HIDE DEF r, s
<1> QED
  BY <1>1, <1>4, <1>5, <1>6, <1>7, <1>8, RowFollows

LEMMA EndFollows ==
  ASSUME Types, ShownInv, PrintsWhatIsRead, status = "reading",
         reading = "reading", NEW o \in Reader!Operations, Reader!ReadEndSequence(o), Printer!PrintOp(o),
         ended' = (o.op = "end_sequence")
  PROVE  ShownInv' /\ PrintsWhatIsRead'
<1> DEFINE t == [shown EXCEPT !.end_sequence = TRUE]
           q == Reader!AfterEnd(regs)
           p == [Printer!Fresh EXCEPT !.isa = shown.isa]
<1>1. /\ regs \in Registers /\ Same(shown, regs) /\ reading = "reading" /\ prefix \in Reader!Prefixes
      /\ prefix.pf_default_is_stmt \in BOOLEAN
  BY DEF Types, ShownInv, Same, Reader!Prefixes
<1>2. o.op = "end_sequence" /\ ended' = TRUE
  BY DEF Reader!ReadEndSequence
<1>3. Printer!PrintExtended(o)
  BY <1>2, ShowExtended
<1>4. line' = <<t>> /\ shown' = p /\ reading' = "reading"
  BY <1>1, <1>2, <1>3 DEF Printer!PrintExtended, Printer!Detail
<1>5. Reader!Add(Reader!Row(regs, prefix.pf_default_is_stmt, TRUE), q)
  BY DEF Reader!ReadEndSequence
<1>6. Same(p, q)
  <2>1. q = [Reader!Start EXCEPT !.isa = regs.isa]
    BY DEF Reader!AfterEnd
  <2>2. shown.isa = regs.isa /\ regs.isa \in Nat
    BY <1>1 DEF Same, Registers
  <2> QED
    BY <1>1, <2>1, <2>2, SameFresh, StartType, SameIsa
<1>7. /\ t.address = shown.address /\ t.file = shown.file /\ t.line = shown.line
      /\ t.column = shown.column /\ t.basic_block = shown.basic_block /\ t.isa = shown.isa
      /\ t.end_sequence = TRUE
  BY <1>1 DEF Same, Shown
<1>8. /\ Same(shown, regs) /\ regs \in Registers /\ prefix.pf_default_is_stmt \in BOOLEAN
      /\ t.end_sequence = ended' /\ ended'
  BY <1>1, <1>2, <1>7
<1> HIDE DEF t, p, q
<1> QED
  BY <1>4, <1>5, <1>6, <1>7, <1>8, RowFollows

LEMMA StandardFollows ==
  ASSUME Types, ShownInv, PrintsWhatIsRead, status = "reading",
         reading = "reading", NEW o \in Reader!Operations, Reader!ReadStandard(o), Printer!PrintOp(o)
  PROVE  ShownInv' /\ PrintsWhatIsRead'
<1>1. /\ regs \in Registers /\ Same(shown, regs) /\ reading = "reading" /\ prefix \in Reader!Prefixes
      /\ o.arg \in Int
  BY OpTypes DEF Types, ShownInv, Same
<1>2. ~Reader!Discards /\ Printer!PrintStandard(o)
  BY ShowStandard DEF Reader!ReadStandard
<1> DEFINE n == (255 - prefix.pf_opcode_base) \div prefix.pf_line_range
<1>3. n \in Int /\ Reader!ConstAddPc = n
  BY <1>1 DEF Reader!ConstAddPc, Reader!MAX_LINE_OP_CODE, Reader!Prefixes
<1> HIDE DEF n
<1>4. \A i \in Int : Same(Printer!Forward(shown, i), Reader!Advanced(regs, i))
  BY <1>1, SameAdvance
<1>5. Same([shown EXCEPT !.line = @ + o.arg], [regs EXCEPT !.line = @ + o.arg])
  BY <1>1 DEF Same, Registers, Shown
<1>6. /\ Same([shown EXCEPT !.file = o.arg], [regs EXCEPT !.file = o.arg])
      /\ Same([shown EXCEPT !.column = o.arg], [regs EXCEPT !.column = o.arg])
      /\ Same([shown EXCEPT !.basic_block = TRUE], [regs EXCEPT !.basic_block = TRUE])
      /\ Same([shown EXCEPT !.prologue_end = TRUE], [regs EXCEPT !.prologue_end = TRUE])
      /\ Same([shown EXCEPT !.epilogue_begin = TRUE], [regs EXCEPT !.epilogue_begin = TRUE])
  BY <1>1, SameNumber, SameFlag
<1>7. Same([shown EXCEPT !.is_stmt = ~@], [regs EXCEPT !.is_stmt = ~@])
  BY <1>1 DEF Same, Registers, Shown
<1>8. Same([shown EXCEPT !.address = (@ + o.arg) % AddrSize],
           [regs EXCEPT !.address = (@ + o.arg) % AddrSize])
  <2> DEFINE a == (regs.address + o.arg) % AddrSize
  <2>1. a \in Addresses /\ shown.address = regs.address
    BY <1>1, Wraps DEF Registers, Addresses, Same
  <2> HIDE DEF a
  <2>2. Same([shown EXCEPT !.address = a], [regs EXCEPT !.address = a])
    BY <1>1, <2>1, SameAddress
  <2> QED
    BY <2>1, <2>2 DEF a
<1>9. added' = <<>> /\ status' = "reading"
  BY StandardType
<1>10. line' = <<>> /\ reading' = "reading" /\ Same(shown', regs')
  BY ZenonT(40), <1>1, <1>2, <1>3, <1>4, <1>5, <1>6, <1>7, <1>8
     DEF Reader!ReadStandard, Reader!NoRow, Printer!PrintStandard, Printer!Silent,
         Printer!ConstAdded, n
<1> QED
  BY <1>9, <1>10, SilentFollows

LEMMA DiscardFollows ==
  ASSUME ShownInv, PrintsWhatIsRead, status = "reading",
         reading = "reading", NEW o, Reader!ReadDiscard(o), Printer!PrintOp(o)
  PROVE  ShownInv' /\ PrintsWhatIsRead'
<1>1. Reader!Discards /\ o.op \in StandardNames
  BY DEF Reader!ReadDiscard, StandardNames
<1>2. Printer!PrintDiscard(o)
  BY <1>1, ShowStandard, Names
<1>3. added' = <<>> /\ regs' = regs /\ line' = <<>> /\ shown' = shown /\ reading = "reading"
  BY <1>2 DEF Reader!ReadDiscard, Printer!PrintDiscard, PrintsWhatIsRead
<1>4. \/ status' = "reading" /\ reading' = "reading"
      \/ status' = "lost" /\ reading' = "lost"
  BY <1>2, <1>3, SameDiscards DEF Reader!ReadDiscard, Printer!PrintDiscard
<1>5. Same(shown, regs)
  BY DEF ShownInv, Same
<1> QED
  BY <1>3, <1>4, <1>5, SilentFollows, StoppedFollows

LEMMA IsaFollows ==
  ASSUME Types, ShownInv, PrintsWhatIsRead, status = "reading",
         reading = "reading", NEW o \in Reader!Operations, Reader!ReadSetIsa(o), Printer!PrintOp(o)
  PROVE  ShownInv' /\ PrintsWhatIsRead'
<1>1. ~Reader!Discards /\ o.op = "set_isa" /\ o.arg \in Nat
  BY OpTypes DEF Reader!ReadSetIsa
<1>2. Printer!PrintStandard(o)
  BY <1>1, ShowStandard
<1>3. /\ regs \in Registers /\ Same(shown, regs) /\ reading = "reading"
  BY DEF Types, ShownInv, Same
<1>4. CASE o.arg < 256
  <2>1. o.arg % 256 = o.arg
    BY <1>1, <1>4
  <2>2. /\ line' = <<>> /\ reading' = "reading"
        /\ shown' = [shown EXCEPT !.isa = o.arg]
    BY <1>1, <1>2, <1>3, <1>4, <2>1 DEF Printer!PrintStandard
  <2>3. added' = <<>> /\ regs' = [regs EXCEPT !.isa = o.arg] /\ status' = "reading"
    BY <1>4 DEF Reader!ReadSetIsa
  <2> QED
    BY <1>1, <1>3, <2>2, <2>3, SameIsa, SilentFollows
<1>5. CASE ~(o.arg < 256)
  BY <1>5, StoppedFollows DEF Reader!ReadSetIsa
<1> QED
  BY <1>4, <1>5

LEMMA AddressFollows ==
  ASSUME Types, ShownInv, PrintsWhatIsRead, status = "reading",
         reading = "reading", NEW o \in Reader!Operations, Reader!ReadSetAddress(o), Printer!PrintOp(o),
         same_size' = same_size
  PROVE  ShownInv' /\ PrintsWhatIsRead'
<1>1. o.op = "set_address" /\ o.arg \in Addresses
  BY OpTypes DEF Reader!ReadSetAddress
<1>2. Printer!PrintExtended(o)
  BY <1>1, ShowExtended
<1>3. /\ regs \in Registers /\ Same(shown, regs) /\ reading = "reading"
  BY DEF Types, ShownInv, Same
<1>4. added' = <<>> /\ regs' = [regs EXCEPT !.address = o.arg] /\ status' = "reading"
  BY DEF Reader!ReadSetAddress, Reader!NoRow
<1>5. CASE same_size
  <2>1. line' = <<>> /\ reading' = "reading" /\ shown' = [shown EXCEPT !.address = o.arg]
    BY <1>1, <1>2, <1>3, <1>5 DEF Printer!PrintExtended, Printer!Silent
  <2> QED
    BY <1>1, <1>3, <1>4, <2>1, SameAddress, SilentFollows
<1>6. CASE ~same_size
  <2>1. reading' = "lost"
    BY <1>1, <1>2, <1>6 DEF Printer!PrintExtended
  <2> QED
    BY <1>4, <1>6, <2>1, AloneFollows
<1> QED
  BY <1>5, <1>6

(* The printer follows the reader, whatever the operation.                   *)
LEMMA PrinterFollows ==
  ASSUME Types, ShownInv, PrintsWhatIsRead,
         NEW o \in Reader!Operations, Reader!Read(o), Printer!ShowOp(o)
  PROVE  ShownInv' /\ PrintsWhatIsRead'
<1>1. status = "reading" /\ ended' = (o.op = "end_sequence") /\ same_size' = same_size
  BY DEF Reader!Read, Printer!ShowOp
<1>2. CASE reading = "reading"
  <2>1. Printer!PrintOp(o)
    BY <1>2 DEF Printer!ShowOp
  <2>2. CASE Reader!ReadMistaken(o)
    <3>1. /\ o.op = "special" /\ o.arg < prefix.pf_opcode_base /\ status' = "lost"
          /\ o.arg \in Int /\ prefix \in Reader!Prefixes /\ prefix.pf_opcode_base \in Int
      BY <2>2, OpTypes DEF Reader!ReadMistaken, Types, Reader!Prefixes
    <3>2. Printer!PrintMistaken(o)
      BY <2>1, <3>1, ShowSpecial
    <3> QED
      BY <3>1, <3>2, StoppedFollows DEF Printer!PrintMistaken
  <2> QED
    BY <1>1, <1>2, <2>1, <2>2, SpecialFollows, DiscardFollows, CopyFollows, StandardFollows,
       IsaFollows, EndFollows, AddressFollows DEF Reader!Read
<1>3. CASE reading # "reading"
  <2>1. reading' = reading /\ reading = "lost" /\ ~same_size
    BY <1>1, <1>3 DEF Printer!ShowOp, PrintsWhatIsRead
  <2> QED
    BY <1>1, <2>1 DEF ShownInv, PrintsWhatIsRead
<1> QED
  BY <1>2, <1>3

(* After an end of sequence the registers are the first ones.                *)
LEMMA ReadStartsAlike ==
  ASSUME Types, NEW o, Reader!Read(o)
  PROVE  SequencesAlike'
<1> SUFFICES ASSUME ended', status' = "reading"
             PROVE  [regs EXCEPT !.isa = 0]' = Reader!Start'
  BY DEF SequencesAlike
<1>1. o.op = "end_sequence" /\ prefix' = prefix /\ regs \in Registers /\ prefix \in Reader!Prefixes
  BY DEF Reader!Read, Types
<1>2. Reader!ReadEndSequence(o)
  <2>1. ~Reader!ReadDiscard(o)
    BY <1>1, Names DEF Reader!ReadDiscard, StandardNames
  <2> QED
    BY <1>1, <2>1
       DEF Reader!Read, Reader!ReadSpecial, Reader!ReadMistaken, Reader!ReadCopy,
           Reader!ReadStandard, Reader!ReadSetIsa, Reader!ReadSetAddress
<1>3. regs' = Reader!AfterEnd(regs)
  BY <1>2 DEF Reader!ReadEndSequence, Reader!Add
<1>4. Reader!Start' = Reader!Start
  BY <1>1 DEF Reader!Start
<1> QED
  BY <1>1, <1>3, <1>4, AfterEndType

-------------------------------------------------------------------------------
(* Numbers of the producer.                                                *)

LEMMA ModSmall ==
  ASSUME NEW n \in Nat \ {0}, NEW x \in 0..(n - 1)
  PROVE  x % n = x
  BY SMT

LEMMA ModBelow ==
  ASSUME NEW n \in Nat \ {0}, NEW x \in (-n)..(-1)
  PROVE  x % n = x + n
  BY SMT

LEMMA ModTwice ==
  ASSUME NEW n \in Nat \ {0}, NEW x \in n..(2 * n - 1)
  PROVE  x % n = x - n
  BY SMT

LEMMA ModShift ==
  ASSUME NEW n \in Nat \ {0}, NEW x \in Int, NEW k \in Int
  PROVE  (x + k * n) % n = x % n
<1> DEFINE q == x \div n
           r == x % n
           q2 == (x + k * n) \div n
           r2 == (x + k * n) % n
<1>1. q \in Int /\ r \in 0..(n - 1) /\ x = n * q + r
  OBVIOUS
<1>2. x + k * n \in Int
  OBVIOUS
<1>3. q2 \in Int /\ r2 \in 0..(n - 1) /\ x + k * n = n * q2 + r2
  BY <1>2
<1> HIDE DEF q, r, q2, r2
<1>4. n * (q2 - q - k) = r - r2
  BY <1>1, <1>3
<1>5. CASE q2 - q - k >= 1
  <2>1. n * (q2 - q - k) >= n
    BY <1>1, <1>3, <1>5
  <2> QED
    BY <1>1, <1>3, <1>4, <2>1
<1>6. CASE q2 - q - k <= -1
  <2>1. n * (q2 - q - k) <= -n
    BY <1>1, <1>3, <1>6
  <2> QED
    BY <1>1, <1>3, <1>4, <2>1
<1>7. CASE q2 - q - k = 0
  <2>1. n * (q2 - q - k) = 0
    BY <1>7
  <2>2. r = r2
    BY <1>1, <1>3, <1>4, <2>1
  <2> QED
    BY <2>2 DEF r, r2
<1> QED
  BY <1>1, <1>3, <1>5, <1>6, <1>7

(* The difference of two addresses.                                        *)
LEMMA AddrAdv ==
  ASSUME NEW c \in Addresses, NEW p \in Addresses
  PROVE  /\ c >= p => (c - p) % AddrSize = c - p
         /\ c < p  => (c - p) % AddrSize = c - p + AddrSize
         /\ (c - p) % AddrSize \in Addresses
         /\ (p + ((c - p) % AddrSize)) % AddrSize = c
<1>1. AddrSize \in Nat \ {0} /\ c \in Int /\ p \in Int
  BY Sizes DEF Addresses
<1>2. CASE c >= p
  <2>1. (c - p) % AddrSize = c - p /\ c - p \in Addresses
    BY <1>1, <1>2, ModSmall DEF Addresses
  <2>2. c % AddrSize = c
    BY <1>1, ModSmall DEF Addresses
  <2> QED
    BY <1>1, <1>2, <2>1, <2>2
<1>3. CASE c < p
  <2>1. (c - p) % AddrSize = c - p + AddrSize /\ c - p + AddrSize \in Addresses
    BY <1>1, <1>3, ModBelow DEF Addresses
  <2>2. (c + AddrSize) % AddrSize = c
    BY <1>1, ModTwice DEF Addresses
  <2> QED
    BY <1>1, <1>3, <2>1, <2>2
<1> QED
  BY <1>1, <1>2, <1>3

(* A number of bytes converted to an int: what an int can hold stays.        *)
LEMMA ToIntIs ==
  ASSUME NEW x \in Int, NEW k \in Int, x < IntSize \div 2, -x < IntSize \div 2
  PROVE  ToInt((x + k * AddrSize) % AddrSize) = x
<1> DEFINE m == x % AddrSize
           d == AddrSize \div IntSize
           q == x \div AddrSize
<1>1. (x + k * AddrSize) % AddrSize = m
  BY Sizes, ModShift
<1>2. AddrSize = IntSize * d /\ d \in Int
  BY LineAssumption
<1>3. m = x + (-(q * d)) * IntSize /\ q \in Int
  <2>1. x = AddrSize * q + m /\ q \in Int /\ m \in Int
    BY Sizes
  <2> HIDE DEF q, m, d
  <2>2. AddrSize * q = (q * d) * IntSize
    BY <1>2, <2>1, Sizes
  <2> QED
    BY <1>2, <2>1, <2>2, Sizes
<1> HIDE DEF q, d
<1>4. m % IntSize = x % IntSize
  <2>1. -(q * d) \in Int
    BY <1>2, <1>3
  <2> QED
    BY ZenonT(40), <1>3, <2>1, ModShift, Sizes
<1> HIDE DEF m
<1>5. CASE x >= 0
  <2>1. x % IntSize = x
    BY <1>5, Sizes, ModSmall
  <2> QED
    BY <1>1, <1>4, <2>1, Sizes DEF ToInt
<1>6. CASE x < 0
  <2>1. x % IntSize = x + IntSize
    BY <1>6, Sizes, ModBelow
  <2> QED
    BY <1>1, <1>4, <1>6, <2>1, Sizes DEF ToInt
<1> QED
  BY <1>5, <1>6

-------------------------------------------------------------------------------
(* What the producer writes.                                               *)

LEMMA LineType ==
  ASSUME Types
  PROVE  curline \in Positions /\ prevline \in Positions
<1>1. reg_init \in Positions
  BY Sizes DEF reg_init, DEFAULT_IS_STMT, Positions, Addresses
<1> QED
  BY <1>1, Sizes DEF Types

LEMMA GetOpc ==
  ASSUME Types, PcInv, pc = "advance", addr_adv % MIN_INST_LENGTH = 0,
         get_opc(addr_adv, line_adv) > 0
  PROVE  LET opc == get_opc(addr_adv, line_adv)
         IN /\ opc \in 1..255
            /\ curline.address < prevline.address => opc < OPCODE_BASE
            /\ curline.address >= prevline.address =>
                 /\ opc >= OPCODE_BASE
                 /\ ((opc - OPCODE_BASE) % LINE_RANGE) + LINE_BASE = line_adv
                 /\ MIN_INST_LENGTH * ((opc - OPCODE_BASE) \div LINE_RANGE)
                      = curline.address - prevline.address
<1> DEFINE c == curline.address
           p == prevline.address
           l == line_adv
           adv == addr_adv \div MIN_INST_LENGTH
           opc == get_opc(addr_adv, line_adv)
           int == ToInt((l - LINE_BASE + adv * LINE_RANGE + OPCODE_BASE) % AddrSize)
<1>1. /\ c \in Addresses /\ p \in Addresses /\ c \in Int /\ p \in Int /\ l \in Int
      /\ c - p \in -MaxJump..MaxJump
  BY LineType DEF Positions, PcInv, Before, line_adv, Addresses
<1>2. addr_adv = (c - p) % AddrSize /\ addr_adv \in Int
  <2>1. (c - p) % AddrSize \in Addresses
    BY <1>1, AddrAdv
  <2> QED
    BY <2>1 DEF addr_adv, Addresses
<1>3. l \in -1..2 /\ opc = int /\ int \in 1..255
  <2>1. int \in Int
    <3>1. adv \in Int
      BY <1>2, Sizes
    <3>2. l - LINE_BASE + adv * LINE_RANGE + OPCODE_BASE \in Int
      BY <1>1, <3>1 DEF LINE_BASE, LINE_RANGE, OPCODE_BASE
    <3> QED
      BY <3>2, Sizes DEF ToInt
  <2> HIDE DEF int
  <2>2. opc = IF l = 0 /\ adv = 0 THEN OPC_INCS_ZERO
              ELSE IF l \notin LINE_BASE..(LINE_BASE + LINE_RANGE - 1) THEN LINE_OUT_OF_RANGE
              ELSE IF int > MAX_OPCODE THEN OPC_OUT_OF_RANGE
              ELSE int
    BY DEF get_opc, int
  <2> QED
    BY <1>1, <2>1, <2>2
       DEF OPC_INCS_ZERO, LINE_OUT_OF_RANGE, OPC_OUT_OF_RANGE, LINE_BASE, LINE_RANGE, MAX_OPCODE
<1>4. MaxJump \in Nat /\ IntSize \div 2 \in Int /\ 4 * MaxJump + 255 < IntSize \div 2
  BY LineAssumption DEF MAX_OPCODE
<1>5. CASE c >= p
  <2>1. addr_adv = c - p /\ MIN_INST_LENGTH * adv = c - p /\ adv \in 0..MaxJump
    <3>1. addr_adv = c - p
      BY <1>1, <1>2, <1>5, AddrAdv
    <3>2. c - p \in 0..MaxJump
      BY <1>1, <1>4, <1>5
    <3> HIDE DEF c, p
    <3>3. CASE MIN_INST_LENGTH = 1
      BY <3>1, <3>2, <3>3
    <3>4. CASE MIN_INST_LENGTH = 4
      BY <1>4, <3>1, <3>2, <3>4
    <3> QED
      BY <3>1, <3>3, <3>4, Sizes
  <2> HIDE DEF c, p, l, adv
  <2>2. opc = l + 11 + 4 * adv
    <3> DEFINE x == l + 11 + 4 * adv
    <3>1. x \in Int /\ x < IntSize \div 2 /\ -x < IntSize \div 2
      <4>1. l \in -1..2
        BY <1>3
      <4>2. adv \in Int /\ adv >= 0 /\ adv <= MaxJump
        BY <1>4, <2>1
      <4> QED
        BY <1>4, <4>1, <4>2
    <3>2. l - LINE_BASE + adv * LINE_RANGE + OPCODE_BASE = x + 0 * AddrSize
      BY <1>3, <2>1, Sizes DEF LINE_BASE, LINE_RANGE, OPCODE_BASE
    <3> HIDE DEF x
    <3>3. ToInt((x + 0 * AddrSize) % AddrSize) = x
      BY <3>1, ToIntIs
    <3> QED
      BY <1>3, <3>2, <3>3 DEF x
  <2> HIDE DEF opc, int
  <2>3. (opc - 10) % 4 = l + 1 /\ (opc - 10) \div 4 = adv /\ opc >= 10
    BY <1>3, <2>1, <2>2
  <2>4. opc \in 1..255
    BY <1>3
  <2> QED
    BY <1>1, <1>3, <1>5, <2>1, <2>3, <2>4
       DEF OPCODE_BASE, LINE_RANGE, LINE_BASE, opc, c, p, l
<1>6. CASE c < p
  <2>1. addr_adv = c - p + AddrSize
    BY <1>1, <1>2, <1>6, AddrAdv
  <2> HIDE DEF c, p, l
  <2>2. \E k, n \in Int : adv * 4 = n + k * AddrSize /\ n \in (-4 * MaxJump)..(-4)
    <3>1. CASE MIN_INST_LENGTH = 1
      <4>1. adv * 4 = 4 * (c - p) + 4 * AddrSize
        BY <1>1, <2>1, <3>1, Sizes
      <4> QED
        BY <1>1, <1>4, <1>6, <4>1
    <3>2. CASE MIN_INST_LENGTH = 4
      <4>1. adv * 4 = (c - p) + 1 * AddrSize /\ (c - p) % 4 = 0
        <5>1. addr_adv % 4 = 0 /\ AddrSize % 4 = 0
          BY <3>2, LineAssumption
        <5>2. c - p \in Int /\ AddrSize \in Int
          BY <1>1, Sizes
        <5> DEFINE e == c - p
        <5> HIDE DEF e
        <5>3. addr_adv = e + AddrSize /\ e \in Int
          BY <2>1, <5>2 DEF e
        <5>4. (addr_adv \div 4) * 4 = e + 1 * AddrSize /\ e % 4 = 0
          BY <5>1, <5>2, <5>3
        <5> QED
          BY <3>2, <5>4 DEF e
      <4>2. c - p <= -4
        BY <1>1, <1>6, <4>1
      <4> QED
        BY <1>1, <1>4, <4>1, <4>2
    <3> QED
      BY <3>1, <3>2, Sizes
  <2>3. PICK k \in Int, n \in Int : adv * 4 = n + k * AddrSize /\ n \in (-4 * MaxJump)..(-4)
    BY <2>2
  <2>4. opc = l + 11 + n
    <3> DEFINE x == l + 11 + n
    <3>1. x \in Int /\ x < IntSize \div 2 /\ -x < IntSize \div 2
      <4>1. l \in -1..2
        BY <1>3
      <4> QED
        BY <1>4, <2>3, <4>1
    <3>2. l - LINE_BASE + adv * LINE_RANGE + OPCODE_BASE = x + k * AddrSize
      <4> HIDE DEF adv
      <4> QED
        BY <1>3, <2>3, Sizes DEF LINE_BASE, LINE_RANGE, OPCODE_BASE
    <3> HIDE DEF x
    <3>3. ToInt((x + k * AddrSize) % AddrSize) = x
      BY <3>1, ToIntIs
    <3> QED
      BY <1>3, <3>2, <3>3 DEF x
  <2> HIDE DEF opc, int
  <2>5. opc < 10 /\ opc \in 1..255
    BY <1>3, <2>3, <2>4
  <2> QED
    BY <1>1, <1>6, <2>5 DEF OPCODE_BASE, opc, c, p
<1> QED
  BY <1>1, <1>5, <1>6

(* An operation the producer writes is one.                                  *)
IsOp(o) == AtMostOne(o) /\ o # <<>> /\ o[1] \in Reader!Operations

LEMMA OpWritten ==
  ASSUME NEW name \in {"set_file", "set_column", "negate_stmt", "set_basic_block", "special",
                       "advance_pc", "advance_line", "copy", "end_sequence"},
         NEW arg \in Int
  PROVE  IsOp(Op(name, arg))
<1>1. name \in Reader!OpNames
  BY DEF Reader!OpNames, Reader!StandardOps
<1> QED
  BY <1>1, One DEF Op, Reader!Operations, IsOp

LEMMA AddressWritten ==
  ASSUME NEW a \in Addresses
  PROVE  IsOp(Op("set_address", a))
<1>1. "set_address" \in Reader!OpNames /\ a \in Int
  BY DEF Reader!OpNames, Addresses
<1> QED
  BY <1>1, One DEF Op, Reader!Operations, IsOp, Addresses

LEMMA WriteTypes ==
  ASSUME Types, PcInv, Write
  PROVE  /\ pc' \in Pcs /\ prevline' \in Positions /\ curline' = curline
         /\ AtMostOne(out')
         /\ out' # <<>> => out'[1] \in Reader!Operations
<1>1. /\ curline \in Positions /\ prevline \in Positions
      /\ curline.address \in Addresses /\ curline.file \in Nat /\ curline.line \in Nat
      /\ curline.column \in 0..(HalfSize - 1) /\ curline.column \in Int
      /\ curline.is_stmt \in BOOLEAN /\ curline.line \in Int
  BY LineType DEF Positions
<1>2. line_adv \in Int /\ addr_adv \in Int /\ addr_adv \div MIN_INST_LENGTH \in Int
  <2>1. line_adv \in Int
    BY <1>1 DEF Positions, line_adv
  <2>2. addr_adv \in Int
    BY <1>1, AddrAdv DEF Positions, addr_adv, Addresses
  <2> QED
    BY <2>1, <2>2, Sizes
<1>3. CASE WriteFile
  <2>1. [prevline EXCEPT !.file = curline.file] \in Positions
    BY <1>1 DEF Positions
  <2>9. IsOp(Op("set_file", curline.file))
    BY <1>1, <1>2, OpWritten
  <2> QED
    BY <1>1, <1>3, <2>1, <2>9, One DEF WriteFile, Go, Pcs, IsOp
<1>4. CASE WriteColumn
  <2>1. [prevline EXCEPT !.column = curline.column] \in Positions
    BY <1>1 DEF Positions
  <2>9. IsOp(Op("set_column", curline.column))
    BY <1>1, <1>2, OpWritten
  <2> QED
    BY <1>1, <1>4, <2>1, <2>9, One DEF WriteColumn, Go, Pcs, IsOp
<1>5. CASE WriteIsStmt
  <2>1. [prevline EXCEPT !.is_stmt = curline.is_stmt] \in Positions
    BY <1>1 DEF Positions
  <2>9. IsOp(Op("negate_stmt", 0))
    BY <1>1, <1>2, OpWritten
  <2> QED
    BY <1>1, <1>5, <2>1, <2>9, One DEF WriteIsStmt, Go, Pcs, IsOp
<1>6. CASE WriteBasicBlock
  <2>1. [prevline EXCEPT !.basic_block = TRUE] \in Positions
    BY <1>1 DEF Positions
  <2>9. IsOp(Op("set_basic_block", 0))
    BY <1>1, <1>2, OpWritten
  <2> QED
    BY <1>1, <1>6, <2>1, <2>9, One DEF WriteBasicBlock, Go, Pcs, IsOp
<1>7. CASE WrongAddress
  BY <1>1, <1>7, One DEF WrongAddress, Go, Pcs
<1>8. CASE WriteSpecial
  <2>1. SpecialRow \in Positions
    BY <1>1 DEF Positions, SpecialRow
  <2>2. get_opc(addr_adv, line_adv) \in Int
    BY <1>8, GetOpc DEF WriteSpecial
  <2>9. IsOp(Op("special", get_opc(addr_adv, line_adv)))
    BY <1>1, <1>2, <2>2, OpWritten
  <2> QED
    BY <1>1, <1>8, <2>1, <2>2, <2>9, One DEF WriteSpecial, Go, Pcs, IsOp
<1>9. CASE WriteAdvancePc
  <2>1. [prevline EXCEPT !.basic_block = FALSE, !.address = curline.address] \in Positions
    BY <1>1 DEF Positions
  <2>9. IsOp(Op("advance_pc", addr_adv \div MIN_INST_LENGTH))
    BY <1>1, <1>2, OpWritten
  <2> QED
    BY <1>1, <1>2, <1>9, <2>1, <2>9, One DEF WriteAdvancePc, Go, Pcs, IsOp
<1>10. CASE WriteAdvanceLine
  <2>1. [prevline EXCEPT !.basic_block = FALSE, !.line = curline.line] \in Positions
    BY <1>1 DEF Positions
  <2>9. IsOp(Op("advance_line", line_adv))
    BY <1>1, <1>2, OpWritten
  <2> QED
    BY <1>1, <1>2, <1>10, <2>1, <2>9, One DEF WriteAdvanceLine, Go, Pcs, IsOp
<1>11. CASE WriteCopy
  <2>1. [prevline EXCEPT !.basic_block = FALSE] \in Positions
    BY <1>1 DEF Positions
  <2>9. IsOp(Op("copy", 0))
    BY <1>1, <1>2, OpWritten
  <2> QED
    BY <1>1, <1>11, <2>1, <2>9, One DEF WriteCopy, Go, Pcs, IsOp
<1>12. CASE WriteSetAddress
  <2>1. [prevline EXCEPT !.address = curline.address] \in Positions
    BY <1>1 DEF Positions
  <2>2. curline.address \in Int
    BY <1>1 DEF Addresses
  <2>9. IsOp(Op("set_address", curline.address))
    BY <1>1, <1>2, AddressWritten
  <2> QED
    BY <1>1, <1>12, <2>1, <2>2, <2>9, One DEF WriteSetAddress, Go, Pcs, IsOp
<1>13. CASE WriteEndAdvance
  <2>1. [prevline EXCEPT !.address = curline.address] \in Positions
    BY <1>1 DEF Positions
  <2>9. IsOp(Op("advance_pc", addr_adv \div MIN_INST_LENGTH))
    BY <1>1, <1>2, OpWritten
  <2> QED
    BY <1>1, <1>2, <1>13, <2>1, <2>9, One DEF WriteEndAdvance, Go, Pcs, IsOp
<1>14. CASE WriteEndSequence
  <2>1. reg_init \in Positions
    BY Sizes DEF reg_init, DEFAULT_IS_STMT, Positions, Addresses
  <2>9. IsOp(Op("end_sequence", 0))
    BY OpWritten
  <2> QED
    BY <1>1, <1>14, <2>1, <2>9, One DEF WriteEndSequence, AtSequenceStart, Go, Pcs, IsOp
<1> QED
  BY <1>3, <1>4, <1>5, <1>6, <1>7, <1>8, <1>9, <1>10, <1>11, <1>12, <1>13, <1>14 DEF Write

(* No advance is needed only where the address is that of the entry.          *)
LEMMA AdvanceIsZero ==
  ASSUME Types, ~(addr_adv > 0)
  PROVE  prevline.address = curline.address
<1>1. curline.address \in Addresses /\ prevline.address \in Addresses
  BY LineType DEF Positions
<1> DEFINE c == curline.address
           p == prevline.address
           d == (c - p) % AddrSize
<1>2. /\ d \in Addresses /\ (c >= p => d = c - p) /\ (c < p => d = c - p + AddrSize)
  BY <1>1, AddrAdv
<1>3. ~(d > 0)
  BY DEF addr_adv
<1> HIDE DEF c, p, d
<1>4. c \in Addresses /\ p \in Addresses
  BY <1>1 DEF c, p
<1>5. c = p
  BY <1>2, <1>3, <1>4, Sizes DEF Addresses
<1> QED
  BY <1>5 DEF c, p

(* Which fields of the entry are there already, from one `if' to the next.   *)
LEMMA WriteKeepsPc ==
  ASSUME Types, PcInv, Write, descended' = descended
  PROVE  PcInv'
<1>1. curline \in Positions /\ prevline \in Positions /\ curline' = curline
  BY LineType, WriteTypes
<1>2. CASE WriteFile
  BY <1>1, <1>2 DEF WriteFile, Go, PcInv, Inside, Before, Positions
<1>3. CASE WriteColumn
  BY <1>1, <1>3 DEF WriteColumn, Go, PcInv, Inside, Before, Positions
<1>4. CASE WriteIsStmt
  BY <1>1, <1>4 DEF WriteIsStmt, Go, PcInv, Inside, Before, Positions
<1>5. CASE WriteBasicBlock
  BY <1>1, <1>5 DEF WriteBasicBlock, Go, PcInv, Inside, Before, Positions
<1>6. CASE WrongAddress
  BY <1>1, <1>6 DEF WrongAddress, Go, PcInv, Inside, Before
<1>7. CASE WriteSpecial
  BY <1>1, <1>7 DEF WriteSpecial, Go, PcInv, Inside, Before
<1>8. CASE WriteAdvancePc
  <2>1. /\ curline.opc = "none" /\ prevline.file = curline.file
        /\ prevline.column = curline.column /\ prevline.is_stmt = curline.is_stmt
    BY <1>8 DEF WriteAdvancePc, PcInv, Inside, Before
  <2>2. /\ prevline'.address = curline.address /\ prevline'.file = prevline.file
        /\ prevline'.column = prevline.column /\ prevline'.is_stmt = prevline.is_stmt
        /\ pc' = "advance_line"
    BY <1>1, <1>8, AdvanceIsZero DEF WriteAdvancePc, Go, Positions
  <2> QED
    BY <1>1, <2>1, <2>2 DEF PcInv, Inside, Before
<1>9. CASE WriteAdvanceLine
  <2>1. /\ curline.opc = "none" /\ prevline.file = curline.file
        /\ prevline.column = curline.column /\ prevline.is_stmt = curline.is_stmt
        /\ prevline.address = curline.address
    BY <1>9 DEF WriteAdvanceLine, PcInv, Inside, Before
  <2>2. /\ prevline'.address = prevline.address /\ prevline'.file = prevline.file
        /\ prevline'.column = prevline.column /\ prevline'.is_stmt = prevline.is_stmt
        /\ prevline'.line = curline.line /\ pc' = "copy"
    <3>1. curline.line \in Int /\ prevline.line \in Int
      BY <1>1 DEF Positions
    <3>2. CASE line_adv # 0
      BY <1>1, <1>9, <3>2 DEF WriteAdvanceLine, Go, Positions
    <3>3. CASE line_adv = 0
      <4>1. prevline.line = curline.line
        BY <3>1, <3>3 DEF line_adv
      <4> QED
        BY <1>1, <1>9, <3>3, <4>1 DEF WriteAdvanceLine, Go
    <3> QED
      BY <3>2, <3>3
  <2> QED
    BY <1>1, <2>1, <2>2 DEF PcInv, Inside, Before
<1>10. CASE WriteCopy
  BY <1>1, <1>10 DEF WriteCopy, Go, PcInv, Inside, Before
<1>11. CASE WriteSetAddress
  BY <1>1, <1>11 DEF WriteSetAddress, Go, PcInv, Inside, Before
<1>12. CASE WriteEndAdvance
  BY <1>1, <1>12, AdvanceIsZero DEF WriteEndAdvance, Go, PcInv, Inside, Before, Positions
<1>13. CASE WriteEndSequence
  BY <1>1, <1>13 DEF WriteEndSequence, Go, PcInv, Inside, Before
<1> QED
  BY <1>2, <1>3, <1>4, <1>5, <1>6, <1>7, <1>8, <1>9, <1>10, <1>11, <1>12, <1>13 DEF Write

-------------------------------------------------------------------------------
(* The reader on a table of the producer's own.                              *)

LEMMA OwnDiscards ==
  ASSUME prefix = OwnPrefix
  PROVE  /\ ~Reader!Discards
         /\ prefix.pf_minimum_instruction_length = MIN_INST_LENGTH
         /\ prefix.pf_line_base = LINE_BASE /\ prefix.pf_line_range = LINE_RANGE
         /\ prefix.pf_opcode_base = OPCODE_BASE
  BY DEF OwnPrefix, Reader!Discards, OPCODE_BASE

(* An operation that only sets registers.                                    *)
Quiet(r) == regs' = r /\ added' = <<>> /\ status' = "reading"

LEMMA OwnStandard ==
  ASSUME prefix = OwnPrefix, NEW o, Reader!Read(o)
  PROVE  /\ o.op = "set_file" => Quiet([regs EXCEPT !.file = o.arg])
         /\ o.op = "set_column" => Quiet([regs EXCEPT !.column = o.arg])
         /\ o.op = "negate_stmt" => Quiet([regs EXCEPT !.is_stmt = ~@])
         /\ o.op = "set_basic_block" => Quiet([regs EXCEPT !.basic_block = TRUE])
         /\ o.op = "advance_pc" => Quiet(Reader!Advanced(regs, o.arg))
         /\ o.op = "advance_line" => Quiet([regs EXCEPT !.line = @ + o.arg])
<1>1. ~Reader!ReadDiscard(o) /\ status = "reading"
  BY OwnDiscards DEF Reader!ReadDiscard, Reader!Read
<1>2. o.op \in {"set_file", "set_column", "negate_stmt", "set_basic_block", "advance_pc",
                "advance_line"} => Reader!ReadStandard(o)
  BY <1>1 DEF Reader!Read, Reader!ReadSpecial, Reader!ReadMistaken, Reader!ReadCopy,
              Reader!ReadSetIsa, Reader!ReadEndSequence, Reader!ReadSetAddress
<1> QED
  BY <1>1, <1>2 DEF Reader!ReadStandard, Reader!NoRow, Quiet

LEMMA OwnSetAddress ==
  ASSUME prefix = OwnPrefix, NEW o, Reader!Read(o), o.op = "set_address"
  PROVE  Quiet([regs EXCEPT !.address = o.arg])
<1>1. ~Reader!ReadDiscard(o) /\ status = "reading"
  BY OwnDiscards DEF Reader!ReadDiscard, Reader!Read
<1>2. Reader!ReadSetAddress(o)
  BY <1>1 DEF Reader!Read, Reader!ReadSpecial, Reader!ReadMistaken, Reader!ReadCopy,
              Reader!ReadSetIsa, Reader!ReadEndSequence, Reader!ReadStandard
<1> QED
  BY <1>1, <1>2 DEF Reader!ReadSetAddress, Reader!NoRow, Quiet

LEMMA OwnRows ==
  ASSUME prefix = OwnPrefix, NEW o, Reader!Read(o)
  PROVE  /\ o.op = "copy" => Reader!ReadCopy(o)
         /\ o.op = "end_sequence" => Reader!ReadEndSequence(o)
         /\ o.op = "special" => Reader!ReadSpecial(o) \/ Reader!ReadMistaken(o)
<1>1. ~Reader!ReadDiscard(o)
  BY OwnDiscards DEF Reader!ReadDiscard
<1> QED
  BY <1>1 DEF Reader!Read, Reader!ReadSpecial, Reader!ReadMistaken, Reader!ReadCopy,
              Reader!ReadSetIsa, Reader!ReadEndSequence, Reader!ReadStandard,
              Reader!ReadSetAddress

(* In the middle of an entry nothing is read back yet.                       *)
LEMMA NotYetBack ==
  ASSUME pc' # "next", status' # "lost"
  PROVE  ReadsBack'
  BY DEF ReadsBack, RowReadsBack, NeverLost

LEMMA OpIs ==
  ASSUME NEW name, NEW arg, out' = Op(name, arg)
  PROVE  out' # <<>> /\ out'[1].op = name /\ out'[1].arg = arg
  BY DEF Op

(* A step of the producer that writes nothing.                               *)
LEMMA SilentKeepsOwn ==
  ASSUME Types, PcInv, OwnInv, ReadsBack, prefix = OwnPrefix, status = "reading",
         Write, out' = <<>>, UNCHANGED <<prefix, regs, status, back, descended>>
  PROVE  OwnInv' /\ ReadsBack'
<1>1. curline' = curline /\ prevline' = prevline
  BY DEF Write, WriteFile, WriteColumn, WriteIsStmt, WriteBasicBlock, WrongAddress, WriteSpecial,
         WriteAdvancePc, WriteAdvanceLine, WriteCopy, WriteSetAddress, WriteEndAdvance,
         WriteEndSequence, Go, Op
<1>2. \/ pc = "file" /\ pc' = "column"
      \/ pc = "column" /\ pc' = "is_stmt"
      \/ pc = "is_stmt" /\ pc' = "basic_block"
      \/ pc = "basic_block" /\ pc' = "advance" /\ ~(curline.basic_block /\ ~prevline.basic_block)
      \/ pc = "advance" /\ pc' = "error"
      \/ pc = "advance" /\ pc' = "advance_line"
      \/ pc = "advance_line" /\ pc' = "copy"
      \/ pc = "end_sequence" /\ pc' = "end"
  BY DEF Write, WriteFile, WriteColumn, WriteIsStmt, WriteBasicBlock, WrongAddress, WriteSpecial,
         WriteAdvancePc, WriteAdvanceLine, WriteCopy, WriteSetAddress, WriteEndAdvance,
         WriteEndSequence, Go, Op
<1>3. curline.basic_block \in BOOLEAN /\ prevline.basic_block \in BOOLEAN
      /\ regs.basic_block \in BOOLEAN
  BY LineType DEF Positions, Types, Registers
<1>4. OwnPrefix' = OwnPrefix
  BY DEF OwnPrefix
<1>5. OwnInv'
  BY <1>1, <1>2, <1>3, <1>4 DEF OwnInv
<1> QED
  BY <1>2, <1>5, NotYetBack

(* The reader takes the operation of a step that writes one.                  *)
Writes == /\ Types /\ PcInv /\ OwnInv /\ prefix = OwnPrefix /\ status = "reading"
          /\ Write /\ out' # <<>> /\ Reader!Read(out'[1])
          /\ back' = back \o added' /\ descended' = descended

LEMMA WritesTypes ==
  ASSUME Writes
  PROVE  /\ curline \in Positions /\ prevline \in Positions /\ regs \in Registers
         /\ curline' = curline /\ prefix' = prefix /\ OwnPrefix' = OwnPrefix
<1>1. prefix' = prefix
  BY DEF Writes, Reader!Read
<1> QED
  BY <1>1, LineType, WriteTypes DEF Writes, Types, OwnPrefix

(* The registers where the producer is before the row of an entry.            *)
LEMMA OwnRegs ==
  ASSUME Writes
  PROVE  /\ regs.address = prevline.address /\ regs.line = prevline.line
         /\ regs.file = prevline.file /\ regs.column = prevline.column
         /\ regs.is_stmt = prevline.is_stmt /\ regs.epilogue_begin = FALSE
         /\ pc # "next" => back = <<>>
<1>1. regs.epilogue_begin \in BOOLEAN
  BY WritesTypes DEF Registers
<1> QED
  BY <1>1 DEF Writes, OwnInv

(* Nothing is read back while only registers are set.                        *)
LEMMA QuietIsNotBack ==
  ASSUME Writes, pc # "next", NEW r, Quiet(r), pc' # "next"
  PROVE  back' = <<>> /\ ReadsBack'
<1>1. back' = <<>>
  BY OwnRegs DEF Writes, Quiet
<1> QED
  BY <1>1, NotYetBack DEF Quiet

LEMMA FileKeepsOwn ==
  ASSUME Writes, WriteFile
  PROVE  OwnInv' /\ ReadsBack'
<1>1. /\ pc = "file" /\ pc' = "column" /\ out' = Op("set_file", curline.file)
      /\ prevline' = [prevline EXCEPT !.file = curline.file]
  BY DEF WriteFile, Go, Writes
<1>2. Quiet([regs EXCEPT !.file = curline.file])
  BY <1>1, OpIs, OwnStandard DEF Writes
<1>3. back' = <<>> /\ ReadsBack'
  BY <1>1, <1>2, QuietIsNotBack
<1>4. ~regs.basic_block /\ ~prevline.basic_block
  BY <1>1, WritesTypes DEF Writes, OwnInv, Positions, Registers
<1>5. OwnInv'
  BY <1>1, <1>2, <1>3, <1>4, WritesTypes, OwnRegs DEF OwnInv, Quiet, Positions, Registers
<1> QED
  BY <1>3, <1>5

LEMMA ColumnKeepsOwn ==
  ASSUME Writes, WriteColumn
  PROVE  OwnInv' /\ ReadsBack'
<1>1. /\ pc = "column" /\ pc' = "is_stmt" /\ out' = Op("set_column", curline.column)
      /\ prevline' = [prevline EXCEPT !.column = curline.column]
  BY DEF WriteColumn, Go, Writes
<1>2. Quiet([regs EXCEPT !.column = curline.column])
  BY <1>1, OpIs, OwnStandard DEF Writes
<1>3. back' = <<>> /\ ReadsBack'
  BY <1>1, <1>2, QuietIsNotBack
<1>4. ~regs.basic_block /\ ~prevline.basic_block
  BY <1>1, WritesTypes DEF Writes, OwnInv, Positions, Registers
<1>5. OwnInv'
  BY <1>1, <1>2, <1>3, <1>4, WritesTypes, OwnRegs DEF OwnInv, Quiet, Positions, Registers
<1> QED
  BY <1>3, <1>5

LEMMA IsStmtKeepsOwn ==
  ASSUME Writes, WriteIsStmt
  PROVE  OwnInv' /\ ReadsBack'
<1>1. /\ pc = "is_stmt" /\ pc' = "basic_block" /\ out' = Op("negate_stmt", 0)
      /\ prevline' = [prevline EXCEPT !.is_stmt = curline.is_stmt]
      /\ curline.is_stmt # prevline.is_stmt
  BY DEF WriteIsStmt, Go, Writes
<1>2. Quiet([regs EXCEPT !.is_stmt = ~@])
  BY <1>1, OpIs, OwnStandard DEF Writes
<1>3. back' = <<>> /\ ReadsBack'
  BY <1>1, <1>2, QuietIsNotBack
<1>4. ~regs.basic_block /\ ~prevline.basic_block
  BY <1>1, WritesTypes DEF Writes, OwnInv, Positions, Registers
<1>5. curline.is_stmt = ~regs.is_stmt
  BY <1>1, WritesTypes, OwnRegs DEF Positions
<1>6. OwnInv'
  BY <1>1, <1>2, <1>3, <1>4, <1>5, WritesTypes, OwnRegs DEF OwnInv, Quiet, Positions, Registers
<1> QED
  BY <1>3, <1>6

LEMMA BasicBlockKeepsOwn ==
  ASSUME Writes, WriteBasicBlock
  PROVE  OwnInv' /\ ReadsBack'
<1>1. /\ pc = "basic_block" /\ pc' = "advance" /\ out' = Op("set_basic_block", 0)
      /\ prevline' = [prevline EXCEPT !.basic_block = TRUE]
      /\ curline.basic_block
  BY DEF WriteBasicBlock, Go, Writes
<1>2. Quiet([regs EXCEPT !.basic_block = TRUE])
  BY <1>1, OpIs, OwnStandard DEF Writes
<1>3. back' = <<>> /\ ReadsBack'
  BY <1>1, <1>2, QuietIsNotBack
<1>4. curline.basic_block = TRUE
  BY <1>1, WritesTypes DEF Positions
<1>5. OwnInv'
  BY <1>1, <1>2, <1>3, <1>4, WritesTypes, OwnRegs DEF OwnInv, Quiet, Positions, Registers
<1> QED
  BY <1>3, <1>5

(* An advance by the instructions from one address to another, or to what is  *)
(* left of it where it was no whole number of them.                          *)
LEMMA AdvanceReaches ==
  ASSUME Writes, addr_adv % MIN_INST_LENGTH = 0
  PROVE  Reader!Advanced(regs, addr_adv \div MIN_INST_LENGTH)
           = [regs EXCEPT !.address = curline.address]
<1> DEFINE c == curline.address
           p == prevline.address
<1>1. c \in Addresses /\ p \in Addresses /\ addr_adv = (c - p) % AddrSize
  BY WritesTypes DEF Positions, addr_adv
<1> HIDE DEF c, p
<1>2. addr_adv \in Int /\ (p + addr_adv) % AddrSize = c
  <2>1. (c - p) % AddrSize \in Addresses /\ (p + ((c - p) % AddrSize)) % AddrSize = c
    BY <1>1, AddrAdv
  <2> QED
    BY <1>1, <2>1 DEF Addresses
<1>3. MIN_INST_LENGTH * (addr_adv \div MIN_INST_LENGTH) = addr_adv
  BY <1>2, Sizes
<1>4. regs.address = p /\ prefix.pf_minimum_instruction_length = MIN_INST_LENGTH
  BY OwnRegs, OwnDiscards DEF Writes, p
<1>5. Reader!Advanced(regs, addr_adv \div MIN_INST_LENGTH)
         = [regs EXCEPT !.address = (p + addr_adv) % AddrSize]
  BY <1>3, <1>4 DEF Reader!Advanced
<1> QED
  BY <1>2, <1>5 DEF c

LEMMA AdvanceIsRead ==
  ASSUME Writes, addr_adv % MIN_INST_LENGTH = 0,
         out' = Op("advance_pc", addr_adv \div MIN_INST_LENGTH)
  PROVE  Quiet([regs EXCEPT !.address = curline.address])
<1> DEFINE n == addr_adv \div MIN_INST_LENGTH
           r == Reader!Advanced(regs, n)
<1>1. r = [regs EXCEPT !.address = curline.address]
  BY AdvanceReaches
<1>2. out'[1].op = "advance_pc" /\ out'[1].arg = n
  BY OpIs
<1> HIDE DEF n
<1>3. Quiet(Reader!Advanced(regs, out'[1].arg))
  BY <1>2, OwnStandard DEF Writes
<1>4. Quiet(r)
  BY <1>2, <1>3
<1> HIDE DEF r
<1> QED
  BY <1>1, <1>4

LEMMA AdvancePcKeepsOwn ==
  ASSUME Writes, WriteAdvancePc
  PROVE  OwnInv' /\ ReadsBack'
<1>1. /\ pc = "advance" /\ pc' = "advance_line"
      /\ out' = Op("advance_pc", addr_adv \div MIN_INST_LENGTH)
      /\ prevline' = [prevline EXCEPT !.basic_block = FALSE, !.address = curline.address]
      /\ addr_adv % MIN_INST_LENGTH = 0
  BY DEF WriteAdvancePc, Go, Writes
<1>2. Quiet([regs EXCEPT !.address = curline.address])
  BY <1>1, AdvanceIsRead
<1>3. back' = <<>> /\ ReadsBack'
  BY <1>1, <1>2, QuietIsNotBack
<1>4. regs.basic_block = curline.basic_block
  BY <1>1 DEF Writes, OwnInv
<1>5. OwnInv'
  BY <1>1, <1>2, <1>3, <1>4, WritesTypes, OwnRegs DEF OwnInv, Quiet, Positions, Registers
<1> QED
  BY <1>3, <1>5

LEMMA AdvanceLineKeepsOwn ==
  ASSUME Writes, WriteAdvanceLine
  PROVE  OwnInv' /\ ReadsBack'
<1>1. /\ pc = "advance_line" /\ pc' = "copy" /\ out' = Op("advance_line", line_adv)
      /\ prevline' = [prevline EXCEPT !.basic_block = FALSE, !.line = curline.line]
  BY DEF WriteAdvanceLine, Go, Writes
<1>2. Quiet([regs EXCEPT !.line = @ + line_adv])
  BY <1>1, OpIs, OwnStandard DEF Writes
<1>3. back' = <<>> /\ ReadsBack'
  BY <1>1, <1>2, QuietIsNotBack
<1>4. regs.basic_block = curline.basic_block
  BY <1>1 DEF Writes, OwnInv
<1>5. regs.line + line_adv = curline.line
  BY WritesTypes, OwnRegs DEF line_adv, Positions
<1>6. OwnInv'
  BY <1>1, <1>2, <1>3, <1>4, <1>5, WritesTypes, OwnRegs DEF OwnInv, Quiet, Positions, Registers
<1> QED
  BY <1>3, <1>6

LEMMA EndAdvanceKeepsOwn ==
  ASSUME Writes, WriteEndAdvance
  PROVE  OwnInv' /\ ReadsBack'
<1>1. /\ pc = "end_sequence" /\ pc' = "end"
      /\ out' = Op("advance_pc", addr_adv \div MIN_INST_LENGTH)
      /\ prevline' = [prevline EXCEPT !.address = curline.address]
  BY DEF WriteEndAdvance, Go, Writes
<1>2. addr_adv % MIN_INST_LENGTH = 0
  <2> DEFINE c == curline.address
             p == prevline.address
  <2>1. /\ c \in Addresses /\ p \in Addresses /\ addr_adv = (c - p) % AddrSize
        /\ (c - p) % MIN_INST_LENGTH = 0
    BY <1>1, WritesTypes DEF Positions, addr_adv, Writes, PcInv
  <2> HIDE DEF c, p
  <2>2. addr_adv = c - p \/ addr_adv = c - p + AddrSize
    BY <2>1, AddrAdv DEF Addresses
  <2>3. AddrSize % 4 = 0 /\ AddrSize \in Int /\ c \in Int /\ p \in Int
    BY <2>1, LineAssumption DEF Addresses
  <2> DEFINE e == c - p
  <2>4. e \in Int /\ e % MIN_INST_LENGTH = 0 /\ (addr_adv = e \/ addr_adv = e + AddrSize)
    BY <2>1, <2>2, <2>3
  <2> HIDE DEF e
  <2>5. CASE MIN_INST_LENGTH = 1
    BY <2>3, <2>4, <2>5
  <2>6. CASE MIN_INST_LENGTH = 4
    BY <2>3, <2>4, <2>6
  <2> QED
    BY <2>5, <2>6, Sizes
<1>3. Quiet([regs EXCEPT !.address = curline.address])
  BY <1>1, <1>2, AdvanceIsRead
<1>4. back' = <<>> /\ ReadsBack'
  BY <1>1, <1>3, QuietIsNotBack
<1>5. ~regs.basic_block /\ ~prevline.basic_block
  BY <1>1, WritesTypes DEF Writes, OwnInv, Positions, Registers
<1>6. OwnInv'
  BY <1>1, <1>3, <1>4, <1>5, WritesTypes, OwnRegs DEF OwnInv, Quiet, Positions, Registers
<1> QED
  BY <1>4, <1>6

LEMMA SetAddressKeepsOwn ==
  ASSUME Writes, WriteSetAddress
  PROVE  OwnInv' /\ ReadsBack'
<1>1. /\ pc = "set_address" /\ pc' = "next" /\ out' = Op("set_address", curline.address)
      /\ prevline' = [prevline EXCEPT !.address = curline.address]
      /\ curline.opc = "set_address"
  BY DEF WriteSetAddress, Go, Writes, PcInv
<1>2. Quiet([regs EXCEPT !.address = curline.address])
  BY <1>1, OpIs, OwnSetAddress DEF Writes
<1>3. back' = <<>>
  BY <1>1, <1>2, OwnRegs DEF Writes, Quiet
<1>4. ~regs.basic_block /\ ~prevline.basic_block
  BY <1>1, WritesTypes DEF Writes, OwnInv, Positions, Registers
<1>5. OwnInv'
  BY <1>1, <1>2, <1>3, <1>4, WritesTypes, OwnRegs DEF OwnInv, Quiet, Positions, Registers
<1>6. ReadsBack'
  BY <1>1, <1>2, <1>3, WritesTypes DEF ReadsBack, RowReadsBack, NeverLost, Quiet
<1> QED
  BY <1>5, <1>6

LEMMA Joins == <<>> \o <<>> = <<>> /\ \A x : <<>> \o <<x>> = <<x>>
  OBVIOUS

(* A row made of the registers of the entry says what the entry says.         *)
LEMMA RowIsEntry ==
  ASSUME Writes, pc # "next", curline.opc = "none", NEW r \in Registers,
         r.address = curline.address, r.file = curline.file, r.line = curline.line,
         r.column = curline.column, r.is_stmt = curline.is_stmt,
         r.basic_block = curline.basic_block,
         added' = <<Reader!Row(r, r.is_stmt, FALSE)>>, status' = "reading"
  PROVE  ReadsBack'
<1> DEFINE row == Reader!Row(r, r.is_stmt, FALSE)
<1>1. curline.column % HalfSize = curline.column
  BY Sizes, WritesTypes, ModSmall DEF Positions
<1>2. /\ row.address = curline.address /\ row.file = curline.file /\ row.line = curline.line
      /\ row.column = curline.column /\ row.is_stmt = curline.is_stmt
      /\ row.basic_block = curline.basic_block /\ row.end_sequence = FALSE
  BY <1>1 DEF Reader!Row
<1>3. back' = <<row>>
  <2>1. back = <<>> /\ back' = back \o added' /\ added' = <<row>>
    BY OwnRegs DEF Writes
  <2> HIDE DEF row
  <2> QED
    BY <2>1, Joins
<1> HIDE DEF row
<1>4. back'[1] = row /\ Len(back') = 1
  BY <1>3
<1>5. curline' = curline
  BY WritesTypes
<1>6. \A f \in {"address", "file", "line", "column", "is_stmt", "basic_block"} :
         back'[1][f] = curline'[f]
  BY <1>2, <1>4, <1>5
<1>7. RowReadsBack'
  BY <1>2, <1>4, <1>5, <1>6 DEF RowReadsBack
<1> QED
  BY <1>7 DEF ReadsBack, NeverLost

LEMMA CopyKeepsOwn ==
  ASSUME Writes, WriteCopy
  PROVE  OwnInv' /\ ReadsBack'
<1>1. /\ pc = "copy" /\ pc' = "next" /\ out' = Op("copy", 0)
      /\ prevline' = [prevline EXCEPT !.basic_block = FALSE]
  BY DEF WriteCopy, Go, Writes
<1>2. /\ curline.opc = "none" /\ prevline.file = curline.file
      /\ prevline.column = curline.column /\ prevline.is_stmt = curline.is_stmt
      /\ prevline.address = curline.address /\ prevline.line = curline.line
      /\ regs.basic_block = curline.basic_block
  BY <1>1 DEF Writes, PcInv, OwnInv, Inside, Before
<1>3. Reader!ReadCopy(out'[1])
  BY <1>1, OpIs, OwnRows DEF Writes
<1> DEFINE q == [regs EXCEPT !.basic_block = FALSE, !.prologue_end = FALSE,
                             !.epilogue_begin = FALSE]
<1>4. CASE /\ added' = <<Reader!Row(regs, regs.is_stmt, FALSE)>> /\ regs' = q
           /\ status' = status
  <2>1. status' = "reading"
    BY <1>4 DEF Writes
  <2>2. ReadsBack'
    BY <1>1, <1>2, <1>4, <2>1, RowIsEntry, WritesTypes, OwnRegs
  <2>3. OwnInv'
    BY <1>1, <1>2, <1>4, <2>1, WritesTypes, OwnRegs DEF OwnInv, Positions, Registers
  <2> QED
    BY <2>2, <2>3
<1>5. CASE status' = "failed"
  BY <1>5 DEF OwnInv, ReadsBack, RowReadsBack, NeverLost
<1> QED
  BY <1>3, <1>4, <1>5 DEF Reader!ReadCopy, Reader!Add

LEMMA EndSequenceKeepsOwn ==
  ASSUME Writes, WriteEndSequence
  PROVE  OwnInv' /\ ReadsBack'
<1>1. /\ pc = "end" /\ pc' = "next" /\ out' = Op("end_sequence", 0)
      /\ prevline' = reg_init
  BY DEF WriteEndSequence, AtSequenceStart, Go, Writes
<1>2. curline.opc = "end_sequence" /\ prevline.address = curline.address
  BY <1>1 DEF Writes, PcInv
<1>3. Reader!ReadEndSequence(out'[1])
  BY <1>1, OpIs, OwnRows DEF Writes
<1> DEFINE row == Reader!Row(regs, prefix.pf_default_is_stmt, TRUE)
<1>4. CASE added' = <<row>> /\ regs' = Reader!AfterEnd(regs) /\ status' = status
  <2>1. status' = "reading" /\ back' = <<row>>
    <3>1. back = <<>> /\ back' = back \o added' /\ status' = "reading"
      BY <1>1, <1>4, OwnRegs DEF Writes
    <3> HIDE DEF row
    <3> QED
      BY <1>4, <3>1, Joins
  <2>2. row.end_sequence = TRUE /\ row.address = curline.address
    BY <1>2, OwnRegs DEF Reader!Row
  <2> HIDE DEF row
  <2>3. back'[1] = row /\ Len(back') = 1 /\ curline' = curline
    BY <2>1, WritesTypes
  <2>4. ReadsBack'
    BY <1>2, <2>1, <2>2, <2>3 DEF ReadsBack, RowReadsBack, NeverLost
  <2>5. prefix.pf_default_is_stmt = FALSE
    BY DEF Writes, OwnPrefix, DEFAULT_IS_STMT
  <2>6. regs' = [address |-> 0, file |-> 1, line |-> 1, column |-> 0, is_stmt |-> FALSE,
                 basic_block |-> FALSE, prologue_end |-> FALSE, epilogue_begin |-> FALSE,
                 isa |-> regs.isa]
    BY <1>4, <2>5 DEF Reader!AfterEnd, Reader!Start
  <2>7. OwnInv'
    BY <1>1, <2>1, <2>6 DEF OwnInv, reg_init, DEFAULT_IS_STMT
  <2> QED
    BY <2>4, <2>7
<1>5. CASE status' = "failed"
  BY <1>5 DEF OwnInv, ReadsBack, RowReadsBack, NeverLost
<1> QED
  BY <1>3, <1>4, <1>5 DEF Reader!ReadEndSequence, Reader!Add

(* A special opcode moves the registers to the entry, unless the address       *)
(* descends: then it is taken for a standard opcode.                         *)
LEMMA SpecialMoves ==
  ASSUME Writes, pc = "advance", addr_adv % MIN_INST_LENGTH = 0,
         get_opc(addr_adv, line_adv) >= OPCODE_BASE
  PROVE  LET opc == get_opc(addr_adv, line_adv)
         IN [Reader!Advanced(regs, (opc - prefix.pf_opcode_base) \div prefix.pf_line_range)
               EXCEPT !.line = @ + prefix.pf_line_base
                                 + ((opc - prefix.pf_opcode_base) % prefix.pf_line_range)]
              = [regs EXCEPT !.address = curline.address, !.line = curline.line]
<1> DEFINE opc == get_opc(addr_adv, line_adv)
           n == (opc - OPCODE_BASE) \div LINE_RANGE
           m == (opc - OPCODE_BASE) % LINE_RANGE
<1>1. /\ curline.address \in Addresses /\ prevline.address \in Addresses
      /\ curline.line \in Int /\ prevline.line \in Int
      /\ curline.address \in Int /\ prevline.address \in Int
  BY WritesTypes DEF Positions, Addresses
<1>2. line_adv \in Int
  BY <1>1 DEF line_adv
<1>3. /\ opc \in 1..255 /\ ~(curline.address < prevline.address)
      /\ curline.address >= prevline.address =>
           m + LINE_BASE = line_adv /\ MIN_INST_LENGTH * n = curline.address - prevline.address
  <2>1. get_opc(addr_adv, line_adv) > 0
    <3>1. opc \in Int => opc > 0
      BY DEF OPCODE_BASE
    <3>2. opc \in Int
      <4>1. addr_adv \in Int
        <5>1. (curline.address - prevline.address) % AddrSize \in Addresses
          BY <1>1, AddrAdv
        <5> QED
          BY <5>1 DEF addr_adv, Addresses
      <4> DEFINE x == line_adv - LINE_BASE + (addr_adv \div MIN_INST_LENGTH) * LINE_RANGE
                        + OPCODE_BASE
      <4>2. x \in Int
        BY <1>2, <4>1, Sizes DEF LINE_BASE, LINE_RANGE, OPCODE_BASE
      <4> HIDE DEF x
      <4>3. ToInt(x % AddrSize) \in Int
        BY <4>2, Sizes DEF ToInt
      <4> USE DEF x
      <4> QED
        BY <4>3 DEF get_opc, OPC_INCS_ZERO, LINE_OUT_OF_RANGE, OPC_OUT_OF_RANGE
    <3> QED
      BY <3>1, <3>2
  <2>2. Types /\ PcInv
    BY DEF Writes
  <2> QED
    BY <2>1, <2>2, GetOpc DEF OPCODE_BASE
<1> HIDE DEF opc
<1>4. n \in Int /\ m \in Int
  BY <1>3 DEF OPCODE_BASE, LINE_RANGE
<1>5. m + LINE_BASE = line_adv /\ MIN_INST_LENGTH * n = curline.address - prevline.address
  BY <1>1, <1>3
<1> HIDE DEF n, m
<1>6. prevline.line + LINE_BASE + m = curline.line
  BY <1>1, <1>4, <1>5 DEF line_adv, LINE_BASE
<1>7. (prevline.address + MIN_INST_LENGTH * n) % AddrSize = curline.address
  <2>1. prevline.address + MIN_INST_LENGTH * n = curline.address
    BY <1>1, <1>5
  <2> QED
    BY <1>1, <2>1, ModSmall, Sizes DEF Addresses
<1>8. Reader!Advanced(regs, n) = [regs EXCEPT !.address = curline.address]
  BY <1>7, OwnRegs, OwnDiscards DEF Reader!Advanced, Writes
<1>9. [Reader!Advanced(regs, n) EXCEPT !.line = @ + LINE_BASE + m]
        = [regs EXCEPT !.address = curline.address, !.line = curline.line]
  BY <1>6, <1>8, OwnRegs, WritesTypes DEF Registers
<1>10. n = (opc - prefix.pf_opcode_base) \div prefix.pf_line_range
       /\ m = (opc - prefix.pf_opcode_base) % prefix.pf_line_range
       /\ prefix.pf_line_base = LINE_BASE
  BY OwnDiscards DEF Writes, n, m
<1> QED
  BY <1>9, <1>10 DEF opc

LEMMA SpecialKeepsOwn ==
  ASSUME Writes, WriteSpecial
  PROVE  OwnInv' /\ ReadsBack'
<1> DEFINE opc == get_opc(addr_adv, line_adv)
           r == [regs EXCEPT !.address = curline.address, !.line = curline.line]
<1>1. /\ pc = "advance" /\ pc' = "next" /\ out' = Op("special", opc)
      /\ addr_adv % MIN_INST_LENGTH = 0 /\ opc > 0
      /\ prevline' = [prevline EXCEPT !.address = curline.address, !.line = curline.line,
                                      !.basic_block = FALSE]
  BY DEF WriteSpecial, Go, SpecialRow, Writes
<1>2. /\ curline.opc = "none" /\ prevline.file = curline.file
      /\ prevline.column = curline.column /\ prevline.is_stmt = curline.is_stmt
      /\ regs.basic_block = curline.basic_block
      /\ ~descended => curline.address >= prevline.address
  BY <1>1 DEF Writes, PcInv, OwnInv, Inside, Before
<1>3. /\ opc \in 1..255
      /\ curline.address >= prevline.address => opc >= OPCODE_BASE
  <2>1. Types /\ PcInv
    BY DEF Writes
  <2> QED
    BY <1>1, <2>1, GetOpc
<1>4. /\ out'[1].op = "special" /\ out'[1].arg = opc
      /\ prefix.pf_opcode_base = OPCODE_BASE
  BY <1>1, OpIs, OwnDiscards DEF Writes
<1>5. Reader!ReadSpecial(out'[1]) \/ Reader!ReadMistaken(out'[1])
  BY <1>4, OwnRows DEF Writes
<1>6. CASE Reader!ReadMistaken(out'[1])
  <2>1. opc < OPCODE_BASE /\ status' = "lost"
    BY <1>4, <1>6 DEF Reader!ReadMistaken
  <2>2. descended
    BY <1>2, <1>3, <2>1 DEF OPCODE_BASE
  <2>3. descended' = descended
    BY DEF Writes
  <2> QED
    BY <2>1, <2>2, <2>3 DEF OwnInv, ReadsBack, RowReadsBack, NeverLost
<1>7. CASE Reader!ReadSpecial(out'[1])
  <2>1. opc >= OPCODE_BASE
    BY <1>4, <1>7 DEF Reader!ReadSpecial
  <2>2. Reader!Add(Reader!Row(r, r.is_stmt, r.epilogue_begin), [r EXCEPT !.basic_block = FALSE])
    BY <1>1, <1>4, <1>7, <2>1, SpecialMoves DEF Reader!ReadSpecial
  <2>3. r \in Registers
    <3>1. curline.address \in Addresses /\ curline.line \in Int /\ regs \in Registers
      BY WritesTypes DEF Positions
    <3> QED
      BY <3>1 DEF Registers
  <2>4. /\ r.address = curline.address /\ r.line = curline.line /\ r.file = prevline.file
        /\ r.column = prevline.column /\ r.is_stmt = prevline.is_stmt
        /\ r.basic_block = curline.basic_block /\ r.epilogue_begin = FALSE
    BY <1>2, OwnRegs, WritesTypes DEF Registers
  <2> HIDE DEF r
  <2>5. CASE status' = "failed"
    BY <2>5 DEF OwnInv, ReadsBack, RowReadsBack, NeverLost
  <2>6. CASE /\ added' = <<Reader!Row(r, r.is_stmt, FALSE)>> /\ status' = status
             /\ regs' = [r EXCEPT !.basic_block = FALSE]
    <3>1. status' = "reading"
      BY <2>6 DEF Writes
    <3>2. ReadsBack'
      BY <1>1, <1>2, <2>3, <2>4, <2>6, <3>1, RowIsEntry
    <3>3. OwnInv'
      BY <1>1, <1>2, <2>3, <2>4, <2>6, <3>1, WritesTypes DEF OwnInv, Positions, Registers
    <3> QED
      BY <3>2, <3>3
  <2> QED
    BY <2>2, <2>4, <2>5, <2>6 DEF Reader!Add
<1> QED
  BY <1>5, <1>6, <1>7

LEMMA WriteKeepsOwn ==
  ASSUME Writes
  PROVE  OwnInv' /\ ReadsBack'
<1>1. ~WrongAddress
  BY DEF WrongAddress, Go, Writes
<1> QED
  BY <1>1, FileKeepsOwn, ColumnKeepsOwn, IsStmtKeepsOwn, BasicBlockKeepsOwn, AdvancePcKeepsOwn,
     AdvanceLineKeepsOwn, EndAdvanceKeepsOwn, SetAddressKeepsOwn, SpecialKeepsOwn, CopyKeepsOwn,
     EndSequenceKeepsOwn DEF Write, Writes

-------------------------------------------------------------------------------
(* The steps of the table.                                                 *)

LEMMA InitHolds == Init => IInv
<1> SUFFICES ASSUME Init
             PROVE  IInv
  OBVIOUS
<1>1. /\ pc = "next" /\ prevline = reg_init /\ curline = reg_init /\ out = <<>>
      /\ prefix \in {OwnPrefix} \cup ForeignPrefixes /\ regs = Reader!Start
      /\ added = <<>> /\ ended = FALSE /\ status = "reading"
      /\ shown = Printer!Fresh /\ line = <<>> /\ reading = "reading"
      /\ back = <<>> /\ descended = FALSE
  BY DEF Init, ProducerInit, Reader!ReaderInit, Printer!PrinterInit
<1>2. prefix \in Reader!Prefixes
  <2>1. OwnPrefix \in Reader!Prefixes
    BY Sizes DEF OwnPrefix, Reader!Prefixes, LINE_BASE, LINE_RANGE, OPCODE_BASE, DEFAULT_IS_STMT
  <2> QED
    BY <1>1, <2>1, LineAssumption
<1>3. reg_init \in Positions
  BY Sizes DEF reg_init, DEFAULT_IS_STMT, Positions, Addresses
<1>4. Reader!Start \in Registers
  BY <1>2, StartType
<1>5. Types
  BY <1>1, <1>2, <1>3, <1>4, One DEF Types, Pcs
<1>6. PcInv
  BY <1>1 DEF PcInv, Inside, Before
<1>7. OwnInv
  <2> SUFFICES ASSUME prefix = OwnPrefix
               PROVE  OwnInv
    BY DEF OwnInv
  <2>1. regs = [address |-> 0, file |-> 1, line |-> 1, column |-> 0, is_stmt |-> FALSE,
                basic_block |-> FALSE, prologue_end |-> FALSE, epilogue_begin |-> FALSE,
                isa |-> 0]
    BY <1>1 DEF OwnPrefix, DEFAULT_IS_STMT, Reader!Start
  <2> QED
    BY <1>1, <2>1 DEF OwnInv, reg_init, DEFAULT_IS_STMT
<1>8. ShownInv
  <2>1. Same(shown, regs)
    BY <1>1, <1>2, SameFresh
  <2> QED
    BY <2>1 DEF ShownInv, Same
<1>9. ForeignInv /\ SequencesAlike
  BY <1>1 DEF ForeignInv, SequencesAlike
<1>10. ReadsBack /\ PrintsWhatIsRead
  <2>1. Len(line) = Len(added)
    BY <1>1
  <2> QED
    BY <1>1, <2>1 DEF ReadsBack, RowReadsBack, NeverLost, PrintsWhatIsRead
<1> QED
  BY <1>5, <1>6, <1>7, <1>8, <1>9, <1>10 DEF IInv

LEMMA WriteAndReadStep ==
  ASSUME IInv, WriteAndRead
  PROVE  IInv'
<1>1. /\ Types /\ PcInv /\ OwnInv /\ ForeignInv /\ ShownInv
      /\ SequencesAlike /\ ReadsBack /\ PrintsWhatIsRead
  BY DEF IInv
<1>2. prefix = OwnPrefix /\ status = "reading" /\ Write /\ descended' = descended
  BY DEF WriteAndRead
<1>3. /\ pc' \in Pcs /\ prevline' \in Positions /\ curline' = curline /\ AtMostOne(out')
      /\ out' # <<>> => out'[1] \in Reader!Operations
  BY <1>1, <1>2, WriteTypes
<1>4. PcInv'
  BY <1>1, <1>2, WriteKeepsPc
<1>5. OwnPrefix' = OwnPrefix
  BY DEF OwnPrefix
<1>6. CASE out' = <<>>
  <2>1. UNCHANGED <<prefix, regs, added, ended, status, back, shown, same_size, line, reading>>
    BY <1>6 DEF WriteAndRead
  <2>2. Types'
    BY <1>1, <1>2, <1>3, <2>1 DEF Types, AtMostOne
  <2>3. OwnInv' /\ ReadsBack'
    BY <1>1, <1>2, <1>6, <2>1, SilentKeepsOwn
  <2>4. ShownInv'
    BY <1>1, <2>1 DEF ShownInv
  <2>5. SequencesAlike'
    <3>1. Reader!Start' = Reader!Start
      BY <2>1 DEF Reader!Start
    <3> QED
      BY <1>1, <2>1, <3>1 DEF SequencesAlike
  <2>6. PrintsWhatIsRead'
    BY <1>1, <2>1 DEF PrintsWhatIsRead
  <2>7. ForeignInv'
    BY <1>2, <1>5, <2>1 DEF ForeignInv
  <2> QED
    BY <1>4, <2>2, <2>3, <2>4, <2>5, <2>6, <2>7 DEF IInv
<1>7. CASE out' # <<>>
  <2>1. Reader!Read(out'[1]) /\ Printer!ShowOp(out'[1]) /\ back' = back \o added'
    BY <1>7 DEF WriteAndRead
  <2>2. out'[1] \in Reader!Operations
    BY <1>3, <1>7
  <2>3. /\ prefix' = prefix /\ regs' \in Registers /\ AtMostOne(added')
        /\ ended' \in BOOLEAN /\ status' \in {"reading", "failed", "lost"}
    BY <1>1, <2>1, <2>2, ReadKeepsTypes
  <2>4. Writes
    BY <1>1, <1>2, <1>7, <2>1 DEF Writes
  <2>5. OwnInv' /\ ReadsBack'
    BY <2>4, WriteKeepsOwn
  <2>6. AtMostOne(back')
    <3>1. pc # "next"
      BY <1>2 DEF Write, WriteFile, WriteColumn, WriteIsStmt, WriteBasicBlock, WrongAddress,
                  WriteSpecial, WriteAdvancePc, WriteAdvanceLine, WriteCopy, WriteSetAddress,
                  WriteEndAdvance, WriteEndSequence
    <3>2. back' = <<>> \o added'
      BY <2>1, <2>4, <3>1, OwnRegs
    <3>3. CASE added' = <<>>
      BY <3>2, <3>3, One, Joins
    <3>4. CASE \E x : added' = <<x>>
      BY <3>2, <3>4, One, Joins
    <3> QED
      BY <2>3, <3>3, <3>4 DEF AtMostOne
  <2>7. Types'
    BY <1>1, <1>2, <1>3, <2>3, <2>6 DEF Types, AtMostOne
  <2>8. ShownInv' /\ PrintsWhatIsRead'
    BY <1>1, <2>1, <2>2, PrinterFollows
  <2>9. SequencesAlike'
    BY <1>1, <2>1, ReadStartsAlike
  <2>10. ForeignInv'
    BY <1>2, <1>5, <2>3 DEF ForeignInv
  <2> QED
    BY <1>4, <2>5, <2>7, <2>8, <2>9, <2>10 DEF IInv
<1> QED
  BY <1>6, <1>7

LEMMA NextEntryStep ==
  ASSUME IInv, NEW e \in Entries, NextEntry(e)
  PROVE  IInv'
<1>1. /\ Types /\ PcInv /\ OwnInv /\ ForeignInv /\ ShownInv
      /\ SequencesAlike /\ ReadsBack /\ PrintsWhatIsRead
  BY DEF IInv
<1>2. /\ prefix = OwnPrefix /\ pc = "next" /\ curline' = e /\ out' = <<>>
      /\ prevline' = prevline /\ pc' = IF e.opc = "none" THEN "file" ELSE e.opc
      /\ back' = <<>> /\ descended' = (descended \/ ~Ascending(e))
      /\ UNCHANGED <<prefix, regs, added, ended, status, shown, same_size, line, reading>>
  BY DEF NextEntry, Take
<1>3. e \in Positions /\ prevline \in Positions
  BY <1>1, Sizes, LineType
<1>4. pc' \in {"file", "set_address", "end_sequence"}
  BY <1>2, <1>3 DEF Positions
<1>5. Types'
  BY <1>1, <1>2, <1>4, One DEF Types, Pcs, AtMostOne
<1>6. PcInv'
  <2>1. e.opc # "set_address" => e.address - prevline.address \in -MaxJump..MaxJump
    BY DEF NextEntry, Near
  <2>2. e.opc = "end_sequence" => (e.address - prevline.address) % MIN_INST_LENGTH = 0
    BY DEF NextEntry, Near
  <2>3. e.opc # "set_address" /\ ~descended' => e.address >= prevline.address
    BY <1>2 DEF Ascending
  <2>4. /\ pc' = "file" => e.opc = "none"
        /\ pc' = "set_address" => e.opc = "set_address"
        /\ pc' = "end_sequence" => e.opc = "end_sequence"
    BY <1>2, <1>3 DEF Positions
  <2> QED
    BY <1>2, <1>4, <2>1, <2>2, <2>3, <2>4 DEF PcInv, Inside, Before
<1>7. OwnPrefix' = OwnPrefix
  BY DEF OwnPrefix
<1>8. OwnInv'
  BY <1>1, <1>2, <1>4, <1>7 DEF OwnInv
<1>9. ReadsBack'
  BY <1>1, <1>2, <1>7 DEF ReadsBack, RowReadsBack, NeverLost
<1>10. ShownInv'
  BY <1>1, <1>2 DEF ShownInv
<1>11. SequencesAlike'
  <2>1. Reader!Start' = Reader!Start
    BY <1>2 DEF Reader!Start
  <2> QED
    BY <1>1, <1>2, <2>1 DEF SequencesAlike
<1>12. PrintsWhatIsRead'
  BY <1>1, <1>2 DEF PrintsWhatIsRead
<1>13. ForeignInv'
  BY <1>2, <1>7 DEF ForeignInv
<1> QED
  BY <1>5, <1>6, <1>8, <1>9, <1>10, <1>11, <1>12, <1>13 DEF IInv

LEMMA ReadForeignStep ==
  ASSUME IInv, NEW o \in ForeignOps, ReadForeign(o)
  PROVE  IInv'
<1>1. /\ Types /\ PcInv /\ OwnInv /\ ForeignInv /\ ShownInv
      /\ SequencesAlike /\ ReadsBack /\ PrintsWhatIsRead
  BY DEF IInv
<1>2. /\ prefix # OwnPrefix /\ Reader!Read(o) /\ Printer!ShowOp(o)
      /\ UNCHANGED <<pc, prevline, curline, out, back, descended>>
  BY DEF ReadForeign, pvars
<1>3. o \in Reader!Operations
  BY LineAssumption
<1>4. /\ prefix' = prefix /\ regs' \in Registers /\ AtMostOne(added')
      /\ ended' \in BOOLEAN /\ status' \in {"reading", "failed", "lost"}
  BY <1>1, <1>2, <1>3, ReadKeepsTypes
<1>5. OwnPrefix' = OwnPrefix /\ pc = "next" /\ out = <<>>
  BY <1>1, <1>2 DEF OwnPrefix, ForeignInv
<1>6. Types'
  BY <1>1, <1>2, <1>4 DEF Types, AtMostOne
<1>7. PcInv'
  BY <1>1, <1>2, <1>5 DEF PcInv, Inside, Before
<1>8. OwnInv' /\ ForeignInv' /\ ReadsBack'
  BY <1>2, <1>4, <1>5 DEF OwnInv, ForeignInv, ReadsBack, RowReadsBack, NeverLost
<1>9. ShownInv' /\ PrintsWhatIsRead'
  BY <1>1, <1>2, <1>3, PrinterFollows
<1>10. SequencesAlike'
  BY <1>1, <1>2, ReadStartsAlike
<1> QED
  BY <1>6, <1>7, <1>8, <1>9, <1>10 DEF IInv

LEMMA StutterStep ==
  ASSUME IInv, UNCHANGED vars
  PROVE  IInv'
<1>1. /\ Types /\ PcInv /\ OwnInv /\ ForeignInv /\ ShownInv
      /\ SequencesAlike /\ ReadsBack /\ PrintsWhatIsRead
  BY DEF IInv
<1>2. UNCHANGED <<pc, prevline, curline, out, prefix, regs, added, ended, status, back,
                  descended, shown, same_size, line, reading>>
  BY DEF vars, pvars
<1>3. OwnPrefix' = OwnPrefix /\ Reader!Start' = Reader!Start
  BY <1>2 DEF OwnPrefix, Reader!Start
<1>4. Types' /\ PcInv'
  BY <1>1, <1>2 DEF Types, AtMostOne, PcInv
<1>5. OwnInv' /\ ForeignInv' /\ ShownInv'
  BY <1>1, <1>2, <1>3 DEF OwnInv, ForeignInv, ShownInv
<1>6. SequencesAlike' /\ ReadsBack' /\ PrintsWhatIsRead'
  BY <1>1, <1>2, <1>3 DEF SequencesAlike, ReadsBack, RowReadsBack, NeverLost, PrintsWhatIsRead
<1> QED
  BY <1>4, <1>5, <1>6 DEF IInv

-------------------------------------------------------------------------------
(* The inductive invariant holds of every table: any sequence of entries a   *)
(* producer is given, and any program with any header from elsewhere.        *)
THEOREM TablesKeepIInv == Spec => []IInv
<1>1. IInv /\ [Next]_vars => IInv'
  BY WriteAndReadStep, NextEntryStep, ReadForeignStep, StutterStep DEF Next
<1> QED
  BY InitHolds, <1>1, PTL DEF Spec

LEMMA Lengths ==
  ASSUME NEW s, AtMostOne(s)
  PROVE  Len(s) <= 1
<1>1. CASE s = <<>>
  BY <1>1
<1>2. CASE \E x : s = <<x>>
  BY <1>2
<1> QED
  BY <1>1, <1>2 DEF AtMostOne

(* Type correctness: the producer's loop is at one of its `if's, the address   *)
(* registers stay in the range of an address, and no operation makes more    *)
(* than one row.                                                           *)
THEOREM LinesTyped == Spec => []TypeOK
<1>1. IInv => TypeOK
  BY Lengths DEF IInv, Types, TypeOK, Pcs, Positions, Registers, Addresses
<1> QED
  BY TablesKeepIInv, <1>1, PTL

(* The registers of _dwarf_internal_srclines() are, after every operation of   *)
(* a program the producer wrote, what _dwarf_pro_generate_debugline() takes    *)
(* them to be (prevline); and after an end of sequence, in any table, what    *)
(* they are at its start, but for isa.                                      *)
THEOREM RegistersAlwaysAgree == Spec => []RegistersAgree
<1>1. IInv => RegistersAgree
  BY DEF IInv, OwnInv, RegistersAgree, InStep
<1> QED
  BY TablesKeepIInv, <1>1, PTL

(* Every entry given to the producer is read back as one row that says the     *)
(* same; and the reader takes nothing for what it is not, unless the client   *)
(* let an address descend in a sequence.                                    *)
THEOREM EntriesReadBack == Spec => []ReadsBack
<1>1. IInv => ReadsBack
  BY DEF IInv
<1> QED
  BY TablesKeepIInv, <1>1, PTL

(* The two copies of the statement program loop agree on every program and   *)
(* header: dwarf_print_lines() prints the rows dwarf_srclines() returns, as   *)
(* long as that does not fail; and where the compilation unit has addresses  *)
(* of another size than the object file, as far as the first set_address.    *)
THEOREM RowsPrinted == Spec => []PrintsWhatIsRead
<1>1. IInv => PrintsWhatIsRead
  BY DEF IInv
<1> QED
  BY TablesKeepIInv, <1>1, PTL
================================================================================
