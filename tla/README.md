# Verification of libdwarf in TLA+

libdwarf reads DWARF debugging information from an object file for a client (the
*consumer*, `src/libdwarf/dwarf_*.c`) and writes it for a compiler or assembler (the
*producer*, `src/libdwarf/pro_*.c`). dwarfdump (`src/dwarfdump`) is a client that prints
everything. This directory holds models of the parts that keep state from call to call or that
must agree with each other, TLC configurations that check them on small instances, and TLAPS
proofs. `src/` is the reference: each definition translates the lines that `PROJECT.json`
("map") names.

A program using the library is single-threaded. What makes the code hard is not
concurrency but *long sequences of calls*: structures that calls share (chunk lists,
context lists, hash tables, rings of blocks), caches that outlive what they point at, calls that
stop in the middle when malloc or libelf fails and leave what they had done so far, and
*two programs that must agree*: the producer counts bytes that a reader will skip by a table
of its own, and tracks registers that only the reader has.

## 1. Inventory

| Component (files in `src/libdwarf` unless named) | State it keeps | Operations | Interacts with | What makes it correct |
|---|---|---|---|---|
| **Allocator** (`dwarf_alloc.c`) | per type: list of chunks, last chunk used, counts; per chunk: free list, blob, free count | `_dwarf_get_alloc`, `dwarf_dealloc`, `dwarf_finish` | everything that hands a struct to the client; constructors of frames | a struct has one owner; a chunk is freed with its last struct, never before; lists and caches never dangle |
| **Initialisation, sections, Elf access** (`dwarf_init_finish.c`, `dwarf_original_elf_init.c`, `dwarf_elf_access.c`) | where each section and its relocations are, which are loaded | `dwarf_init`, `_dwarf_load_section`, `dwarf_finish` | libelf; everything that reads a section | any order of headers is understood; a section is loaded once; errors leave nothing half done |
| **CU contexts** (`dwarf_die_deliv.c`) | current CU, list of all contexts, list of those `dwarf_offdie` read, end of what was read | `dwarf_next_cu_header`, `dwarf_offdie`, `dwarf_siblingof(NULL)` | abbreviation tables hang off contexts; both lists share `cc_next` | the walk visits each CU once and in order; a DIE has the context of its own CU; calls return |
| **Sibling and child** (`dwarf_die_deliv.c`) | none | `dwarf_siblingof`, `dwarf_child` | abbreviations, forms | what they deliver is the tree the bytes encode |
| **Abbreviation tables** (`dwarf_util.c`) | hash table of a CU, position of the scan | `_dwarf_get_abbrev_for_code` | DIEs point into it | a lookup delivers the declaration of the section, whatever was looked up before |
| **Line reader and printer** (`dwarf_line.c`, `dwarf_print_lines.c`) | the registers of the line state machine, during a call; the machine is written twice | `dwarf_srclines`, `dwarf_print_lines` | allocator; tables of any producer | rows are what the program says, in both versions; sequences are independent |
| **Tables read whole** (`dwarf_global.c` and five more, `dwarf_arange.c`, `dwarf_ranges.c`, `dwarf_loc.c`, `dwarf_macro.c`) | the stack of include files; else none | `dwarf_get_globals`, `dwarf_get_aranges`, `dwarf_get_ranges`, `dwarf_loclist_n`, `dwarf_get_macro_details`, the deallocs | section loading, allocator; answers point into section data | every entry once, with its set, base or file; answers stay valid; each struct is freed once |
| **Frames** (`dwarf_frame.c`, `dwarf_frame2.c`, `dwarf_frame3.c`) | lists of CIEs and FDEs, the initial table of a CIE; register table and remember stack during a call | `dwarf_get_fde_list`, `dwarf_get_fde_at_pc`, `dwarf_get_fde_info_for_*` | allocator | an FDE has its CIE; the row found is the row of the pc; errors release the lists |
| **Forms, attributes, LEB128** (`dwarf_form.c`, `dwarf_query.c`, `dwarf_leb.c`, `dwarf_abbrev.c`) | none | decoding | abbreviations | the size skipped is the size of the value; decoding inverts encoding |
| **Errors** (`dwarf_error.c`) | the last error | `_dwarf_error`, `dwarf_seterrhand` | every call | one of: delivered, handed to the handler, abort |
| **Address finder** (`dwarf_addr_finder.c`) | offset of the last address | `_dwarf_addr_finder` | all the readers | every address in the file is reported, at its place |
| **Producer allocator** (`pro_alloc.c`) | circular list of blocks | get, dealloc, free all | producer | every block is freed once |
| **Producer DIEs, forms, expressions** (`pro_die.c`, `pro_forms.c`, `pro_expr.c`) | the tree, attribute lists, an expression buffer | `dwarf_new_die`, `dwarf_die_link`, `dwarf_add_AT_*`, `dwarf_add_expr_*` | sections, relocations | the tree stays a tree; an attribute reads back as it was given |
| **Line producer** (`pro_line.c`, `pro_section.c`) | list of line entries; its idea of the reader's registers | `dwarf_add_line_entry`, `dwarf_lne_*`, generation | line reader, by the program | every entry is read back |
| **Producer sections, tables, relocations** (`pro_section.c`, `pro_frame.c`, `pro_macinfo.c`, `pro_arange.c`, `pro_types.c` and five like it, `pro_reloc*.c`, `pro_init.c`, `pro_finish.c`) | lists of section buffers and relocation blocks | `dwarf_transform_to_disk_form`, `dwarf_get_section_bytes`, `dwarf_get_relocation_info` | the client that writes the file | offsets and lengths agree with what is written; a relocation is at its field |
| **dwarfdump** (`src/dwarfdump/dwarfdump.c`, `print_die.c`, `print_frames.c`) | stack of DIEs above the one printed, range of FDEs of a unit, the unit of the last name search | printing `.debug_info`, searching it, naming FDEs | the public interface | matches come with their owners; no handle is lost or freed twice; it ends |
| dwarfdump's other sections, its checks (`-k`), `dwconf.c`, `esb.c` | options, buffers | printing | the public interface | not modelled (section 6) |
| dwarfdump2, dwarfexample, gennames, tag tables, `malloc_check.c`, `dwarf_sort_line.c`, `dwarf_string.c`, `libdwarf.h` | - | - | - | ports, build tools, debugging aids, declarations; not modelled |

Hard behaviour, by kind (the list with lines is "hazards" in `PROJECT.json`):
*failure in the middle* (malloc fails between two links, after a count was raised, or after half
of a table; a relocation fails after its section counts as loaded); *stale caches*
(`ah_last_alloc_area`, `de_info_last_offset`, `cc_last_abbrev_ptr`, the initial table of a CIE,
`die_stack`); *two lists through one link field* (`cc_next`); *numbers* (unsigned
differences narrowed to int, tables indexed from one, the form chosen by the sign of a value);
*agreement of two programs* (line programs, DIE sizes, relocation offsets, two copies of one
state machine); *walks whose position is shared* (the library's current CU, which dwarfdump's
search for a name moves).

## 2. Modules

| Module | Models | Composes |
|---|---|---|
| `StructPool` | what the allocator promises: the abstract specification | |
| `DwarfAlloc` | the chunk allocator | |
| `DwarfAllocPool` | what the library sees of it, as a `StructPool` | both |
| `DwarfAlloc_proofs` | theorems about the allocator (section 5) | `DwarfAllocPool` |
| `CuContext` | the CU walk, `dwarf_offdie`, the context lists | |
| `CuContext_proofs` | theorems about them | `CuContext` |
| `AbbrevTable` | the abbreviation hash table of one context | |
| `AbbrevTable_proofs` | theorems about it | `AbbrevTable` |
| `LineReader` | one operation of the statement program loop of `dwarf_srclines` | |
| `LinePrinter` | the same of `dwarf_print_lines` | |
| `LineProducer` | the loop over `de_lines` | |
| `LineTable` | the producer's program, or one from elsewhere, read and printed | the three |
| `LineTable_proofs` | theorems about line tables | `LineTable` |
| `DieReader` | `dwarf_siblingof`, `dwarf_child`, over the entries of one CU | |
| `DieProducer` | linking DIEs, and the three passes over the tree that write `.debug_info` | |
| `DieTree` | the producer's CU, and CUs from elsewhere, read | both |
| `DieReader_proofs` | lemmas: the reader finds its way in a CU that is well formed | `DieTree` |
| `DieTree_proofs` | theorems about it | `DieTree` |
| `SectionLoad` | `dwarf_init`, the section headers, loading and relocating on demand, `dwarf_finish` | |
| `TableReaders` | the sweeps over name tables, aranges, ranges, location lists, macros | |
| `Session` | a consumer that opens a file, asks for tables, gives answers back and finishes | both |
| `Session_proofs` | theorems about sessions | `Session` |
| `FrameRules` | `_dwarf_exec_frame_instr`, and a reference for the rule of a register | |
| `Frames` | the lists of CIEs and FDEs and every query about them | `FrameRules` |
| `ProducerMemory` | the ring of blocks of the producer | |
| `ProducerRelocs` | relocation blocks, both ways of delivery, section buffers | `ProducerMemory` |
| `ProducerDies` | attributes, expressions, `.debug_info` and `.debug_abbrev` | `ProducerRelocs` |
| `ProducerSections`, `ProducerTables` | all other sections | `ProducerDies` |
| `FormReader` | attributes and forms as the reader takes them | |
| `SectionReaders` | abbreviation queries, expressions, line headers, source files | `FormReader` |
| `AddrFinder` | the address finder over all sections | `SectionReaders` |
| `Producer` | a client of the producer, its sections read back by the reader | `ProducerTables`, `AddrFinder` |
| `DieDump` | dwarfdump's walk over units and DIEs | |
| `Dump` | dwarfdump over the members of an archive, frames and names of functions | `DieDump` |
| `MC...` | instances for TLC | |

### DwarfAlloc

A block is an address malloc may return; a chunk is a block whose `heap` owner is a type,
which stands for `aa_alloc_hdr`. A struct is `<<block, slot>>`. The free list, which the code
threads through the free structs, is the sequence `aa_free_list[block]`; `aa_blob_start` is
the slot the code's pointer is at. `_dwarf_get_alloc` is four actions, by where the struct
comes from: `GetFromFreeList`, `GetFromBlob`, `GetFromNewChunk`, `GetFails`. Each includes the
constructor (`HandOut`), which may fail. `dwarf_dealloc` is `DeallocToFreeList`,
`DeallocChunk`, `DeallocWrongType` (the header check fails and the struct is leaked) and
`DeallocDirect` (types without chunks and errors raised without a `Dwarf_Debug`). `Finish`
is `dwarf_finish`. `live` are the structs the client holds, `lost` those nobody will give
back (a failed constructor, a wrong type), `tables` those with a malloc'ed register table.
The search for a chunk (`Found`, `FirstFit`, `NoneFree`) follows `aa_next`; `Chain(b)` is the
list from `b`, written as the least closed set so that it needs no recursion.

Left out: `DWARF_SIMPLE_MALLOC` (a debugging build), the statistics, alignment.

### CuContext

The section is a constant sequence of CUs, each with its start and lengths; `CuAssumption` says that
they lie one after the other from offset 0 and that each has bytes after its header, which is what the
reader's tests of a header ask for. A context is an index into `contexts`, in
the order they were made, and `ChainOf(c)` the contexts that `cc_next` leads to from `c`, as the least
closed set. Each call of a client is one action, named for the call and how it
goes (`NextCuFound`, `NextCuRead`, `NextCuAtEnd`, `FirstDie`, `Offdie`), and the loop of
`dwarf_offdie` is one step per turn (`OffdieRead`), because memory may run out between two
turns and leave the lists as they are. `MakeDie` reads the abbreviation of the DIE, which puts
entries in the context's table. `short` remembers that memory ran out in some call.

### AbbrevTable

A lookup (`_dwarf_get_abbrev_for_code`) is a step for each entry it moves or adds. It starts by
making the table (`GetFirst`), moving it to a larger one (`GetLarger`, then `CopyEntry` for each entry
and `CopyDone`) or neither (`Get`). `Look` searches the chain of the code; if it is not there and
something is left to scan, each turn of the scan is a `ScanOne`, or a `ScanShort` when memory runs
out. `newht` is the table entries move to; between two `CopyEntry` the entries are in both tables together.
Chains are sequences of entry numbers, head first, so a move keeps the order the code gives them.
The code is cut to an `unsigned` before it is hashed (`UnsignedSize`). `Finish` goes through the
table if its count is not zero, which crashes if it has no array (section 4). No code is declared twice, which
DWARF demands and the reader does not test.

### LineReader, LineProducer, LineTable

The producer's loop has one action per `if` of its body; each writes one operation or none
and updates `prevline`, the producer's idea of the reader's registers. The reader's loop has
one action per kind of operation. An operation is a record of an opcode and a decoded operand:
LEB128 is not modelled here. `LinePrinter` is a second machine
over the same operations, with its own registers (`shown`), the row the last operation printed
(`line`) and how it goes (`reading`). It takes an address with the size of those in the object file
where the reader takes the size of the CU; whether the two are the same is `same_size`, and where not the printer is
`lost` at the first `DW_LNE_set_address`. `LineTable` reads and prints each operation in the step that writes it.
This loses nothing, since the reader's state depends only on the operations before, and it
lets finitely many states stand for tables of any length. Programs from elsewhere
(`ReadForeign`) are made of any operations, under the header of a DWARF 3 table and under the
header of a table with one more standard opcode.

`status = "lost"` says that the reader took an opcode for an operand or the other way
round. Nothing is claimed of what it reads after that, and the model stops there.

### DieReader, DieProducer, DieTree

`section` is the list of the entries of a CU: offset, size, whether it is a null, the children
flag of its abbreviation, its `DW_AT_sibling`. Sizes stand for the forms
(`_dwarf_get_size_of_val`). A turn of the loop of `dwarf_siblingof` is one step (`SiblingTurn`);
`next_die_info_ptr` is `_dwarf_next_die_info_ptr`, and `NullsAt` the inner loop that pops nulls.
`dwarf_child` is one step. Where the code has no test for the end of the CU, the model has none.

The producer's DIEs are numbers, made in order, and `Root` is the one that
`dwarf_add_die_to_debug` gets. `Link` is `dwarf_die_link` with each of its neighbours, and
`LinkRefused` a call it refuses after it has changed links. `Pass0` puts `DW_AT_sibling` on
DIEs of the first level, `Pass1` and `Climb1` fix the offsets, `Pass2` and `Climb2` write. `rows` and
`under` record what the client asked for: the lists of siblings and their parents; `beside` are the
DIEs it put after another one. `LosesDies` names the calls after which the links no longer lead to all of them.

`BeginForeign`, `ForeignDie`, `ForeignNull` and `ReadForeign` make CUs the producer never writes. They
are well formed: each list that is opened is ended inside the CU and `DW_AT_sibling` leads to the
next entry of the list. What the reader does with a CU that is not, and what a client does after a
call that was refused, is not followed.

### SectionLoad, TableReaders, Session

An object file is its section headers, in order, with the link and size that `_dwarf_setup` looks
at. `_dwarf_setup` is one loop over them: `Gathered` is a function of how many turns it has made, and each
is a `SetupSection`. A section
is `dss_index` and the other fields of `Dwarf_Section_s`; the bytes are abstracted to where they are:
nowhere, in libelf's buffer, or in a relocated copy. `_dwarf_load_section` is the whole of loading:
data, relocation records, symbols, strings, the entries, the copy; `fault` names the one of these
that fails. `OpenRefused`, `OpenFails`, `OpenNoMemory` and `OpenWorks` are the outcomes of
`dwarf_init`.

`TableReaders` has one *sweep* per kind of table: the structs it allocates, in order, what it
answers and how it ends. `Session` has one action per call. A call loads the sections it needs in
the order of the code (`ThenLoad`, `LoadsWithInfo`), sweeps, and may run out of memory after any number of
allocations; then it gives back what the code gives back at that place (`GivesBack`), and what it
does not stays in `structs`. `Dealloc` follows the release functions of the answers, which free a
context only through the first name of its set. `Close` is `dwarf_finish`: it frees what the
`Dwarf_Debug` keeps track of, and of the answers a consumer still has it leaves what was `Malloced`.
A set of address ranges has offsets as wide as its addresses or half as wide (32-bit DWARF for 64-bit
addresses, `size` "narrow"); `NarrowRead` is what the sweep for the address finder makes of the second kind.
Macros are asked for from the start of a unit, with `maximum_count` 0; what the first pass
refuses (`Inconsistent`: an unknown type, an entry cut off by the end of the section) the second never sees,
so its own tests cannot fail. A location list with an entry cut off at the end of the section is no
entry, and an expression longer than the section an error made without a `Dwarf_Debug` (`EndsSpecially`). The macro reader's stack of files
(`PushIndex`, `PopIndex`) grows by doubling from `STARTERMAX`.

### FrameRules, Frames

`FrameRules` runs a list of instructions over a row of register rules, one operator per
instruction or group of them, and stops at the first location beyond the pc as
`_dwarf_exec_frame_instr` does. Beside it stands what DWARF says a program means: `AppliesTo`
(which instructions apply to a pc), `Remembered` (which `restore_state` takes which
`remember_state`), `RuleAfter` and `CfaAfter`, each defined on the whole list at once and not by
running it; `Legal` says for which programs they are defined.

In `Frames` a section is a sequence of entries whose place stands for the offset, each with at most
one flaw at one of three places where the walk can stop. `GetFdeListDebug` and `GetFdeListEh` are the
walk (`WalkEntry`) with an allocation that may fail, the sort by `initial_location`, and the release of both
chains (`Released`) at each return where the code has it; what is still in the chains when the walk ends stays
allocated. `GetFdeInfo` is the queries for a row, which make
the initial table of the CIE the first time. The consumer may set the numbers of the CFA column and
the size of the table between calls (`SetFrameNumber`, `SetTableSize`). `Columns` is what each query says
of a rule: register and offset (`RegisterAndOffset`), all but the block, or all. `troubled` remembers that
an FDE could not be made or that instructions failed, which leave memory behind.

### ProducerMemory, ProducerRelocs, ProducerDies, ProducerSections, ProducerTables

A `Dwarf_P_Debug` is a record `d`, and a call is an operator from one to the next, with the
malloc that fails in `d.mem.left`. The bytes of a section are abstracted to *fields*: what a
field is, how many bytes it has, its value, and the symbol a relocation is to add. So lengths,
offsets, buffers and relocations are exact, and the bytes inside a field are not told apart.
`Chunk` is the macro that gets bytes in a buffer, or a new one when they do not fit.
Relocations are records in blocks (`IsFull`, `NewBlock`); `Consolidated` is what the symbolic
way does with the blocks, `RelSection` the section the stream way makes. The order of
`transform_to_disk_form` is that of the code, with each section's own early returns
(`GiveUp`).

### FormReader, SectionReaders, AddrFinder

The consumer's side of the same bytes: it takes its own sizes and its own walk from the consumer's
code, and a read that does not fall on a field of its size gives `GARBAGE`. `AddrFinder` is the
whole of `_dwarf_addr_finder` over four sections. None of them knows what the producer's modules
compute: they are given the fields only.

### Producer

The client. `given` remembers the attributes it asked for. `Clients` says for each behaviour the
configuration (sizes of address, offset and escape; stream or symbolic), which kinds of calls are
made, and how many. A client makes all its DIEs before it says something of them; nothing in the
code depends on that order. One malloc of a behaviour may fail at any place, or the client's
callback refuse one section.

### DieDump, Dump

The recursion of `print_die_and_children` is the variable `stack`, one record per active call with
the handles it owns; `die_stack` is the code's array of that name, modelled with the one entry it lacks. A handle is the
lowest free one, so a freed one is used again at once and a stale handle shows. What the library
answers is an operator on the data (`ChildOf`, `SiblingOf`, `NextCu`), as `DieTree` and `CuContext`
show it. The data of a unit are a tree in the order of the section (`InOrder`, which `RunsAssumption` demands), because
`.debug_info` is one DIE after the other, each followed by what is below it; nothing else is asked of them.
`print_die_stack`'s loop over the levels is the function `LevelsPrinted`. `Dump` adds the FDEs with the search for their names (`StartSearch` to
`NotHere`, with `search` as the recursion of `get_nested_proc_name`), which
goes on in the library's walk where the last search stopped, and the members of an
archive. `Handles` is the memory there is: a call that makes a DIE needs a free handle (`Room`), and
where none is left `NoMemory` may end the program as `print_error()` does.


## 3. Runs

| Run | Instance | Result |
|---|---|---|
| `MCDwarfAlloc` | two types (one with a constructor, two structs to a chunk; the other three), three blocks | passes |
| `MCCuContext` | three CUs of different length, offsets at their first, middle and last bytes and past the end | passes |
| `MCAbbrevTable` | five declarations out of order, four codes asked for, one of them undeclared; up to seven entries | passes |
| `MCLineTable` | entries at 0, 6 and 248, two files, three lines, two columns, both flags; every opcode from elsewhere | passes |
| `MCDieTree` | five DIEs, three with attributes; CUs of up to eight entries from elsewhere | passes |
| `MCDieTreeLost` | the same | violation |
| `MCSession` | files with one table each, sound, empty, padded or flawed, relocatable or not; every list of up to three headers; two calls, one step failing | passes |
| `MCSessionError` | the same | violation |
| `MCFrames` | every section of four entries; every program of up to two instructions, and of four about remembered states; a register table of one or two columns | passes |
| `MCProducer` | twenty kinds of clients, each with some of the calls, up to six of them, in five configurations, some with one malloc failing | passes |
| `MCProducerMacro` | the same | violation |
| `MCDump` | all trees of four DIEs (five with `-i`), units that define functions, FDEs in all orders, archives of two members; memory for five DIEs, of which only the deepest walks run out | passes |

A property that has several parts names each of them; the parts are what the following speaks of.

**MCDwarfAlloc.** Can a struct reach two owners (`Partition`), can a count drift (`CountsExact`:
`FreeCountExact`, `HoldsExact`), can a list lose or keep a chunk or the cache dangle (`ListsRight`:
`ListComplete`, `LastNotDangling`, `FinishFreesChunks`), is memory freed under a user or
taken without need (`ChunksComeAndGo`: `NeverFreedUnderUser`, `GrowsOnlyWhenFull`), and does the
whole implement `StructPool` (`ImplementsPool`: what is out, by type, changes as the pool allows).
Three blocks are what a removal from the middle of a list needs; chunks of three are what a free
list with two entries needs while the chunk stays; two types are what a block that returns as
another type needs. `MaxCount` bounds `ah_chunks_allocated`, which grows at each failed malloc. The
code uses 64 to 256 structs to a chunk; nothing in it depends on the number but the ends of the
range, and one struct to a chunk, which the code would get wrong, is excluded by an
assumption. Blocks are symmetric: no operation compares addresses.

**MCCuContext.** `CusAreReached` has `WalkInOrder`, and `ContextsRight` has `DieInItsContext`: both hold
whatever `dwarf_offdie` does between two steps of the walk, failures included. A splice of
`cc_next` may hide contexts, but never makes the walk skip a CU (`WalksOn` is what a step may do). `ReadIsFound` and
`OffdieDelivers` are stated while memory lasts: after a `dwarf_offdie` that ran out of memory in its
loop, `de_info_last_offset` is the end of the last CU it read and hides CUs the walk has read
further on (`dwarf_die_deliv.c:239`, and line 73 which trusts it). They are then read again.
`CallsReturn` is liveness: fairness is weak and only on the steps inside a call (`Inside`), because
a call runs to its end in the client's thread; no client is assumed to make another call. Three
CUs are the least with a first, a middle and a last one; a larger section adds nothing the
searches compare. In 64-bit DWARF `dwarf_offdie` does lose CUs (section 4), so `ReadIsFound` and
`OffdieDelivers` ask for `NoEscape`; the instance has no 64-bit CU, but the walk and `DieInItsContext` are
proved with them (section 5).

**MCAbbrevTable.** `LookupsRight`: scanning, moving and failing never hide or replace a
declaration (`LookupIsRight`), and nothing is read twice while memory lasts (`ReadOnce`); a scan
that ran out of memory reads declarations a second time and the table then holds two entries of
one code. `HeldStaysChained`: entries a DIE points to stay on exactly one chain, so they are
valid and freed once. It holds at every
step of a move, between the two tables too. `HT_MULTIPLE` is 1 so that five declarations move the table more
than once, `UnsignedSize` is 8 so that one code (9) is cut, and seven entries let a scan run
out of memory after two and read them again. No lookup is left half done at `MaxEntries`, but for one that a scan
stops in; that is where deadlock is not checked.

**MCLineTable.** `RegistersAgree` is the agreement of the two programs (`InStep`) and, for any
table, that after an end of sequence the registers are as at the start, but for `isa`, which the
code does not reset (`SequencesAlike`). `ReadsBack` is what the client is promised:
`RowReadsBack`, conditional on a reader that is not lost, and `NeverLost`, that ascending addresses
never lose it. `PrintsWhatIsRead`: the two copies of the state machine print and return the same
row for any program, up to the differences of section 4, and neither reads on where the other
is lost or refuses; with another address size in the CU than in the object file, only as far as the first
`DW_LNE_set_address`. Addresses and ints have 14 and 12 bits: `LineAssumption` asks only that the largest
jump (`MaxJump`) leaves room in an int, as real functions do in 32 bits. The entries lie on both
sides of the reach of a special opcode, in address (61 instructions) and in line (-1 to 2). For a
foreign table `MaxAddress` and `MaxLine` bound how far it goes.

**MCDieTree.** `ReaderIsRight` compares each answer with the tree that the nesting of the entries is
(`CallIsRight`, by `NextInList` and `ParentEntry`, read off the count of open lists), though the reader
only counts a depth and skips children by `DW_AT_sibling` where it can; `StaysInCu` is about the two
places where the end of the CU is not tested. `WriterIsRight`: references are written from offsets
that pass 1 fixed, in a loop of its own that must count the same bytes (`OffsetsAgree`), and the
written nesting is what the client linked, if it made none of the calls of `LosesDies`
(`SafeLinksAreWritten`). Five DIEs give a root, two levels below it and a list of three; eight
entries give three levels with a childless DIE marked as having children at each of them. The
program stops when the CU is read or the client gives up, so there is no deadlock check.

**MCSession.** `SetupRight`: whatever the order of the headers, `dwarf_init` knows exactly the sections
the headers describe or refuses the file, and a file that was refused leaves neither a `Dwarf_Debug` nor a
section (`SetupIsRight`, `NothingLeft`). `InfoHasAbbrev`: `.debug_info` is never loaded without
`.debug_abbrev`, in whichever order a client asks. `AnswersStayOwned`: answers point into sections
that stay where they are, relocated or not (`ListsStayValid`), nothing is given back twice, and as
long as no call failed every struct that is allocated is of an answer the client has or, after
`dwarf_finish`, did not give back (`NothingStrays`). What marks a file as DWARF and what becomes of the Elf
handle are as in the code there, which is not what the documents say (section 4).
`AnswersAreWhole` compares each answer with the table by a definition of its own: which set a name
is of, where a location list ends, where a unit of macros ends and which file a macro is in (`NamesWhole`, `RangesWhole`,
`LoclistWhole`, `MacrosWhole`). Of the offsets of address ranges it says so where every set has offsets as
wide as its addresses (`AllAlike`). One malloc or Elf call may fail per behaviour, at any place; two
calls let the second one find what the first left. `STARTERMAX` is 1 so that the stack of files
grows; the deepest macro table has three files.

**MCFrames.** `ListsDeliver`: a list a consumer has is its section, each FDE once, by address, with
the CIE its entry names (`ListsAreRight`), and the binary search finds the FDE of a pc if FDEs do not
overlap (`FoundAtPc`). `RowsDeliver`: the row for a pc is what DWARF says of the instructions as a
whole (`RowIsRight`), and a refusal has a reason in the input (`RefusedForAReason`). The row is compared as
far as the query says it (`Said`, `ToBeSaid`); programs with a block that is run as instructions
(`NoBlockIsRun`), and the CFA column of `dwarf_get_fde_info_for_reg` where the CFA is an expression (`CfaIsMisleading`), are
left out by name, and both are in the instance. `NothingStrays`: whatever
return a call ends at, each CIE and FDE that is allocated is in a list of the consumer's, unless the making of an FDE
failed before, and each remembered table was given back, unless instructions failed. A `dealloc` that is
missing at any other return breaks it. Two instructions are enough for each to meet each other one; four from five show nested and
unbalanced remembered states. `MaxFailing` is 3: the table of the call, the initial table or the
row, and what comes after either.

**MCProducer.** `RelocsAtFields`: each field that a symbol is to be added to has one relocation, of its
offset, size and symbol, and nothing else has; relocations are computed before the buffers of
`.debug_info` are filled, over several blocks, and delivered in three ways. `SectionsReadBack`: lengths, names,
ranges, source files, FDEs. `DiesReadBack`: each DIE is found at its offset with the attributes and values
it was given. `AddressesFound`: the address finder reports each address that was written and no
other. `BlocksRight`: the ring stays a ring, and nothing that was in it outlives
`dwarf_producer_finish`. `CHUNK_SIZE` is 24 bytes and two relocations fill a block, so that every
client crosses from one buffer or block to the next. Each client uses few kinds of calls
because they meet only in the sections. `KnownBeside` leaves out three combinations that are known to be wrong
(section 4): addresses and offsets of different size in `.debug_frame`, `.debug_line` and
everywhere in a stream; the 64-bit escape in `.debug_frame`; an expression that was reset. Where addresses and
offsets differ, what is read back of `.debug_info` is claimed for units without the two attributes that are written
as an address and read as an offset (`FormsFit`); clients with both sizes make them. A
`DW_FORM_ref_addr` reads back as 0, which is what the code writes and its relocation is added to.

**MCDump.** `OwnersPrinted`: every match is printed once, after its owners, in the order of the
section and at its depth. `HandlesRight`: the handles that are out are those that exactly one call,
entry of the stack or search holds. `NamesFound`: the name an FDE gets is that of a function at its
address, and a function is found unless its unit is before that of the FDE named just before, whatever
the searches did to the library's walk. `Ends` is liveness: dwarfdump is one sequential program that keeps running, so
the fairness is `WF_vars(Next)`. `DIE_STACK_SIZE` is 3 in place of 300 so that the depth check bites.

`CHECK_DEADLOCK FALSE` stands in every run but `MCCuContext`: in the others the client may stop, or
the program ends.

## 4. Where code and documentation disagree

Three runs show a disagreement ("findings" quotes the lines): DIEs that are linked and not
written (`pro_die.c:160`, `MCDieTreeLost`), an error of the relocation function that is not
delivered (`dwarf_init_finish.c:525`, `MCSessionError`), and macro definitions that end at the name
(`pro_macinfo.c:249`, `MCProducerMacro`).

The models have the rest as the code has it; each was met while modelling and is kept out of a
property where it would break one, by a condition the property names.

*Allocator, contexts, abbreviations.* `ah_chunks_allocated` is not lowered when malloc fails
(`dwarf_alloc.c:375`); a constructor is run on NULL (`:535`); `dwarf_finish` does not free the
register tables of frames that are out (`:1086`). `de_cu_context_list` also holds contexts made by
`dwarf_offdie`, against `dwarf_opaque.h:177`; `dwarf_offdie` reads again CUs that the walk has read
(`dwarf_die_deliv.c:790`), in 64-bit DWARF loses the boundaries of CUs, because it leaves the escape out
(`:809`), and its splice takes contexts off the list `dwarf_finish` goes through (`:805`). The number of
abbreviations is set before there is memory for the array, and `dwarf_finish` then reads through NULL
(`dwarf_util.c:258`). `_dwarf_string_valid` accepts a string that runs off the section
(`dwarf_util.c:363`).

*Line tables.* The operand counts of unknown opcodes are taken from the entry after theirs
(`dwarf_line.c:516`, and `dwarf_print_lines.c:356`), so a table with a new standard opcode may be
misread. A special opcode copies `epilogue_begin` into `end_sequence` (`dwarf_line.c:562`). For
a step back `_dwarf_pro_get_opc` may give a standard opcode (`pro_section.c:2101`). The `code_offset` of
`dwarf_add_line_entry` is an address (`:794`), against `libdwarf2p.1.mm:1656`. The printer's
`DW_LNS_copy` does not reset `prologue_end` and `epilogue_begin` (`dwarf_print_lines.c:406`), its row
at an end of sequence has the `is_stmt` register where the reader has the default, and it prints the
column in full where the reader keeps 16 bits. It reads the operand of `DW_LNE_set_address` with
`de_pointer_size` (`dwarf_print_lines.c:581`), the reader with the address size of the CU (`dwarf_line.c:828`, `:865`):
where they differ the printer takes operands for opcodes from there on, and what it prints then is not modelled.

*Sections and tables.* A file with `.eh_frame` or `.debug_ranges` alone is opened (`dwarf_init_finish.c:269`, `:355`);
the comment at `:136` says that it takes `.debug_info` or `.debug_frame`. `dwarf_finish` ends an Elf handle that
`dwarf_init` opened (`dwarf_elf_access.c:912`), against `libdwarf2.1.mm:1350`, which has the application end it. `dwarf_finish` does not
free what was malloced for an answer, lists, strings, addresses, ranges and location blocks (`dwarf_alloc.c:493`, `:573`,
`:1084`), against `libdwarf2.1.mm:1167`, which has it free everything. A section whose relocation failed counts as loaded, so a retry answers from
data that was not relocated (`dwarf_init_finish.c:503`); the relocations of `.eh_frame` are looked for
under a prefix they do not have (`:385`). `dwarf_loclist_n` of a block loses the block when the list
cannot be allocated. `dwarf_get_ranges` loses its list on an error. The context of a name set without
names is never given back. A failed growth of the macro reader's stack is written through
(`dwarf_macro.c`). The sweep for the address finder takes padding of `.debug_aranges` for an error,
and the comment before the first says they "must be identical in most aspects"
(`dwarf_arange.c:60`); the length of a range is read there with the size of an offset (`:422`), so ranges with 64-bit
addresses in 32-bit DWARF come out as others. A location list cut off by the end of the section is no entry,
though the comment says "If it goes past end, error" (`dwarf_loc.c:524`), as the test leaves the offset out.
`lr_offset` is behind the atom (`dwarf_loc.c:126`), against `libdwarf2.1.mm:438`.

*Frames.* `DW_CFA_val_offset_sf` does not set the register (`dwarf_frame.c:863`). The initial table of a
CIE whose instructions failed is kept, so a second query answers from it (`:1446`). A NULL CIE is read
through in `dwarf_expand_frame_instructions` (`:217`) and `dwarf_get_fde_for_die`.
`dwarf_set_frame_undefined_value` returns the old same-value number (`:2330`). The block of
`DW_CFA_expression` and `DW_CFA_def_cfa_expression` is run as instructions (`:710`).
`dwarf_get_fde_info_for_all_regs` gives a rule without its block. For the column of the CFA
`dwarf_get_fde_info_for_reg` tests the type of another rule (`:1725`) and so gives register and offset of a CFA that is an
expression, though the comment below says "We error rather than return misleading incomplete data". An FDE that cannot be made
leaves everything the walk made so far (`dwarf_frame2.c:356`), where the comment at `:911` says that CIEs and FDEs "must be
cleaned up". A register number equal to the
size of the table passes one test (`dwarf_frame.c:584`). `DW_CFA_remember_state` leaves out the CFA.

*Producer.* The value given to `dwarf_add_AT_ref_address` is not written (`pro_section.c:1772`, which says that a
relocation sets it), against `libdwarf2p.1.mm:1404`. That attribute and the one of `dwarf_add_AT_dataref` have the bytes of
an address (`pro_forms.c:194`) and are read with the size of an offset, so where these differ a reader loses its way behind
them; `libdwarf2p.1.mm:1352` promises a `DW_FORM_data4` or `DW_FORM_data8`. The third block of macro information is chained in place of the second
(`pro_macinfo.c:122`); `dwarf_start_macro_file` never completes its entry. Relocations that cannot be
stored end a section with success; some have the length of the other size (`pro_section.c:712`, the
initial location of an FDE, `DW_LNE_set_address`). Without a CIE no FDE is written, silently. The
instructions of an FDE that is not added are in no ring and leak. A file or directory for whose name
there is no memory crashes the generation. A symbolic section resets its records before it has
memory for the new block. `dwarf_expr_reset` keeps the relocation. `DW_OP_bit_piece` falls through to the
error. A range (0, 0) reads as the end of its set. Any number is taken for a directory and then
makes the table unreadable. A `DW_AT_sibling` to a DIE that is not written refers to offset 0
(`pro_section.c:1800`).

*dwarfdump.* The search for a function's name goes on where the last one stopped; an FDE whose unit
lies before it gets no name (`print_frames.c:416`, whose comment says "loop thru the list again").
The entry of `die_stack` is written before the depth is tested (`print_die.c:319`). Skipping a unit
leaks an attribute, and units skipped by `-u` leak a DIE and a range in `.debug_aranges`. The range of FDEs of
a unit is not reset between members of an archive (`print_die.c:83`).

## 5. Proofs

Every property of the run `MCDwarfAlloc` is a theorem of `DwarfAlloc` (`DwarfAlloc_proofs`), for any types, blocks and
chunk sizes that satisfy `AllocAssumption` (a chunk has at least two structs, as in the code's
table of sizes; the null pointer is no block; the owners of a block are told apart):

- `TypeCorrect`. `TypeOK` is inductive by itself.
- `InvariantHolds`. None of the other invariants is inductive alone.
  `Partition` needs the counter (that a chunk with a free struct and an empty free list has room
  in its blob) and `FreeCountExact` needs `Partition`; `FinishFreesChunks` needs every chunk to be on
  the list of its type, and taking a chunk off a list needs the links to be inverse to each other.
  `IInv` is the conjunction of `TypeOK`, `SlotInv` (slots below the blob are out or free, not both, no
  slot twice on the list), `ChunkInv` (the counter; a block that is no chunk has nothing out),
  `LinkInv` (`aa_next` and `aa_prev` inverse, within one type, the head without predecessor), `OnList`
  (every chunk is on the chain from its head), `LastNotDangling` and `FinishFreesChunks`. TLC
  checked it before the proof. There is one lemma per operation and group of conjuncts. Two
  steps carry the argument: `OnlyOneOut` counts (`AllButOne`: a free list of n - 2 distinct slots
  below n leaves one) that a chunk the code frees has no struct out but the one given back, and
  `UnlinkOnList` shows that the others stay on the chain. `NoSharedStruct`, `CountExact`,
  `CacheIsRight`, `ListsComplete` and `FinishIsComplete` follow.
- `NoEarlyGrowth` and `NoUseAfterFree`: the two action properties, from
  `IInv` and a case per kind of step.
- `AllocatorIsPool`: `Spec => Pool!Spec` under the mapping `Out`. Each of
  the three ways to find a struct is a `Take` (`FreeListHands`, `BlobHands`, `NewChunkHands`), both
  ways to give one back a `Give`, `Finish` is `GiveAll`, everything else a stutter.
- `HoldsIsExact`: with `HeldInv`, which adds that finitely many structs are out.
- `CountsAreExact`, `ListsAreRight` and `ChunksAreRight` put these together as the run
  states them.

The proofs say nothing of the bound `MaxCount` beyond `MaxCount \in Nat`; it only restricts steps.

Every property of the run `MCLineTable` is a theorem of `LineTable` (`LineTable_proofs`), for all entries, headers and
programs, and any widths that satisfy `LineAssumption`: the line range of a header is not zero (the code
divides by it), the largest jump of a client leaves room in an int, instructions have one or four bytes.
The reader's registers are machine integers, so the argument is mostly about what `%` loses. Both values of
`same_size` are in it.

- `LinesTyped`, `RegistersAlwaysAgree`, `EntriesReadBack`, `RowsPrinted`. `InStep` is not inductive: the
  producer writes an entry by up to eight operations, and in between its registers are neither those of the last
  entry nor of the next one. `IInv` says for each place in its loop which fields are there already
  (`PcInv`), that reader and producer agree at each of them (`OwnInv`), that a foreign table leaves the
  producer alone (`ForeignInv`), and how the printer's registers follow the reader's (`ShownInv`:
  equal but for the two flags that only one of them resets, `prologue_end` and
  `epilogue_begin`).
- `GetOpc` is the arithmetic: an opcode that `_dwarf_pro_get_opc` gives for an advance of address and line is
  special and makes exactly that advance, or the advance is negative. From it comes
  `NeverLost`: only a step back gets an opcode the reader takes for a standard one.
- One lemma per kind of operation says that the two readers make the same of it (`SpecialFollows` and
  the others), one per `if` of the producer's loop that the entry moves into the registers (`FileKeepsOwn`
  and the others).

The safety properties of the run `MCCuContext` are theorems of `CuContext` (`CuContext_proofs`), for
every section `CuAssumption` allows, 64-bit CUs included, and every client.

- `ContextsTyped`, `ContextsAreRight`, `CusReached`. A splice of `dwarf_offdie` takes the contexts
  that the walk made since its last turn off the list, so a CU that was read is found again only because the list
  still has another context of it. `LinkInv` is what links keep whatever fails: `cc_next` leads to
  later contexts, and from everywhere to the last one. `ReadInv` adds, while memory lasts, that the
  next context starts no later than this one ends and that no CU ends behind `de_info_last_offset`. The
  exception is the loop of `dwarf_offdie` that reads them again, where they end before the offset it is to come
  to. `OffdieInv` and `LoopInv` say that the contexts `dwarf_offdie` made lead from CU to CU up to the
  place of the loop, `DieInv` that a DIE lies in its context.
- A list is never followed in the proof. Where each context is followed by one that starts no later than
  it ends, no chain that begins before an offset in
  reach gets past it without a context that covers it (`Passed`): those that end before the offset would go on for ever, though
  `cc_next` ascends. So `FirstCovering` finds one.
- `CusReached` needs that a call which goes on has not failed (`CallsKeepCallInv`), and that an offset
  in the section is reached by the loop before the section ends.

The properties of the run `MCAbbrevTable` are theorems of `AbbrevTable` (`AbbrevTable_proofs`), for any declarations, any
order of lookups, any failing allocations and any hash width.

- `TableTyped`, `LookupsAreRight`, `HeldChained`. `IInv` has, beside the types, `TableInv`: each
  entry is on exactly one chain, of the table or of the larger one, at its hash (`Sound`), so `HeldStaysChained`
  is true of all entries, held or not; and `ScanInv`: what is before the position of the scan has an entry,
  and while memory lasts only one, and nothing after it has one. `InsertSound` and `TakeSound`
  are the two changes of a chain, `LookupFinds` what a search of a sound chain gives.

In these proofs the least element of a set of numbers is taken from `WellFoundedInduction` (`LeastNatural`), as
the theorems that take a predicate are beyond the provers. The bounds `MaxAddress`, `MaxLine` and `MaxEntries`
only restrict steps, as `MaxCount` does.

The invariants of the run `MCDump` are theorems of `Dump` (`Dump_proofs`), for any archive of any object files as
`RunsAssumption` types them, any command line, any `DIE_STACK_SIZE` and any set of handles.

- `DumpTyped`, `HandlesAlwaysRight`. A frame of the recursion owns two handles, the DIE it was called
  with and the one it is at, which may be the same one. `Owns(calls, U, h)` says of a list of such frames that the
  handles in use are theirs and those of `U`, none in two places. There is one lemma for what a call does to it: make
  a call (`Pushed`), mark its DIE (`Visited`), go on to a sibling (`Moved`), return (`Popped`), unwind
  all at once when a name is found (`Released`). `print_die_and_children()` and
  `get_nested_proc_name()` both use them. `IInv` applies `Owns` to the recursion that runs and the DIE of the
  unit, says which phase has which recursion (`PhaseInv`), and that an entry of `die_stack` is empty or has
  the DIE of the call at its level (`Mirrors`). What the library answers enters here only by its type.
- The counts of `TypeOK` need that FDEs are counted no further than they are passed (`NextFdeType`), and
  units no further than the library's walk has come (`cu_count < cu` inside the walk of one).
- `OwnersAlwaysPrinted`. `PrintedInv` is what the walk has done at any place: what was printed are exactly the DIEs due
  because of those before the place it has come to (`DueBefore(Reached)`), in order, each at its depth. It needs
  that the calls lead down the tree from the root and that the marks of `die_stack` say what was printed (`StackTells`), and that
  `cu_count` counts the units walked (`UnitsCounted`). Two facts make a step keep it: the DIEs due because of the next
  one are the ones over it in the stack that are not marked (`DueAtIs`, `DueIsPrinted`), and all of these come after whatever was
  printed, so the order holds (`DueOrder`).
- `NamesAlwaysFound`. `NamesInv` says of a running search that every call but the last is in a function
  (`SearchPath`), so what is found there stands in nothing but functions, and that no function for the FDE lies
  between the unit the search went on from and the place it has come to (`NoneBefore`). That place is the library's, `cu`, which
  other searches have moved. A DIE that is no function is passed with all below it (`PassedOver`), one that is
  looked at and not named is not it (`NotNamed`), and where the library's walk is through and starts over no unit is
  left (`NoNameThere`). The walk over the units has to have come to its end before, or the search would begin in
  the middle: `AllSearched` and the guard in `NamesFound`.
- Both rest on lemmas about the trees: the set over a DIE exists and grows by one with each parent (`OverExists`,
  `OverOne`, `OverCounts`); what stands between a DIE and the first one after it that is not below it is below it
  (`AfterIs`, `BelowIt`, `OverIsBefore`); the child that `dwarf_child` finds is the next DIE, and the sibling that `dwarf_siblingof`
  finds is that first one (`ChildFinds`, `SiblingFinds`); the DIEs of a list of calls are those over the last (`PathOver`).
  They use the order of `InOrder`; `HandlesAlwaysRight` does not.

All but one of the invariants of the run `MCSession` are theorems of `Session` (`Session_proofs`), for any object files whose
headers and tables have the types of `ObjectsAssumption` and `TablesAssumption`: any order of sections, any
number and size of sets, padded, empty or flawed, any step that fails, any number of calls.

- `SetupRightAlways`. The loop over the section headers is followed turn by turn (`GatheredInv`, `TurnRight`): what it
  knows after i headers is what these say taken together, or it has failed. `GatheredRight` is that
  for all of them; `Opened` and `NotOpened` take it to the state after `dwarf_init`.
- `InfoHasAbbrevAlways`. `LoadSectionRight` says what `_dwarf_load_section` changes, whichever of its steps
  fails: the section asked for and those of the symbols, and what has data keeps it where it is. `LoadsOnly` is the
  part of it that holds of several sections loaded in turn, and keeps the invariant.
- `AnswersStayOwnedAlways`. `ListInv` strengthens it: the structs allocated by the call of an answer are
  exactly the answer's, each as it was made, no two answers are of one call, and structs stay typed. Every
  call of a reader is brought to one form (`ReadStep`: sections are loaded, and there is one more
  answer, or none and then either a fault or nothing left), by one lemma per kind of table about what its sweep
  allocates. After `dwarf_finish` the structs that stay are those of answers that were malloced. What `_dwarf_internal_globals_dealloc` frees (`FreesRight`) needs the form of a name
  table's structs: sets in order, each with one context, before its globals, and no chain without a global
  (`NamesShape`). The loop then frees each context with the first global of its set, as the context of the
  last global is the one it has at hand (`FreesInv`), and what is never freed is the context of a set
  without names.
- `TypesRight`, from the same invariant `IInv`. TLC checked `IInv` before the proof.

`_dwarf_setup`, `FlattenSeq` and the release of globals are functions defined by recursion on a number. The library's
theorems for these take an operator and cannot be used, so each is shown to exist by the least number up to which
it would not (`GatheredExists`, `JoinedExists`, `FreesExist`), and is followed the same way.

The invariants of the run `MCDieTree` are theorems of `DieTree` (`DieTree_proofs`, on the lemmas about the
reader in `DieReader_proofs`), for any number of DIEs, any calls that link them and CUs of any length.

- `ReaderFindsItsWay`. The tree is in the bytes as a nesting only, so the proof is about `Level`, the number of
  lists that are open before an entry. In the loop, `child_depth` is the level of the pointer less that of the DIE
  it began with, and nothing it stepped over is as low as that DIE (`Looking`): where the depth comes down to 0
  is the next entry of the list (`TurnRight`). This holds in every CU that is `WellFormed`: entries without
  gaps, levels that never fall below 0 and end there, and a `DW_AT_sibling` only to the next entry
  that is no deeper (`First`). That the entries of a CU from elsewhere are so, with the references filled in at the
  end, is `WriteRight` and `FilledInRight`; that the producer's are is `FollowsWellFormed`.
- `WritesWhatWasLinked`. `Forest` says what the client means, lists of DIEs, each list below one DIE or none, and
  `Linked` that the pointers say the same. One lemma per call of `dwarf_die_link` keeps both, by three
  forms a call can have: a DIE enters a list (`Enters`), a DIE becomes the first below another
  (`Adopts`), a whole list comes below a DIE (`Topped`). That there is no circle and no DIE in two lists rests on
  `MayLink`, which is about the client: `dwarf_die_link` does not look.
  The way of a pass over the pointers is a sequence of keys (`Trail`): each the DIE or the null at hand and its
  offset, each determined by the one before (`NextKey`), so that there is one way only (`OneWay`) and
  the second pass takes the way of the first and must count the same bytes. Pass 1 has given every DIE on the
  way behind it the offset it has there (`Told`), which pass 2 finds again.
  That a DIE is passed once, after its parent and after the DIEs to its left, is `TrailDistinct`, `LeftFirst`
  and `EarlierFirst`; and that the lists which are open at a key are those of its ancestors (`TrailLevels`)
  makes the nesting of the entries the tree of the pointers (`FollowsAsLinked`) and lets the reader in.
- Where a call has lost DIEs, `Linked` is false and a list may have several ends. What no call breaks is
  `Traced`: `di_left` leads back along `di_right`, both follow the order of the lists, and `di_child` is a DIE of the list
  below. What the walk comes to is then to the right of a first child (`OnWay`), and from there `di_right` leads to one
  end only (`OrbitEnd`). So the walk still is at no DIE twice (`TracedDistinct`), no offset of pass 1 is
  overwritten, and the passes agree.
- `TypesAlwaysOK`, from the same invariant `Inv`.

A level is a function defined by recursion on the entries, shown to exist by the least number up to which it would
not (`LevelExists`).

TLC remains the only check of `CallsReturn` and `Ends`, which are liveness; of `AnswersAreWhole`, which is about the order of
the entries that `SelectSeq` and `FoldLeft` pick; and of the properties of `Frames` and the producer's
other modules.

## 6. Not modelled, and the plan

- *Bytes.* LEB128 is checked by the size of a number only; strings, augmentations and block contents are
  values. DWARF 4 forms, `DW_FORM_indirect` and `DW_FORM_strp` are left out of `FormReader`, because
  the producer writes none of them.
- *The public interface* (`libdwarf.h`, tag tables, `dwarf_names.c` and its generator) is
  declarations and tables.
- *Aids and ports:* allocation checking (`malloc_check.c`), `dwarf_sort_line.c`, the example
  programs, dwarfdump2, which repeats dwarfdump in C++.
- *dwarfdump's* other sections, its checks and its configuration files: printing and parsing.
- *Error handlers* that do not return.
- *Address sizes:* CUs, `.debug_aranges` and location lists whose addresses have another size than the object file's, but
  for the line program above. A location list whose header is cut by the end of the section, which is read past.

*`BlocksRight`* stays with TLC: the ring's own operations (`Inserted`, `Unlinked`) could be proved about, but the
producer's calls thread the memory through folds that take an operator (`Each`, `FoldLeft`), and an
induction over those is out of the provers' reach.

## 7. Reproducing

In this directory: `tlc -workers 2 -config MCCuContext.cfg MCCuContext` (and likewise each run of
`PROJECT.json`, whose `.cfg` has its name and which says which module it is of); `tlapm` on each module
whose name ends with `_proofs`. A definition whose name starts with `Bug` is the definition after it with a
mistake a programmer could make. Nothing uses it; put in the place of the right one, it makes a
property fail ("mutants").
