------------------------------ MODULE DwarfAlloc ------------------------------
(***************************************************************************)
(* The chunk allocator of one Dwarf_Debug (src/libdwarf/dwarf_alloc.c).    *)
(*                                                                         *)
(* Every allocation type with a chunk header owns a doubly linked list of  *)
(* malloc'ed chunks.  A struct comes from the free list of a chunk (LIFO)   *)
(* when it has one, or from its blob (never used before, in address        *)
(* order).  A chunk goes back to malloc when its last struct does.  Types  *)
(* without a header, and errors raised with no Dwarf_Debug, are malloc'ed  *)
(* one by one.                                                             *)
(*                                                                         *)
(* A block is the address of one malloc'ed region; a struct of a chunk is  *)
(* <<block, slot>>.  malloc may fail at any call and may return any block  *)
(* that is not in use.                                                     *)
(*                                                                         *)
(* A definition whose name starts with Bug is the next definition with a   *)
(* plausible mistake in it; nothing uses it, it shows that a property can  *)
(* fail.                                                                   *)
(***************************************************************************)
EXTENDS Integers, Sequences, FiniteSets

CONSTANTS Types,        \* DW_DLA_* types with a chunk header
          Constructed,  \* those with a specialconstructor (DW_DLA_FRAME)
          Blocks,       \* addresses malloc may return
          ah_structs_per_chunk,  \* of each type
          MaxCount,     \* bound on ah_chunks_allocated, for TLC
          Null, Unused, Direct, Special

Owners == Types \cup {Unused, Direct, Special}

(* ia_base_count is 64, 128 or 256: with 1 the first chunk would be refused *)
(* (dwarf_alloc.c, "free structs in chunk").                                *)
ASSUME AllocAssumption ==
  /\ Constructed \subseteq Types
  /\ ah_structs_per_chunk \in [Types -> Nat \ {0, 1}]
  /\ MaxCount \in Nat
  /\ Null \notin Blocks
  /\ {Unused, Direct, Special} \cap Types = {}
  /\ Unused # Direct /\ Unused # Special /\ Direct # Special

VARIABLES
  status,                    \* of the Dwarf_Debug: "closed", "open", "crashed"
  heap,                      \* heap[b]: what block b is malloc'ed for; a chunk's
                             \* owner is its aa_alloc_hdr
  ah_alloc_area_head, ah_last_alloc_area,
  ah_struct_user_holds, ah_chunks_allocated,
  aa_next, aa_prev, aa_free_structs_in_chunk, aa_free_list, aa_blob_start,
  live,                      \* structs the caller holds
  lost,                      \* structs nobody will give back any more
  tables                     \* structs whose fr_reg is malloc'ed

headers == <<ah_alloc_area_head, ah_last_alloc_area, ah_struct_user_holds,
             ah_chunks_allocated>>
areas   == <<aa_next, aa_prev, aa_free_structs_in_chunk, aa_free_list,
             aa_blob_start>>
users   == <<live, lost, tables>>
vars    == <<status, heap, headers, areas, users>>

(* Slots are numbered in address order.                                    *)
Slots == Nat \ {0}
Structs == Blocks \X Slots

-------------------------------------------------------------------------------
(* _dwarf_find_memory(): the search for a chunk with a free struct.        *)

(* The blocks on the aa_next chain that starts at b.                       *)
Chain(b) ==
  {c \in Blocks : \A S \in SUBSET Blocks :
       b \in S \cup {Null} /\ (\A d \in S : aa_next[d] \in S \cup {Null})
         => c \in S}

HasFree(a) == aa_free_structs_in_chunk[a] # 0

LastHasFree(t) ==
  ah_last_alloc_area[t] # Null /\ HasFree(ah_last_alloc_area[t])

(* The first chunk of the list with a free struct: the others are after it. *)
FirstFit(t) ==
  {a \in Chain(ah_alloc_area_head[t]) :
     /\ HasFree(a)
     /\ \A c \in Chain(ah_alloc_area_head[t]) : HasFree(c) => c \in Chain(a)}

(* The chunk the next struct of type t comes from, when a chunk has one.   *)
Found(t) == IF LastHasFree(t) THEN {ah_last_alloc_area[t]} ELSE FirstFit(t)

BugOnlyLast(t) == ~LastHasFree(t)

(* The search went through the whole list.                                 *)
NoneFree(t) ==
  ~LastHasFree(t) /\ \A a \in Chain(ah_alloc_area_head[t]) : ~HasFree(a)

-------------------------------------------------------------------------------
(* Changes of the chunk list.                                              *)

PushHead(t, b) ==
  LET h == ah_alloc_area_head[t]
  IN /\ ah_alloc_area_head' = [ah_alloc_area_head EXCEPT ![t] = b]
     /\ aa_next' = [aa_next EXCEPT ![b] = h]
     /\ aa_prev' = [c \in Blocks |-> IF c = b THEN Null
                                     ELSE IF c = h THEN b ELSE aa_prev[c]]

(* Take a out of its list; the memset before free() clears its own links.  *)
Unlink(t, a) ==
  LET p == aa_prev[a]
      n == aa_next[a]
  IN /\ ah_alloc_area_head' =
          [ah_alloc_area_head EXCEPT ![t] = IF p = Null THEN n ELSE @]
     /\ aa_next' = [c \in Blocks |-> IF c = a THEN Null
                                     ELSE IF c = p THEN n ELSE aa_next[c]]
     /\ aa_prev' = [c \in Blocks |-> IF c = a THEN Null
                                     ELSE IF c = n THEN p ELSE aa_prev[c]]

BugKeepLast(t, a) == ah_last_alloc_area[t]

(* ah_last_alloc_area when chunk a of type t goes back to malloc.          *)
LastWithout(t, a) == IF ah_last_alloc_area[t] = a THEN Null
                     ELSE ah_last_alloc_area[t]

-------------------------------------------------------------------------------
(* The state after dwarf_init(): _dwarf_get_debug() zeroes the Dwarf_Debug *)
(* and _dwarf_setup_debug() only sets the sizes.                           *)
ZeroHeaders(p, n) ==
  /\ ah_alloc_area_head' = p /\ ah_last_alloc_area' = p
  /\ ah_struct_user_holds' = n /\ ah_chunks_allocated' = n

NoPointer == [t \in Types |-> Null]
NoCount   == [t \in Types |-> 0]

Init ==
  /\ status = "closed"
  /\ heap = [b \in Blocks |-> Unused]
  /\ ah_alloc_area_head = NoPointer /\ ah_last_alloc_area = NoPointer
  /\ ah_struct_user_holds = NoCount /\ ah_chunks_allocated = NoCount
  /\ aa_next = [b \in Blocks |-> Null] /\ aa_prev = [b \in Blocks |-> Null]
  /\ aa_free_structs_in_chunk = [b \in Blocks |-> 0]
  /\ aa_free_list = [b \in Blocks |-> <<>>]
  /\ aa_blob_start = [b \in Blocks |-> 1]
  /\ live = {} /\ lost = {} /\ tables = {}

Open ==
  /\ status = "closed" /\ status' = "open"
  /\ ZeroHeaders(NoPointer, NoCount)
  /\ UNCHANGED <<heap, areas, users>>

(* _dwarf_get_alloc() after _dwarf_find_memory() gave it struct s.  When    *)
(* the constructor cannot calloc fr_reg the struct is leaked.              *)
HandOut(t, s) ==
  \/ /\ live' = live \cup {s}
     /\ tables' = IF t \in Constructed THEN tables \cup {s} ELSE tables
     /\ lost' = lost
  \/ /\ t \in Constructed
     /\ lost' = lost \cup {s}
     /\ UNCHANGED <<live, tables>>

(* Common to the three places a struct may come from.                      *)
Count(t, a) ==
  /\ ah_last_alloc_area' = [ah_last_alloc_area EXCEPT ![t] = a]
  /\ ah_struct_user_holds' = [ah_struct_user_holds EXCEPT ![t] = @ + 1]

(* aa_blob_end: the last slot of a chunk.                                  *)
BlobEnd(a) == ah_structs_per_chunk[heap[a]]

BugNoPop(a) == aa_free_list[a]

RestOfFreeList(a) == Tail(aa_free_list[a])

GetFromFreeList(t) ==
  /\ status = "open"
  /\ \E a \in Found(t) :
       /\ aa_free_list[a] # <<>>
       /\ HandOut(t, <<a, Head(aa_free_list[a])>>)
       /\ aa_free_list' = [aa_free_list EXCEPT ![a] = RestOfFreeList(a)]
       /\ aa_free_structs_in_chunk' =
            [aa_free_structs_in_chunk EXCEPT ![a] = @ - 1]
       /\ Count(t, a)
  /\ UNCHANGED <<status, heap, ah_alloc_area_head, ah_chunks_allocated,
                 aa_next, aa_prev, aa_blob_start>>

GetFromBlob(t) ==
  /\ status = "open"
  /\ \E a \in Found(t) :
       /\ aa_free_list[a] = <<>>
       /\ aa_blob_start[a] <= BlobEnd(a)
       /\ HandOut(t, <<a, aa_blob_start[a]>>)
       /\ aa_blob_start' = [aa_blob_start EXCEPT ![a] = @ + 1]
       /\ aa_free_structs_in_chunk' =
            [aa_free_structs_in_chunk EXCEPT ![a] = @ - 1]
       /\ Count(t, a)
  /\ UNCHANGED <<status, heap, ah_alloc_area_head, ah_chunks_allocated,
                 aa_next, aa_prev, aa_free_list>>

(* The first struct of a new chunk is handed out at once.                  *)
FreeInNewChunk(t) == ah_structs_per_chunk[t] - 1

(* No free struct: malloc a chunk and hand out its first struct.           *)
GetFromNewChunk(t) ==
  /\ status = "open"
  /\ NoneFree(t) /\ ah_chunks_allocated[t] < MaxCount
  /\ ah_chunks_allocated' = [ah_chunks_allocated EXCEPT ![t] = @ + 1]
  /\ \E b \in Blocks :
       /\ heap[b] = Unused
       /\ heap' = [heap EXCEPT ![b] = t]
       /\ PushHead(t, b)
       /\ aa_free_list' = [aa_free_list EXCEPT ![b] = <<>>]
       /\ aa_free_structs_in_chunk' =
            [aa_free_structs_in_chunk EXCEPT ![b] = FreeInNewChunk(t)]
       /\ aa_blob_start' = [aa_blob_start EXCEPT ![b] = 2]
       /\ HandOut(t, <<b, 1>>)
       /\ Count(t, b)
  /\ UNCHANGED status

(* malloc fails.  The count was already raised; _dwarf_find_memory()        *)
(* returns NULL, which a specialconstructor then dereferences.             *)
GetFails(t) ==
  /\ status = "open"
  /\ NoneFree(t) /\ ah_chunks_allocated[t] < MaxCount
  /\ ah_chunks_allocated' = [ah_chunks_allocated EXCEPT ![t] = @ + 1]
  /\ status' = IF t \in Constructed THEN "crashed" ELSE status
  /\ UNCHANGED <<heap, ah_alloc_area_head, ah_last_alloc_area,
                 ah_struct_user_holds, areas, users>>

-------------------------------------------------------------------------------
(* dwarf_dealloc() of a struct of a chunk.                                 *)

BugTooEarly(a) == aa_free_structs_in_chunk[a] + 2 = BlobEnd(a)

(* With s the last struct out of its chunk, the chunk goes back to malloc.  *)
IsLastOut(a) == aa_free_structs_in_chunk[a] + 1 = BlobEnd(a)

BugNoDestructor(s) ==
  /\ status = "open" /\ s \in live
  /\ live' = live \ {s} /\ tables' = tables
  /\ ah_struct_user_holds' =
       [ah_struct_user_holds EXCEPT ![heap[s[1]]] = @ - 1]
  /\ UNCHANGED <<status, lost>>

Dealloc(s) ==
  /\ status = "open" /\ s \in live
  /\ live' = live \ {s} /\ tables' = tables \ {s}
  /\ ah_struct_user_holds' =
       [ah_struct_user_holds EXCEPT ![heap[s[1]]] = @ - 1]
  /\ UNCHANGED <<status, lost>>

DeallocToFreeList(s) ==
  /\ Dealloc(s) /\ ~IsLastOut(s[1])
  /\ aa_free_structs_in_chunk' =
       [aa_free_structs_in_chunk EXCEPT ![s[1]] = @ + 1]
  /\ aa_free_list' = [aa_free_list EXCEPT ![s[1]] = <<s[2]>> \o @]
  /\ UNCHANGED <<heap, ah_alloc_area_head, ah_last_alloc_area,
                 ah_chunks_allocated, aa_next, aa_prev, aa_blob_start>>

DeallocChunk(s) ==
  LET a == s[1]
      t == heap[a]
  IN /\ Dealloc(s) /\ IsLastOut(a)
     /\ Unlink(t, a)
     /\ ah_chunks_allocated' = [ah_chunks_allocated EXCEPT ![t] = @ - 1]
     /\ ah_last_alloc_area' =
          [ah_last_alloc_area EXCEPT ![t] = LastWithout(t, a)]
     /\ heap' = [heap EXCEPT ![a] = Unused]
     /\ aa_free_structs_in_chunk' = [aa_free_structs_in_chunk EXCEPT ![a] = 0]
     /\ aa_free_list' = [aa_free_list EXCEPT ![a] = <<>>]
     /\ aa_blob_start' = [aa_blob_start EXCEPT ![a] = 1]

BugCountFirst(s, t) ==
  /\ status = "open" /\ s \in live
  /\ t \in Types \ Constructed /\ t # heap[s[1]]
  /\ live' = live \ {s} /\ lost' = lost \cup {s}
  /\ ah_struct_user_holds' = [ah_struct_user_holds EXCEPT ![t] = @ - 1]
  /\ UNCHANGED <<status, heap, ah_alloc_area_head, ah_last_alloc_area,
                 ah_chunks_allocated, areas, tables>>

(* The caller names another type: the header check fails and the struct is *)
(* leaked.  (A type with a destructor would run it on the wrong struct:    *)
(* that caller error is left out.)                                         *)
DeallocWrongType(s, t) ==
  /\ status = "open" /\ s \in live
  /\ t \in Types \ Constructed /\ t # heap[s[1]]
  /\ live' = live \ {s} /\ lost' = lost \cup {s}
  /\ UNCHANGED <<status, heap, headers, areas, tables>>

-------------------------------------------------------------------------------
(* Memory that does not come from chunks.                                  *)

(* Types of index 0: DW_DLA_STRING, DW_DLA_LIST, DW_DLA_FRAME_BLOCK, ...    *)
GetDirect(b) ==
  /\ status = "open" /\ heap[b] = Unused
  /\ heap' = [heap EXCEPT ![b] = Direct]
  /\ UNCHANGED <<status, headers, areas, users>>

(* _dwarf_special_no_dbg_error_malloc(): an error with no usable dbg.       *)
GetSpecialError(b) ==
  /\ status # "crashed" /\ heap[b] = Unused
  /\ heap' = [heap EXCEPT ![b] = Special]
  /\ UNCHANGED <<status, headers, areas, users>>

(* dwarf_dealloc() knows a special error by its zero prefix, and then needs *)
(* no dbg; any other type needs one.                                       *)
DeallocDirect(b) ==
  /\ \/ heap[b] = Direct /\ status = "open"
     \/ heap[b] = Special /\ status # "crashed"
  /\ heap' = [heap EXCEPT ![b] = Unused]
  /\ UNCHANGED <<status, headers, areas, users>>

-------------------------------------------------------------------------------
(* _dwarf_free_all_of_one_debug(), from dwarf_finish(): frees every chunk   *)
(* on a list, without destructors (the register tables of frames that are   *)
(* still out are never freed), and nothing that was malloc'ed directly.    *)
(* What the caller holds is no longer valid.                               *)
Finish ==
  LET freed == UNION {Chain(ah_alloc_area_head[t]) : t \in Types}
      Reset(f, v) == [b \in Blocks |-> IF b \in freed THEN v ELSE f[b]]
  IN /\ status = "open" /\ status' = "closed"
     /\ heap' = Reset(heap, Unused)
     /\ ZeroHeaders(NoPointer, NoCount)
     /\ aa_next' = Reset(aa_next, Null) /\ aa_prev' = Reset(aa_prev, Null)
     /\ aa_free_structs_in_chunk' = Reset(aa_free_structs_in_chunk, 0)
     /\ aa_free_list' = Reset(aa_free_list, <<>>)
     /\ aa_blob_start' = Reset(aa_blob_start, 1)
     /\ live' = {} /\ lost' = {} /\ tables' = {}

Next ==
  \/ Open \/ Finish
  \/ \E t \in Types : \/ GetFromFreeList(t) \/ GetFromBlob(t)
                      \/ GetFromNewChunk(t) \/ GetFails(t)
  \/ \E s \in live : \/ DeallocToFreeList(s) \/ DeallocChunk(s)
                     \/ \E t \in Types : DeallocWrongType(s, t)
  \/ \E b \in Blocks : GetDirect(b) \/ GetSpecialError(b) \/ DeallocDirect(b)

Spec == Init /\ [][Next]_vars

-------------------------------------------------------------------------------
(* Properties.                                                             *)

OutOf(a) == {s \in live \cup lost : s[1] = a}
FreeSlots(a) == {aa_free_list[a][i] : i \in DOMAIN aa_free_list[a]}

HeaderTypes ==
  /\ ah_alloc_area_head \in [Types -> Blocks \cup {Null}]
  /\ ah_last_alloc_area \in [Types -> Blocks \cup {Null}]
  /\ ah_struct_user_holds \in [Types -> Int]
  /\ ah_chunks_allocated \in [Types -> Int]

LinkTypes ==
  /\ aa_next \in [Blocks -> Blocks \cup {Null}]
  /\ aa_prev \in [Blocks -> Blocks \cup {Null}]

SpaceTypes ==
  /\ aa_free_structs_in_chunk \in [Blocks -> Int]
  /\ aa_free_list \in [Blocks -> Seq(Slots)]
  /\ aa_blob_start \in [Blocks -> Slots]

UserTypes ==
  /\ status \in {"closed", "open", "crashed"}
  /\ heap \in [Blocks -> Owners]
  /\ live \subseteq Structs /\ lost \subseteq Structs
  /\ tables \subseteq live \cup lost

(* Every variable has its type; a register table belongs to a struct that  *)
(* is out (the destructor runs when it is given back).                     *)
TypeOK == HeaderTypes /\ LinkTypes /\ SpaceTypes /\ UserTypes

(* The slots of a chunk below its blob are either out or on its free list,  *)
(* never both and never twice on the list: no struct can reach two owners.  *)
Partition ==
  \A b \in Blocks :
    /\ \A i, j \in DOMAIN aa_free_list[b] :
         aa_free_list[b][i] = aa_free_list[b][j] => i = j
    /\ FreeSlots(b) \subseteq 1..(aa_blob_start[b] - 1)
    /\ {s[2] : s \in OutOf(b)} = 1..(aa_blob_start[b] - 1) \ FreeSlots(b)
    /\ heap[b] \notin Types => aa_blob_start[b] = 1
  /\ live \cap lost = {}

(* aa_free_structs_in_chunk "includes both those on the free list, and in   *)
(* the blob" (dwarf_alloc.h): with it right, the fall through that           *)
(* _dwarf_find_memory() calls impossible cannot happen, and no full chunk    *)
(* is kept and no chunk with a struct out is freed.                        *)
FreeCountExact ==
  \A b \in Blocks : heap[b] \in Types =>
    aa_free_structs_in_chunk[b] =
      Len(aa_free_list[b]) + (BlobEnd(b) + 1 - aa_blob_start[b])

(* ah_last_alloc_area never points at a chunk that went back to malloc, or  *)
(* that has come back for another type.                                    *)
LastNotDangling ==
  \A t \in Types : ah_last_alloc_area[t] # Null =>
    heap[ah_last_alloc_area[t]] = t /\ status # "closed"

(* Every chunk of a type is on the list of its header, and nothing else is: *)
(* a chunk off the list would never be searched nor freed.                 *)
ListComplete ==
  status = "open" =>
    \A t \in Types : /\ Chain(ah_alloc_area_head[t]) = {b \in Blocks : heap[b] = t}
                     /\ \A b \in Chain(ah_alloc_area_head[t]) :
                          aa_next[b] # Null => aa_prev[aa_next[b]] = b

(* ah_struct_user_holds is the "actual number of structs user app holds     *)
(* pointers to", those lost to it included.                                *)
HoldsExact ==
  status = "open" =>
    \A t \in Types : ah_struct_user_holds[t] =
      Cardinality({s \in live \cup lost : heap[s[1]] = t})

(* dwarf_finish() leaves no chunk behind, whatever was lost before.         *)
FinishFreesChunks == status = "closed" => \A b \in Blocks : heap[b] \notin Types

(* A chunk is malloc'ed only when no chunk of the type has a free struct.   *)
GrowsOnlyWhenFull ==
  [][\A t \in Types, b \in Blocks :
        heap[b] # t /\ heap'[b] = t =>
          \A c \in Blocks : heap[c] = t => OutOf(c) = {c} \X (1..BlobEnd(c))]_vars

(* While the Dwarf_Debug is open, a chunk is freed with the last struct     *)
(* that was out of it, and no struct that is out changes its type.         *)
NeverFreedUnderUser ==
  [][status' = "open" =>
       \A s \in (live \cup lost) \cap (live' \cup lost') : heap'[s[1]] = heap[s[1]]]_vars

(* The two counters are what they say they count.                           *)
CountsExact == FreeCountExact /\ HoldsExact

(* The lists and the cache lead to the chunks there are, no more and no less,  *)
(* so that dwarf_finish() finds them all.                                   *)
ListsRight == ListComplete /\ LastNotDangling /\ FinishFreesChunks

(* Chunks are made when they must be and freed when they may be.             *)
ChunksComeAndGo == GrowsOnlyWhenFull /\ NeverFreedUnderUser
===============================================================================
