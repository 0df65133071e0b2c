------------------------------ MODULE AbbrevTable ------------------------------
(***************************************************************************)
(* The abbreviation hash table of one CU context                           *)
(* (src/libdwarf/dwarf_util.c, _dwarf_get_abbrev_for_code()).              *)
(*                                                                         *)
(* A lookup that misses scans .debug_abbrev on from where the last scan    *)
(* stopped, and puts every abbreviation it passes into the table; a lookup *)
(* that finds the table crowded first moves it to a larger one.  Memory    *)
(* may run out at each allocation.  A DIE keeps a pointer to the entry it  *)
(* was given.                                                              *)
(*                                                                         *)
(* A lookup is a step for each entry it moves or adds.  A chain of entries  *)
(* linked by ab_next is a sequence, head first.                            *)
(*                                                                         *)
(* A definition whose name starts with Bug is the next definition with a   *)
(* plausible mistake in it; nothing uses it, it shows that a property can  *)
(* fail.                                                                   *)
(***************************************************************************)
EXTENDS Naturals, Sequences, FiniteSets

CONSTANTS Abbrevs,      \* the codes in .debug_abbrev for this CU, in order
          Codes,        \* the codes DIEs ask for
          HT_MULTIPLE,
          UnsignedSize, \* 2^32: a code is cut to an unsigned before it is hashed
          MaxEntries    \* bound on the entries made, for TLC

ASSUME AbbrevAssumption ==
  /\ Abbrevs \in Seq(Nat \ {0})
  /\ \A i, j \in 1..Len(Abbrevs) : Abbrevs[i] = Abbrevs[j] => i = j
  /\ Codes \subseteq Nat \ {0}
  /\ HT_MULTIPLE \in Nat \ {0} /\ UnsignedSize \in Nat \ {0}
  /\ MaxEntries \in Nat

VARIABLES
  entries,                \* every Dwarf_Abbrev_List allocated: <<[ab_code, ab_abbrev_ptr], ...>>
  tb_entries,             \* the chains of the table; <<>> is NULL
  tb_table_entry_count, tb_total_abbrev_count,
  newht,                  \* the larger table, while entries move there from tb_entries
  cc_last_abbrev_ptr,     \* the first abbreviation not scanned yet
  abbrev_ptr,             \* where a scan is
  pc,                     \* "open", in a lookup "copy", "look" or "scan", and at the
                          \* end "finished" or "crashed"
  code, answer,           \* the last lookup, and its entry or NULL
  short,                  \* it ran out of memory
  lasted,                 \* memory has not run out yet
  held                    \* entries that DIEs point to

base  == <<tb_entries, tb_table_entry_count, tb_total_abbrev_count>>
scan  == <<cc_last_abbrev_ptr, abbrev_ptr>>
result == <<answer, short, lasted, held>>
vars  == <<entries, base, newht, scan, pc, code, result>>

NULL == 0
NoTable == [tb_entries |-> <<>>, tb_total_abbrev_count |-> 0]

Init ==
  /\ entries = <<>> /\ tb_entries = <<>>
  /\ tb_table_entry_count = 0 /\ tb_total_abbrev_count = 0
  /\ newht = NoTable
  /\ cc_last_abbrev_ptr = 1 /\ abbrev_ptr = 1
  /\ pc = "open" /\ code = 0
  /\ answer = NULL /\ short = FALSE /\ lasted = TRUE /\ held = {}

-------------------------------------------------------------------------------
(* The chains.                                                             *)

Hash(c, count) == (c % UnsignedSize) % count

NoChains(count) == [h \in 1..count |-> <<>>]

(* Put entry e, with code c, at the head of its chain.                      *)
Insert(chains, e, c) ==
  [chains EXCEPT ![Hash(c, Len(chains)) + 1] = <<e>> \o @]

(* The entry with code c in its chain, the newest first.                    *)
Lookup(chains, c) ==
  LET chain == chains[Hash(c, Len(chains)) + 1]
      match == {i \in 1..Len(chain) : entries[chain[i]].ab_code = c}
  IN IF match = {} THEN NULL
     ELSE chain[CHOOSE i \in match : \A j \in match : i <= j]

Crowded == tb_total_abbrev_count > tb_table_entry_count * HT_MULTIPLE

-------------------------------------------------------------------------------
(* A lookup that ends, with entry e, or for want of memory.                  *)
Answer(e) ==
  /\ pc' = "open" /\ answer' = e /\ short' = FALSE
  /\ held' = IF e = NULL THEN held ELSE held \cup {e}
  /\ UNCHANGED lasted

Short == /\ pc' = "open" /\ answer' = NULL /\ short' = TRUE /\ lasted' = FALSE
         /\ UNCHANGED held

(* The first lookup makes the table.  Its count is set before the chains    *)
(* are allocated.                                                          *)
GetFirst(c) ==
  /\ pc = "open" /\ tb_entries = <<>>
  /\ code' = c
  /\ tb_table_entry_count' = HT_MULTIPLE /\ tb_total_abbrev_count' = 0
  /\ \/ tb_entries' = NoChains(HT_MULTIPLE) /\ pc' = "look" /\ UNCHANGED result
     \/ Short /\ UNCHANGED tb_entries
  /\ UNCHANGED <<entries, newht, scan>>

(* The table is crowded: a larger one, or the old table stays.              *)
GetLarger(c) ==
  /\ pc = "open" /\ tb_entries # <<>> /\ Crowded
  /\ code' = c
  /\ \/ /\ newht' = [tb_entries |-> NoChains(tb_total_abbrev_count),
                     tb_total_abbrev_count |-> 0]
        /\ pc' = "copy" /\ UNCHANGED result
     \/ Short /\ UNCHANGED newht
  /\ UNCHANGED <<entries, base, scan>>

Get(c) ==
  /\ pc = "open" /\ tb_entries # <<>> /\ ~Crowded
  /\ code' = c /\ pc' = "look"
  /\ UNCHANGED <<entries, base, newht, scan, result>>

(* nextlistent would be read when listent is linked to its new chain.       *)
BugNextOf(chain) == <<>>

(* What is left of a chain when its first entry has been moved.             *)
NextOf(chain) == Tail(chain)

(* copy_abbrev_table_to_new_table(): an entry moves to its new chain.        *)
CopyEntry ==
  LET left == {h \in 1..Len(tb_entries) : tb_entries[h] # <<>>}
      k    == CHOOSE h \in left : \A g \in left : h <= g
      e    == Head(tb_entries[k])
  IN /\ pc = "copy" /\ left # {}
     /\ tb_entries' = [tb_entries EXCEPT ![k] = NextOf(@)]
     /\ newht' = [tb_entries |-> Insert(newht.tb_entries, e, entries[e].ab_code),
                  tb_total_abbrev_count |-> newht.tb_total_abbrev_count + 1]
     /\ UNCHANGED <<entries, tb_table_entry_count, tb_total_abbrev_count, scan, pc, code, result>>

BugNewCount == tb_table_entry_count

NewCount == Len(newht.tb_entries)

CopyDone ==
  /\ pc = "copy" /\ \A h \in 1..Len(tb_entries) : tb_entries[h] = <<>>
  /\ tb_entries' = newht.tb_entries
  /\ tb_table_entry_count' = NewCount
  /\ tb_total_abbrev_count' = newht.tb_total_abbrev_count
  /\ newht' = NoTable
  /\ pc' = "look"
  /\ UNCHANGED <<entries, scan, code, result>>

(* The chain of the code has it, or the scan goes on, unless at its end.     *)
Look ==
  LET e == Lookup(tb_entries, code)
  IN /\ pc = "look"
     /\ \/ /\ e # NULL \/ cc_last_abbrev_ptr > Len(Abbrevs)
           /\ Answer(e) /\ UNCHANGED abbrev_ptr
        \/ /\ e = NULL /\ cc_last_abbrev_ptr <= Len(Abbrevs)
           /\ abbrev_ptr' = cc_last_abbrev_ptr /\ pc' = "scan" /\ UNCHANGED result
     /\ UNCHANGED <<entries, base, newht, cc_last_abbrev_ptr, code>>

BugAfterStop == abbrev_ptr

(* Where the next scan starts.                                             *)
AfterStop == abbrev_ptr + 1

(* The abbreviation at abbrev_ptr is added; at the code, or the last one,    *)
(* the scan stops.                                                         *)
ScanOne ==
  LET n == Len(entries) + 1
      c == Abbrevs[abbrev_ptr]
  IN /\ pc = "scan" /\ n <= MaxEntries
     /\ entries' = Append(entries, [ab_code |-> c, ab_abbrev_ptr |-> abbrev_ptr])
     /\ tb_entries' = Insert(tb_entries, n, c)
     /\ tb_total_abbrev_count' = tb_total_abbrev_count + 1
     /\ abbrev_ptr' = abbrev_ptr + 1
     /\ \/ /\ abbrev_ptr < Len(Abbrevs) /\ c # code
           /\ UNCHANGED <<cc_last_abbrev_ptr, pc, result>>
        \/ /\ abbrev_ptr = Len(Abbrevs) \/ c = code
           /\ cc_last_abbrev_ptr' = AfterStop
           /\ Answer(IF c = code THEN n ELSE NULL)
     /\ UNCHANGED <<tb_table_entry_count, newht, code>>

(* No memory for an entry: what was added stays, but where the scan was is  *)
(* not saved.                                                              *)
ScanShort ==
  /\ pc = "scan" /\ Short
  /\ UNCHANGED <<entries, base, newht, scan, code>>

(* _dwarf_free_abbrev_hash_table_contents() goes through the chains of a    *)
(* table that has a count.                                                 *)
Finish ==
  /\ pc = "open"
  /\ pc' = IF tb_entries = <<>> /\ tb_table_entry_count # 0 THEN "crashed" ELSE "finished"
  /\ UNCHANGED <<entries, base, newht, scan, code, result>>

Inside == CopyEntry \/ CopyDone \/ Look \/ ScanOne \/ ScanShort

Next ==
  \/ \E c \in Codes : GetFirst(c) \/ GetLarger(c) \/ Get(c)
  \/ Inside
  \/ Finish

Spec == Init /\ [][Next]_vars

-------------------------------------------------------------------------------
(* Properties.                                                             *)

(* The entries on a chain, of the table or of the one they move to.          *)
On(chains) == UNION {{chains[h][i] : i \in 1..Len(chains[h])} : h \in 1..Len(chains)}

(* The variables have their types, and the counts agree with the chains:    *)
(* the count decides when the table moves, and its new size.               *)
TypeOK ==
  /\ \A e \in 1..Len(entries) :
       /\ entries[e].ab_abbrev_ptr \in 1..Len(Abbrevs)
       /\ Abbrevs[entries[e].ab_abbrev_ptr] = entries[e].ab_code
  /\ tb_entries # <<>> => Len(tb_entries) = tb_table_entry_count
  /\ pc # "copy" => tb_total_abbrev_count = Cardinality(On(tb_entries))
  /\ newht.tb_total_abbrev_count = Cardinality(On(newht.tb_entries))
  /\ cc_last_abbrev_ptr \in 1..(Len(Abbrevs) + 1)
  /\ answer \in 0..Len(entries) /\ held \subseteq 1..Len(entries)
  /\ {short, lasted} \subseteq BOOLEAN
  /\ pc \in {"open", "copy", "look", "scan", "finished", "crashed"}

Declared == {Abbrevs[i] : i \in 1..Len(Abbrevs)}

(* A lookup answers with the abbreviation .debug_abbrev has for the code,   *)
(* and with NULL only when it has none: what earlier lookups scanned, moved *)
(* or failed to add never hides or replaces a declaration.                 *)
LookupIsRight ==
  pc = "open" /\ code # 0 /\ ~short =>
    IF code \in Declared
    THEN answer # NULL /\ Abbrevs[entries[answer].ab_abbrev_ptr] = code
    ELSE answer = NULL

(* "any given Dwarf_Abbrev_list entry never moves once allocated, so the    *)
(* pointer is safe to return": at every step of a move of the table an      *)
(* entry a DIE points to is on one chain, once, so that it will be freed,   *)
(* and not twice.                                                          *)
Tables == <<tb_entries, newht.tb_entries>>

IsAt(e, t, h, i) ==
  /\ t \in 1..2 /\ h \in 1..Len(Tables[t]) /\ i \in 1..Len(Tables[t][h])
  /\ Tables[t][h][i] = e

HeldStaysChained ==
  \A e \in held :
    /\ \E t \in 1..2 : \E h \in 1..Len(Tables[t]) : \E i \in 1..Len(Tables[t][h]) :
         IsAt(e, t, h, i)
    /\ \A t, u \in 1..2 :
         \A h \in 1..Len(Tables[t]), g \in 1..Len(Tables[u]) :
           \A i \in 1..Len(Tables[t][h]), j \in 1..Len(Tables[u][g]) :
             IsAt(e, t, h, i) /\ IsAt(e, u, g, j) => t = u /\ h = g /\ i = j

(* While memory lasts no abbreviation is read twice.                       *)
ReadOnce == lasted =>
  \A d, e \in 1..Len(entries) :
    entries[d].ab_abbrev_ptr = entries[e].ab_abbrev_ptr => d = e

(* Both together: each lookup is right, and costs no second reading.         *)
LookupsRight == LookupIsRight /\ ReadOnce
===============================================================================
