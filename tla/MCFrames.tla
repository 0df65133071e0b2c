------------------------------- MODULE MCFrames -------------------------------
(* Frames on small objects: sections whose entries refer to each other in   *)
(* any way, and a CIE and an FDE with every short list of instructions.     *)
EXTENDS Frames

I(op, r, n)     == [op |-> op, r |-> r, n |-> n, block |-> <<>>]
Block(op, r, b) == [op |-> op, r |-> r, n |-> 0, block |-> b]

Abi(cfa) == [cfa |-> cfa, same |-> 7, undefined |-> 8, initial |-> 7]
Object(debug, eh, cfa, numbers, n) ==
  [debug |-> debug, eh |-> eh, abi |-> Abi(cfa), count |-> 2, numbers |-> numbers,
   calls |-> n]

CieE(aug, ra, flaw, prog) ==
  [kind |-> "cie", flaw |-> flaw, aug |-> aug, ra |-> ra, ref |-> 0, lo |-> 0,
   range |-> 0, code |-> 2, data |-> -4, prog |-> prog]
FdeE(ref, lo, range, flaw, prog) ==
  [kind |-> "fde", flaw |-> flaw, aug |-> "", ra |-> 0, ref |-> ref, lo |-> lo,
   range |-> range, code |-> 0, data |-> 0, prog |-> prog]
Zero == [FdeE(0, 0, 0, "none", <<>>) EXCEPT !.kind = "zero"]

-------------------------------------------------------------------------------
(* Entries that refer to each other: forwards, backwards, to no CIE.        *)
Plain == CieE("", 1, "none", <<>>)
DebugEntries ==
  {Plain, CieE("other", 1, "none", <<>>), CieE("z", 2, "body", <<>>), Zero,
   FdeE(1, 0, 2, "none", <<>>), FdeE(3, 2, 2, "none", <<>>), FdeE(4, 2, 1, "none", <<>>),
   FdeE(2, 1, 1, "prefix", <<>>), FdeE(1, 3, 1, "body", <<>>)}
EhEntries ==
  {CieE("zR", 1, "none", <<>>), CieE("eh", 2, "none", <<>>), CieE("eh2", 1, "none", <<>>),
   FdeE(1, 2, 2, "none", <<>>), FdeE(3, 0, 2, "none", <<>>), FdeE(-1, 4, 1, "none", <<>>),
   FdeE(2, 1, 1, "length", <<>>), Zero}

AtTheEnd(s) == \A k \in DOMAIN s : s[k].flaw = "length" => k = Len(s)

Sections(entries) == {s \in [1..4 -> entries] : AtTheEnd(s)}
Walks == {Object(s, <<>>, 9, {}, 1) : s \in Sections(DebugEntries)}
           \cup {Object(<<>>, s, 9, {}, 1) : s \in Sections(EhEntries)}

(* Two sections with four FDEs each, asked for and given back in turns.     *)
Long(d) == <<Plain, FdeE(d, 4, 2, "none", <<>>), FdeE(d, 0, 1, "none", <<>>), Plain,
             FdeE(4, 2, 1, "none", <<>>), FdeE(d, 3, 1, "none", <<>>)>>
EhLong == <<CieE("zR", 1, "none", <<>>), FdeE(1, 1, 2, "none", <<>>),
            FdeE(2, 3, 0, "none", <<>>), FdeE(3, 1, 1, "none", <<>>)>>
Lists == {Object(Long(1), EhLong, 9, {}, 3)}

-------------------------------------------------------------------------------
(* Instructions.                                                           *)
Alphabet ==
  {I("advance_loc", 0, 1), I("set_loc", 0, 3), I("offset", 0, 2), I("restore", 0, 0),
   I("undefined", 1, 0), I("same_value", 1, 0), I("register", 0, 1), I("register", 1, 3),
   I("remember_state", 0, 0), I("restore_state", 0, 0), I("def_cfa", 1, 2),
   I("def_cfa_sf", 0, -1), I("def_cfa_register", 1, 0), I("def_cfa_offset", 0, 3),
   I("def_cfa_offset_sf", 0, 1), Block("def_cfa_expression", 0, <<>>),
   Block("def_cfa_expression", 0, <<I("restore_state", 0, 0)>>), Block("expression", 0, <<>>),
   Block("expression", 0, <<I("offset", 1, 3)>>), I("val_offset", 1, 1), I("val_offset_sf", 0, -1),
   Block("val_expression", 1, <<I("nop", 0, 0)>>), I("nop", 0, 0), I("offset", 2, 1),
   I("unknown", 0, 0)}
OfCies == {<<>>, <<I("def_cfa", 1, 1), I("offset", 0, 1), I("restore", 1, 0)>>}

Frame(cieprog, fdeprog, cfa, numbers, n) ==
  Object(<<CieE("", 1, "none", cieprog), FdeE(1, 1, 3, "none", fdeprog)>>, <<>>, cfa,
         numbers, n)

Programs == {Frame(c, p, 0, {}, 2) : c \in OfCies, p \in SeqOf(Alphabet, 2)}
Stacked ==
  {Frame(<<>>, p, 9, {}, 2) :
     p \in [1..4 -> {I("remember_state", 0, 0), I("restore_state", 0, 0),
                     I("advance_loc", 0, 1), I("offset", 0, 2), I("def_cfa", 0, 1)}]}

(* Queries again, with other numbers, and of a CIE that fails.              *)
Again ==
  {Frame(<<I("offset", 0, 1), I("remember_state", 0, 0)>>,
         <<I("undefined", 1, 0), I("advance_loc", 0, 1), I("restore", 0, 0)>>, 9, {6}, 4),
   Frame(<<I("restore_state", 0, 0)>>, <<I("offset", 1, 1)>>, 9, {}, 3)}

MCFiles == Walks \cup Lists \cup Programs \cup Stacked \cup Again
===============================================================================
