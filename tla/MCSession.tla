------------------------------- MODULE MCSession -------------------------------
(* Session on a few small files: a relocatable one, one of each table, with *)
(* empty and padded sets and flaws, and files _dwarf_setup() refuses.       *)
EXTENDS Session

Sec(name)  == [name |-> name, rela |-> FALSE, size |-> 1, link |-> 0]
Bare(name) == [name |-> name, rela |-> FALSE, size |-> 0, link |-> 0]
Syms(link) == [name |-> "symtab", rela |-> FALSE, size |-> 1, link |-> link]
Rela(name, link) == [name |-> name, rela |-> TRUE, size |-> 1, link |-> link]

NoTables == [n \in Names |-> <<>>]
File(sections, n, table) ==
  [sections |-> sections, tables |-> [NoTables EXCEPT ![n] = table]]

Set(cu, dies, pad, flaw) == [cu |-> cu, dies |-> dies, pad |-> pad, flaw |-> flaw]
Pubnames == <<Set(0, <<11, 15>>, TRUE, "none"), Set(20, <<>>, FALSE, "none"),
              Set(40, <<12>>, FALSE, "none")>>
Cut      == <<Set(0, <<11>>, FALSE, "none"), Set(20, <<12>>, FALSE, "tail")>>
OneName  == <<Set(0, <<11>>, FALSE, "none")>>

OneSet(cu, ranges, pad, flaw, size) ==
  [cu |-> cu, ranges |-> ranges, pad |-> pad, flaw |-> flaw, size |-> size]
Aranges(pad, flaw) ==
  <<OneSet(0, <<<<0, 2>>, <<2, 2>>>>, pad, "none", "alike"),
    OneSet(20, <<<<4, 1>>>>, FALSE, flaw, "alike")>>
(* The first set is misread as two others, the second seems too long.       *)
Narrow(n) ==
  SubSeq(<<OneSet(0, <<<<4, 2>>, <<8, 3>>>>, FALSE, "none", "narrow"),
           OneSet(20, <<<<16, 1>>>>, FALSE, "none", "narrow")>>, 1, n)

Expr(kind, ops, flaw) == [kind |-> kind, ops |-> ops, flaw |-> flaw]
Loclists == <<Expr("expr", 1, "none"), Expr("base", 0, "none"), Expr("expr", 2, "none"),
              Expr("end", 0, "none"), Expr("expr", 1, "none"), Expr("expr", 1, "op"),
              Expr("end", 0, "none"), Expr("expr", 1, "none"), Expr("expr", 1, "short")>>
TooLarge == <<Expr("expr", 1, "none"), Expr("end", 0, "none"), Expr("expr", 1, "none"),
              Expr("expr", 1, "large")>>

Op(op) == [op |-> op, file |-> 0]
Start(file) == [op |-> "start", file |-> file]
Macros == <<Start(1), Op("define"), Start(2), Op("define"), Start(3), Op("end"),
            Op("define"), Op("end"), Op("define"), Op("end"), Op("0"), Op("define")>>
Units == <<Start(1), Op("define"), Op("end"), Op("0"), Start(2), Op("undef"), Op("end"),
           Op("0"), Op("end"), Op("unknown"), Op("0")>>
MoreEnds == <<Start(1), Op("end"), Op("end"), Start(2), Op("define"), Op("end")>>

Info == <<Sec("info"), Sec("abbrev")>>
Relocatable ==
  <<Sec("abbrev"), Rela("info", 5), Sec("info"), Sec("pubnames"), Syms(6), Sec("strtab"),
    Rela("pubnames", 5)>>

Files ==
  {File(Relocatable, "pubnames", Pubnames),
   File(Info \o <<Sec("pubnames")>>, "pubnames", Cut),
   File(Info \o <<Sec("aranges")>>, "aranges", Aranges(TRUE, "none")),
   File(Info \o <<Sec("aranges")>>, "aranges", Aranges(FALSE, "none")),
   File(Info \o <<Sec("aranges")>>, "aranges", Aranges(FALSE, "head")),
   File(Info \o <<Sec("aranges")>>, "aranges", Narrow(1)),
   File(Info \o <<Sec("aranges")>>, "aranges", Narrow(2)),
   File(<<Sec("ranges")>>, "ranges",
        <<"entry", "end", "base", "entry", "end", "entry", "short">>),
   File(<<Sec("ranges")>>, "ranges", <<"entry", "end", "entry">>),
   File(Info \o <<Sec("loc")>>, "loc", Loclists),
   File(Info \o <<Sec("loc")>>, "loc", TooLarge),
   File(Info \o <<Sec("macinfo")>>, "macinfo", Macros),
   File(Info \o <<Sec("macinfo")>>, "macinfo", Units),
   File(Info \o <<Sec("macinfo"), Rela("macinfo", 0)>>, "macinfo", MoreEnds)}
  \cup {File(Info \o <<Sec(n)>>, n, OneName) :
          n \in {"funcnames", "typenames", "pubtypes", "varnames", "weaknames"}}

(* The headers in any order, with names twice, empty and not there.         *)
Header == {Sec("info"), Bare("info"), Sec("abbrev"), Sec("line"), Bare("line"),
           Bare("frame"), Rela("line", 0), Rela("eh_frame", 0), Sec("comment")}
Unread == {File(h, "line", <<>>) : h \in SeqOf(Header, 3)}

MCObjects == Files \cup Unread
===============================================================================
