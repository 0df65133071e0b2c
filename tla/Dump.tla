---------------------------------- MODULE Dump ----------------------------------
(***************************************************************************)
(* dwarfdump over the members of an archive (src/dwarfdump/dwarfdump.c,      *)
(* print_frames.c): after .debug_info (DieDump.tla) it prints the FDEs, each  *)
(* with the name of its function, which it looks for in .debug_info.         *)
(*                                                                         *)
(* A definition whose name starts with Bug, here and in DieDump.tla, is the  *)
(* next definition with a plausible mistake in it; nothing uses it, it shows *)
(* that a property can fail.                                               *)
(***************************************************************************)
EXTENDS DieDump

VARIABLES fde,         \* the FDE that is next, of both sections
          frame_count,
          current,     \* current_cu_die_for_print_frames: a handle or NULL
          search,      \* calls of get_nested_proc_name(): [first, die, visited]
          names        \* the FDEs that were printed: [fde, name]

fvars == <<fde, frame_count, current, search, names>>
vars  == <<ivars, fvars>>

Init == InfosInit /\ fde = 1 /\ frame_count = 0 /\ current = NULL /\ search = <<>> /\ names = <<>>

-------------------------------------------------------------------------------
(* print_one_fde(), print_frames()                                         *)

(* With -u only the FDEs between those its unit names, if it names some.     *)
LeftOut(f) == opt.unit /\ range # None /\ (f.off < range[1] \/ f.off > range[2])

(* The FDE is done; frame_count goes on over the two sections.               *)
NextFde ==
  /\ frame_count' = frame_count + 1
  /\ fde' = IF frame_count' < opt.most THEN fde + 1
            ELSE IF fde <= obj.eh THEN obj.eh + 1
            ELSE Len(obj.fdes) + 1

Shown(name) == names' = Append(names, [fde |-> fde, name |-> name]) /\ NextFde

LeaveOut ==
  /\ phase = "frames" /\ fde <= Len(obj.fdes) /\ LeftOut(obj.fdes[fde])
  /\ NextFde
  /\ UNCHANGED <<ivars, current, search, names>>

Unnamed ==
  /\ phase = "frames" /\ fde <= Len(obj.fdes) /\ ~LeftOut(obj.fdes[fde]) /\ ~opt.names
  /\ Shown(None)
  /\ UNCHANGED <<ivars, current, search>>

-------------------------------------------------------------------------------
(* get_fde_proc_name(): from the unit of the last search on, to the end.     *)

(* The children of the DIE of a unit, if it has some, in the handles h.      *)
SearchIn(d, h) ==
  IF ChildOf(d) = None
  THEN phase' = "next unit" /\ held' = h /\ search' = <<>>
  ELSE /\ phase' = "search" /\ Room(h) /\ held' = Get(h, ChildOf(d))
       /\ search' = <<[first |-> New(h), die |-> New(h), visited |-> FALSE]>>

StartSearch ==
  /\ phase = "frames" /\ fde <= Len(obj.fdes) /\ ~LeftOut(obj.fdes[fde]) /\ opt.names
  /\ IF current # NULL
     THEN SearchIn(held[current], held) /\ UNCHANGED <<cu, current, names, fde, frame_count>>
     ELSE /\ cu' = NextCu.cu
          /\ IF NextCu.res # "OK"
             THEN Shown(None) /\ UNCHANGED <<phase, held, search, current>>
             ELSE /\ Room(held) /\ current' = New(held)
                  /\ SearchIn(<<NextCu.cu, 1>>, Get(held, <<NextCu.cu, 1>>))
                  /\ UNCHANGED <<names, fde, frame_count>>
  /\ UNCHANGED <<run, m, cu_count, stack, die_stack, range, printed>>

NextSearchUnit ==
  /\ phase = "next unit" /\ cu' = NextCu.cu
  /\ IF NextCu.res # "OK"
     THEN /\ phase' = "frames" /\ Shown(None)
          /\ UNCHANGED <<held, search, current>>
     ELSE LET ldie == Get(held, <<NextCu.cu, 1>>)
          IN /\ Room(held) /\ current' = New(held)
             /\ SearchIn(<<NextCu.cu, 1>>, Dealloc(ldie, {current}))
             /\ UNCHANGED <<names, fde, frame_count>>
  /\ UNCHANGED <<run, m, cu_count, stack, die_stack, range, printed>>

-------------------------------------------------------------------------------
(* get_nested_proc_name()                                                  *)

BugOwnName(d) == IF Die(d).name = d[2] THEN d ELSE None

(* get_proc_name(): a name of its own, or that of its origin.               *)
NameOf(d) ==
  LET j == Die(d).name
  IN IF j # 0 /\ Die(<<d[1], j>>).name = j THEN <<d[1], j>> ELSE None

get_proc_name(d) == IF Die(d).low = obj.fdes[fde].low THEN NameOf(d) ELSE None

Call == Last(search)

(* The handles of the calls: each gives back a child, and a DIE it got.       *)
InSearch == UNION {{c.first, c.die} : c \in Range(search)}

Searching == phase = "search" /\ UNCHANGED <<run, m, cu, cu_count, stack, die_stack, range,
                                            printed, current>>

FoundName ==
  LET d == held[Call.die]
  IN /\ Searching /\ ~Call.visited /\ Die(d).sub /\ get_proc_name(d) # None
     /\ held' = Dealloc(held, InSearch)
     /\ search' = <<>> /\ phase' = "frames" /\ Shown(get_proc_name(d))

(* Only a function may have functions in it.                                *)
LookInside ==
  LET d == held[Call.die]
      visited == [search EXCEPT ![Len(search)].visited = TRUE]
  IN /\ Searching /\ ~Call.visited /\ (Die(d).sub => get_proc_name(d) = None)
     /\ IF Die(d).sub /\ ChildOf(d) # None
        THEN /\ Room(held) /\ held' = Get(held, ChildOf(d))
             /\ search' = Append(visited, [first |-> New(held), die |-> New(held),
                                           visited |-> FALSE])
        ELSE search' = visited /\ UNCHANGED held
     /\ UNCHANGED <<phase, fde, frame_count, names>>

BugGotten == {Call.die}

(* A DIE it was given is not its own; one it got is.                        *)
Gotten == IF Call.die = Call.first THEN {} ELSE {Call.die}

SearchSibling ==
  LET d == held[Call.die]
  IN /\ Searching /\ Call.visited /\ SiblingOf(d) # None
     /\ Room(held)
     /\ held' = Dealloc(Get(held, SiblingOf(d)), Gotten)
     /\ search' = [search EXCEPT ![Len(search)].die = New(held),
                                 ![Len(search)].visited = FALSE]
     /\ UNCHANGED <<phase, fde, frame_count, names>>

NotHere ==
  /\ Searching /\ Call.visited /\ SiblingOf(held[Call.die]) = None
  /\ held' = Dealloc(held, Gotten \cup {Call.first})
  /\ search' = Front(search)
  /\ phase' = IF Len(search) = 1 THEN "next unit" ELSE phase
  /\ UNCHANGED <<fde, frame_count, names>>

-------------------------------------------------------------------------------
(* print_frames() ends, and process_one_file() with it; the next member has   *)
(* a Dwarf_Debug of its own, but the range of -u is not reset.               *)
NextMember ==
  /\ phase = "frames" /\ fde > Len(obj.fdes)
  /\ held' = Dealloc(held, {current}) /\ current' = NULL
  /\ IF m = Len(run.members)
     THEN phase' = "done" /\ UNCHANGED <<m, cu, cu_count, printed, fde, frame_count, names>>
     ELSE /\ m' = m + 1 /\ phase' = Start /\ cu' = 0 /\ cu_count' = 0 /\ printed' = <<>>
          /\ fde' = 1 /\ frame_count' = 0 /\ names' = <<>>
  /\ UNCHANGED <<run, stack, die_stack, range, search>>

(* print_error() exits.                                                     *)
NoMemory ==
  /\ phase \notin {"exit", "done"} /\ ~Room(held)
  /\ phase' = "exit"
  /\ UNCHANGED <<run, m, cu, cu_count, held, stack, die_stack, range, printed, fvars>>

Next ==
  \/ (NextUnit \/ PrintDie \/ NextSibling \/ NoSibling) /\ UNCHANGED fvars
  \/ LeaveOut \/ Unnamed \/ StartSearch \/ NextSearchUnit
  \/ FoundName \/ LookInside \/ SearchSibling \/ NotHere
  \/ NextMember \/ NoMemory

(* dwarfdump runs on while it has something to do.                          *)
Spec == Init /\ [][Next]_vars /\ WF_vars(Next)

-------------------------------------------------------------------------------
(* Properties                                                              *)

Held == {h \in Handles : held[h] # None}

(* A call of print_die_and_children() is at a level that die_stack has.       *)
TypeOK ==
  /\ m \in DOMAIN run.members
  /\ phase \in {"infos", "walk", "frames", "search", "next unit", "exit", "done"}
  /\ cu \in 0..Len(obj.cus) /\ cu_count \in 0..Len(obj.cus)
  /\ \A h \in Held : held[h][2] \in DOMAIN obj.cus[held[h][1]].dies
  /\ phase # "exit" => Len(stack) <= DIE_STACK_SIZE
  /\ \A lev \in DOMAIN die_stack : die_stack[lev].die \in Handles \cup {NULL}
  /\ range = None \/ range[1] <= range[2]
  /\ fde \in 1..(Len(obj.fdes) + 1) /\ frame_count \in 0..Len(obj.fdes)
  /\ current \in Handles \cup {NULL}

(* The DIEs that are over a DIE, itself too, by the parents of the data.     *)
Over(dies) ==
  LET over[k \in 0..Len(dies)] == IF k = 0 THEN {} ELSE {k} \cup over[dies[k].parent]
  IN over
Chain(c, j) == Over(obj.cus[c].dies)[j]

(* The units that -i and -S are about: the first ones that -u does not skip,  *)
(* up to the one that cannot be read.                                       *)
Named ==
  {c \in DOMAIN obj.cus : (obj.bad # 0 => c < obj.bad) /\ (opt.unit => obj.cus[c].unit)}
Walked == {c \in Named : Cardinality({b \in Named : b < c}) < opt.most}

Wanted ==
  {d \in UNION {{c} \X (DOMAIN obj.cus[c].dies) : c \in Walked} :
     opt.info \/ (opt.search /\ \E j \in DOMAIN obj.cus[d[1]].dies :
                                obj.cus[d[1]].dies[j].match /\ d[2] \in Chain(d[1], j))}

Before(d, e) == d[1] < e[1] \/ (d[1] = e[1] /\ d[2] < e[2])

(* -i prints every DIE of the units walked, and -S those that match and all   *)
(* their owners: none of them twice however many match below it, in the order *)
(* of the section and at their depth, and in the end all (dwarfdump.1:127).   *)
OwnersPrinted ==
  /\ \A i \in DOMAIN printed :
       LET d == printed[i].die
       IN /\ d \in Wanted
          /\ printed[i].level = Cardinality(Chain(d[1], d[2])) - 1
          /\ i > 1 => Before(printed[i - 1].die, d)
  /\ phase \notin {"infos", "walk", "exit"} => {e.die : e \in Range(printed)} = Wanted

(* A handle in use is live and nobody else's, and what no call, no entry of   *)
(* the stack and no search holds was given back: nothing is lost when a name  *)
(* is found deep inside the search, and nothing is freed twice.              *)
HandlesRight ==
  LET walk  == {<<"walk", i, stack[i].first>> : i \in DOMAIN stack}
                 \cup {<<"walk", i, stack[i].die>> : i \in DOMAIN stack}
      nest  == {<<"search", i, search[i].first>> : i \in DOMAIN search}
                 \cup {<<"search", i, search[i].die>> : i \in DOMAIN search}
      unit  == IF current = NULL THEN {} ELSE {<<"current", 0, current>>}
      owned == walk \cup nest \cup unit
  IN phase # "exit" =>
       /\ {o[3] : o \in owned} = Held
       /\ \A o, p \in owned : o[3] = p[3] => o = p
       /\ \A lev \in DOMAIN die_stack :
            IF lev <= indent_level
            THEN die_stack[lev].die \in {NULL, stack[lev + 1].die}
            ELSE die_stack[lev] = Empty

(* What the FDE at low may be called: the functions there, which stand in     *)
(* nothing but functions below their unit, each with the DIE that names it.   *)
Functions(low) ==
  {t \in UNION {{c} \X (DOMAIN obj.cus[c].dies) \X (DOMAIN obj.cus[c].dies) :
                  c \in DOMAIN obj.cus} :
     LET c == t[1]    j == t[2]    k == t[3]
         dies == obj.cus[c].dies
     IN /\ j > 1 /\ \A i \in Chain(c, j) \ {1} : dies[i].sub
        /\ dies[j].low = low /\ dies[j].name = k /\ dies[k].name = k}

(* A name given to an FDE is that of a function there.  If all units were     *)
(* printed before, a function is found unless its unit is before that of the  *)
(* FDE named just before this one: the search goes on from there.            *)
NamesFound ==
  \A i \in DOMAIN names :
    LET found == Functions(obj.fdes[names[i].fde].low)
        from  == IF i = 1 THEN 1
                 ELSE IF names[i - 1].name = None THEN 1 ELSE names[i - 1].name[1]
    IN /\ names[i].name # None => \E t \in found : names[i].name = <<t[1], t[3]>>
       /\ names[i].name = None /\ opt.names /\ obj.bad = 0 /\ opt.most > Len(obj.cus)
            => \A t \in found : t[1] < from

(* dwarfdump comes to an end, also where it goes round the units again for an *)
(* FDE that has no name (the "loop thru the list again" of print_frames.c).   *)
Ends == <>(phase \in {"exit", "done"})
===============================================================================
