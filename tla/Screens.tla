------------------------------- MODULE Screens ------------------------------
(***************************************************************************)
(* What menuconfig puts into its dialogs: the items of a menu (build_conf  *)
(* of mconf.c) and what a text says of symbols, with the places that jump  *)
(* keys are shown at (menu.c).  Whether an entry is visible is calculated  *)
(* on the way, so that each gives the memory as it is afterwards.          *)
(***************************************************************************)
EXTENDS ConfigFiles, Dialogs

CONSTANT HelpLines   \* the lines of a help text

-----------------------------------------------------------------------------
(* build_conf of mconf.c.  a holds the memory, the items so far,           *)
(* child_count # 0, current_menu, show_all_options and the menus that are  *)
(* open in single_menu_mode.  Indentation and the text of an item are left *)
(* out.                                                                    *)

RECURSIVE BuildConf(_, _)

Make(a, m, tag) == [a EXCEPT !.items = Append(@, Item(m, tag))]
Counted(a) == [a EXCEPT !.counted = TRUE]
BuildBelow(a, m) == FoldLeft(BuildConf, a, K(a.st).list[m])

\* Entries without a symbol; in single_menu_mode menus open in place.
BuildMenu(a, m) ==
    LET one == Make(Counted(a), m, "m")
    IN IF m \in a.open THEN BuildBelow(one, m) ELSE one
BuildPlain(a, m) ==
    CASE Entry(K(a.st), m).prompt = 0 \/ m = a.current -> BuildBelow(a, m)
      [] Entry(K(a.st), m).prompt # 0 /\ m # a.current /\ IsMenu(K(a.st), m) -> BuildMenu(a, m)
      [] OTHER -> BuildBelow(Make(Counted(a), m, ":"), m)

\* A choice: the visible value that is selected, and the entries below it.
SelectedMenu(a, m) ==
    LET c == Entry(K(a.st), m).sym
        See(b, v) ==
          LET seen == MenuVisible(b.st, v)
          IN [st |-> seen.st,
              def |-> IF seen.shown /\ Entry(K(b.st), v).sym = seen.st.curr[c].sel THEN v ELSE b.def]
    IN FoldLeft(See, [st |-> a.st, def |-> 0], K(a.st).list[m])
BuildSelected(a, def) == IF def # 0 /\ K(a.st).list[def] # <<>> THEN BuildConf(a, def) ELSE a
BuildWith(a, m, c, def) ==
    LET one == Make(Counted(a), m, IF Changeable(a.st, c) \/ def # 0 THEN "t" ELSE ":")
    IN IF a.st.curr[c].tri = yes THEN BuildSelected(one, def) ELSE BuildBelow(one, m)
BuildChoice(a, m) ==
    LET s == SelectedMenu(a, m) IN BuildWith([a EXCEPT !.st = s.st], m, Entry(K(a.st), m).sym, s.def)

SymbolTag(a, s) ==
    CASE Value(a.st, s) /\ a.st.curr[s].tri = yes -> ":"
      [] TypeOf(a.st, s) \in Logic /\ ~(Value(a.st, s) /\ a.st.curr[s].tri = yes) -> "t"
      [] OTHER -> "s"
\* The menu of a "menuconfig" entry opens, its entries are not in this one.
BuildSymbol(a, m) ==
    LET s == Entry(K(a.st), m).sym
        one == Make(Counted(a), m, SymbolTag(a, s))
    IN CASE m = a.current -> BuildBelow(Make(a, m, ":"), m)
         [] m # a.current /\ IsMenu(K(a.st), m) /\ SymbolTag(a, s) # "s" -> one
         [] OTHER -> BuildBelow(one, m)

BuildEntry(a, m) ==
    CASE Entry(K(a.st), m).sym = NoSym -> BuildPlain(a, m)
      [] Choice(a.st, Entry(K(a.st), m).sym) -> BuildChoice(a, m)
      [] OTHER -> BuildSymbol(a, m)
IfShown(a, m, shown) ==
    IF (IF a.all THEN Entry(K(a.st), m).prompt # 0 ELSE shown) THEN BuildEntry(a, m) ELSE a
BuildConf(a, m) ==
    LET v == MenuVisible(a.st, m) IN IfShown([a EXCEPT !.st = v.st], m, v.shown)
ItemsBelow(st, m, view) ==
    BuildConf([st |-> st, items |-> <<>>, counted |-> view.counted, current |-> m,
               all |-> view.all, open |-> view.open], m)

-----------------------------------------------------------------------------
(* What a text says of symbols: its lines, and the places of jump keys     *)
(* (get_symbol_str and get_prompt_str of menu.c).                          *)

\* The menus around m, up to eight, from the inside.
RECURSIVE Around(_, _)
Around(k, m) == IF m = Root THEN <<>> ELSE <<m>> \o Around(k, Entry(k, m).parent)
Location(a, k, q) == LET all == Around(k, Entry(k, k.prop[q].menu).parent) IN SubSeq(all, 1, Smaller(8, Len(all)))

\* The innermost of them that is visible; a jump goes there or to the entry.
VisibleAround(st, ms) ==
    LET See(b, i) == LET v == MenuVisible(b.st, ms[i])
                     IN [st |-> v.st, at |-> IF b.at = 0 /\ v.shown THEN i ELSE b.at]
    IN FoldLeft(See, [st |-> st, at |-> 0], [i \in DOMAIN ms |-> i])
\* Mutant: the line is counted from where the symbol begins.
JumpToOwn(a, q, ms, at) ==
    LET v == MenuVisible(a.st, Prop(a.st, q).menu)
    IN [a EXCEPT !.st = v.st,
                 !.jumps = Append(@, [line |-> 2 + Len(ms) - at,
                                      target |-> IF v.shown THEN Prop(a.st, q).menu ELSE ms[at]])]

JumpTo(a, q, ms, at) ==
    LET v == MenuVisible(a.st, Prop(a.st, q).menu)
    IN [a EXCEPT !.st = v.st,
                 !.jumps = Append(@, [line |-> a.nl + 2 + Len(ms) - at,
                                      target |-> IF v.shown THEN Prop(a.st, q).menu ELSE ms[at]])]
PromptLines(a, ms) == [a EXCEPT !.nl = @ + 1 + (IF ms = <<>> THEN 0 ELSE 1 + Len(ms))]
WithJump(a, q, ms, loc) ==
    PromptLines(IF a.head /\ loc.at # 0 THEN JumpTo([a EXCEPT !.st = loc.st], q, ms, loc.at)
                ELSE [a EXCEPT !.st = loc.st], ms)
PromptStr(a, q) ==
    LET ms == Location(a, K(a.st), q) IN WithJump(a, q, ms, VisibleAround(a.st, ms))

\* A choice has no name; after the prompts comes where the symbol is
\* defined, what it depends on, selects and is selected by, and two empty
\* lines.
OtherLines(st, s) ==
    LET entry == CHOOSE m \in 1..Len(K(st).menu) : Entry(K(st), m).sym = s
        If(b) == IF b THEN 1 ELSE 0
    IN 3 + If(~IsYes(Entry(K(st), entry).dep))
         + If(Props(st, s, {"select"}) # <<>>) + If(K(st).rev[s] # Null)
NameLines(st, s) ==
    CASE Choice(st, s) -> 0
      [] TypeOf(st, s) \in Numeric /\ RangeProp(st, s).prop # 0 -> 3
      [] OTHER -> 2
SymbolStr(a, s) ==
    [FoldLeft(PromptStr, [a EXCEPT !.nl = @ + NameLines(a.st, s)], Props(a.st, s, WithText))
       EXCEPT !.nl = @ + OtherLines(a.st, s)]
NoStr(st, head) == [st |-> st, nl |-> 0, jumps |-> <<>>, head |-> head]
\* get_relations_str; without a match it is one line.
Relations(st, syms) ==
    IF syms = <<>> THEN [NoStr(st, TRUE) EXCEPT !.nl = 1] ELSE FoldLeft(SymbolStr, NoStr(st, TRUE), syms)

\* menu_get_ext_help, of entry m
HelpOf(st, s) ==
    IF s = NoSym THEN [NoStr(st, FALSE) EXCEPT !.nl = HelpLines]
    ELSE SymbolStr([NoStr(st, FALSE) EXCEPT !.nl = HelpLines], s)

=============================================================================
