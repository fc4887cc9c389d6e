-------------------------------- MODULE Menu --------------------------------
(***************************************************************************)
(* How the configuration system reads Kconfig (support/kconfig/zconf.y and *)
(* menu.c): the statements build a tree of entries and the properties of   *)
(* symbols; menu_finalize then hands dependencies down, makes a symbol the *)
(* parent of the entries after it that depend on it, and takes the entries *)
(* of an "if" out of it.                                                   *)
(*                                                                         *)
(* k is what has been read.  Entries and properties are numbers; entry 1   *)
(* is rootmenu.  The next pointers of a level are the sequence k.list[m].  *)
(***************************************************************************)
EXTENDS Expr, Lkc

WithText == {"prompt", "menu", "comment"}

-----------------------------------------------------------------------------
(* Statements *)

\* prop_alloc appends to the properties of the symbol.
AllocProp(k, m, type, expr, visible) ==
    LET s == Entry(k, m).sym
    IN [k EXCEPT
          !.prop = Append(@, [type |-> type, sym |-> s, menu |-> m, expr |-> expr,
                              visible |-> visible, values |-> <<>>]),
          !.props = IF s = NoSym THEN @ ELSE [@ EXCEPT ![s] = Append(@, Len(k.prop) + 1)]]

\* A symbol has a property of type "symbol" for each of its entries.
AddEntry(k, s) ==
    LET m == Len(k.menu) + 1
        added == [k EXCEPT
                    !.menu = Append(@, [sym |-> s, parent |-> k.current, prompt |-> 0,
                                        dep |-> Null, visibility |-> Null]),
                    !.list = Append([@ EXCEPT ![k.current] = Append(@, m)], <<>>),
                    !.entry = m]
    IN IF s = NoSym THEN added ELSE AllocProp(added, m, "symbol", Null, Null)

AddMenu(k) == [k EXCEPT !.current = k.entry]
EndMenu(k) == [k EXCEPT !.current = Entry(k, k.current).parent]

\* menu_check_dep: 'm' is possible with modules only.
RECURSIVE CheckDep(_, _)
CheckDep(k, e) ==
    CASE e.type = "not"      -> Not(CheckDep(k, e.left))
      [] e.type \in Lists    -> Two(e.type, CheckDep(k, e.left), CheckDep(k, e.right))
      [] e = Symbol("m")     -> And(e, Symbol(k.modules))
      [] OTHER               -> e

AddDep(k, dep) ==
    [k EXCEPT !.menu[k.entry].dep = AllocAnd(@, CheckDep(k, dep))]

SetType(k, m, type) ==
    LET s == Entry(k, m).sym
    IN IF k.type[s] = "unknown" THEN [k EXCEPT !.type[s] = type] ELSE k

\* The visibility that the menus around an entry give its prompt.
RECURSIVE UpperVisibility(_, _, _)
UpperVisibility(k, m, e) ==
    IF m = 0 THEN e
    ELSE UpperVisibility(k, Entry(k, m).parent, AllocAnd(e, Entry(k, m).visibility))

\* A prompt is the prompt of its entry.
PromptOf(k, type) ==
    IF type \in WithText THEN [k EXCEPT !.menu[k.entry].prompt = Len(k.prop)] ELSE k

AddProp(k, type, expr, dep) ==
    LET upper == IF type = "prompt" THEN Entry(k, k.entry).parent ELSE 0
    IN PromptOf(AllocProp(k, k.entry, type, expr, UpperVisibility(k, upper, CheckDep(k, dep))), type)

AddFlag(k, s, f) == [k EXCEPT !.flags[s] = @ \cup {f}]

\* prop_add_env: the value of the variable is a default that is in no entry.
AddEnv(k, s, value) ==
    [AllocProp(AddFlag(k, s, "auto"), k.entry, "default", Symbol(value), Null)
        EXCEPT !.prop[Len(k.prop) + 1].menu = 0]

AddVisibility(k, e) == [k EXCEPT !.menu[k.entry].visibility = AllocAnd(@, e)]

\* One statement of a Kconfig file, by the action of its grammar rule.
Statement(k, t) ==
    LET s == Entry(k, k.entry).sym
    IN CASE t.is = "config"     -> AddFlag(AddEntry(k, t.sym), t.sym, "optional")
         [] t.is = "type"       -> SetType(k, k.entry, t.type)
         [] t.is = "prompt"     -> AddProp(k, "prompt", Null, t.if)
         [] t.is = "menuconfig" -> [k EXCEPT !.prop[Entry(k, k.entry).prompt].type = "menu"]
         [] t.is = "default"    -> AddProp(k, "default", t.expr, t.if)
         [] t.is = "select"     -> AddProp(k, "select", Symbol(t.sym), t.if)
         [] t.is = "range"      -> AddProp(k, "range", Comp("range", t.low, t.high), t.if)
         [] t.is = "depends"    -> AddDep(k, t.expr)
         [] t.is = "modules"    -> [k EXCEPT !.modules = s]
         [] t.is = "env"        -> AddEnv(k, s, t.value)
         [] t.is = "choice"     ->
              AddProp(AddFlag(AddFlag(AddEntry(k, t.sym), t.sym, "choice"), t.sym, "auto"), "choice", Null, Null)
         [] t.is = "optional"   -> AddFlag(k, s, "optional")
         [] t.is = "menu"       -> AddProp(AddEntry(k, NoSym), "menu", Null, Null)
         [] t.is = "comment"    -> AddProp(AddEntry(k, NoSym), "comment", Null, Null)
         [] t.is = "visible"    -> AddVisibility(k, t.expr)
         [] t.is = "if"         -> AddMenu(AddDep(AddEntry(k, NoSym), t.expr))
         [] t.is = "begin"      -> AddMenu(k)
         [] t.is = "end"        -> EndMenu(k)

Read(statements) == FoldLeft(Statement, Nothing, statements)

-----------------------------------------------------------------------------
(* menu_finalize *)

Simplified(e) == EliminateDups(Transform(e))
VisibleOf(k, m) ==
    IF Entry(k, m).prompt # 0 THEN k.prop[Entry(k, m).prompt].visible ELSE Entry(k, m).dep

\* The type of a choice is that of its first value with a type, and the
\* type of the values without one.
TypeFromValue(k, p) ==
    LET typed == SelectSeq(k.list[p], LAMBDA m : Entry(k, m).sym # NoSym /\ k.type[Entry(k, m).sym] # "unknown")
    IN IF typed = <<>> THEN k ELSE SetType(k, p, k.type[Entry(k, typed[1]).sym])

TypeToValues(k, p) ==
    LET Give(kk, m) == IF Entry(k, m).sym # NoSym THEN SetType(kk, m, k.type[Entry(k, p).sym]) ELSE kk
    IN FoldLeft(Give, k, k.list[p])

InferTypes(k, p) ==
    IF IsChoice(k, Entry(k, p).sym) THEN TypeToValues(TypeFromValue(k, p), p) ELSE k

\* What the children of entry p depend on.
ParentDep(k, p) ==
    IF IsChoice(k, Entry(k, p).sym) THEN Symbol(Entry(k, p).sym) ELSE VisibleOf(k, p)

\* What depends on entry m depends on dep: a property, and what it selects.
Depend(k, q, s, dep) ==
    LET selected == k.prop[q].expr.sym
        visible == [k EXCEPT !.prop[q].visible = dep]
    IN IF k.prop[q].type # "select" THEN visible
       ELSE [visible EXCEPT !.rev[selected] = AllocOr(@, AllocAnd(Symbol(s), dep))]

PropertiesDepend(k, m, basedep) ==
    LET s == Entry(k, m).sym
        props == IF s # NoSym THEN SelectSeq(k.props[s], LAMBDA q : k.prop[q].menu = m)
                 ELSE IF Entry(k, m).prompt # 0 THEN <<Entry(k, m).prompt>> ELSE <<>>
        ForType(d) == IF s # NoSym /\ k.type[s] # "tristate" THEN TransBool(d) ELSE d
    IN FoldLeft(LAMBDA kk, q :
                  Depend(kk, q, s, ForType(EliminateDups(AllocAnd(basedep, Transform(kk.prop[q].visible))))),
                [k EXCEPT !.menu[m].dep = basedep], props)

\* The dependency of the parent becomes one of each child and its properties.
HandDown(k, p) ==
    LET parentdep == ParentDep(k, p)
    IN FoldLeft(LAMBDA kk, m :
                  PropertiesDepend(kk, m, EliminateDups(AllocAnd(parentdep, Transform(Entry(kk, m).dep)))),
                k, k.list[p])

\* Entry m, which follows p, belongs below p.
IsOn(e) == Simplified(TransCompare(e, "unequal", "n"))
Below(k, p, m) ==
    LET s == Entry(k, p).sym
        own == IF Entry(k, p).prompt # 0 THEN VisibleOf(k, p) ELSE Null
        dep == VisibleOf(k, m)
    IN /\ ContainsSymbol(dep, s)
       /\ DependsSymbol(dep, s) \/ IsYes(EliminateEq(IsOn(dep), IsOn(own))[2])

RECURSIVE Finalize(_, _)

RECURSIVE FinalizeList(_, _, _)
FinalizeList(k, p, i) ==
    IF i > Len(k.list[p]) THEN k
    ELSE FinalizeList(Finalize(k, k.list[p][i]), p, i + 1)

Position(list, m) == CHOOSE i \in 1..Len(list) : list[i] = m

\* The entries up to position last, after p, move below p.
MoveBelow(k, p, last) ==
    LET up == Entry(k, p).parent
        first == Position(k.list[up], p) + 1
        moved == SubSeq(k.list[up], first, last)
        Parent(kk, m) == [kk EXCEPT !.menu[m].parent = p]
    IN FoldLeft(Parent,
                [k EXCEPT !.list[p] = moved,
                          !.list[up] = SubSeq(@, 1, first - 1) \o SubSeq(@, last + 1, Len(@))],
                moved)

RECURSIVE Absorb(_, _, _)
Absorb(k, p, i) ==
    LET siblings == k.list[Entry(k, p).parent]
    IN IF i > Len(siblings) \/ ~Below(k, p, siblings[i])
       THEN MoveBelow(k, p, i - 1)
       ELSE Absorb(Finalize(k, siblings[i]), p, i + 1)

\* Entry m of choice p becomes one of its values.
OnlyIfYes(k, m, s, v) ==
    LET isYes == Comp("equal", s, "y")
        One(kk, q) ==
          IF kk.prop[q].menu = m THEN [kk EXCEPT !.prop[q].visible = AllocAnd(isYes, @)] ELSE kk
    IN IF k.type[s] = "tristate" /\ k.type[v] # "tristate"
       THEN FoldLeft(One, [k EXCEPT !.menu[m].dep = AllocAnd(isYes, @)], k.props[v]) ELSE k

ChoiceValue(k, p, m) ==
    LET s == Entry(k, p).sym
        v == Entry(k, m).sym
    IN [AllocProp(OnlyIfYes(AddFlag(k, v, "choiceval"), m, s, v), m, "choice", Symbol(s), Null)
          EXCEPT !.prop[PropsOf(k, s, {"choice"})[1]].values = Append(@, v)]

\* The children of m, which has no prompt, take its place after it.
Flatten(k, p, i) ==
    LET m == k.list[p][i]
        Parent(kk, c) == [kk EXCEPT !.menu[c].parent = p]
    IN FoldLeft(Parent,
                [k EXCEPT !.list[m] = <<>>,
                          !.list[p] = SubSeq(@, 1, i) \o k.list[m] \o SubSeq(@, i + 1, Len(@))],
                k.list[m])

RECURSIVE Adopt(_, _, _)
IfValue(k, p, m) ==
    LET v == Entry(k, m).sym
    IN IF IsChoice(k, Entry(k, p).sym) /\ v # NoSym /\ ~IsChoiceValue(k, v)
       THEN ChoiceValue(k, p, m) ELSE k
IfNoPrompt(k, p, i) ==
    LET m == k.list[p][i]
    IN IF k.list[m] # <<>> /\ Entry(k, m).prompt = 0 THEN Flatten(k, p, i) ELSE k

Adopt(k, p, i) ==
    IF i > Len(k.list[p]) THEN k
    ELSE Adopt(IfNoPrompt(IfValue(k, p, k.list[p][i]), p, i), p, i + 1)

\* Entry p gets its children, its own or those that depend on it.
WithChildren(k, p) ==
    LET s == Entry(k, p).sym
        Dir(a) == [a EXCEPT !.dir[s] = AllocOr(@, Entry(a, p).dep)]
    IN CASE k.list[p] # <<>> -> FinalizeList(HandDown(InferTypes(k, p), p), p, 1)
         [] k.list[p] = <<>> /\ s # NoSym ->
              Dir(Absorb(k, p, Position(k.list[Entry(k, p).parent], p) + 1))
         [] OTHER -> k

\* A symbol that is not optional, a choice, is at least m.
OrMod(k, p) ==
    LET s == Entry(k, p).sym
    IN IF s # NoSym /\ "optional" \notin k.flags[s] /\ Entry(k, p).prompt # 0
       THEN [k EXCEPT !.rev[s] = AllocOr(@, AllocAnd(VisibleOf(k, p), Symbol("m")))] ELSE k

Finalize(k, p) == OrMod(Adopt(WithChildren(k, p), p, 1), p)

\* conf_parse, without the check for recursive dependencies.
Parse(statements) == Finalize(Read(statements), Root)

=============================================================================
