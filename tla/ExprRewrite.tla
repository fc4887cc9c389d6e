----------------------------- MODULE ExprRewrite -----------------------------
(***************************************************************************)
(* What menu_finalize (support/kconfig/menu.c) does with a pair of         *)
(* expressions, the dependency of a menu and that of a later entry: it     *)
(* simplifies each by any number of calls and then takes out what they     *)
(* have in common, to see if the entry belongs below the menu.             *)
(***************************************************************************)
EXTENDS Expr, FiniteSets

CONSTANTS
    Vars,       \* the symbols that have a value of their own
    Bases,      \* the expressions to begin with: of the menu,
    Deps,       \* and of the entry
    selects(_)  \* the operator Selects, where it calls itself

\* The constants y, m and n of the code have no other value, and m is one.
ASSUME ConstantsAssumption ==
    Const \cap Vars = {} /\ Vars \cap {"n", "m", "y"} = {} /\ SymType["m"] # "boolean"

VARIABLES
    base, dep,  \* the two expressions
    base0, dep0,\* what they were at first
    exact,      \* no rule was used that is meant for y and n only
    phase       \* "rewrite", or "eliminated" after expr_eliminate_eq

vars == <<base, dep, base0, dep0, exact, phase>>

\* A symbol whose value is t; with modules on, it reads as its value.
ValueOf(t) == [tri |-> t, str |-> <<"n", "m", "y">>[t + 1]]
Values(s) == IF SymType[s] = "boolean" THEN {no, yes} ELSE {no, mod, yes}

\* The values symbols can have, and those without a module among them.
Valuation(v) ==
    [s \in Vars \cup {"n", "m", "y"} |->
        ValueOf(IF s \in Vars THEN v[s] ELSE CASE s = "n" -> no [] s = "m" -> mod [] s = "y" -> yes)]
AllValuations ==
    {Valuation(v) : v \in {f \in [Vars -> {no, mod, yes}] : \A s \in Vars : f[s] \in Values(s)}}
TwoValued == {Valuation(v) : v \in [Vars -> {no, yes}]}

-----------------------------------------------------------------------------

Init ==
    /\ base \in Bases
    /\ dep \in Deps
    /\ base0 = base
    /\ dep0 = dep
    /\ exact = TRUE
    /\ phase = "rewrite"

Rewrite(b, d, isExact) ==
    /\ phase = "rewrite"
    /\ <<b, d>> # <<base, dep>>
    /\ base' = b
    /\ dep' = d
    /\ exact' = (exact /\ isExact)
    /\ UNCHANGED <<base0, dep0, phase>>

\* No contradiction between members was used, only members joined.
OnlyJoined(e) ==
    \/ e.type \notin Lists
    \/ EliminateDups(e) = EliminateYn(Dups1(e.type, DupsOf(e), <<>>, <<>>).expr)

TransformDep == Rewrite(base, Transform(dep), TRUE)
TransformBase == Rewrite(Transform(base), dep, TRUE)
EliminateDupsDep == Rewrite(base, EliminateDups(dep), OnlyJoined(dep))
TransBoolDep == Rewrite(base, TransBool(dep), FALSE)

\* The tests at line 340 and 349: the menu, and the entry, are not 'n'.
CompareDep == Rewrite(base, TransCompare(dep, "unequal", "n"), FALSE)
CompareBase == Rewrite(TransCompare(base, "unequal", "n"), dep, FALSE)

EliminateEqDep ==
    /\ phase = "rewrite"
    /\ phase' = "eliminated"
    /\ \E left \in {EliminateEq(dep, base)} : dep' = left[1] /\ base' = left[2]
    /\ UNCHANGED <<base0, dep0, exact>>

Next ==
    \/ TransformDep \/ TransformBase
    \/ EliminateDupsDep
    \/ TransBoolDep
    \/ CompareDep \/ CompareBase
    \/ EliminateEqDep

Spec == Init /\ [][Next]_vars

-----------------------------------------------------------------------------
(* Properties *)

\* No simplification changes whether something is on: with every symbol y or
\* n, an expression keeps the value it had when it was read, and with rules
\* that are not meant for y and n only it keeps it for modules too (expr.c 306-772).
MeaningKept ==
    /\ phase = "rewrite" =>
         \A v \in TwoValued : /\ CalcValue(dep, v) = CalcValue(dep0, v)
                              /\ CalcValue(base, v) = CalcValue(base0, v)
    /\ phase = "rewrite" /\ exact =>
         \A v \in AllValuations : CalcValue(dep, v) = CalcValue(dep0, v)

Off(e, s, v) == CalcValue(e, [v EXCEPT ![s] = ValueOf(no)])

\* menu_finalize puts an entry below a menu if nothing of the dependency of
\* the menu is left when what they share is taken out (menu.c 352-354), or if
\* the entry depends on the symbol of the menu (345-347): then the entry is
\* off whenever the menu is.
BelowMeansDepends ==
    /\ phase = "eliminated" /\ IsYes(base) =>
         \A v \in TwoValued : CalcValue(dep0, v) <= CalcValue(base0, v)
    /\ \A s \in Vars, v \in AllValuations :
         /\ DependsSymbol(dep, s) => Off(dep, s, v) = no
         /\ ~ContainsSymbol(dep, s) => Off(dep, s, v) = CalcValue(dep, v)

\* Whether e is such a disjunction of selectors, each with its condition.
Selects(e) ==
    CASE e.type = "or"  -> selects(e.left) /\ selects(e.right)
      [] e.type = "and" -> e.left.type = "symbol" /\ e.left.sym \in Vars
      [] OTHER          -> e.type = "symbol" /\ e.sym \in Vars

\* When a symbol is selected (dep, a disjunction of selectors and their
\* conditions) without what it depends on (base), the warning blames a symbol.
UnmetIsBlamed ==
    selects(dep) /\ phase = "rewrite" =>
      LET blamed == SimplifyUnmetDep(dep, base)
      IN \A v \in TwoValued :
           CalcValue(dep, v) = yes /\ CalcValue(base, v) = no => blamed # Null

=============================================================================
