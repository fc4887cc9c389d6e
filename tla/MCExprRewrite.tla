---------------------------- MODULE MCExprRewrite ----------------------------
(* Two booleans and a tristate, and the expressions built from them.       *)
EXTENDS ExprPrinted, MCExpr, TLC

MCVars == {"A", "B", "M"}
MCSymType == [s \in {"A", "B"} |-> "boolean"] @@ [s \in {"M", "y", "m", "n"} |-> "tristate"]
MCConst == {"y", "m", "n"}

MCSelects(e) == LET result == Selects(e) IN result

Atoms == {Symbol(s) : s \in {"A", "B", "M", "n"}}
Tests == {Comp("equal", "A", "m"), Comp("unequal", "A", "n")}
         \cup {Comp(t, "M", v) : t \in Comparisons, v \in {"n", "m", "y"}}
Leaves == Atoms \cup Tests
Signed == Leaves \cup {Not(e) : e \in Atoms \cup {Comp("equal", "M", "y")}}
Pairs(S) == {Two(t, l, r) : t \in Lists, l \in S, r \in S}
Few == {Symbol("A"), Symbol("M"), Not(Symbol("A")), Comp("equal", "M", "y")}
Triples == {Two(t, p, e) : t \in Lists, p \in Pairs(Few), e \in Few}
           \cup {Two(t, e, p) : t \in Lists, p \in Pairs(Few), e \in Few}

Nested == {Not(p) : p \in Pairs(Few)}
          \cup {Two(t, Two(t2, Symbol("A"), Symbol(s)), Two(t2, Not(Symbol(s)), Not(Symbol("A")))) :
                  t, t2 \in Lists, s \in {"B", "M"}}

MCDeps == Pairs(Signed) \cup Triples \cup Nested
MCBases == {Symbol("A"), Or(Symbol("A"), Symbol("B")), And(Symbol("B"), Comp("unequal", "M", "n"))}
=============================================================================
