-------------------------------- MODULE Expr --------------------------------
(***************************************************************************)
(* The dependency expressions of the configuration system                  *)
(* (support/kconfig/expr.c): their three-valued meaning, the equivalence   *)
(* and the simplifications that menu.c applies to them, and how they are   *)
(* printed.                                                                *)
(*                                                                         *)
(* An expression is a record.  C code that writes through a pointer to a   *)
(* part of an expression becomes an operator that returns the new          *)
(* expression; expr_eliminate_dups1 and 2, which are called with two       *)
(* pointers into ONE expression, work on paths into it instead.            *)
(***************************************************************************)
EXTENDS ExprProto

CONSTANTS
    SymType,  \* SymType[s]: "boolean", "tristate", "string", ... of symbol s
    Const     \* the symbols with SYMBOL_CONST; "y", "m" and "n" among them

-----------------------------------------------------------------------------
(* Meaning.  val[s] is the value of s as it is when expr_calc_value has    *)
(* called sym_calc_value: a tristate and what sym_get_string_value says.   *)

CalcValue(e, val) ==
    CASE e.type = "none"    -> yes
      [] e.type = "symbol"  -> val[e.sym].tri
      [] e.type = "not"     -> 2 - expr_calc_value(e.left, val)
      [] e.type = "and"     -> Least(expr_calc_value(e.left, val), expr_calc_value(e.right, val))
      [] e.type = "or"      -> Greatest(expr_calc_value(e.left, val), expr_calc_value(e.right, val))
      [] e.type = "equal"   -> Truth(val[e.lsym].str = val[e.rsym].str)
      [] e.type = "unequal" -> Truth(val[e.lsym].str # val[e.rsym].str)

ContainsSymbol(e, s) ==
    CASE e.type = "symbol"         -> e.sym = s
      [] e.type = "not"            -> expr_contains_symbol(e.left, s)
      [] e.type \in Lists          -> expr_contains_symbol(e.left, s) \/ expr_contains_symbol(e.right, s)
      [] e.type \in Comparisons    -> s \in {e.lsym, e.rsym}
      [] OTHER                     -> FALSE

DependsSymbol(e, s) ==
    CASE e.type = "symbol"  -> e.sym = s
      [] e.type = "and"     -> expr_depends_symbol(e.left, s) \/ expr_depends_symbol(e.right, s)
      [] e.type = "equal"   -> e.lsym = s /\ e.rsym \in {"y", "m"}
      [] e.type = "unequal" -> e.lsym = s /\ e.rsym = "n"
      [] OTHER              -> FALSE

-----------------------------------------------------------------------------
(* Equivalence up to order: what the two sides have in common is replaced  *)
(* by units, and nothing may be left.                                      *)

EliminateYn(e) ==
    IF e.type \notin Lists THEN e
    ELSE LET l == expr_eliminate_yn(e.left)
             r == expr_eliminate_yn(e.right)
             zero == Unit(Dual(e.type))
         IN CASE l = zero         -> zero
              [] l = Unit(e.type) -> r
              [] r = zero         -> zero
              [] r = Unit(e.type) -> l
              [] OTHER            -> Two(e.type, l, r)


\* __expr_eliminate_eq: the new values of the two expressions.
\* Mutant: what is common to two disjunctions becomes y as well.
EliminateCommonToYes(type, e1, e2) ==
    CASE e1.type = type ->
            LET a == eliminate_eq(type, e1.left, e2)
                b == eliminate_eq(type, e1.right, a[2])
            IN <<Two(type, a[1], b[1]), b[2]>>
      [] e1.type # type /\ e2.type = type ->
            LET a == eliminate_eq(type, e1, e2.left)
                b == eliminate_eq(type, a[1], e2.right)
            IN <<b[1], Two(type, a[2], b[2])>>
      [] OTHER -> IF expr_eq(e1, e2) THEN <<Unit("and"), Unit("and")>> ELSE <<e1, e2>>

EliminateCommon(type, e1, e2) ==
    CASE e1.type = type ->
            LET a == eliminate_eq(type, e1.left, e2)
                b == eliminate_eq(type, e1.right, a[2])
            IN <<Two(type, a[1], b[1]), b[2]>>
      [] e1.type # type /\ e2.type = type ->
            LET a == eliminate_eq(type, e1, e2.left)
                b == eliminate_eq(type, a[1], e2.right)
            IN <<b[1], Two(type, a[2], b[2])>>
      [] OTHER ->
            IF expr_eq(e1, e2) /\ ~(e1 = e2 /\ e1 \in {Symbol("y"), Symbol("n")})
            THEN <<Unit(type), Unit(type)>>
            ELSE <<e1, e2>>

EliminateIn(type, p) == IF type \in Lists THEN eliminate_eq(type, p[1], p[2]) ELSE p
EliminateSecond(p) == IF p[1].type # p[2].type THEN EliminateIn(p[2].type, p) ELSE p
BothWithoutYn(p) == <<expr_eliminate_yn(p[1]), expr_eliminate_yn(p[2])>>

\* expr_eliminate_eq
EliminateEq(e1, e2) ==
    IF Null \in {e1, e2} THEN <<e1, e2>>
    ELSE BothWithoutYn(EliminateSecond(EliminateIn(e1.type, <<e1, e2>>)))

NothingLeft(p) == p[1].type = "symbol" /\ p[1] = p[2]

\* expr_eq
Eq(e1, e2) ==
    CASE e1.type # e2.type           -> FALSE
      [] e1.type \in Lists /\ e1.type = e2.type -> NothingLeft(EliminateEq(e1, e2))
      [] e1.type = "not" /\ e2.type = "not" -> expr_eq(e1.left, e2.left)
      [] OTHER                       -> e1 = e2

\* expr_extract_eq: what e1 and e2 have in common, and what is left of them.
ExtractCommon(type, e, e1, e2) ==
    CASE e1.type = type ->
            LET a == expr_extract_eq(type, e, e1.left, e2)
                b == expr_extract_eq(type, a[1], e1.right, a[3])
            IN <<b[1], Two(type, a[2], b[2]), b[3]>>
      [] e1.type # type /\ e2.type = type ->
            LET a == expr_extract_eq(type, e, e1, e2.left)
                b == expr_extract_eq(type, a[1], a[2], e2.right)
            IN <<b[1], b[2], Two(type, a[3], b[3])>>
      [] OTHER ->
            IF expr_eq(e1, e2)
            THEN <<IF e = Null THEN e1 ELSE Two(type, e, e1), Unit(type), Unit(type)>>
            ELSE <<e, e1, e2>>

RestWithoutYn(x) == IF x[1] = Null THEN x ELSE <<x[1], expr_eliminate_yn(x[2]), expr_eliminate_yn(x[3])>>

\* expr_extract_eq_and and expr_extract_eq_or.
ExtractEq(type, e1, e2) == RestWithoutYn(expr_extract_eq(type, Null, e1, e2))

-----------------------------------------------------------------------------
(* expr_transform: boolean comparisons become symbols, and negations move  *)
(* down to the symbols.                                                    *)

BoolTest(e) ==
    LET same == e.type = "equal"
    IN CASE e.rsym = "n" -> IF same THEN Not(Symbol(e.lsym)) ELSE Symbol(e.lsym)
         [] e.rsym = "m" -> Symbol(IF same THEN "n" ELSE "y")
         [] e.rsym = "y" -> IF same THEN Symbol(e.lsym) ELSE Not(Symbol(e.lsym))
         [] OTHER        -> e

Opposite(type) == IF type = "equal" THEN "unequal" ELSE "equal"

\* Mutant: !(a || b) becomes !a || !b.
TransformKeepsList(e) ==
    CASE e.type = "not" /\ e.left.type \in Lists ->
           Two(e.left.type, expr_transform(Not(e.left.left)), expr_transform(Not(e.left.right)))
      [] e.type \in Lists -> Two(e.type, expr_transform(e.left), expr_transform(e.right))
      [] OTHER            -> e

Transform(e) ==
    LET Negation(g) ==
          CASE g.type = "not"          -> expr_transform(g.left)
            [] g.type \in Comparisons  -> Comp(Opposite(g.type), g.lsym, g.rsym)
            [] g.type \in Lists        -> expr_transform(Two(Dual(g.type), Not(g.left), Not(g.right)))
            [] g = Symbol("y")         -> Symbol("n")
            [] g = Symbol("m")         -> Symbol("m")
            [] g = Symbol("n")         -> Symbol("y")
            [] OTHER                   -> Not(g)
    IN CASE e.type \in Comparisons -> IF SymType[e.lsym] = "boolean" THEN BoolTest(e) ELSE e
         [] e.type = "not"         -> Negation(expr_transform(e.left))
         [] e.type \in Lists       -> Two(e.type, expr_transform(e.left), expr_transform(e.right))
         [] OTHER                  -> e

TransBool(e) ==
    CASE e.type \in Lists -> Two(e.type, expr_trans_bool(e.left), expr_trans_bool(e.right))
      [] e.type = "not"   -> Not(expr_trans_bool(e.left))
      [] e.type = "unequal" ->
            IF SymType[e.lsym] = "tristate" /\ e.rsym = "n" THEN Symbol(e.lsym) ELSE e
      [] OTHER            -> e

\* expr_trans_compare: the expression that says "e type s".
TransCompare(e, type, s) ==
    LET Negated(x) == IF type = "unequal" THEN Not(x) ELSE x
        IsEqual == type = "equal"
    IN CASE e.type = "none"  -> Negated(Symbol(s))
         [] e.type \in Lists ->
              LET l == expr_trans_compare(e.left, "equal", s)
                  r == expr_trans_compare(e.right, "equal", s)
              IN Negated(CASE s = "y" -> Two(e.type, l, r)
                           [] s = "n" -> Two(Dual(e.type), l, r)
                           [] OTHER   -> e)
         [] e.type = "not"   -> expr_trans_compare(e.left, Opposite(type), s)
         [] e.type \in Comparisons ->
              CASE s = "y" -> IF IsEqual THEN e ELSE Not(e)
                [] s = "m" -> Symbol(IF IsEqual THEN "n" ELSE "y")
                [] s = "n" -> IF IsEqual THEN Not(e) ELSE e
                [] OTHER   -> Null
         [] e.type = "symbol" -> Comp(type, e.sym, s)

-----------------------------------------------------------------------------
(* expr_eliminate_dups: members of a conjunction or disjunction that can   *)
(* be joined, or that contradict each other.                               *)

\* The symbol e speaks of, if expr_join_or and expr_join_and look at e.
Simple == Comparisons \cup {"symbol"}
Subject(e) == IF e.type = "symbol" THEN e.sym ELSE e.lsym
SubjectOf(e) == IF e.type = "not" THEN Subject(e.left) ELSE Subject(e)

Joinable(e1, e2) ==
    /\ e1.type \in Simple \/ (e1.type = "not" /\ e1.left.type \in Simple)
    /\ e2.type \in Simple \/ (e2.type = "not" /\ e2.left.type = "symbol")
    /\ SubjectOf(e1) = SubjectOf(e2)
    /\ SymType[SubjectOf(e1)] \in {"boolean", "tristate"}

\* One of e1 and e2 is the symbol, the other compares it with value.
SymbolAnd(e1, e2, type, value) ==
    \/ e1.type = "symbol" /\ e2.type = type /\ e2.rsym = value
    \/ e2.type = "symbol" /\ e1.type = type /\ e1.rsym = value

TheThird(values) == CHOOSE v \in {"n", "m", "y"} : v \notin values

\* What e1 || e2 is joined to, or Null.
JoinOr(e1, e2) ==
    LET s == SubjectOf(e1)
        compared == {e1.rsym, e2.rsym}
    IN IF expr_eq(e1, e2) THEN e1 ELSE IF ~Joinable(e1, e2) THEN Null ELSE
              CASE /\ SymType[s] = "tristate" /\ e1.type = "equal" /\ e2.type = "equal"
                   /\ compared \subseteq {"n", "m", "y"} -> Comp("unequal", s, TheThird(compared))
                [] /\ SymType[s] = "boolean"
                   /\ \/ e1.type = "not" /\ e1.left.type = "symbol" /\ e2.type = "symbol"
                      \/ e2.type = "not" /\ e1.type = "symbol" -> Symbol("y")
                [] OTHER -> Null

\* (a='b') && (a!='c') -> 'b'='c' ? 'n' : a='b'
Decided(equal, unequal) ==
    IF equal.rsym # unequal.rsym THEN equal ELSE Symbol("n")

\* What e1 && e2 is joined to, or Null.
JoinAnd(e1, e2) ==
    LET s == SubjectOf(e1)
        consts == e1.rsym \in Const /\ e2.rsym \in Const
        types == <<e1.type, e2.type>>
    IN IF expr_eq(e1, e2) THEN e1 ELSE IF ~Joinable(e1, e2) THEN Null ELSE
              CASE SymbolAnd(e1, e2, "equal", "y") \/ SymbolAnd(e1, e2, "unequal", "m") ->
                     Comp("equal", s, "y")
                [] SymbolAnd(e1, e2, "unequal", "n") -> Symbol(s)
                [] SymType[s] = "tristate" /\ types = <<"equal", "unequal">> /\ consts -> Decided(e1, e2)
                [] SymType[s] = "tristate" /\ types = <<"unequal", "equal">> /\ consts -> Decided(e2, e1)
                [] /\ SymType[s] = "tristate" /\ types = <<"unequal", "unequal">>
                   /\ {e1.rsym, e2.rsym} \subseteq {"n", "m", "y"} ->
                     Comp("equal", s, TheThird({e1.rsym, e2.rsym}))
                [] OTHER -> Null

Join(type, e1, e2) == IF type = "or" THEN JoinOr(e1, e2) ELSE JoinAnd(e1, e2)

\* The part of e at path p, and e with that part replaced by x.
At(e, p) ==
    IF p = <<>> THEN e
    ELSE part(IF Head(p) = "left" THEN e.left ELSE e.right, Tail(p))

Put(e, p, x) ==
    IF p = <<>> THEN x
    ELSE IF Head(p) = "left" THEN Two(e.type, with_part(e.left, Tail(p), x), e.right)
                             ELSE Two(e.type, e.left, with_part(e.right, Tail(p), x))

Left(p) == Append(p, "left")
Right(p) == Append(p, "right")

\* d is the expression and whether trans_count was incremented.
Replaced(d, p, x) == [expr |-> with_part(d.expr, p, x), changed |-> TRUE]

JoinedTo(type, d, p1, p2, x) ==
    IF x = Null THEN d ELSE Replaced(Replaced(d, p1, Unit(type)), p2, x)
JoinAt(type, d, p1, p2) == JoinedTo(type, d, p1, p2, Join(type, part(d.expr, p1), part(d.expr, p2)))

Dups1(type, d, p1, p2) ==
    LET e1 == part(d.expr, p1)
        e2 == part(d.expr, p2)
    IN CASE e1.type = type ->
              expr_eliminate_dups1(type, expr_eliminate_dups1(type, d, Left(p1), p2), Right(p1), p2)
         [] e1.type # type /\ e2.type = type ->
              expr_eliminate_dups1(type, expr_eliminate_dups1(type, d, p1, Left(p2)), p1, Right(p2))
         [] p1 = p2 /\ e1.type # type -> d
         [] OTHER -> JoinAt(type, IF e1.type \in Lists THEN expr_eliminate_dups1(e1.type, d, p1, p1) ELSE d, p1, p2)

\* e1 is a list whose negation follows from e2, which is joined to it by
\* the dual operator: (a || b) && (!a && !b), (a && b) || (!a || !b).
Contradicts(e1, e2) ==
    ExtractEq(Dual(e1.type), expr_transform(Not(e1)), e2)[2] = Unit(Dual(e1.type))

\* The lists at p1 and p2 are compared when the one at p1 is simplified.
CompareAt(type, d, p1, p2) ==
    IF Contradicts(part(d.expr, p1), part(d.expr, p2)) THEN Replaced(d, p1, Unit(type)) ELSE d

ListAt(d, p1, p2) ==
    LET type == part(d.expr, p1).type
    IN IF p1 = p2 \/ type \notin Lists THEN d ELSE CompareAt(type, expr_eliminate_dups2(type, d, p1, p1), p1, p2)

Dups2(type, d, p1, p2) ==
    CASE part(d.expr, p1).type = type ->
           expr_eliminate_dups2(type, expr_eliminate_dups2(type, d, Left(p1), p2), Right(p1), p2)
      [] part(d.expr, p1).type # type /\ part(d.expr, p2).type = type ->
           ListAt(expr_eliminate_dups2(type, expr_eliminate_dups2(type, d, p1, Left(p2)), p1, Right(p2)), p1, p2)
      [] OTHER -> ListAt(d, p1, p2)

UntilUnchanged(d) == IF d.changed THEN expr_eliminate_dups(expr_eliminate_yn(d.expr)) ELSE d.expr
DupsOf(e) == [expr |-> e, changed |-> FALSE]
EliminateDups(e) ==
    IF e.type \notin Lists THEN e
    ELSE UntilUnchanged(expr_eliminate_dups2(e.type, expr_eliminate_dups1(e.type, DupsOf(e), <<>>, <<>>), <<>>, <<>>))

-----------------------------------------------------------------------------
(* Whom to blame for a dependency that is not met, and printing.           *)

LeftmostSymbol(e) ==
    IF e.type \in {"none", "symbol"} THEN e ELSE expr_get_leftmost_symbol(e.left)

\* expr_simplify_unmet_dep: e1 is the rev_dep of a symbol, e2 its dir_dep.
\* Mutant: of several selectors only the first is looked at.
SimplifyUnmetDepFirst(e1, e2) ==
    CASE e1.type = "or"  -> expr_simplify_unmet_dep(e1.left, e2)
      [] e1.type = "and" ->
           IF expr_eq(expr_eliminate_dups(AllocAnd(e1, e2)), e1) THEN Null ELSE expr_get_leftmost_symbol(e1)
      [] OTHER           -> expr_get_leftmost_symbol(e1)

SimplifyUnmetDep(e1, e2) ==
    CASE e1.type = "or" ->
           AllocAnd(expr_simplify_unmet_dep(e1.left, e2), expr_simplify_unmet_dep(e1.right, e2))
      [] e1.type = "and" ->
           IF expr_eq(expr_eliminate_dups(AllocAnd(e1, e2)), e1) THEN Null ELSE expr_get_leftmost_symbol(e1)
      [] OTHER -> expr_get_leftmost_symbol(e1)

\* The order of binding in expr_compare_type; the others are not in it.
Rank(type) ==
    CASE type \in Comparisons -> 1
      [] type = "not"         -> 2
      [] type = "and"         -> 3
      [] type = "or"          -> 4
      [] type = "list"        -> 5
      [] type = "none"        -> 6
      [] OTHER                -> 0

\* Mutant: the cases of the switch do not fall through.
NeedsParenthesesNext(outer, inner) == Rank(outer) # 0 /\ Rank(outer) = Rank(inner) - 1

\* expr_compare_type(outer, inner) > 0.
NeedsParentheses(outer, inner) == Rank(outer) \in 1..(Rank(inner) - 1)

\* expr_print, as the tokens it writes.
Printed(e, outer) ==
    LET text ==
          CASE e.type = "symbol"  -> <<e.sym>>
            [] e.type = "not"     -> <<"!">> \o expr_print(e.left, "not")
            [] e.type = "equal"   -> <<e.lsym, "=", e.rsym>>
            [] e.type = "unequal" -> <<e.lsym, "!=", e.rsym>>
            [] e.type = "or"      -> expr_print(e.left, "or") \o <<"||">> \o expr_print(e.right, "or")
            [] e.type = "and"     -> expr_print(e.left, "and") \o <<"&&">> \o expr_print(e.right, "and")
    IN IF e = Null THEN <<"y">>
       ELSE IF NeedsParentheses(outer, e.type) THEN <<"(">> \o text \o <<")">> ELSE text

=============================================================================
