------------------------- MODULE ExprRewrite_proofs -------------------------
(***************************************************************************)
(* The simplifications of expr.c keep the meaning of every dependency, of  *)
(* any size and over any symbols; so an entry that menu_finalize puts      *)
(* below a menu depends on it, and someone is blamed for what is selected  *)
(* without what it depends on.                                             *)
(*                                                                         *)
(* The functions of expr.c call themselves and each other.  What is proved *)
(* of one is proved by induction over the weight of its arguments, from    *)
(* the hypothesis that a call is one more use of the operator of Expr that *)
(* models the function (the definitions with names in Recurs, each for the *)
(* arguments it is called with).  An expression is a member of a set that  *)
(* has the parts of its members and gives each a weight, so that there is  *)
(* nothing else than what the constructors build, and no infinite one.     *)
(***************************************************************************)
EXTENDS ExprRewrite, FiniteSetTheorems, WellFoundedInduction, TLAPS

-----------------------------------------------------------------------------
(* Numbers and records.                                                    *)

\* Every set of numbers has a least one.
LEMMA LeastNumber ==
    ASSUME NEW T \in SUBSET Nat, T # {}
    PROVE  \E m \in T : \A i \in T : m <= i
<1> DEFINE Below == {0..i : i \in T}
           Finite == FiniteSubsetsOf(Nat)
           Inside == StrictSubsetOrdering(Nat)
<1>1. Below \subseteq Finite
  <2> SUFFICES ASSUME NEW i \in T PROVE 0..i \in Finite
    OBVIOUS
  <2>1. IsFiniteSet(0..i)
    BY FS_Interval
  <2> QED BY <2>1 DEF FiniteSubsetsOf
<1>2. Below # {}
  OBVIOUS
<1>3. IsWellFoundedOn(Inside, Finite)
  BY FS_StrictSubsetOrderingWellFounded
<1> HIDE DEF Finite, Inside
<1>4. PICK U \in Below : \A V \in Below : ~(<<V, U>> \in Inside)
  BY <1>1, <1>2, <1>3, WFMin
<1>5. PICK m \in T : U = 0..m
  OBVIOUS
<1>6. ASSUME NEW i \in T, ~(m <= i) PROVE FALSE
  <2>1. 0..i \in Below
    OBVIOUS
  <2>2. m \in 0..m /\ m \notin 0..i /\ 0..i \subseteq 0..m
    BY <1>6
  <2>3. <<0..i, 0..m>> \in Inside
    BY <2>2 DEF Inside, StrictSubsetOrdering
  <2> QED BY <1>4, <1>5, <2>1, <2>3
<1> QED BY <1>6

\* Induction over numbers, for a set.
LEMMA Induction ==
    ASSUME NEW S \in SUBSET Nat, \A n \in Nat : (\A i \in 0..(n - 1) : i \in S) => n \in S
    PROVE  \A n \in Nat : n \in S
<1> DEFINE T == Nat \ S
<1> SUFFICES ASSUME T # {} PROVE FALSE
  OBVIOUS
<1>1. PICK m \in T : \A i \in T : m <= i
  <2>1. T \in SUBSET Nat
    OBVIOUS
  <2> HIDE DEF T
  <2> QED BY <2>1, LeastNumber
<1>2. \A i \in 0..(m - 1) : i \in S
  BY <1>1
<1> QED BY <1>2

\* What the constructors of expressions are made of.
LEMMA Shapes ==
    /\ \A s : Symbol(s).type = "symbol" /\ Symbol(s).sym = s
    /\ \A a : Not(a).type = "not" /\ Not(a).left = a
    /\ \A t, a, b : Two(t, a, b).type = t /\ Two(t, a, b).left = a /\ Two(t, a, b).right = b
    /\ \A t, a, b : Comp(t, a, b).type = t /\ Comp(t, a, b).lsym = a /\ Comp(t, a, b).rsym = b
    /\ Null.type = "none"
BY DEF Symbol, Not, Two, Comp, Null

-----------------------------------------------------------------------------
(* Expressions and their weight.                                           *)

\* What the parser gives to menu_finalize: the symbols y and n, and those of
\* the Kconfig files; m is only compared with.
Syms == Vars \cup {"n", "m", "y"}
Operand == Syms \ {"m"}

\* A weight for each expression of a set that has the parts of its members;
\* moving a negation into a list makes it lighter.
Weighed(w) ==
    \A x \in DOMAIN w :
      /\ w[x] \in Nat \ {0}
      /\ \/ \E s \in Operand : x = Symbol(s) /\ w[x] = 1
         \/ \E t \in Comparisons, a \in Operand, b \in Syms : x = Comp(t, a, b) /\ w[x] = 3
         \/ \E a \in DOMAIN w : x = Not(a) /\ w[x] = 2 * w[a] + 1
         \/ \E t \in Lists, a, b \in DOMAIN w : x = Two(t, a, b) /\ w[x] = w[a] + w[b] + 2

IsExpr(e) == \E w : Weighed(w) /\ e \in DOMAIN w
Weight(e) == CHOOSE n : \E w : Weighed(w) /\ e \in DOMAIN w /\ w[e] = n

\* One member of such a set.
LEMMA WeighedOne ==
    ASSUME NEW w, Weighed(w), NEW x \in DOMAIN w
    PROVE  /\ w[x] \in Nat \ {0}
           /\ x.type \in {"symbol", "not"} \cup Comparisons \cup Lists
           /\ x.type = "symbol" => \E s \in Operand : x = Symbol(s) /\ w[x] = 1
           /\ x.type \in Comparisons =>
                \E a \in Operand, b \in Syms : x = Comp(x.type, a, b) /\ w[x] = 3
           /\ x.type = "not" => x.left \in DOMAIN w /\ x = Not(x.left) /\ w[x] = 2 * w[x.left] + 1
           /\ x.type \in Lists =>
                /\ x.left \in DOMAIN w /\ x.right \in DOMAIN w /\ x = Two(x.type, x.left, x.right)
                /\ w[x] = w[x.left] + w[x.right] + 2
<1>1. w[x] \in Nat \ {0}
  BY DEF Weighed
<1>2. CASE \E s \in Operand : x = Symbol(s) /\ w[x] = 1
  BY <1>1, <1>2, Shapes DEF Comparisons, Lists
<1>3. CASE \E t \in Comparisons, a \in Operand, b \in Syms : x = Comp(t, a, b) /\ w[x] = 3
  BY <1>1, <1>3, Shapes DEF Comparisons, Lists
<1>4. CASE \E a \in DOMAIN w : x = Not(a) /\ w[x] = 2 * w[a] + 1
  BY <1>1, <1>4, Shapes DEF Comparisons, Lists
<1>5. CASE \E t \in Lists, a, b \in DOMAIN w : x = Two(t, a, b) /\ w[x] = w[a] + w[b] + 2
  BY <1>1, <1>5, Shapes DEF Comparisons, Lists
<1> QED BY <1>2, <1>3, <1>4, <1>5 DEF Weighed

\* There is one weight only.
LEMMA OneWeight ==
    ASSUME NEW w, Weighed(w), NEW v, Weighed(v), NEW e, e \in DOMAIN w, e \in DOMAIN v
    PROVE  w[e] = v[e]
<1> DEFINE S == {n \in Nat : \A x \in DOMAIN w \cap DOMAIN v : w[x] = n => v[x] = n}
<1>1. ASSUME NEW n \in Nat, \A i \in 0..(n - 1) : i \in S PROVE n \in S
  <2> SUFFICES ASSUME NEW x \in DOMAIN w \cap DOMAIN v, w[x] = n PROVE v[x] = n
    OBVIOUS
  <2>1. \A y \in DOMAIN w \cap DOMAIN v : w[y] < n => v[y] = w[y]
    BY <1>1, WeighedOne
  <2>2. CASE x.type = "symbol" \/ x.type \in Comparisons
    BY <2>2, WeighedOne
  <2>3. CASE x.type = "not"
    <3>1. x.left \in DOMAIN w \cap DOMAIN v /\ w[x.left] \in Nat
          /\ w[x] = 2 * w[x.left] + 1 /\ v[x] = 2 * v[x.left] + 1
      BY <2>3, WeighedOne
    <3> QED BY <2>1, <3>1
  <2>4. CASE x.type \in Lists
    <3>1. /\ x.left \in DOMAIN w \cap DOMAIN v /\ w[x.left] \in Nat
          /\ x.right \in DOMAIN w \cap DOMAIN v /\ w[x.right] \in Nat
          /\ w[x] = w[x.left] + w[x.right] + 2 /\ v[x] = v[x.left] + v[x.right] + 2
      BY <2>4, WeighedOne
    <3> QED BY <2>1, <3>1
  <2>5. x.type \in {"symbol", "not"} \cup Comparisons \cup Lists
    BY WeighedOne
  <2> QED BY <2>2, <2>3, <2>4, <2>5
<1>2. w[e] \in Nat
  BY WeighedOne
<1>3. w[e] \in S
  <2>1. S \in SUBSET Nat
    OBVIOUS
  <2> HIDE DEF S
  <2> QED BY <1>1, <1>2, <2>1, Induction
<1> QED BY <1>3

\* What a set of weighed expressions says is what every such set says.
LEMMA WeightIs ==
    ASSUME NEW w, Weighed(w), NEW e, e \in DOMAIN w
    PROVE  IsExpr(e) /\ Weight(e) = w[e]
<1>1. IsExpr(e)
  BY DEF IsExpr
<1> DEFINE Q(n) == \E v : Weighed(v) /\ e \in DOMAIN v /\ v[e] = n
<1>2. Q(w[e])
  OBVIOUS
<1>3. \A n : Q(n) => n = w[e]
  BY OneWeight
<1>4. Weight(e) = CHOOSE n : Q(n)
  BY DEF Weight
<1> HIDE DEF Q
<1> QED BY <1>1, <1>2, <1>3, <1>4

\* An expression has one of six types, and its parts are expressions.
LEMMA ExprIs ==
    ASSUME NEW e, IsExpr(e)
    PROVE  /\ Weight(e) \in Nat \ {0}
           /\ e.type \in {"symbol", "not"} \cup Comparisons \cup Lists
           /\ e.type = "symbol" => e.sym \in Operand /\ e = Symbol(e.sym) /\ Weight(e) = 1
           /\ e.type \in Comparisons =>
                e.lsym \in Operand /\ e.rsym \in Syms /\ e = Comp(e.type, e.lsym, e.rsym) /\ Weight(e) = 3
           /\ e.type = "not" => IsExpr(e.left) /\ e = Not(e.left) /\ Weight(e) = 2 * Weight(e.left) + 1
           /\ e.type \in Lists =>
                /\ IsExpr(e.left) /\ IsExpr(e.right) /\ e = Two(e.type, e.left, e.right)
                /\ Weight(e) = Weight(e.left) + Weight(e.right) + 2
<1>1. PICK w : Weighed(w) /\ e \in DOMAIN w
  BY DEF IsExpr
<1>2. \A x \in DOMAIN w : IsExpr(x) /\ Weight(x) = w[x]
  BY <1>1, WeightIs
<1>3. CASE e.type = "symbol"
  BY <1>1, <1>2, <1>3, WeighedOne, Shapes DEF Comparisons, Lists
<1>4. CASE e.type \in Comparisons
  <2>1. PICK a \in Operand, b \in Syms : e = Comp(e.type, a, b) /\ w[e] = 3
    BY <1>1, <1>4, WeighedOne
  <2>2. e.lsym = a /\ e.rsym = b
    BY <2>1, Shapes
  <2> QED BY <1>1, <1>2, <1>4, <2>1, <2>2 DEF Comparisons, Lists
<1>5. CASE e.type = "not"
  BY <1>1, <1>2, <1>5, WeighedOne DEF Comparisons, Lists
<1>6. CASE e.type \in Lists
  BY <1>1, <1>2, <1>6, WeighedOne DEF Comparisons, Lists
<1>7. e.type \in {"symbol", "not"} \cup Comparisons \cup Lists
  BY <1>1, WeighedOne
<1> QED BY <1>3, <1>4, <1>5, <1>6, <1>7

\* A symbol is an expression of weight one.
LEMMA SymbolIs ==
    ASSUME NEW s \in Operand
    PROVE  IsExpr(Symbol(s)) /\ Weight(Symbol(s)) = 1
<1> DEFINE w == [x \in {Symbol(s)} |-> 1]
<1>1. Weighed(w)
  BY DEF Weighed
<1>2. Symbol(s) \in DOMAIN w /\ w[Symbol(s)] = 1
  OBVIOUS
<1> HIDE DEF w
<1> QED BY <1>1, <1>2, WeightIs

\* A comparison of an operand with a symbol is an expression.
LEMMA CompIs ==
    ASSUME NEW t \in Comparisons, NEW a \in Operand, NEW b \in Syms
    PROVE  IsExpr(Comp(t, a, b)) /\ Weight(Comp(t, a, b)) = 3
<1> DEFINE w == [x \in {Comp(t, a, b)} |-> 3]
<1>1. Weighed(w)
  BY DEF Weighed
<1>2. Comp(t, a, b) \in DOMAIN w /\ w[Comp(t, a, b)] = 3
  OBVIOUS
<1> HIDE DEF w
<1> QED BY <1>1, <1>2, WeightIs

\* The negation of an expression is an expression, more than twice as heavy.
LEMMA NotIs ==
    ASSUME NEW a, IsExpr(a)
    PROVE  IsExpr(Not(a)) /\ Weight(Not(a)) = 2 * Weight(a) + 1
<1>1. PICK v : Weighed(v) /\ a \in DOMAIN v
  BY DEF IsExpr
<1>2. IsExpr(a) /\ Weight(a) = v[a] /\ v[a] \in Nat
  BY <1>1, WeightIs, WeighedOne
<1> DEFINE w == [x \in DOMAIN v \cup {Not(a)} |-> IF x \in DOMAIN v THEN v[x] ELSE 2 * v[a] + 1]
<1>3. Weighed(w)
  <2> SUFFICES ASSUME NEW x \in DOMAIN w
               PROVE  /\ w[x] \in Nat \ {0}
                      /\ \/ \E s \in Operand : x = Symbol(s) /\ w[x] = 1
                         \/ \E t \in Comparisons, b \in Operand, c \in Syms : x = Comp(t, b, c) /\ w[x] = 3
                         \/ \E b \in DOMAIN w : x = Not(b) /\ w[x] = 2 * w[b] + 1
                         \/ \E t \in Lists, b, c \in DOMAIN w : x = Two(t, b, c) /\ w[x] = w[b] + w[c] + 2
    BY DEF Weighed
  <2>1. \A y \in DOMAIN v : y \in DOMAIN w /\ w[y] = v[y]
    OBVIOUS
  <2>2. CASE x \in DOMAIN v
    <3> HIDE DEF w
    <3>1. /\ v[x] \in Nat \ {0}
          /\ \/ \E s \in Operand : x = Symbol(s) /\ v[x] = 1
             \/ \E t \in Comparisons, b \in Operand, c \in Syms : x = Comp(t, b, c) /\ v[x] = 3
             \/ \E b \in DOMAIN v : x = Not(b) /\ v[x] = 2 * v[b] + 1
             \/ \E t \in Lists, b, c \in DOMAIN v : x = Two(t, b, c) /\ v[x] = v[b] + v[c] + 2
      BY <1>1, <2>2 DEF Weighed
    <3> QED BY <2>1, <2>2, <3>1
  <2>3. CASE x \notin DOMAIN v
    <3>1. x = Not(a) /\ w[x] = 2 * v[a] + 1
      BY <2>3
    <3>2. a \in DOMAIN w /\ w[a] = v[a]
      BY <1>1, <2>1
    <3> HIDE DEF w
    <3> QED BY <1>2, <3>1, <3>2
  <2> QED BY <2>2, <2>3
<1>4. CASE Not(a) \in DOMAIN v
  <2>1. v[Not(a)] = 2 * v[a] + 1
    BY <1>1, <1>4, WeighedOne, Shapes
  <2> QED BY <1>1, <1>2, <1>4, <2>1, WeightIs
<1>5. CASE Not(a) \notin DOMAIN v
  <2>1. Not(a) \in DOMAIN w /\ w[Not(a)] = 2 * v[a] + 1
    BY <1>5
  <2> HIDE DEF w
  <2> QED BY <1>2, <1>3, <2>1, WeightIs
<1> QED BY <1>4, <1>5

\* A conjunction or disjunction of two expressions is an expression.
LEMMA TwoIs ==
    ASSUME NEW t \in Lists, NEW a, IsExpr(a), NEW b, IsExpr(b)
    PROVE  IsExpr(Two(t, a, b)) /\ Weight(Two(t, a, b)) = Weight(a) + Weight(b) + 2
<1>1. PICK v : Weighed(v) /\ a \in DOMAIN v
  BY DEF IsExpr
<1>2. PICK u : Weighed(u) /\ b \in DOMAIN u
  BY DEF IsExpr
<1>3. Weight(a) = v[a] /\ v[a] \in Nat /\ Weight(b) = u[b] /\ u[b] \in Nat
  BY <1>1, <1>2, WeightIs, WeighedOne
<1> DEFINE e == Two(t, a, b)
           w == [x \in DOMAIN v \cup DOMAIN u \cup {e} |->
                   IF x \in DOMAIN v THEN v[x] ELSE IF x \in DOMAIN u THEN u[x] ELSE v[a] + u[b] + 2]
<1>4. \A x \in DOMAIN v : x \in DOMAIN w /\ w[x] = v[x]
  OBVIOUS
<1>5. \A x \in DOMAIN u : x \in DOMAIN w /\ w[x] = u[x]
  BY <1>1, <1>2, OneWeight
<1>6. Weighed(w)
  <2> SUFFICES ASSUME NEW x \in DOMAIN w
               PROVE  /\ w[x] \in Nat \ {0}
                      /\ \/ \E s \in Operand : x = Symbol(s) /\ w[x] = 1
                         \/ \E k \in Comparisons, c \in Operand, d \in Syms : x = Comp(k, c, d) /\ w[x] = 3
                         \/ \E c \in DOMAIN w : x = Not(c) /\ w[x] = 2 * w[c] + 1
                         \/ \E k \in Lists, c, d \in DOMAIN w : x = Two(k, c, d) /\ w[x] = w[c] + w[d] + 2
    BY DEF Weighed
  <2>1. CASE x \in DOMAIN v
    <3> HIDE DEF w
    <3>1. /\ v[x] \in Nat \ {0}
          /\ \/ \E s \in Operand : x = Symbol(s) /\ v[x] = 1
             \/ \E k \in Comparisons, c \in Operand, d \in Syms : x = Comp(k, c, d) /\ v[x] = 3
             \/ \E c \in DOMAIN v : x = Not(c) /\ v[x] = 2 * v[c] + 1
             \/ \E k \in Lists, c, d \in DOMAIN v : x = Two(k, c, d) /\ v[x] = v[c] + v[d] + 2
      BY <1>1, <2>1 DEF Weighed
    <3> QED BY <1>4, <2>1, <3>1
  <2>2. CASE x \in DOMAIN u
    <3> HIDE DEF w
    <3>1. /\ u[x] \in Nat \ {0}
          /\ \/ \E s \in Operand : x = Symbol(s) /\ u[x] = 1
             \/ \E k \in Comparisons, c \in Operand, d \in Syms : x = Comp(k, c, d) /\ u[x] = 3
             \/ \E c \in DOMAIN u : x = Not(c) /\ u[x] = 2 * u[c] + 1
             \/ \E k \in Lists, c, d \in DOMAIN u : x = Two(k, c, d) /\ u[x] = u[c] + u[d] + 2
      BY <1>2, <2>2 DEF Weighed
    <3> QED BY <1>5, <2>2, <3>1
  <2>3. CASE x \notin DOMAIN v /\ x \notin DOMAIN u
    <3>1. x = Two(t, a, b) /\ w[x] = v[a] + u[b] + 2
      BY <2>3
    <3>2. a \in DOMAIN w /\ w[a] = v[a] /\ b \in DOMAIN w /\ w[b] = u[b]
      BY <1>1, <1>2, <1>4, <1>5
    <3> HIDE DEF w
    <3> QED BY <1>3, <3>1, <3>2
  <2> QED BY <2>1, <2>2, <2>3
<1>7. e \in DOMAIN w /\ a \in DOMAIN w /\ b \in DOMAIN w
  BY <1>1, <1>2
<1>8. e.type = t /\ e.left = a /\ e.right = b
  BY Shapes
<1> HIDE DEF w, e
<1>9. w[e] = w[a] + w[b] + 2
  BY <1>6, <1>7, <1>8, WeighedOne
<1> QED BY <1>3, <1>6, <1>7, <1>9, WeightIs DEF e

-----------------------------------------------------------------------------
(* Values.                                                                 *)

Tristate == {no, mod, yes}
TriText(t) == CASE t = no -> "n" [] t = mod -> "m" [] t = yes -> "y"

\* What the symbols can be: with modules on, each reads as its value.
IsValuation(val) ==
    /\ \A s \in Syms : /\ val[s].tri \in Tristate
                       /\ val[s].str = TriText(val[s].tri)
                       /\ SymType[s] = "boolean" => val[s].tri # mod
    /\ val["n"].tri = no /\ val["m"].tri = mod /\ val["y"].tri = yes
IsTwoValued(val) == IsValuation(val) /\ \A s \in Operand : val[s].tri # mod

\* The functions that expr_calc_value and the others call are the operators
\* of Expr, wherever these are used.
CalcRecurs == \A e, val : IsExpr(e) => expr_calc_value(e, val) = CalcValue(e, val)
ContainsRecurs == \A e, s : IsExpr(e) => expr_contains_symbol(e, s) = ContainsSymbol(e, s)
DependsRecurs == \A e, s : IsExpr(e) => expr_depends_symbol(e, s) = DependsSymbol(e, s)
YnRecurs == \A e : IsExpr(e) => expr_eliminate_yn(e) = EliminateYn(e)
TransformRecurs == \A e : IsExpr(e) => expr_transform(e) = Transform(e)
BoolRecurs == \A e : IsExpr(e) => expr_trans_bool(e) = TransBool(e)
CompareRecurs ==
    \A e, type : IsExpr(e) /\ type \in Comparisons => expr_trans_compare(e, type, "n") = TransCompare(e, type, "n")

\* What a list makes of the values of its two parts.
Joined(type, a, b) == IF type = "and" THEN Least(a, b) ELSE Greatest(a, b)
UnitValue(type) == IF type = "and" THEN yes ELSE no

\* Joining values is associative and commutative, has a unit and a zero, and
\* negation turns it into its dual.
LEMMA JoinedIs ==
    ASSUME NEW t \in Lists, NEW a \in Tristate, NEW b \in Tristate, NEW c \in Tristate
    PROVE  /\ Joined(t, a, b) \in Tristate
           /\ Joined(t, a, b) = Joined(t, b, a)
           /\ Joined(t, a, Joined(t, b, c)) = Joined(t, Joined(t, a, b), c)
           /\ Joined(t, a, a) = a
           /\ Joined(t, a, UnitValue(t)) = a /\ Joined(t, UnitValue(t), a) = a
           /\ Joined(t, a, UnitValue(Dual(t))) = UnitValue(Dual(t))
           /\ Joined(t, UnitValue(Dual(t)), a) = UnitValue(Dual(t))
           /\ UnitValue(t) \in Tristate /\ UnitValue(Dual(t)) \in Tristate
           /\ 2 - Joined(t, a, b) = Joined(Dual(t), 2 - a, 2 - b)
BY DEF Joined, UnitValue, Dual, Least, Greatest, Tristate, no, mod, yes, Lists

\* The unit of a list is the symbol y or n, and that of its dual the other one.
LEMMA UnitIs ==
    ASSUME NEW t \in Lists
    PROVE  /\ IsExpr(Unit(t)) /\ Weight(Unit(t)) = 1 /\ Unit(t).type = "symbol"
           /\ Dual(t) \in Lists /\ Dual(Dual(t)) = t /\ Dual(t) # t
           /\ Unit(t) \in {Symbol("y"), Symbol("n")}
           /\ {Unit(t), Unit(Dual(t))} = {Symbol("y"), Symbol("n")}
<1>1. "y" \in Operand /\ "n" \in Operand
  BY DEF Operand, Syms
<1>2. Unit(t) \in {Symbol("y"), Symbol("n")} /\ {Unit(t), Unit(Dual(t))} = {Symbol("y"), Symbol("n")}
  BY DEF Unit, Dual, Lists
<1>3. Dual(t) \in Lists /\ Dual(Dual(t)) = t /\ Dual(t) # t
  BY DEF Dual, Lists
<1> QED BY <1>1, <1>2, <1>3, SymbolIs, Shapes

\* The types of lists, comparisons, symbols and negations are different.
LEMMA TypesDiffer ==
    /\ "symbol" \notin Lists /\ "not" \notin Lists /\ "symbol" \notin Comparisons /\ "not" \notin Comparisons
    /\ \A t \in Lists : t \notin Comparisons /\ t # "none"
    /\ \A t \in Comparisons : t \notin Lists /\ t # "none"
BY DEF Lists, Comparisons

\* Each expression has a value.
LEMMA CalcIs ==
    ASSUME CalcRecurs, NEW val, NEW e, IsExpr(e)
    PROVE  /\ e.type = "symbol" => expr_calc_value(e, val) = val[e.sym].tri
           /\ e.type = "not" => expr_calc_value(e, val) = 2 - expr_calc_value(e.left, val)
           /\ e.type \in Lists => expr_calc_value(e, val) =
                Joined(e.type, expr_calc_value(e.left, val), expr_calc_value(e.right, val))
           /\ e.type = "equal" => expr_calc_value(e, val) = Truth(val[e.lsym].str = val[e.rsym].str)
           /\ e.type = "unequal" => expr_calc_value(e, val) = Truth(val[e.lsym].str # val[e.rsym].str)
<1>1. expr_calc_value(e, val) = CalcValue(e, val)
  BY DEF CalcRecurs
<1>2. CASE e.type = "symbol"
  BY <1>1, <1>2 DEF CalcValue, Lists
<1>3. CASE e.type = "not"
  BY <1>1, <1>3 DEF CalcValue, Lists
<1>4. CASE e.type = "and"
  BY <1>1, <1>4 DEF CalcValue, Joined
<1>5. CASE e.type = "or"
  BY <1>1, <1>5 DEF CalcValue, Joined
<1>6. CASE e.type = "equal"
  BY <1>1, <1>6 DEF CalcValue, Lists
<1>7. CASE e.type = "unequal"
  BY <1>1, <1>7 DEF CalcValue, Lists
<1> QED BY <1>2, <1>3, <1>4, <1>5, <1>6, <1>7 DEF Lists

\* An expression has one of three values.
LEMMA CalcTristate ==
    ASSUME CalcRecurs, NEW val, IsValuation(val), NEW e, IsExpr(e)
    PROVE  expr_calc_value(e, val) \in Tristate
<1> DEFINE S == {n \in Nat : \A x : IsExpr(x) /\ Weight(x) = n => expr_calc_value(x, val) \in Tristate}
<1>1. ASSUME NEW n \in Nat, \A i \in 0..(n - 1) : i \in S PROVE n \in S
  <2> SUFFICES ASSUME NEW x, IsExpr(x), Weight(x) = n PROVE expr_calc_value(x, val) \in Tristate
    OBVIOUS
  <2>1. \A y : IsExpr(y) /\ Weight(y) < Weight(x) => expr_calc_value(y, val) \in Tristate
    BY <1>1, ExprIs
  <2>2. CASE x.type = "symbol"
    <3>1. x.sym \in Syms
      BY <2>2, ExprIs DEF Operand
    <3> QED BY <2>2, <3>1, CalcIs DEF IsValuation
  <2>3. CASE x.type \in Comparisons
    BY <2>3, CalcIs DEF Truth, Tristate, no, mod, yes, Comparisons
  <2>4. CASE x.type = "not"
    <3>1. IsExpr(x.left) /\ Weight(x.left) < Weight(x)
      BY <2>4, ExprIs
    <3>2. expr_calc_value(x.left, val) \in Tristate
      BY <2>1, <3>1
    <3> QED BY <2>4, <3>2, CalcIs DEF Tristate, no, mod, yes
  <2>5. CASE x.type \in Lists
    <3>1. /\ IsExpr(x.left) /\ Weight(x.left) < Weight(x)
          /\ IsExpr(x.right) /\ Weight(x.right) < Weight(x)
      <4>1. IsExpr(x.left) /\ IsExpr(x.right) /\ Weight(x) = Weight(x.left) + Weight(x.right) + 2
        BY <2>5, ExprIs
      <4>2. Weight(x.left) \in Nat /\ Weight(x.right) \in Nat
        BY <4>1, ExprIs
      <4> QED BY <4>1, <4>2
    <3>2. expr_calc_value(x.left, val) \in Tristate /\ expr_calc_value(x.right, val) \in Tristate
      BY <2>1, <3>1
    <3> QED BY <2>5, <3>2, CalcIs, JoinedIs
  <2> QED BY <2>2, <2>3, <2>4, <2>5, ExprIs
<1>2. \A n \in Nat : n \in S
  <2>1. S \in SUBSET Nat
    OBVIOUS
  <2> HIDE DEF S
  <2> QED BY <1>1, <2>1, Induction
<1> QED BY <1>2, ExprIs

\* and one that is two-valued where the symbols are.
LEMMA PartsAreLighter ==
    ASSUME NEW e, IsExpr(e)
    PROVE  /\ e.type = "not" => IsExpr(e.left) /\ Weight(e.left) < Weight(e)
           /\ e.type \in Lists => /\ IsExpr(e.left) /\ Weight(e.left) < Weight(e)
                                  /\ IsExpr(e.right) /\ Weight(e.right) < Weight(e)
<1>1. CASE e.type = "not"
  <2>1. IsExpr(e.left) /\ Weight(e) = 2 * Weight(e.left) + 1
    BY <1>1, ExprIs
  <2>2. Weight(e.left) \in Nat
    BY <2>1, ExprIs
  <2> QED BY <1>1, <2>1, <2>2, TypesDiffer
<1>2. CASE e.type \in Lists
  <2>1. IsExpr(e.left) /\ IsExpr(e.right) /\ Weight(e) = Weight(e.left) + Weight(e.right) + 2
    BY <1>2, ExprIs
  <2>2. Weight(e.left) \in Nat /\ Weight(e.right) \in Nat
    BY <2>1, ExprIs
  <2> QED BY <1>2, <2>1, <2>2, TypesDiffer
<1> QED BY <1>1, <1>2

\* Where no symbol is a module no expression is.
LEMMA CalcTwoValued ==
    ASSUME CalcRecurs, NEW val, IsTwoValued(val), NEW e, IsExpr(e)
    PROVE  expr_calc_value(e, val) \in {no, yes}
<1> DEFINE S == {n \in Nat : \A x : IsExpr(x) /\ Weight(x) = n => expr_calc_value(x, val) \in {no, yes}}
<1>0. IsValuation(val)
  BY DEF IsTwoValued
<1>1. ASSUME NEW n \in Nat, \A i \in 0..(n - 1) : i \in S PROVE n \in S
  <2> SUFFICES ASSUME NEW x, IsExpr(x), Weight(x) = n PROVE expr_calc_value(x, val) \in {no, yes}
    OBVIOUS
  <2>1. \A y : IsExpr(y) /\ Weight(y) < Weight(x) => expr_calc_value(y, val) \in {no, yes}
    BY <1>1, ExprIs
  <2>2. CASE x.type = "symbol"
    <3>1. x.sym \in Operand /\ x.sym \in Syms
      BY <2>2, ExprIs DEF Operand
    <3> QED BY <1>0, <2>2, <3>1, CalcIs DEF IsValuation, IsTwoValued, Tristate
  <2>3. CASE x.type \in Comparisons
    BY <2>3, CalcIs DEF Truth, Comparisons
  <2>4. CASE x.type = "not"
    <3>1. expr_calc_value(x.left, val) \in {no, yes}
      BY <2>1, <2>4, PartsAreLighter
    <3> QED BY <2>4, <3>1, CalcIs DEF no, yes
  <2>5. CASE x.type \in Lists
    <3>1. expr_calc_value(x.left, val) \in {no, yes} /\ expr_calc_value(x.right, val) \in {no, yes}
      BY <2>1, <2>5, PartsAreLighter
    <3> QED BY <2>5, <3>1, CalcIs DEF Joined, Least, Greatest
  <2> QED BY <2>2, <2>3, <2>4, <2>5, ExprIs
<1>2. \A n \in Nat : n \in S
  <2>1. S \in SUBSET Nat
    OBVIOUS
  <2> HIDE DEF S
  <2> QED BY <1>1, <2>1, Induction
<1> QED BY <1>2, ExprIs

\* The value of what is built.
LEMMA CalcOf ==
    ASSUME CalcRecurs, NEW val
    PROVE  /\ \A s \in Operand : expr_calc_value(Symbol(s), val) = val[s].tri
           /\ \A a \in Operand, b \in Syms :
                /\ expr_calc_value(Comp("equal", a, b), val) = Truth(val[a].str = val[b].str)
                /\ expr_calc_value(Comp("unequal", a, b), val) = Truth(val[a].str # val[b].str)
           /\ \A a : IsExpr(a) => expr_calc_value(Not(a), val) = 2 - expr_calc_value(a, val)
           /\ \A t \in Lists : \A a, b : IsExpr(a) /\ IsExpr(b) =>
                expr_calc_value(Two(t, a, b), val) = Joined(t, expr_calc_value(a, val), expr_calc_value(b, val))
<1>1. \A s \in Operand : expr_calc_value(Symbol(s), val) = val[s].tri
  BY SymbolIs, Shapes, CalcIs
<1>2. ASSUME NEW a \in Operand, NEW b \in Syms
      PROVE  /\ expr_calc_value(Comp("equal", a, b), val) = Truth(val[a].str = val[b].str)
             /\ expr_calc_value(Comp("unequal", a, b), val) = Truth(val[a].str # val[b].str)
  <2>1. IsExpr(Comp("equal", a, b)) /\ IsExpr(Comp("unequal", a, b))
    BY CompIs DEF Comparisons
  <2> QED BY <2>1, Shapes, CalcIs
<1>3. ASSUME NEW a, IsExpr(a) PROVE expr_calc_value(Not(a), val) = 2 - expr_calc_value(a, val)
  BY <1>3, NotIs, Shapes, CalcIs
<1>4. ASSUME NEW t \in Lists, NEW a, NEW b, IsExpr(a), IsExpr(b)
      PROVE  expr_calc_value(Two(t, a, b), val) = Joined(t, expr_calc_value(a, val), expr_calc_value(b, val))
  <2>1. IsExpr(Two(t, a, b))
    BY <1>4, TwoIs
  <2>2. Two(t, a, b).type = t /\ Two(t, a, b).left = a /\ Two(t, a, b).right = b
    BY Shapes
  <2> QED BY <2>1, <2>2, CalcIs
<1> QED BY <1>1, <1>2, <1>3, <1>4

\* The value of a negation.
LEMMA CalcNot ==
    ASSUME CalcRecurs, NEW val, NEW a, IsExpr(a)
    PROVE  expr_calc_value(Not(a), val) = 2 - expr_calc_value(a, val)
BY CalcOf

\* The value of a conjunction or disjunction that was built.
LEMMA CalcTwo ==
    ASSUME CalcRecurs, NEW val, NEW t \in Lists, NEW a, IsExpr(a), NEW b, IsExpr(b)
    PROVE  expr_calc_value(Two(t, a, b), val) = Joined(t, expr_calc_value(a, val), expr_calc_value(b, val))
<1>1. IsExpr(Two(t, a, b))
  BY TwoIs
<1>2. Two(t, a, b).type = t /\ Two(t, a, b).left = a /\ Two(t, a, b).right = b
  BY Shapes
<1> QED BY <1>1, <1>2, CalcIs

\* The value of a list, from those of its parts.
LEMMA CalcList ==
    ASSUME CalcRecurs, NEW val, NEW e, IsExpr(e), e.type \in Lists
    PROVE  expr_calc_value(e, val) = Joined(e.type, expr_calc_value(e.left, val), expr_calc_value(e.right, val))
BY CalcIs

\* The value of a negation, from that of its part.
LEMMA CalcNotIs ==
    ASSUME CalcRecurs, NEW val, NEW e, IsExpr(e), e.type = "not"
    PROVE  expr_calc_value(e, val) = 2 - expr_calc_value(e.left, val)
BY CalcIs

\* The value of the unit of a list is the unit of joining.
LEMMA CalcUnit ==
    ASSUME CalcRecurs, NEW val, IsValuation(val), NEW t \in Lists
    PROVE  expr_calc_value(Unit(t), val) = UnitValue(t)
<1>1. "y" \in Operand /\ "n" \in Operand
  BY DEF Operand, Syms
<1> QED BY <1>1, CalcOf DEF Unit, UnitValue, IsValuation

-----------------------------------------------------------------------------
(* Constants in lists are eliminated.                                      *)

\* The value of e is what it was, whatever the symbols are.
SameValue(a, b) == \A val : IsValuation(val) => expr_calc_value(a, val) = expr_calc_value(b, val)
SameTwoValue(a, b) == \A val : IsTwoValued(val) => expr_calc_value(a, val) = expr_calc_value(b, val)

Simplifies(a, e) == IsExpr(a) /\ Weight(a) <= Weight(e) /\ SameValue(a, e)

\* What expr_eliminate_yn makes of a list: a constant, one of its sides, or a list.
LEMMA YnStep ==
    ASSUME YnRecurs, NEW e, IsExpr(e)
    PROVE  LET l == expr_eliminate_yn(e.left)
               r == expr_eliminate_yn(e.right)
               a == expr_eliminate_yn(e)
           IN /\ e.type \notin Lists => a = e
              /\ e.type \in Lists =>
                   \/ a = Unit(Dual(e.type)) /\ (l = Unit(Dual(e.type)) \/ r = Unit(Dual(e.type)))
                   \/ a = r /\ l = Unit(e.type)
                   \/ a = l /\ r = Unit(e.type)
                   \/ a = Two(e.type, l, r)
<1>1. expr_eliminate_yn(e) = EliminateYn(e)
  BY DEF YnRecurs
<1> QED BY <1>1 DEF EliminateYn

\* expr_eliminate_yn keeps the value of every expression and makes none heavier.
LEMMA YnSimplifies ==
    ASSUME CalcRecurs, YnRecurs, NEW e, IsExpr(e)
    PROVE  Simplifies(expr_eliminate_yn(e), e)
<1> DEFINE Good(x) == Simplifies(expr_eliminate_yn(x), x)
           S == {n \in Nat : \A x : IsExpr(x) /\ Weight(x) = n => Good(x)}
<1>1. ASSUME NEW n \in Nat, \A i \in 0..(n - 1) : i \in S PROVE n \in S
  <2> SUFFICES ASSUME NEW x, IsExpr(x), Weight(x) = n PROVE Good(x)
    OBVIOUS
  <2>1. \A y : IsExpr(y) /\ Weight(y) < Weight(x) => Good(y)
    BY <1>1, ExprIs
  <2>2. CASE x.type \notin Lists
    BY <2>2, YnStep, ExprIs DEF Simplifies, SameValue
  <2>3. CASE x.type \in Lists
    <3> DEFINE l == expr_eliminate_yn(x.left)
               r == expr_eliminate_yn(x.right)
               a == expr_eliminate_yn(x)
               t == x.type
    <3>1. IsExpr(x.left) /\ IsExpr(x.right) /\ Weight(x) = Weight(x.left) + Weight(x.right) + 2
      BY <2>3, ExprIs
    <3>2. Good(x.left) /\ Good(x.right)
      BY <2>1, <2>3, PartsAreLighter
    <3>3. /\ IsExpr(l) /\ IsExpr(r) /\ Weight(l) <= Weight(x.left) /\ Weight(r) <= Weight(x.right)
          /\ SameValue(l, x.left) /\ SameValue(r, x.right)
      BY <3>2 DEF Simplifies
    <3>4. /\ Weight(l) \in Nat \ {0} /\ Weight(r) \in Nat \ {0}
          /\ Weight(x.left) \in Nat \ {0} /\ Weight(x.right) \in Nat \ {0}
      BY <3>1, <3>3, ExprIs
    <3>5. \/ a = Unit(Dual(t)) /\ (l = Unit(Dual(t)) \/ r = Unit(Dual(t)))
          \/ a = r /\ l = Unit(t)
          \/ a = l /\ r = Unit(t)
          \/ a = Two(t, l, r)
      BY <2>3, YnStep
    <3>6. ASSUME NEW val, IsValuation(val)
          PROVE  /\ expr_calc_value(x, val) = Joined(t, expr_calc_value(l, val), expr_calc_value(r, val))
                 /\ expr_calc_value(l, val) \in Tristate /\ expr_calc_value(r, val) \in Tristate
      <4>1. expr_calc_value(x, val) = Joined(t, expr_calc_value(x.left, val), expr_calc_value(x.right, val))
        BY <2>3, CalcIs
      <4>2. expr_calc_value(x.left, val) = expr_calc_value(l, val)
            /\ expr_calc_value(x.right, val) = expr_calc_value(r, val)
        BY <3>3, <3>6 DEF SameValue
      <4>3. expr_calc_value(l, val) \in Tristate /\ expr_calc_value(r, val) \in Tristate
        BY <3>3, <3>6, CalcTristate
      <4> QED BY <4>1, <4>2, <4>3
    <3>7. Dual(t) \in Lists /\ Dual(Dual(t)) = t
      BY <2>3, UnitIs
    <3>8. \A val : IsValuation(val) => /\ expr_calc_value(Unit(t), val) = UnitValue(t)
                                       /\ expr_calc_value(Unit(Dual(t)), val) = UnitValue(Dual(t))
      BY <2>3, <3>7, CalcUnit
    <3> HIDE DEF a, l, r, t
    <3>9. CASE a = Unit(Dual(t)) /\ (l = Unit(Dual(t)) \/ r = Unit(Dual(t)))
      <4>1. IsExpr(a) /\ Weight(a) = 1
        BY <3>7, <3>9, UnitIs
      <4>2. Weight(a) <= Weight(x)
        BY <3>1, <3>4, <4>1
      <4>3. SameValue(a, x)
        BY <2>3, <3>6, <3>8, <3>9, JoinedIs DEF SameValue, t
      <4> QED BY <4>1, <4>2, <4>3 DEF Simplifies, a
    <3>10. CASE a = r /\ l = Unit(t)
      <4>1. IsExpr(a) /\ Weight(a) <= Weight(x)
        BY <3>1, <3>3, <3>4, <3>10
      <4>2. SameValue(a, x)
        BY <2>3, <3>6, <3>8, <3>10, JoinedIs DEF SameValue, t
      <4> QED BY <4>1, <4>2 DEF Simplifies, a
    <3>11. CASE a = l /\ r = Unit(t)
      <4>1. IsExpr(a) /\ Weight(a) <= Weight(x)
        BY <3>1, <3>3, <3>4, <3>11
      <4>2. SameValue(a, x)
        BY <2>3, <3>6, <3>8, <3>11, JoinedIs DEF SameValue, t
      <4> QED BY <4>1, <4>2 DEF Simplifies, a
    <3>12. CASE a = Two(t, l, r)
      <4>1. IsExpr(a) /\ Weight(a) = Weight(l) + Weight(r) + 2
        BY <2>3, <3>3, <3>12, TwoIs DEF t
      <4>2. Weight(a) <= Weight(x)
        BY <3>1, <3>3, <3>4, <4>1
      <4>3. SameValue(a, x)
        BY <2>3, <3>3, <3>6, <3>12, CalcOf DEF SameValue, t
      <4> QED BY <4>1, <4>2, <4>3 DEF Simplifies, a
    <3> QED BY <3>5, <3>9, <3>10, <3>11, <3>12
  <2> QED BY <2>2, <2>3
<1>2. \A n \in Nat : n \in S
  <2>1. S \in SUBSET Nat
    OBVIOUS
  <2> HIDE DEF S
  <2> QED BY <1>1, <2>1, Induction
<1> QED BY <1>2, ExprIs

-----------------------------------------------------------------------------
(* Comparisons become symbols, and negations move down.                    *)

\* A boolean compared with a constant is itself, its negation or constant.
LEMMA BoolTestIs ==
    ASSUME CalcRecurs, NEW e, IsExpr(e), e.type \in Comparisons, SymType[e.lsym] = "boolean"
    PROVE  Simplifies(BoolTest(e), e)
<1>1. e.lsym \in Operand /\ e.lsym \in Syms /\ e.rsym \in Syms /\ Weight(e) = 3
  BY ExprIs DEF Operand
<1>2. "y" \in Operand /\ "n" \in Operand
  BY DEF Operand, Syms
<1>3. e.type \in {"equal", "unequal"}
  BY DEF Comparisons
<1>4. ASSUME NEW val, IsValuation(val)
      PROVE  /\ val[e.lsym].tri \in {no, yes} /\ val[e.lsym].str = TriText(val[e.lsym].tri)
             /\ val["n"].str = "n" /\ val["m"].str = "m" /\ val["y"].str = "y"
             /\ val["n"].tri = no /\ val["y"].tri = yes
  BY <1>1, <1>4 DEF IsValuation, Tristate, TriText, no, mod, yes, Syms
<1>5. \A val : IsValuation(val) => expr_calc_value(e, val) =
        IF e.type = "equal" THEN Truth(val[e.lsym].str = val[e.rsym].str) ELSE Truth(val[e.lsym].str # val[e.rsym].str)
  BY <1>3, CalcIs
<1>6. \A val : IsValuation(val) => /\ expr_calc_value(Symbol(e.lsym), val) = val[e.lsym].tri
                                   /\ expr_calc_value(Not(Symbol(e.lsym)), val) = 2 - val[e.lsym].tri
                                   /\ expr_calc_value(Symbol("y"), val) = yes
                                   /\ expr_calc_value(Symbol("n"), val) = no
  BY <1>1, <1>2, <1>4, CalcOf, SymbolIs
<1>7. /\ IsExpr(Symbol(e.lsym)) /\ Weight(Symbol(e.lsym)) = 1
      /\ IsExpr(Not(Symbol(e.lsym))) /\ Weight(Not(Symbol(e.lsym))) = 3
      /\ IsExpr(Symbol("y")) /\ Weight(Symbol("y")) = 1 /\ IsExpr(Symbol("n")) /\ Weight(Symbol("n")) = 1
  BY <1>1, <1>2, SymbolIs, NotIs
<1>8. CASE e.rsym = "n"
  <2>1. BoolTest(e) = IF e.type = "equal" THEN Not(Symbol(e.lsym)) ELSE Symbol(e.lsym)
    BY <1>8 DEF BoolTest
  <2>2. SameValue(BoolTest(e), e)
    BY <1>3, <1>4, <1>5, <1>6, <1>8, <2>1 DEF SameValue, Truth, TriText, no, mod, yes
  <2> QED BY <1>1, <1>7, <2>1, <2>2 DEF Simplifies
<1>9. CASE e.rsym = "m"
  <2>1. BoolTest(e) = Symbol(IF e.type = "equal" THEN "n" ELSE "y")
    BY <1>9 DEF BoolTest
  <2>2. SameValue(BoolTest(e), e)
    BY <1>3, <1>4, <1>5, <1>6, <1>9, <2>1 DEF SameValue, Truth, TriText, no, mod, yes
  <2> QED BY <1>1, <1>7, <2>1, <2>2 DEF Simplifies
<1>10. CASE e.rsym = "y"
  <2>1. BoolTest(e) = IF e.type = "equal" THEN Symbol(e.lsym) ELSE Not(Symbol(e.lsym))
    BY <1>10 DEF BoolTest
  <2>2. SameValue(BoolTest(e), e)
    BY <1>3, <1>4, <1>5, <1>6, <1>10, <2>1 DEF SameValue, Truth, TriText, no, mod, yes
  <2> QED BY <1>1, <1>7, <2>1, <2>2 DEF Simplifies
<1>11. CASE e.rsym \notin {"n", "m", "y"}
  BY <1>1, <1>11 DEF BoolTest, Simplifies, SameValue
<1> QED BY <1>8, <1>9, <1>10, <1>11

\* What expr_transform makes of a negation, from what it made of the part.
LEMMA TransformStep ==
    ASSUME TransformRecurs, NEW e, IsExpr(e)
    PROVE  LET g == expr_transform(e.left)
               a == expr_transform(e)
           IN /\ e.type \in Comparisons => a = IF SymType[e.lsym] = "boolean" THEN BoolTest(e) ELSE e
              /\ e.type \in Lists => a = Two(e.type, expr_transform(e.left), expr_transform(e.right))
              /\ e.type = "symbol" => a = e
              /\ e.type = "not" /\ g.type = "not" => a = expr_transform(g.left)
              /\ e.type = "not" /\ g.type \in Comparisons => a = Comp(Opposite(g.type), g.lsym, g.rsym)
              /\ e.type = "not" /\ g.type \in Lists =>
                   a = expr_transform(Two(Dual(g.type), Not(g.left), Not(g.right)))
              /\ e.type = "not" /\ g.type = "symbol" =>
                   \/ g = Symbol("y") /\ a = Symbol("n")
                   \/ g = Symbol("n") /\ a = Symbol("y")
                   \/ g = Symbol("m") /\ a = Symbol("m")
                   \/ a = Not(g)
<1> DEFINE g == expr_transform(e.left)
<1>1. expr_transform(e) = Transform(e)
  BY DEF TransformRecurs
<1>2. Symbol("y").type = "symbol" /\ Symbol("n").type = "symbol" /\ Symbol("m").type = "symbol"
  BY Shapes
<1>3. ASSUME e.type # "not" PROVE
        /\ e.type \in Comparisons =>
             expr_transform(e) = IF SymType[e.lsym] = "boolean" THEN BoolTest(e) ELSE e
        /\ e.type \in Lists => expr_transform(e) = Two(e.type, expr_transform(e.left), expr_transform(e.right))
        /\ e.type = "symbol" => expr_transform(e) = e
  BY <1>1, <1>3, TypesDiffer DEF Transform
<1>4. ASSUME e.type = "not" PROVE Transform(e) =
        CASE g.type = "not"          -> expr_transform(g.left)
          [] g.type \in Comparisons  -> Comp(Opposite(g.type), g.lsym, g.rsym)
          [] g.type \in Lists        -> expr_transform(Two(Dual(g.type), Not(g.left), Not(g.right)))
          [] g = Symbol("y")         -> Symbol("n")
          [] g = Symbol("m")         -> Symbol("m")
          [] g = Symbol("n")         -> Symbol("y")
          [] OTHER                   -> Not(g)
  BY <1>4, TypesDiffer DEF Transform
<1> HIDE DEF g
<1>5. ASSUME e.type = "not" PROVE
        /\ g.type = "not" => expr_transform(e) = expr_transform(g.left)
        /\ g.type \in Comparisons => expr_transform(e) = Comp(Opposite(g.type), g.lsym, g.rsym)
        /\ g.type \in Lists => expr_transform(e) = expr_transform(Two(Dual(g.type), Not(g.left), Not(g.right)))
        /\ g.type = "symbol" => \/ g = Symbol("y") /\ expr_transform(e) = Symbol("n")
                                \/ g = Symbol("n") /\ expr_transform(e) = Symbol("y")
                                \/ g = Symbol("m") /\ expr_transform(e) = Symbol("m")
                                \/ expr_transform(e) = Not(g)
  BY <1>1, <1>2, <1>4, <1>5, TypesDiffer
<1> QED BY <1>3, <1>5, TypesDiffer DEF g

\* What a negation becomes once its part is simplified.
LEMMA NegationSimplifies ==
    ASSUME CalcRecurs, TransformRecurs, NEW e, IsExpr(e), e.type = "not",
           Simplifies(expr_transform(e.left), e.left),
           \A y : IsExpr(y) /\ Weight(y) < Weight(e) => Simplifies(expr_transform(y), y)
    PROVE  Simplifies(expr_transform(e), e)
<1> DEFINE g == expr_transform(e.left)
           a == expr_transform(e)
<1>1. IsExpr(e.left) /\ Weight(e) = 2 * Weight(e.left) + 1 /\ Weight(e.left) \in Nat
  BY ExprIs
<1>2. IsExpr(g) /\ Weight(g) <= Weight(e.left) /\ SameValue(g, e.left) /\ Weight(g) \in Nat \ {0}
  BY ExprIs DEF Simplifies
<1>3. \A val : IsValuation(val) => /\ expr_calc_value(e, val) = 2 - expr_calc_value(g, val)
                                   /\ expr_calc_value(g, val) \in Tristate
  BY <1>2, CalcIs, CalcTristate DEF SameValue
<1> HIDE DEF g, a
<1>4. CASE g.type = "not"
  <2>1. a = expr_transform(g.left)
    BY <1>4, TransformStep DEF g, a
  <2>2. IsExpr(g.left) /\ Weight(g.left) < Weight(g) /\ Weight(g.left) \in Nat
    BY <1>2, <1>4, PartsAreLighter, ExprIs
  <2>3. Simplifies(a, g.left)
    BY <1>1, <1>2, <2>1, <2>2
  <2>4. Weight(a) <= Weight(e)
    <3>1. Weight(a) \in Nat /\ Weight(a) <= Weight(g.left)
      BY <2>3, ExprIs DEF Simplifies
    <3> QED BY <1>1, <1>2, <2>2, <3>1
  <2>5. \A val : IsValuation(val) => expr_calc_value(a, val) = expr_calc_value(e, val)
    <3>1. \A val : IsValuation(val) => /\ expr_calc_value(g, val) = 2 - expr_calc_value(g.left, val)
                                       /\ expr_calc_value(g.left, val) \in Tristate
      BY <1>2, <1>4, <2>2, CalcIs, CalcTristate
    <3> QED BY <1>3, <2>3, <3>1 DEF Simplifies, SameValue, Tristate, no, mod, yes
  <2> QED BY <2>3, <2>4, <2>5 DEF Simplifies, SameValue, a
<1>5. CASE g.type \in Comparisons
  <2>1. a = Comp(Opposite(g.type), g.lsym, g.rsym)
    BY <1>5, TransformStep DEF g, a
  <2>2. g.lsym \in Operand /\ g.rsym \in Syms /\ Weight(g) = 3
    BY <1>2, <1>5, ExprIs
  <2>3. Opposite(g.type) \in Comparisons
    BY DEF Opposite, Comparisons
  <2>4. IsExpr(a) /\ Weight(a) = 3
    BY <2>1, <2>2, <2>3, CompIs
  <2>5. \A val : IsValuation(val) => expr_calc_value(a, val) = expr_calc_value(e, val)
    <3>1. CASE g.type = "equal"
      <4>1. a = Comp("unequal", g.lsym, g.rsym)
        BY <2>1, <3>1 DEF Opposite
      <4> QED BY <1>2, <1>3, <2>2, <3>1, <4>1, CalcIs, CalcOf DEF Truth, no, yes
    <3>2. CASE g.type = "unequal"
      <4>1. a = Comp("equal", g.lsym, g.rsym)
        BY <2>1, <3>2 DEF Opposite
      <4> QED BY <1>2, <1>3, <2>2, <3>2, <4>1, CalcIs, CalcOf DEF Truth, no, yes
    <3> QED BY <1>5, <3>1, <3>2 DEF Comparisons
  <2> QED BY <1>1, <1>2, <2>2, <2>4, <2>5 DEF Simplifies, SameValue, a
<1>6. CASE g.type \in Lists
  <2> DEFINE d == Two(Dual(g.type), Not(g.left), Not(g.right))
  <2>1. a = expr_transform(d)
    BY <1>6, TransformStep DEF g, a
  <2>2. IsExpr(g.left) /\ IsExpr(g.right) /\ Weight(g) = Weight(g.left) + Weight(g.right) + 2
    BY <1>2, <1>6, ExprIs
  <2>3. Weight(g.left) \in Nat /\ Weight(g.right) \in Nat
    BY <2>2, ExprIs
  <2>4. /\ IsExpr(Not(g.left)) /\ Weight(Not(g.left)) = 2 * Weight(g.left) + 1
        /\ IsExpr(Not(g.right)) /\ Weight(Not(g.right)) = 2 * Weight(g.right) + 1
    BY <2>2, NotIs
  <2>5. Dual(g.type) \in Lists
    BY <1>6, UnitIs
  <2>6. IsExpr(d) /\ Weight(d) = Weight(Not(g.left)) + Weight(Not(g.right)) + 2
    BY <2>4, <2>5, TwoIs
  <2>7. Weight(d) < Weight(e) /\ Weight(d) \in Nat
    BY <1>1, <1>2, <2>2, <2>3, <2>4, <2>6
  <2>8. \A val : IsValuation(val) => expr_calc_value(d, val) = expr_calc_value(e, val)
    <3> SUFFICES ASSUME NEW val, IsValuation(val) PROVE expr_calc_value(d, val) = expr_calc_value(e, val)
      OBVIOUS
    <3>1. expr_calc_value(d, val) =
            Joined(Dual(g.type), expr_calc_value(Not(g.left), val), expr_calc_value(Not(g.right), val))
      BY <2>4, <2>5, CalcTwo
    <3>2. /\ expr_calc_value(Not(g.left), val) = 2 - expr_calc_value(g.left, val)
          /\ expr_calc_value(Not(g.right), val) = 2 - expr_calc_value(g.right, val)
      BY <2>2, CalcOf
    <3>3. expr_calc_value(g.left, val) \in Tristate /\ expr_calc_value(g.right, val) \in Tristate
      BY <2>2, CalcTristate
    <3>4. expr_calc_value(g, val) = Joined(g.type, expr_calc_value(g.left, val), expr_calc_value(g.right, val))
      BY <1>2, <1>6, CalcIs
    <3> HIDE DEF d
    <3> QED BY <1>3, <1>6, <3>1, <3>2, <3>3, <3>4, JoinedIs
  <2> HIDE DEF d
  <2>9. Simplifies(a, d)
    BY <2>1, <2>6, <2>7
  <2>10. Weight(a) \in Nat
    BY <2>9, ExprIs DEF Simplifies
  <2> QED BY <1>1, <2>7, <2>8, <2>9, <2>10 DEF Simplifies, SameValue, a
<1>7. CASE g.type = "symbol"
  <2>1. \/ g = Symbol("y") /\ a = Symbol("n")
        \/ g = Symbol("n") /\ a = Symbol("y")
        \/ g = Symbol("m") /\ a = Symbol("m")
        \/ a = Not(g)
    BY <1>7, TransformStep DEF g, a
  <2>2. "y" \in Operand /\ "n" \in Operand /\ g # Symbol("m")
    <3>1. g.sym \in Operand
      BY <1>2, <1>7, ExprIs
    <3> QED BY <3>1, Shapes DEF Operand, Syms
  <2>3. CASE g = Symbol("y") /\ a = Symbol("n")
    <3>1. IsExpr(a) /\ Weight(a) = 1
      BY <2>2, <2>3, SymbolIs
    <3>2. \A val : IsValuation(val) => expr_calc_value(a, val) = expr_calc_value(e, val)
      BY <1>3, <2>2, <2>3, CalcOf DEF IsValuation, no, yes
    <3> QED BY <1>1, <3>1, <3>2 DEF Simplifies, SameValue, a
  <2>4. CASE g = Symbol("n") /\ a = Symbol("y")
    <3>1. IsExpr(a) /\ Weight(a) = 1
      BY <2>2, <2>4, SymbolIs
    <3>2. \A val : IsValuation(val) => expr_calc_value(a, val) = expr_calc_value(e, val)
      BY <1>3, <2>2, <2>4, CalcOf DEF IsValuation, no, yes
    <3> QED BY <1>1, <3>1, <3>2 DEF Simplifies, SameValue, a
  <2>5. CASE a = Not(g)
    <3>1. IsExpr(a) /\ Weight(a) = 2 * Weight(g) + 1
      BY <1>2, <2>5, NotIs
    <3>2. Weight(a) <= Weight(e)
      BY <1>1, <1>2, <3>1
    <3>3. \A val : IsValuation(val) => expr_calc_value(a, val) = expr_calc_value(e, val)
      BY <1>2, <1>3, <2>5, CalcOf
    <3> QED BY <3>1, <3>2, <3>3 DEF Simplifies, SameValue, a
  <2> QED BY <2>1, <2>2, <2>3, <2>4, <2>5
<1> QED BY <1>2, <1>4, <1>5, <1>6, <1>7, ExprIs

\* expr_transform keeps the value of every expression and makes none heavier.
LEMMA TransformSimplifies ==
    ASSUME CalcRecurs, TransformRecurs, NEW e, IsExpr(e)
    PROVE  Simplifies(expr_transform(e), e)
<1> DEFINE Good(x) == Simplifies(expr_transform(x), x)
           S == {n \in Nat : \A x : IsExpr(x) /\ Weight(x) = n => Good(x)}
<1>1. ASSUME NEW n \in Nat, \A i \in 0..(n - 1) : i \in S PROVE n \in S
  <2> SUFFICES ASSUME NEW x, IsExpr(x), Weight(x) = n PROVE Good(x)
    OBVIOUS
  <2>1. \A y : IsExpr(y) /\ Weight(y) < Weight(x) => Good(y)
    BY <1>1, ExprIs
  <2>2. CASE x.type = "symbol"
    BY <2>2, TransformStep, ExprIs DEF Simplifies, SameValue
  <2>3. CASE x.type \in Comparisons
    <3>1. expr_transform(x) = IF SymType[x.lsym] = "boolean" THEN BoolTest(x) ELSE x
      BY <2>3, TransformStep
    <3>2. Simplifies(x, x)
      BY ExprIs DEF Simplifies, SameValue
    <3> QED BY <2>3, <3>1, <3>2, BoolTestIs
  <2>4. CASE x.type = "not"
    <3>1. Good(x.left)
      BY <2>1, <2>4, PartsAreLighter
    <3> QED BY <2>1, <2>4, <3>1, NegationSimplifies
  <2>5. CASE x.type \in Lists
    <3> DEFINE l == expr_transform(x.left)
               r == expr_transform(x.right)
    <3>1. Good(x.left) /\ Good(x.right) /\ IsExpr(x.left) /\ IsExpr(x.right)
      BY <2>1, <2>5, PartsAreLighter
    <3>2. expr_transform(x) = Two(x.type, l, r)
      BY <2>5, TransformStep
    <3>3. /\ IsExpr(l) /\ Weight(l) <= Weight(x.left) /\ SameValue(l, x.left)
          /\ IsExpr(r) /\ Weight(r) <= Weight(x.right) /\ SameValue(r, x.right)
      BY <3>1 DEF Simplifies
    <3>4. /\ Weight(l) \in Nat /\ Weight(r) \in Nat /\ Weight(x.left) \in Nat /\ Weight(x.right) \in Nat
          /\ Weight(x) = Weight(x.left) + Weight(x.right) + 2
      BY <2>5, <3>1, <3>3, ExprIs
    <3> HIDE DEF l, r
    <3>5. IsExpr(Two(x.type, l, r)) /\ Weight(Two(x.type, l, r)) = Weight(l) + Weight(r) + 2
      BY <2>5, <3>3, TwoIs
    <3>6. SameValue(Two(x.type, l, r), x)
      <4> SUFFICES ASSUME NEW val, IsValuation(val)
                   PROVE  expr_calc_value(Two(x.type, l, r), val) = expr_calc_value(x, val)
        BY DEF SameValue
      <4>1. expr_calc_value(l, val) = expr_calc_value(x.left, val)
            /\ expr_calc_value(r, val) = expr_calc_value(x.right, val)
        BY <3>3 DEF SameValue
      <4>2. expr_calc_value(Two(x.type, l, r), val) = Joined(x.type, expr_calc_value(l, val), expr_calc_value(r, val))
        BY <2>5, <3>3, CalcTwo
      <4>3. expr_calc_value(x, val) = Joined(x.type, expr_calc_value(x.left, val), expr_calc_value(x.right, val))
        BY <2>5, CalcList
      <4> QED BY <4>1, <4>2, <4>3
    <3>7. Weight(Two(x.type, l, r)) <= Weight(x)
      BY <3>3, <3>4, <3>5
    <3> QED BY <3>2, <3>5, <3>6, <3>7 DEF Simplifies
  <2> QED BY <2>2, <2>3, <2>4, <2>5, ExprIs
<1>2. \A n \in Nat : n \in S
  <2>1. S \in SUBSET Nat
    OBVIOUS
  <2> HIDE DEF S
  <2> QED BY <1>1, <2>1, Induction
<1> QED BY <1>2, ExprIs

-----------------------------------------------------------------------------
(* What is meant for y and n only.                                         *)

\* A tristate that is not n is y: expr_trans_bool keeps the value of what has
\* no modules in it.
LEMMA BoolKeepsTwoValue ==
    ASSUME CalcRecurs, BoolRecurs, NEW e, IsExpr(e)
    PROVE  IsExpr(expr_trans_bool(e)) /\ SameTwoValue(expr_trans_bool(e), e)
<1> DEFINE Good(x) == IsExpr(expr_trans_bool(x)) /\ SameTwoValue(expr_trans_bool(x), x)
           S == {n \in Nat : \A x : IsExpr(x) /\ Weight(x) = n => Good(x)}
<1>1. ASSUME NEW n \in Nat, \A i \in 0..(n - 1) : i \in S PROVE n \in S
  <2> SUFFICES ASSUME NEW x, IsExpr(x), Weight(x) = n PROVE Good(x)
    OBVIOUS
  <2>1. \A y : IsExpr(y) /\ Weight(y) < Weight(x) => Good(y)
    BY <1>1, ExprIs
  <2>2. expr_trans_bool(x) = TransBool(x)
    BY DEF BoolRecurs
  <2>3. CASE x.type = "not"
    <3>1. Good(x.left) /\ IsExpr(x.left)
      BY <2>1, <2>3, PartsAreLighter
    <3>2. expr_trans_bool(x) = Not(expr_trans_bool(x.left))
      BY <2>2, <2>3, TypesDiffer DEF TransBool
    <3> DEFINE l == expr_trans_bool(x.left)
    <3>3. IsExpr(l) /\ IsExpr(Not(l)) /\ SameTwoValue(l, x.left)
      BY <3>1, NotIs
    <3>4. ASSUME NEW val, IsTwoValued(val) PROVE expr_calc_value(Not(l), val) = expr_calc_value(x, val)
      <4>1. expr_calc_value(l, val) = expr_calc_value(x.left, val)
        BY <3>3, <3>4 DEF SameTwoValue
      <4>2. expr_calc_value(Not(l), val) = 2 - expr_calc_value(l, val)
        BY <3>3, CalcNot
      <4>3. expr_calc_value(x, val) = 2 - expr_calc_value(x.left, val)
        BY <2>3, CalcNotIs
      <4> QED BY <4>1, <4>2, <4>3
    <3> QED BY <3>2, <3>3, <3>4 DEF SameTwoValue
  <2>4. CASE x.type \in Lists
    <3> DEFINE l == expr_trans_bool(x.left)
               r == expr_trans_bool(x.right)
    <3>1. Good(x.left) /\ IsExpr(x.left) /\ Good(x.right) /\ IsExpr(x.right)
      BY <2>1, <2>4, PartsAreLighter
    <3>2. expr_trans_bool(x) = Two(x.type, l, r)
      BY <2>2, <2>4 DEF TransBool, Lists
    <3>3. IsExpr(Two(x.type, l, r))
      BY <2>4, <3>1, TwoIs
    <3>4. ASSUME NEW val, IsTwoValued(val)
          PROVE  expr_calc_value(Two(x.type, l, r), val) = expr_calc_value(x, val)
      <4>1. /\ expr_calc_value(l, val) = expr_calc_value(x.left, val)
            /\ expr_calc_value(r, val) = expr_calc_value(x.right, val)
        BY <3>1, <3>4 DEF SameTwoValue
      <4>2. /\ expr_calc_value(Two(x.type, l, r), val) =
                 Joined(x.type, expr_calc_value(l, val), expr_calc_value(r, val))
            /\ expr_calc_value(x, val) =
                 Joined(x.type, expr_calc_value(x.left, val), expr_calc_value(x.right, val))
        BY <2>4, <3>1, CalcList, CalcTwo
      <4> QED BY <4>1, <4>2
    <3> QED BY <3>2, <3>3, <3>4 DEF SameTwoValue
  <2>5. CASE x.type = "unequal" /\ SymType[x.lsym] = "tristate" /\ x.rsym = "n"
    <3>1. expr_trans_bool(x) = Symbol(x.lsym)
      BY <2>2, <2>5, TypesDiffer DEF TransBool, Lists
    <3>2. x.lsym \in Operand /\ x.lsym \in Syms /\ "n" \in Syms
      BY <2>5, ExprIs DEF Comparisons, Operand, Syms
    <3>3. IsExpr(Symbol(x.lsym))
      BY <3>2, SymbolIs
    <3>4. ASSUME NEW val, IsTwoValued(val)
          PROVE  expr_calc_value(Symbol(x.lsym), val) = expr_calc_value(x, val)
      <4>1. /\ val[x.lsym].tri \in {no, yes} /\ val[x.lsym].str = TriText(val[x.lsym].tri)
            /\ val["n"].str = "n"
        BY <2>5, <3>2, <3>4 DEF IsTwoValued, IsValuation, Tristate, TriText, no, mod, yes
      <4>2. expr_calc_value(x, val) = Truth(val[x.lsym].str # val["n"].str)
        BY <2>5, CalcIs
      <4>3. expr_calc_value(Symbol(x.lsym), val) = val[x.lsym].tri
        BY <3>2, CalcOf
      <4> QED BY <4>1, <4>2, <4>3 DEF Truth, TriText, no, mod, yes
    <3> QED BY <3>1, <3>3, <3>4 DEF SameTwoValue
  <2>6. CASE x.type \notin Lists \cup {"not"} /\ ~(x.type = "unequal" /\ SymType[x.lsym] = "tristate" /\ x.rsym = "n")
    <3>1. expr_trans_bool(x) = x
      BY <2>2, <2>6 DEF TransBool
    <3> QED BY <3>1 DEF SameTwoValue
  <2> QED BY <2>3, <2>4, <2>5, <2>6
<1>2. \A n \in Nat : n \in S
  <2>1. S \in SUBSET Nat
    OBVIOUS
  <2> HIDE DEF S
  <2> QED BY <1>1, <2>1, Induction
<1> QED BY <1>2, ExprIs

\* "Is not n" is the expression itself, and "is n" its negation.
CompareMeans(e) ==
    \A type \in Comparisons :
      LET a == expr_trans_compare(e, type, "n")
      IN /\ IsExpr(a)
         /\ \A val : IsTwoValued(val) =>
              expr_calc_value(a, val) =
                IF type = "unequal" THEN expr_calc_value(e, val) ELSE 2 - expr_calc_value(e, val)

\* expr_trans_compare says of every expression that it is, or is not, n.
LEMMA CompareKeepsTwoValue ==
    ASSUME CalcRecurs, CompareRecurs, NEW e, IsExpr(e)
    PROVE  CompareMeans(e)
<1> DEFINE S == {n \in Nat : \A x : IsExpr(x) /\ Weight(x) = n => CompareMeans(x)}
<1>1. ASSUME NEW n \in Nat, \A i \in 0..(n - 1) : i \in S PROVE n \in S
  <2> SUFFICES ASSUME NEW x, IsExpr(x), Weight(x) = n PROVE CompareMeans(x)
    OBVIOUS
  <2>1. \A y : IsExpr(y) /\ Weight(y) < Weight(x) => CompareMeans(y)
    BY <1>1, ExprIs
  <2> HIDE DEF S
  <2> SUFFICES ASSUME NEW type \in Comparisons
               PROVE  /\ IsExpr(expr_trans_compare(x, type, "n"))
                      /\ \A val : IsTwoValued(val) =>
                           expr_calc_value(expr_trans_compare(x, type, "n"), val) =
                             IF type = "unequal" THEN expr_calc_value(x, val) ELSE 2 - expr_calc_value(x, val)
    BY DEF CompareMeans
  <2> DEFINE a == expr_trans_compare(x, type, "n")
  <2>2. a = TransCompare(x, type, "n")
    BY DEF CompareRecurs
  <2>3. type \in {"equal", "unequal"} /\ "equal" \in Comparisons
    BY DEF Comparisons
  <2>4. ASSUME NEW val, IsTwoValued(val)
        PROVE  expr_calc_value(x, val) \in {no, yes} /\ 2 - (2 - expr_calc_value(x, val)) = expr_calc_value(x, val)
    BY <2>4, CalcTwoValued DEF no, yes
  <2> HIDE DEF a
  <2>5. CASE x.type = "symbol"
    <3>1. a = Comp(type, x.sym, "n")
      BY <2>2, <2>5, TypesDiffer DEF TransCompare
    <3>2. x.sym \in Operand /\ x.sym \in Syms /\ "n" \in Syms
      BY <2>5, ExprIs DEF Operand, Syms
    <3>3. ASSUME NEW val, IsTwoValued(val)
          PROVE  /\ val[x.sym].tri \in {no, yes} /\ val[x.sym].str = TriText(val[x.sym].tri)
                 /\ val["n"].str = "n" /\ expr_calc_value(x, val) = val[x.sym].tri
      BY <2>5, <3>2, <3>3, CalcIs DEF IsTwoValued, IsValuation, Tristate, TriText, no, mod, yes
    <3>4. ASSUME NEW val, IsTwoValued(val)
          PROVE  /\ type = "equal" => expr_calc_value(a, val) = Truth(val[x.sym].str = val["n"].str)
                 /\ type = "unequal" => expr_calc_value(a, val) = Truth(val[x.sym].str # val["n"].str)
      BY <3>1, <3>2, CalcOf
    <3> QED BY <2>3, <3>1, <3>2, <3>3, <3>4, CompIs DEF a, Truth, TriText, no, mod, yes
  <2>6. CASE x.type \in Comparisons
    <3>1. a = IF type = "equal" THEN Not(x) ELSE x
      BY <2>2, <2>6, TypesDiffer DEF TransCompare
    <3>2. \A val : expr_calc_value(Not(x), val) = 2 - expr_calc_value(x, val)
      BY CalcNot
    <3> QED BY <2>3, <3>1, <3>2, NotIs DEF a
  <2>7. CASE x.type = "not"
    <3>1. a = expr_trans_compare(x.left, Opposite(type), "n")
      BY <2>2, <2>7, TypesDiffer DEF TransCompare
    <3>2. IsExpr(x.left) /\ CompareMeans(x.left)
      BY <2>1, <2>7, PartsAreLighter
    <3>3. Opposite(type) \in Comparisons /\ (Opposite(type) = "unequal" <=> type = "equal")
      BY <2>3 DEF Opposite, Comparisons
    <3>4. IsExpr(a)
      BY <3>1, <3>2, <3>3 DEF CompareMeans
    <3>5. ASSUME NEW val, IsTwoValued(val)
          PROVE  expr_calc_value(a, val) =
                   IF type = "unequal" THEN expr_calc_value(x, val) ELSE 2 - expr_calc_value(x, val)
      <4>1. expr_calc_value(a, val) =
              IF type = "equal" THEN expr_calc_value(x.left, val) ELSE 2 - expr_calc_value(x.left, val)
        BY <2>3, <3>1, <3>2, <3>3, <3>5 DEF CompareMeans
      <4>2. expr_calc_value(x, val) = 2 - expr_calc_value(x.left, val)
        BY <2>7, CalcNotIs
      <4>3. expr_calc_value(x.left, val) \in {no, yes}
        BY <3>2, <3>5, CalcTwoValued
      <4> QED BY <2>3, <4>1, <4>2, <4>3 DEF no, yes
    <3> QED BY <3>4, <3>5 DEF a
  <2>8. CASE x.type \in Lists
    <3> DEFINE l == expr_trans_compare(x.left, "equal", "n")
               r == expr_trans_compare(x.right, "equal", "n")
               d == Two(Dual(x.type), l, r)
    <3>1. a = IF type = "unequal" THEN Not(d) ELSE d
      <4> HIDE DEF l, r
      <4>1. TransCompare(x, type, "n") = IF type = "unequal" THEN Not(d) ELSE d
        BY <2>8, TypesDiffer DEF TransCompare, l, r
      <4> QED BY <2>2, <4>1
    <3>2. IsExpr(x.left) /\ CompareMeans(x.left) /\ IsExpr(x.right) /\ CompareMeans(x.right)
      BY <2>1, <2>8, PartsAreLighter
    <3>3. /\ IsExpr(l) /\ \A val : IsTwoValued(val) => expr_calc_value(l, val) = 2 - expr_calc_value(x.left, val)
          /\ IsExpr(r) /\ \A val : IsTwoValued(val) => expr_calc_value(r, val) = 2 - expr_calc_value(x.right, val)
      BY <2>3, <3>2 DEF CompareMeans
    <3>4. Dual(x.type) \in Lists
      BY <2>8, UnitIs
    <3> HIDE DEF l, r
    <3>5. IsExpr(d) /\ IsExpr(Not(d))
      <4>1. IsExpr(d)
        BY <3>3, <3>4, TwoIs
      <4> HIDE DEF d
      <4> QED BY <4>1, NotIs
    <3>6. ASSUME NEW val, IsTwoValued(val) PROVE expr_calc_value(d, val) = 2 - expr_calc_value(x, val)
      <4>1. expr_calc_value(d, val) = Joined(Dual(x.type), expr_calc_value(l, val), expr_calc_value(r, val))
        BY <3>3, <3>4, CalcTwo
      <4>2. /\ expr_calc_value(l, val) = 2 - expr_calc_value(x.left, val)
            /\ expr_calc_value(r, val) = 2 - expr_calc_value(x.right, val)
        BY <3>3, <3>6
      <4>3. /\ expr_calc_value(x.left, val) \in Tristate
            /\ expr_calc_value(x.right, val) \in Tristate
        BY <3>2, <3>6, CalcTristate DEF IsTwoValued
      <4>4. expr_calc_value(x, val) = Joined(x.type, expr_calc_value(x.left, val), expr_calc_value(x.right, val))
        BY <2>8, CalcList
      <4> HIDE DEF d
      <4> QED BY <2>8, <4>1, <4>2, <4>3, <4>4, JoinedIs
    <3> HIDE DEF d
    <3>7. \A val : expr_calc_value(Not(d), val) = 2 - expr_calc_value(d, val)
      BY <3>5, CalcNot
    <3> QED BY <2>3, <2>4, <3>1, <3>5, <3>6, <3>7 DEF a
  <2> QED BY <2>5, <2>6, <2>7, <2>8, ExprIs DEF a
<1>2. \A n \in Nat : n \in S
  <2>1. S \in SUBSET Nat
    OBVIOUS
  <2> HIDE DEF S
  <2> QED BY <1>1, <2>1, Induction
<1> QED BY <1>2, ExprIs

-----------------------------------------------------------------------------
(* The symbols of an expression.                                           *)

\* An expression that depends on a symbol is off when the symbol is.
LEMMA DependsIsOff ==
    ASSUME CalcRecurs, DependsRecurs, NEW s \in Syms, NEW val, IsValuation(val), val[s].tri = no,
           NEW e, IsExpr(e), expr_depends_symbol(e, s)
    PROVE  expr_calc_value(e, val) = no
<1> DEFINE S == {n \in Nat : \A x : IsExpr(x) /\ Weight(x) = n /\ expr_depends_symbol(x, s) =>
                                      expr_calc_value(x, val) = no}
<1>1. ASSUME NEW n \in Nat, \A i \in 0..(n - 1) : i \in S PROVE n \in S
  <2> SUFFICES ASSUME NEW x, IsExpr(x), Weight(x) = n, expr_depends_symbol(x, s)
               PROVE  expr_calc_value(x, val) = no
    OBVIOUS
  <2>1. \A y : IsExpr(y) /\ Weight(y) < Weight(x) /\ expr_depends_symbol(y, s) => expr_calc_value(y, val) = no
    BY <1>1, ExprIs
  <2> HIDE DEF S
  <2>2. DependsSymbol(x, s)
    BY DEF DependsRecurs
  <2>3. val[s].str = "n" /\ val["n"].str = "n" /\ val["m"].str = "m" /\ val["y"].str = "y"
    BY DEF IsValuation, Syms, TriText, no, mod, yes
  <2>4. CASE x.type = "symbol"
    <3>1. x.sym = s
      BY <2>2, <2>4 DEF DependsSymbol
    <3> QED BY <2>4, <3>1, CalcIs
  <2>5. CASE x.type = "and"
    <3>1. expr_depends_symbol(x.left, s) \/ expr_depends_symbol(x.right, s)
      BY <2>2, <2>5 DEF DependsSymbol
    <3>2. /\ IsExpr(x.left) /\ Weight(x.left) < Weight(x)
          /\ IsExpr(x.right) /\ Weight(x.right) < Weight(x)
      BY <2>5, PartsAreLighter DEF Lists
    <3>3. expr_calc_value(x.left, val) = no \/ expr_calc_value(x.right, val) = no
      BY <2>1, <3>1, <3>2
    <3>4. expr_calc_value(x.left, val) \in Tristate /\ expr_calc_value(x.right, val) \in Tristate
      BY <3>2, CalcTristate
    <3>5. expr_calc_value(x, val) = Joined("and", expr_calc_value(x.left, val), expr_calc_value(x.right, val))
      BY <2>5, CalcList DEF Lists
    <3> QED BY <3>3, <3>4, <3>5 DEF Joined, Least, Tristate, no, mod, yes
  <2>6. CASE x.type = "equal"
    <3>1. x.lsym = s /\ x.rsym \in {"y", "m"}
      BY <2>2, <2>6 DEF DependsSymbol
    <3> QED BY <2>3, <2>6, <3>1, CalcIs DEF Truth
  <2>7. CASE x.type = "unequal"
    <3>1. x.lsym = s /\ x.rsym = "n"
      BY <2>2, <2>7 DEF DependsSymbol
    <3> QED BY <2>3, <2>7, <3>1, CalcIs DEF Truth
  <2>8. CASE x.type \notin {"symbol", "and", "equal", "unequal"}
    BY <2>2, <2>8 DEF DependsSymbol
  <2> QED BY <2>4, <2>5, <2>6, <2>7, <2>8
<1>2. \A n \in Nat : n \in S
  <2>1. S \in SUBSET Nat
    OBVIOUS
  <2> HIDE DEF S
  <2> QED BY <1>1, <2>1, Induction
<1> QED BY <1>2, ExprIs

\* An expression without a symbol has the same value whatever the symbol is.
LEMMA OthersDecide ==
    ASSUME CalcRecurs, ContainsRecurs, NEW s \in Syms, NEW val, NEW other,
           \A t \in Syms \ {s} : other[t] = val[t],
           NEW e, IsExpr(e), ~expr_contains_symbol(e, s)
    PROVE  expr_calc_value(e, other) = expr_calc_value(e, val)
<1> DEFINE S == {n \in Nat : \A x : IsExpr(x) /\ Weight(x) = n /\ ~expr_contains_symbol(x, s) =>
                                      expr_calc_value(x, other) = expr_calc_value(x, val)}
<1>1. ASSUME NEW n \in Nat, \A i \in 0..(n - 1) : i \in S PROVE n \in S
  <2> SUFFICES ASSUME NEW x, IsExpr(x), Weight(x) = n, ~expr_contains_symbol(x, s)
               PROVE  expr_calc_value(x, other) = expr_calc_value(x, val)
    OBVIOUS
  <2>1. \A y : IsExpr(y) /\ Weight(y) < Weight(x) /\ ~expr_contains_symbol(y, s) =>
                 expr_calc_value(y, other) = expr_calc_value(y, val)
    BY <1>1, ExprIs
  <2> HIDE DEF S
  <2>2. ~ContainsSymbol(x, s)
    BY DEF ContainsRecurs
  <2>3. CASE x.type = "symbol"
    <3>1. x.sym # s /\ x.sym \in Syms
      BY <2>2, <2>3, ExprIs DEF ContainsSymbol, Operand, Lists, Comparisons
    <3> QED BY <2>3, <3>1, CalcIs
  <2>4. CASE x.type = "not"
    <3>1. ~expr_contains_symbol(x.left, s)
      BY <2>2, <2>4 DEF ContainsSymbol, Lists, Comparisons
    <3>2. expr_calc_value(x.left, other) = expr_calc_value(x.left, val)
      BY <2>1, <2>4, <3>1, PartsAreLighter
    <3> QED BY <2>4, <3>2, CalcNotIs
  <2>5. CASE x.type \in Lists
    <3>1. ~expr_contains_symbol(x.left, s) /\ ~expr_contains_symbol(x.right, s)
      BY <2>2, <2>5 DEF ContainsSymbol, Lists, Comparisons
    <3>2. /\ expr_calc_value(x.left, other) = expr_calc_value(x.left, val)
          /\ expr_calc_value(x.right, other) = expr_calc_value(x.right, val)
      BY <2>1, <2>5, <3>1, PartsAreLighter
    <3> QED BY <2>5, <3>2, CalcList
  <2>6. CASE x.type \in Comparisons
    <3>1. x.lsym # s /\ x.rsym # s /\ x.lsym \in Syms /\ x.rsym \in Syms
      BY <2>2, <2>6, ExprIs DEF ContainsSymbol, Operand, Lists, Comparisons
    <3>2. other[x.lsym] = val[x.lsym] /\ other[x.rsym] = val[x.rsym]
      BY <3>1
    <3> QED BY <2>6, <3>2, CalcIs DEF Comparisons
  <2> QED BY <2>3, <2>4, <2>5, <2>6, ExprIs
<1>2. \A n \in Nat : n \in S
  <2>1. S \in SUBSET Nat
    OBVIOUS
  <2> HIDE DEF S
  <2> QED BY <1>1, <2>1, Induction
<1> QED BY <1>2, ExprIs

-----------------------------------------------------------------------------
(* Equivalence: what two expressions have in common.                       *)

EqRecurs == \A a, b : IsExpr(a) /\ IsExpr(b) => expr_eq(a, b) = Eq(a, b)
CommonRecurs ==
    \A t \in Lists : \A a, b : IsExpr(a) /\ IsExpr(b) => eliminate_eq(t, a, b) = EliminateCommon(t, a, b)

\* p is what is left of a and b when the same is taken out of both.
Common(t, a, b, p) ==
    /\ IsExpr(p[1]) /\ Weight(p[1]) <= Weight(a)
    /\ IsExpr(p[2]) /\ Weight(p[2]) <= Weight(b)
    /\ \A val : IsValuation(val) =>
         \E c \in Tristate : /\ expr_calc_value(a, val) = Joined(t, expr_calc_value(p[1], val), c)
                             /\ expr_calc_value(b, val) = Joined(t, expr_calc_value(p[2], val), c)

\* What is common to two expressions does not depend on their order.
LEMMA CommonSwaps ==
    ASSUME NEW t, NEW a, NEW b, NEW p, NEW q, q[1] = p[2], q[2] = p[1], Common(t, a, b, p)
    PROVE  Common(t, b, a, q)
BY DEF Common

\* Two steps of __expr_eliminate_eq for the two parts of the first expression.
LEMMA CommonOfFirst ==
    ASSUME CalcRecurs, NEW a, IsExpr(a), a.type \in Lists, NEW b, IsExpr(b), NEW x, NEW y,
           Common(a.type, a.left, b, x), Common(a.type, a.right, x[2], y)
    PROVE  Common(a.type, a, b, <<Two(a.type, x[1], y[1]), y[2]>>)
<1> DEFINE t == a.type
           d == Two(t, x[1], y[1])
<1>1. /\ IsExpr(a.left) /\ IsExpr(a.right) /\ Weight(a) = Weight(a.left) + Weight(a.right) + 2
      /\ Weight(a.left) \in Nat /\ Weight(a.right) \in Nat
  BY ExprIs
<1>2. /\ IsExpr(x[1]) /\ Weight(x[1]) <= Weight(a.left) /\ IsExpr(x[2]) /\ Weight(x[2]) <= Weight(b)
      /\ IsExpr(y[1]) /\ Weight(y[1]) <= Weight(a.right) /\ IsExpr(y[2]) /\ Weight(y[2]) <= Weight(x[2])
  BY DEF Common
<1>3. Weight(x[1]) \in Nat /\ Weight(y[1]) \in Nat /\ Weight(x[2]) \in Nat /\ Weight(y[2]) \in Nat /\ Weight(b) \in Nat
  BY <1>2, ExprIs
<1>4. IsExpr(d) /\ Weight(d) = Weight(x[1]) + Weight(y[1]) + 2
  BY <1>2, TwoIs
<1>5. Weight(d) <= Weight(a) /\ Weight(y[2]) <= Weight(b)
  BY <1>1, <1>2, <1>3, <1>4
<1>6. ASSUME NEW val, IsValuation(val)
      PROVE  \E c \in Tristate : /\ expr_calc_value(a, val) = Joined(t, expr_calc_value(d, val), c)
                                 /\ expr_calc_value(b, val) = Joined(t, expr_calc_value(y[2], val), c)
  <2>1. PICK c1 \in Tristate : /\ expr_calc_value(a.left, val) = Joined(t, expr_calc_value(x[1], val), c1)
                               /\ expr_calc_value(b, val) = Joined(t, expr_calc_value(x[2], val), c1)
    BY <1>6 DEF Common
  <2>2. PICK c2 \in Tristate : /\ expr_calc_value(a.right, val) = Joined(t, expr_calc_value(y[1], val), c2)
                               /\ expr_calc_value(x[2], val) = Joined(t, expr_calc_value(y[2], val), c2)
    BY <1>6 DEF Common
  <2>3. /\ expr_calc_value(x[1], val) \in Tristate /\ expr_calc_value(y[1], val) \in Tristate
        /\ expr_calc_value(y[2], val) \in Tristate
    BY <1>2, <1>6, CalcTristate
  <2>4. expr_calc_value(a, val) = Joined(t, expr_calc_value(a.left, val), expr_calc_value(a.right, val))
    BY CalcList
  <2>5. expr_calc_value(d, val) = Joined(t, expr_calc_value(x[1], val), expr_calc_value(y[1], val))
    BY <1>2, CalcTwo
  <2>6. \A i, j, k, l \in Tristate :
          /\ Joined(t, Joined(t, i, k), Joined(t, j, l)) = Joined(t, Joined(t, i, j), Joined(t, k, l))
          /\ Joined(t, Joined(t, i, l), k) = Joined(t, i, Joined(t, k, l))
          /\ Joined(t, k, l) \in Tristate
    BY DEF Joined, Least, Greatest, Tristate, no, mod, yes
  <2>7. Joined(t, c1, c2) \in Tristate
    BY <2>6
  <2> DEFINE c == Joined(t, c1, c2)
  <2>8. c \in Tristate
    BY <2>7
  <2>9. /\ expr_calc_value(a, val) = Joined(t, expr_calc_value(d, val), c)
        /\ expr_calc_value(b, val) = Joined(t, expr_calc_value(y[2], val), c)
    <3> HIDE DEF d, t
    <3> QED BY <2>1, <2>2, <2>3, <2>4, <2>5, <2>6
  <2> HIDE DEF c, d, t
  <2> QED BY <2>8, <2>9
<1> QED BY <1>2, <1>4, <1>5, <1>6 DEF Common

\* The same for the two parts of the second expression.
LEMMA CommonOfSecond ==
    ASSUME CalcRecurs, NEW b, IsExpr(b), b.type \in Lists, NEW a, IsExpr(a), NEW x, NEW y,
           Common(b.type, a, b.left, x), Common(b.type, x[1], b.right, y)
    PROVE  Common(b.type, a, b, <<y[1], Two(b.type, x[2], y[2])>>)
<1> DEFINE x2 == <<x[2], x[1]>>
           y2 == <<y[2], y[1]>>
<1>1. Common(b.type, b.left, a, x2) /\ Common(b.type, b.right, x2[2], y2)
  BY CommonSwaps
<1>2. Common(b.type, b, a, <<Two(b.type, x2[1], y2[1]), y2[2]>>)
  <2> HIDE DEF x2, y2
  <2> QED BY <1>1, CommonOfFirst
<1> QED BY <1>2, CommonSwaps

\* Two members of the same value become units.
LEMMA CommonOfSame ==
    ASSUME CalcRecurs, NEW t \in Lists, NEW a, IsExpr(a), NEW b, IsExpr(b), SameValue(a, b)
    PROVE  Common(t, a, b, <<Unit(t), Unit(t)>>)
<1>1. IsExpr(Unit(t)) /\ Weight(Unit(t)) <= Weight(a) /\ Weight(Unit(t)) <= Weight(b)
  BY UnitIs, ExprIs
<1>2. ASSUME NEW val, IsValuation(val)
      PROVE  \E c \in Tristate : /\ expr_calc_value(a, val) = Joined(t, expr_calc_value(Unit(t), val), c)
                                 /\ expr_calc_value(b, val) = Joined(t, expr_calc_value(Unit(t), val), c)
  <2>1. expr_calc_value(a, val) \in Tristate /\ expr_calc_value(a, val) = expr_calc_value(b, val)
    BY <1>2, CalcTristate DEF SameValue
  <2>2. expr_calc_value(Unit(t), val) = UnitValue(t)
    BY <1>2, CalcUnit
  <2> QED BY <2>1, <2>2, JoinedIs
<1> QED BY <1>1, <1>2 DEF Common

\* Other members stay as they are.
LEMMA CommonOfOthers ==
    ASSUME CalcRecurs, NEW t \in Lists, NEW a, IsExpr(a), NEW b, IsExpr(b)
    PROVE  Common(t, a, b, <<a, b>>)
<1>1. Weight(a) <= Weight(a) /\ Weight(b) <= Weight(b)
  BY ExprIs
<1>2. ASSUME NEW val, IsValuation(val)
      PROVE  \E c \in Tristate : /\ expr_calc_value(a, val) = Joined(t, expr_calc_value(a, val), c)
                                 /\ expr_calc_value(b, val) = Joined(t, expr_calc_value(b, val), c)
  <2>1. expr_calc_value(a, val) \in Tristate /\ expr_calc_value(b, val) \in Tristate
    BY <1>2, CalcTristate
  <2> QED BY <2>1, JoinedIs
<1> QED BY <1>1, <1>2 DEF Common

\* The order of what is left is that of the whole.
Reflects(p, a, b) ==
    \A val : IsValuation(val) =>
      /\ expr_calc_value(p[1], val) = expr_calc_value(p[2], val) => expr_calc_value(a, val) = expr_calc_value(b, val)
      /\ expr_calc_value(p[1], val) <= expr_calc_value(p[2], val) => expr_calc_value(a, val) <= expr_calc_value(b, val)

\* What is left says of the two expressions which implies the other.
LEMMA CommonReflects ==
    ASSUME CalcRecurs, NEW t \in Lists, NEW a, NEW b, NEW p, Common(t, a, b, p)
    PROVE  Reflects(p, a, b)
<1> SUFFICES ASSUME NEW val, IsValuation(val)
             PROVE  /\ expr_calc_value(p[1], val) = expr_calc_value(p[2], val) =>
                         expr_calc_value(a, val) = expr_calc_value(b, val)
                    /\ expr_calc_value(p[1], val) <= expr_calc_value(p[2], val) =>
                         expr_calc_value(a, val) <= expr_calc_value(b, val)
  BY DEF Reflects
<1>1. PICK c \in Tristate : /\ expr_calc_value(a, val) = Joined(t, expr_calc_value(p[1], val), c)
                            /\ expr_calc_value(b, val) = Joined(t, expr_calc_value(p[2], val), c)
  BY DEF Common
<1>2. expr_calc_value(p[1], val) \in Tristate /\ expr_calc_value(p[2], val) \in Tristate
  BY CalcTristate DEF Common
<1>3. \A i, j \in Tristate : i <= j => Joined(t, i, c) <= Joined(t, j, c)
  BY DEF Joined, Least, Greatest, Tristate, no, mod, yes
<1> QED BY <1>1, <1>2, <1>3

\* The types that expr_eliminate_eq looks for are those of the two expressions.
CommonUpTo(n) ==
    \A t \in Lists : \A a, b :
      IsExpr(a) /\ IsExpr(b) /\ t \in {a.type, b.type} /\ Weight(a) + Weight(b) <= n =>
        Common(t, a, b, eliminate_eq(t, a, b))

\* expr_eliminate_eq, if __expr_eliminate_eq is right for lighter expressions.
LEMMA EliminateEqReflects ==
    ASSUME CalcRecurs, YnRecurs, NEW a, IsExpr(a), NEW b, IsExpr(b), CommonUpTo(Weight(a) + Weight(b))
    PROVE  /\ IsExpr(EliminateEq(a, b)[1]) /\ IsExpr(EliminateEq(a, b)[2])
           /\ Weight(EliminateEq(a, b)[1]) <= Weight(a) /\ Weight(EliminateEq(a, b)[2]) <= Weight(b)
           /\ Reflects(EliminateEq(a, b), a, b)
<1> DEFINE Left2(q) == /\ IsExpr(q[1]) /\ IsExpr(q[2])
                       /\ Weight(q[1]) <= Weight(a) /\ Weight(q[2]) <= Weight(b)
                       /\ Reflects(q, a, b)
           e == <<a, b>>
           p == EliminateIn(a.type, e)
           q == EliminateSecond(p)
           z == BothWithoutYn(q)
<1>1. EliminateEq(a, b) = z
  <2>1. a # Null /\ b # Null
    BY ExprIs, Shapes, TypesDiffer
  <2> QED BY <2>1 DEF EliminateEq
<1>2. Left2(e)
  BY ExprIs DEF Reflects
<1>3. ASSUME NEW r, Left2(r), NEW t \in Lists, t \in {r[1].type, r[2].type}
      PROVE  Left2(eliminate_eq(t, r[1], r[2]))
  <2> DEFINE s == eliminate_eq(t, r[1], r[2])
  <2>1. /\ Weight(a) \in Nat /\ Weight(b) \in Nat /\ Weight(r[1]) \in Nat /\ Weight(r[2]) \in Nat
    BY <1>3, ExprIs
  <2>2. Weight(r[1]) + Weight(r[2]) <= Weight(a) + Weight(b)
    BY <1>3, <2>1
  <2>3. Common(t, r[1], r[2], s)
    BY <1>3, <2>2 DEF CommonUpTo
  <2>4. Reflects(s, r[1], r[2])
    BY <2>3, CommonReflects
  <2>5. /\ IsExpr(s[1]) /\ IsExpr(s[2]) /\ Weight(s[1]) <= Weight(r[1]) /\ Weight(s[2]) <= Weight(r[2])
    BY <2>3 DEF Common
  <2>6. Weight(s[1]) \in Nat /\ Weight(s[2]) \in Nat
    BY <2>5, ExprIs
  <2> HIDE DEF s
  <2>7. Reflects(s, a, b)
    BY <1>3, <2>4 DEF Reflects
  <2>8. Weight(s[1]) <= Weight(a) /\ Weight(s[2]) <= Weight(b)
    BY <1>3, <2>1, <2>5, <2>6
  <2> QED BY <2>5, <2>7, <2>8 DEF s
<1> HIDE DEF Left2
<1>4. Left2(p)
  <2>1. e[1] = a /\ e[2] = b
    OBVIOUS
  <2> HIDE DEF e
  <2>2. p = IF a.type \in Lists THEN eliminate_eq(a.type, e[1], e[2]) ELSE e
    BY DEF EliminateIn
  <2> HIDE DEF p
  <2> QED BY <1>2, <1>3, <2>1, <2>2
<1> HIDE DEF p
<1>5. Left2(q)
  <2>1. \/ q = p
        \/ p[2].type \in Lists /\ q = eliminate_eq(p[2].type, p[1], p[2])
    BY DEF EliminateSecond, EliminateIn
  <2> HIDE DEF q
  <2> QED BY <1>3, <1>4, <2>1
<1> HIDE DEF q
<1>6. Left2(z)
  <2> USE DEF Left2
  <2>1. z[1] = expr_eliminate_yn(q[1]) /\ z[2] = expr_eliminate_yn(q[2])
    BY DEF BothWithoutYn
  <2>2. IsExpr(q[1]) /\ IsExpr(q[2])
    BY <1>5
  <2> HIDE DEF z
  <2>3. Simplifies(z[1], q[1]) /\ Simplifies(z[2], q[2])
    BY <2>1, <2>2, YnSimplifies
  <2>4. /\ Weight(z[1]) \in Nat /\ Weight(z[2]) \in Nat /\ Weight(q[1]) \in Nat /\ Weight(q[2]) \in Nat
        /\ Weight(a) \in Nat /\ Weight(b) \in Nat
    BY <2>2, <2>3, ExprIs DEF Simplifies
  <2>5. Weight(z[1]) <= Weight(a) /\ Weight(z[2]) <= Weight(b)
    BY <1>5, <2>3, <2>4 DEF Simplifies
  <2>6. Reflects(z, a, b)
    BY <1>5, <2>3 DEF Reflects, Simplifies, SameValue
  <2> QED BY <2>3, <2>5, <2>6 DEF Simplifies
<1> HIDE DEF z
<1> QED BY <1>1, <1>6 DEF Left2

\* expr_eq, if both are right for lighter expressions.
LEMMA EqStep ==
    ASSUME CalcRecurs, YnRecurs, EqRecurs, NEW a, IsExpr(a), NEW b, IsExpr(b), expr_eq(a, b),
           CommonUpTo(Weight(a) + Weight(b)),
           \A x, y : IsExpr(x) /\ IsExpr(y) /\ Weight(x) < Weight(a) /\ Weight(y) < Weight(b) /\ expr_eq(x, y) =>
                       SameValue(x, y)
    PROVE  SameValue(a, b)
<1>1. Eq(a, b)
  BY DEF EqRecurs
<1>2. CASE a.type # b.type
  BY <1>1, <1>2 DEF Eq
<1>3. CASE a.type = b.type /\ a.type \in Lists
  <2> DEFINE z == EliminateEq(a, b)
  <2>1. NothingLeft(z)
    BY <1>1, <1>3, TypesDiffer DEF Eq
  <2>2. z[1] = z[2]
    BY <2>1 DEF NothingLeft
  <2>3. Reflects(z, a, b)
    BY EliminateEqReflects
  <2> HIDE DEF z
  <2> QED BY <2>2, <2>3 DEF Reflects, SameValue
<1>4. CASE a.type = "not" /\ b.type = "not"
  <2>1. expr_eq(a.left, b.left)
    BY <1>1, <1>4, TypesDiffer DEF Eq
  <2>2. SameValue(a.left, b.left)
    BY <1>4, <2>1, PartsAreLighter
  <2> QED BY <1>4, <2>2, CalcNotIs DEF SameValue
<1>5. CASE a.type = b.type /\ a.type \notin Lists /\ a.type # "not"
  BY <1>1, <1>5 DEF Eq, SameValue
<1> QED BY <1>2, <1>3, <1>4, <1>5

\* __expr_eliminate_eq, if both are right for lighter expressions.
LEMMA CommonStep ==
    ASSUME CalcRecurs, CommonRecurs, NEW t \in Lists, NEW a, IsExpr(a), NEW b, IsExpr(b),
           \A x, y : IsExpr(x) /\ IsExpr(y) /\ Weight(x) + Weight(y) < Weight(a) + Weight(b) =>
                       Common(t, x, y, eliminate_eq(t, x, y)),
           t \in {a.type, b.type} \/ (expr_eq(a, b) => SameValue(a, b))
    PROVE  Common(t, a, b, eliminate_eq(t, a, b))
<1>1. eliminate_eq(t, a, b) = EliminateCommon(t, a, b)
  BY DEF CommonRecurs
<1>2. Weight(a) \in Nat /\ Weight(b) \in Nat
  BY ExprIs
<1>3. CASE a.type = t
  <2> DEFINE x == eliminate_eq(t, a.left, b)
             y == eliminate_eq(t, a.right, x[2])
  <2>1. eliminate_eq(t, a, b) = <<Two(t, x[1], y[1]), y[2]>>
    BY <1>1, <1>3 DEF EliminateCommon
  <2>2. /\ IsExpr(a.left) /\ IsExpr(a.right) /\ Weight(a) = Weight(a.left) + Weight(a.right) + 2
        /\ Weight(a.left) \in Nat /\ Weight(a.right) \in Nat
    BY <1>3, ExprIs
  <2>3. Common(t, a.left, b, x)
    BY <1>2, <2>2
  <2>4. IsExpr(x[2]) /\ Weight(x[2]) <= Weight(b) /\ Weight(x[2]) \in Nat
    BY <2>3, ExprIs DEF Common
  <2> HIDE DEF x
  <2>5. Common(t, a.right, x[2], y)
    <3>1. Weight(a.right) + Weight(x[2]) < Weight(a) + Weight(b)
      BY <1>2, <2>2, <2>4
    <3> QED BY <2>2, <2>4, <3>1
  <2> HIDE DEF y
  <2> QED BY <1>3, <2>1, <2>3, <2>5, CommonOfFirst
<1>4. CASE a.type # t /\ b.type = t
  <2> DEFINE x == eliminate_eq(t, a, b.left)
             y == eliminate_eq(t, x[1], b.right)
  <2>1. eliminate_eq(t, a, b) = <<y[1], Two(t, x[2], y[2])>>
    BY <1>1, <1>4 DEF EliminateCommon
  <2>2. /\ IsExpr(b.left) /\ IsExpr(b.right) /\ Weight(b) = Weight(b.left) + Weight(b.right) + 2
        /\ Weight(b.left) \in Nat /\ Weight(b.right) \in Nat
    BY <1>4, ExprIs
  <2>3. Common(t, a, b.left, x)
    BY <1>2, <2>2
  <2>4. IsExpr(x[1]) /\ Weight(x[1]) <= Weight(a) /\ Weight(x[1]) \in Nat
    BY <2>3, ExprIs DEF Common
  <2> HIDE DEF x
  <2>5. Common(t, x[1], b.right, y)
    <3>1. Weight(x[1]) + Weight(b.right) < Weight(a) + Weight(b)
      BY <1>2, <2>2, <2>4
    <3> QED BY <2>2, <2>4, <3>1
  <2> HIDE DEF y
  <2> QED BY <1>4, <2>1, <2>3, <2>5, CommonOfSecond
<1>5. CASE a.type # t /\ b.type # t
  <2>1. eliminate_eq(t, a, b) \in {<<a, b>>, <<Unit(t), Unit(t)>>}
        /\ (eliminate_eq(t, a, b) = <<a, b>> \/ expr_eq(a, b))
    BY <1>1, <1>5 DEF EliminateCommon
  <2> QED BY <1>5, <2>1, CommonOfSame, CommonOfOthers
<1> QED BY <1>3, <1>4, <1>5

\* Expressions that are equivalent have the same value, and what is taken out
\* of two expressions is the same in both.
LEMMA Equivalence ==
    ASSUME CalcRecurs, YnRecurs, EqRecurs, CommonRecurs
    PROVE  /\ \A a, b : IsExpr(a) /\ IsExpr(b) /\ expr_eq(a, b) => SameValue(a, b)
           /\ \A t \in Lists : \A a, b : IsExpr(a) /\ IsExpr(b) => Common(t, a, b, eliminate_eq(t, a, b))
<1> DEFINE Good(a, b) == /\ expr_eq(a, b) => SameValue(a, b)
                         /\ \A t \in Lists : Common(t, a, b, eliminate_eq(t, a, b))
           S == {n \in Nat : \A a, b : IsExpr(a) /\ IsExpr(b) /\ Weight(a) + Weight(b) = n => Good(a, b)}
<1>1. ASSUME NEW n \in Nat, \A i \in 0..(n - 1) : i \in S PROVE n \in S
  <2>0. \A a, b : IsExpr(a) /\ IsExpr(b) => Weight(a) \in Nat \ {0} /\ Weight(b) \in Nat \ {0}
    BY ExprIs
  <2>1. ASSUME NEW a, NEW b, IsExpr(a), IsExpr(b), Weight(a) + Weight(b) < n PROVE Good(a, b)
    <3>1. Weight(a) + Weight(b) \in 0..(n - 1)
      BY <2>0, <2>1
    <3> QED BY <1>1, <2>1, <3>1
  <2> HIDE DEF S
  <2>2. ASSUME NEW a, NEW b, IsExpr(a), IsExpr(b), Weight(a) + Weight(b) <= n,
               NEW t \in Lists, t \in {a.type, b.type} \/ (expr_eq(a, b) => SameValue(a, b))
        PROVE  Common(t, a, b, eliminate_eq(t, a, b))
    <3>1. \A x, y : IsExpr(x) /\ IsExpr(y) /\ Weight(x) + Weight(y) < Weight(a) + Weight(b) =>
                      Common(t, x, y, eliminate_eq(t, x, y))
      BY <2>0, <2>1, <2>2
    <3> QED BY <2>2, <3>1, CommonStep
  <2>3. CommonUpTo(n)
    BY <2>2 DEF CommonUpTo
  <2>4. ASSUME NEW a, NEW b, IsExpr(a), IsExpr(b), Weight(a) + Weight(b) = n PROVE Good(a, b)
    <3>1. \A x, y : IsExpr(x) /\ IsExpr(y) /\ Weight(x) < Weight(a) /\ Weight(y) < Weight(b) /\ expr_eq(x, y) =>
                       SameValue(x, y)
      BY <2>0, <2>1, <2>4
    <3>2. expr_eq(a, b) => SameValue(a, b)
      BY <2>3, <2>4, <3>1, EqStep
    <3>3. \A t \in Lists : Common(t, a, b, eliminate_eq(t, a, b))
      BY <2>0, <2>2, <2>4, <3>2
    <3> QED BY <3>2, <3>3
  <2> HIDE DEF Good
  <2> QED BY <2>4 DEF S
<1>2. \A n \in Nat : n \in S
  <2>1. S \in SUBSET Nat
    OBVIOUS
  <2> HIDE DEF S
  <2> QED BY <1>1, <2>1, Induction
<1>3. ASSUME NEW a, NEW b, IsExpr(a), IsExpr(b) PROVE Good(a, b)
  <2>1. Weight(a) + Weight(b) \in Nat
    BY <1>3, ExprIs
  <2> QED BY <1>2, <1>3, <2>1
<1> QED BY <1>3

\* expr_eliminate_eq leaves two expressions that imply each other as before.
LEMMA EliminateEqKeeps ==
    ASSUME CalcRecurs, YnRecurs, EqRecurs, CommonRecurs, NEW a, IsExpr(a), NEW b, IsExpr(b)
    PROVE  /\ IsExpr(EliminateEq(a, b)[1]) /\ IsExpr(EliminateEq(a, b)[2])
           /\ Reflects(EliminateEq(a, b), a, b)
<1>1. CommonUpTo(Weight(a) + Weight(b))
  BY Equivalence DEF CommonUpTo
<1> QED BY <1>1, EliminateEqReflects

-----------------------------------------------------------------------------
(* What two members of a list are joined to, and when they contradict.     *)

ExtractRecurs ==
    \A t \in Lists : \A e, a, b : IsExpr(a) /\ IsExpr(b) => expr_extract_eq(t, e, a, b) = ExtractCommon(t, e, a, b)

\* The second and third of what expr_extract_eq returns are the rests.
Extracted(t, e, a, b) ==
    LET p == expr_extract_eq(t, e, a, b)
    IN Common(t, a, b, <<p[2], p[3]>>) /\ (a.type = t => p[2].type = t)

\* expr_extract_eq, if it is right for lighter expressions.
LEMMA ExtractStep ==
    ASSUME CalcRecurs, YnRecurs, EqRecurs, CommonRecurs, ExtractRecurs,
           NEW t \in Lists, NEW e, NEW a, IsExpr(a), NEW b, IsExpr(b),
           \A k, x, y : IsExpr(x) /\ IsExpr(y) /\ Weight(x) + Weight(y) < Weight(a) + Weight(b) =>
                          Extracted(t, k, x, y)
    PROVE  Extracted(t, e, a, b)
<1> DEFINE p == expr_extract_eq(t, e, a, b)
<1>1. p = ExtractCommon(t, e, a, b)
  BY DEF ExtractRecurs
<1>2. Weight(a) \in Nat /\ Weight(b) \in Nat
  BY ExprIs
<1> HIDE DEF p
<1>3. CASE a.type = t
  <2> DEFINE x == expr_extract_eq(t, e, a.left, b)
             y == expr_extract_eq(t, x[1], a.right, x[3])
             i == <<x[2], x[3]>>
             j == <<y[2], y[3]>>
  <2>1. p = <<y[1], Two(t, x[2], y[2]), y[3]>>
    BY <1>1, <1>3 DEF ExtractCommon
  <2>2. /\ IsExpr(a.left) /\ IsExpr(a.right) /\ Weight(a) = Weight(a.left) + Weight(a.right) + 2
        /\ Weight(a.left) \in Nat /\ Weight(a.right) \in Nat
    BY <1>3, ExprIs
  <2>3. Common(t, a.left, b, i)
    <3>1. Extracted(t, e, a.left, b)
      BY <1>2, <2>2
    <3> QED BY <3>1 DEF Extracted
  <2>4. IsExpr(x[3]) /\ Weight(x[3]) <= Weight(b) /\ Weight(x[3]) \in Nat
    BY <2>3, ExprIs DEF Common
  <2> HIDE DEF x
  <2>5. Common(t, a.right, i[2], j)
    <3>1. Weight(a.right) + Weight(x[3]) < Weight(a) + Weight(b)
      BY <1>2, <2>2, <2>4
    <3>2. Extracted(t, x[1], a.right, x[3])
      BY <2>2, <2>4, <3>1
    <3> QED BY <3>2 DEF Extracted
  <2>6. i[1] = x[2] /\ j[1] = y[2] /\ j[2] = y[3]
    OBVIOUS
  <2> HIDE DEF y, i, j
  <2>7. Common(t, a, b, <<Two(t, i[1], j[1]), j[2]>>)
    BY <1>3, <2>3, <2>5, CommonOfFirst
  <2>8. <<p[2], p[3]>> = <<Two(t, i[1], j[1]), j[2]>> /\ p[2].type = t
    BY <2>1, <2>6, Shapes
  <2> QED BY <2>7, <2>8 DEF Extracted, p
<1>4. CASE a.type # t /\ b.type = t
  <2> DEFINE x == expr_extract_eq(t, e, a, b.left)
             y == expr_extract_eq(t, x[1], x[2], b.right)
             i == <<x[2], x[3]>>
             j == <<y[2], y[3]>>
  <2>1. p = <<y[1], y[2], Two(t, x[3], y[3])>>
    BY <1>1, <1>4 DEF ExtractCommon
  <2>2. /\ IsExpr(b.left) /\ IsExpr(b.right) /\ Weight(b) = Weight(b.left) + Weight(b.right) + 2
        /\ Weight(b.left) \in Nat /\ Weight(b.right) \in Nat
    BY <1>4, ExprIs
  <2>3. Common(t, a, b.left, i)
    <3>1. Extracted(t, e, a, b.left)
      BY <1>2, <2>2
    <3> QED BY <3>1 DEF Extracted
  <2>4. IsExpr(x[2]) /\ Weight(x[2]) <= Weight(a) /\ Weight(x[2]) \in Nat
    BY <2>3, ExprIs DEF Common
  <2> HIDE DEF x
  <2>5. Common(t, i[1], b.right, j)
    <3>1. Weight(x[2]) + Weight(b.right) < Weight(a) + Weight(b)
      BY <1>2, <2>2, <2>4
    <3>2. Extracted(t, x[1], x[2], b.right)
      BY <2>2, <2>4, <3>1
    <3> QED BY <3>2 DEF Extracted
  <2>6. i[2] = x[3] /\ j[1] = y[2] /\ j[2] = y[3]
    OBVIOUS
  <2> HIDE DEF y, i, j
  <2>7. Common(t, a, b, <<j[1], Two(t, i[2], j[2])>>)
    BY <1>4, <2>3, <2>5, CommonOfSecond
  <2>8. <<p[2], p[3]>> = <<j[1], Two(t, i[2], j[2])>>
    BY <2>1, <2>6
  <2> QED BY <1>4, <2>7, <2>8 DEF Extracted, p
<1>5. CASE a.type # t /\ b.type # t
  <2>1. \/ <<p[2], p[3]>> = <<a, b>>
        \/ <<p[2], p[3]>> = <<Unit(t), Unit(t)>> /\ expr_eq(a, b)
    BY <1>1, <1>5 DEF ExtractCommon
  <2>2. Common(t, a, b, <<p[2], p[3]>>)
    BY <2>1, CommonOfSame, CommonOfOthers, Equivalence
  <2> QED BY <1>5, <2>2 DEF Extracted, p
<1> QED BY <1>3, <1>4, <1>5

\* What expr_extract_eq takes out is common to both, whatever it begins with.
LEMMA ExtractKeeps ==
    ASSUME CalcRecurs, YnRecurs, EqRecurs, CommonRecurs, ExtractRecurs
    PROVE  \A t \in Lists : \A e, a, b : IsExpr(a) /\ IsExpr(b) => Extracted(t, e, a, b)
<1> SUFFICES ASSUME NEW t \in Lists PROVE \A e, a, b : IsExpr(a) /\ IsExpr(b) => Extracted(t, e, a, b)
  OBVIOUS
<1> DEFINE S == {n \in Nat : \A e, a, b : IsExpr(a) /\ IsExpr(b) /\ Weight(a) + Weight(b) = n =>
                                            Extracted(t, e, a, b)}
<1>1. ASSUME NEW n \in Nat, \A i \in 0..(n - 1) : i \in S PROVE n \in S
  <2>1. ASSUME NEW e, NEW a, NEW b, IsExpr(a), IsExpr(b), Weight(a) + Weight(b) < n PROVE Extracted(t, e, a, b)
    <3>1. Weight(a) + Weight(b) \in 0..(n - 1)
      BY <2>1, ExprIs
    <3> QED BY <1>1, <2>1, <3>1
  <2>2. ASSUME NEW e, NEW a, NEW b, IsExpr(a), IsExpr(b), Weight(a) + Weight(b) = n PROVE Extracted(t, e, a, b)
    BY <2>1, <2>2, ExtractStep
  <2> QED BY <2>2
<1>2. \A n \in Nat : n \in S
  <2>1. S \in SUBSET Nat
    OBVIOUS
  <2> HIDE DEF S
  <2> QED BY <1>1, <2>1, Induction
<1>3. ASSUME NEW e, NEW a, NEW b, IsExpr(a), IsExpr(b) PROVE Extracted(t, e, a, b)
  <2>1. Weight(a) + Weight(b) \in Nat
    BY <1>3, ExprIs
  <2> QED BY <1>2, <1>3, <2>1
<1> QED BY <1>3

\* If b contradicts the list a, the negation of a is a member of what b says.
LEMMA ContradictsIs ==
    ASSUME CalcRecurs, YnRecurs, EqRecurs, CommonRecurs, ExtractRecurs, TransformRecurs,
           NEW a, IsExpr(a), a.type \in Lists, NEW b, IsExpr(b), Contradicts(a, b),
           NEW val, IsValuation(val)
    PROVE  \E c \in Tristate :
             expr_calc_value(b, val) = Joined(Dual(a.type), c, 2 - expr_calc_value(a, val))
<1> DEFINE t == Dual(a.type)
           g == expr_transform(Not(a))
           p == expr_extract_eq(t, Null, g, b)
<1>1. t \in Lists
  BY UnitIs
<1>2. IsExpr(Not(a)) /\ Not(a).type = "not" /\ Not(a).left = a
  BY NotIs, Shapes
<1>3. IsExpr(g) /\ expr_calc_value(g, val) = 2 - expr_calc_value(a, val)
  <2>1. Simplifies(g, Not(a))
    BY <1>2, TransformSimplifies
  <2> QED BY <1>2, <2>1, CalcNot DEF Simplifies, SameValue
<1>4. g.type = t
  <2> DEFINE h == expr_transform(a)
             d == Two(Dual(h.type), Not(h.left), Not(h.right))
  <2>1. h = Two(a.type, expr_transform(a.left), expr_transform(a.right))
    BY TransformStep
  <2>2. h.type = a.type
    BY <2>1, Shapes
  <2>3. g = expr_transform(d)
    BY <1>2, <2>2, TransformStep
  <2>4. IsExpr(h)
    BY TransformSimplifies DEF Simplifies
  <2>5. IsExpr(h.left) /\ IsExpr(h.right)
    BY <2>2, <2>4, ExprIs
  <2> HIDE DEF h
  <2>6. IsExpr(Not(h.left)) /\ IsExpr(Not(h.right))
    BY <2>5, NotIs
  <2>7. IsExpr(d) /\ d.type = t
    BY <1>1, <2>2, <2>6, TwoIs, Shapes
  <2> HIDE DEF d
  <2>8. expr_transform(d) = Two(d.type, expr_transform(d.left), expr_transform(d.right))
    BY <1>1, <2>7, TransformStep
  <2> QED BY <2>3, <2>7, <2>8, Shapes
<1>5. RestWithoutYn(p)[2] = Unit(t)
  BY DEF Contradicts, ExtractEq
<1> HIDE DEF g, t
<1>6. Extracted(t, Null, g, b)
  BY <1>1, <1>3, ExtractKeeps
<1>7. Common(t, g, b, <<p[2], p[3]>>) /\ p[2].type = t
  BY <1>4, <1>6 DEF Extracted
<1> HIDE DEF p
<1>8. expr_eliminate_yn(p[2]) = Unit(t)
  <2>1. p[2] # Unit(t)
    BY <1>1, <1>7, UnitIs, TypesDiffer
  <2> QED BY <1>5, <2>1 DEF RestWithoutYn
<1>9. IsExpr(p[2]) /\ IsExpr(p[3])
  BY <1>7 DEF Common
<1>10. expr_calc_value(p[2], val) = UnitValue(t)
  <2>1. Simplifies(Unit(t), p[2])
    BY <1>8, <1>9, YnSimplifies
  <2> QED BY <1>1, <2>1, CalcUnit DEF Simplifies, SameValue
<1>11. PICK c \in Tristate : /\ expr_calc_value(g, val) = Joined(t, expr_calc_value(p[2], val), c)
                             /\ expr_calc_value(b, val) = Joined(t, expr_calc_value(p[3], val), c)
  BY <1>7 DEF Common
<1>12. expr_calc_value(g, val) = c
  BY <1>1, <1>10, <1>11, JoinedIs
<1>13. expr_calc_value(p[3], val) \in Tristate
  BY <1>9, CalcTristate
<1> QED BY <1>3, <1>11, <1>12, <1>13 DEF t

\* The constants are not among the symbols that have a value of their own.
ConstantsApart == Const \cap Vars = {} /\ Vars \cap {"n", "m", "y"} = {}

\* x says what a and b say in a list, and is lighter.
JoinsTo(t, a, b, x) ==
    /\ IsExpr(x) /\ x.type # t /\ Weight(x) + 1 <= Weight(a) + Weight(b)
    /\ \A val : IsValuation(val) =>
         expr_calc_value(x, val) = Joined(t, expr_calc_value(a, val), expr_calc_value(b, val))

\* The value of a symbol, by what it reads as.
LEMMA TextIs ==
    ASSUME NEW val, IsValuation(val)
    PROVE  /\ \A s \in Syms : \/ val[s].tri = no /\ val[s].str = "n"
                              \/ val[s].tri = mod /\ val[s].str = "m" /\ SymType[s] # "boolean"
                              \/ val[s].tri = yes /\ val[s].str = "y"
           /\ val["n"].str = "n" /\ val["m"].str = "m" /\ val["y"].str = "y"
           /\ val["n"].tri = no /\ val["m"].tri = mod /\ val["y"].tri = yes
<1>1. \A s \in Syms : \/ val[s].tri = no /\ val[s].str = "n"
                      \/ val[s].tri = mod /\ val[s].str = "m" /\ SymType[s] # "boolean"
                      \/ val[s].tri = yes /\ val[s].str = "y"
  BY DEF IsValuation, Tristate, TriText, no, mod, yes
<1>2. val["n"].tri = no /\ val["m"].tri = mod /\ val["y"].tri = yes
  BY DEF IsValuation
<1> QED BY <1>1, <1>2 DEF Syms, no, mod, yes

\* Two members of the same value are joined to either.
LEMMA JoinsToSame ==
    ASSUME CalcRecurs, YnRecurs, EqRecurs, CommonRecurs, NEW t \in Lists,
           NEW a, IsExpr(a), a.type # t, NEW b, IsExpr(b), expr_eq(a, b)
    PROVE  JoinsTo(t, a, b, a)
<1>1. SameValue(a, b)
  BY Equivalence
<1>2. Weight(a) + 1 <= Weight(a) + Weight(b)
  BY ExprIs
<1>3. \A val : IsValuation(val) =>
        expr_calc_value(a, val) = Joined(t, expr_calc_value(a, val), expr_calc_value(b, val))
  BY <1>1, CalcTristate, JoinedIs DEF SameValue
<1> QED BY <1>2, <1>3 DEF JoinsTo

\* What is compared, and its weight.
LEMMA SimpleIs ==
    ASSUME CalcRecurs, NEW e, IsExpr(e), NEW val, IsValuation(val)
    PROVE  /\ e.type = "symbol" => /\ SubjectOf(e) = e.sym /\ e.sym \in Operand /\ Weight(e) = 1
                                   /\ expr_calc_value(e, val) = val[e.sym].tri
           /\ e.type \in Comparisons => SubjectOf(e) = e.lsym /\ e.lsym \in Operand /\ e.rsym \in Syms /\ Weight(e) = 3
           /\ e.type = "equal" => expr_calc_value(e, val) = Truth(val[e.lsym].str = val[e.rsym].str)
           /\ e.type = "unequal" => expr_calc_value(e, val) = Truth(val[e.lsym].str # val[e.rsym].str)
           /\ e.type = "not" /\ e.left.type = "symbol" =>
                /\ SubjectOf(e) = e.left.sym /\ e.left.sym \in Operand /\ Weight(e) = 3
                /\ expr_calc_value(e, val) = 2 - val[e.left.sym].tri
<1>1. CASE e.type = "symbol"
  BY <1>1, ExprIs, CalcIs, TypesDiffer DEF SubjectOf, Subject, Comparisons
<1>2. CASE e.type \in Comparisons
  BY <1>2, ExprIs, CalcIs, TypesDiffer DEF SubjectOf, Subject, Comparisons
<1>3. CASE e.type = "not"
  <2>1. IsExpr(e.left) /\ Weight(e) = 2 * Weight(e.left) + 1 /\ expr_calc_value(e, val) = 2 - expr_calc_value(e.left, val)
    BY <1>3, ExprIs, CalcIs
  <2>2. ASSUME e.left.type = "symbol"
        PROVE  /\ e.left.sym \in Operand /\ Weight(e.left) = 1 /\ expr_calc_value(e.left, val) = val[e.left.sym].tri
               /\ SubjectOf(e) = e.left.sym
    BY <1>3, <2>1, <2>2, ExprIs, CalcIs DEF SubjectOf, Subject
  <2> QED BY <1>3, <2>1, <2>2, TypesDiffer DEF Comparisons
<1>4. CASE e.type \in Lists
  BY <1>4, TypesDiffer DEF Comparisons, Lists
<1> QED BY <1>1, <1>2, <1>3, <1>4, ExprIs

\* What expr_join_or returns is the disjunction of its arguments.
LEMMA JoinOrIs ==
    ASSUME CalcRecurs, YnRecurs, EqRecurs, CommonRecurs,
           NEW a, IsExpr(a), a.type # "or", NEW b, IsExpr(b), JoinOr(a, b) # Null
    PROVE  JoinsTo("or", a, b, JoinOr(a, b))
<1> DEFINE x == JoinOr(a, b)
           s == SubjectOf(a)
<1>1. CASE expr_eq(a, b)
  <2>1. x = a
    BY <1>1 DEF JoinOr
  <2> QED BY <1>1, <2>1, JoinsToSame DEF Lists
<1>2. CASE ~expr_eq(a, b)
  <2>1. s = SubjectOf(b)
    BY <1>2 DEF JoinOr, Joinable
  <2>2. \/ /\ a.type = "equal" /\ b.type = "equal"
           /\ {a.rsym, b.rsym} \subseteq {"n", "m", "y"} /\ x = Comp("unequal", s, TheThird({a.rsym, b.rsym}))
        \/ /\ SymType[s] = "boolean" /\ x = Symbol("y")
           /\ \/ a.type = "not" /\ a.left.type = "symbol" /\ b.type = "symbol"
              \/ b.type = "not" /\ b.left.type = "symbol" /\ a.type = "symbol"
    BY <1>2 DEF JoinOr, Joinable, Simple, Comparisons
  <2> HIDE DEF x, s
  <2>3. CASE /\ a.type = "equal" /\ b.type = "equal"
             /\ {a.rsym, b.rsym} \subseteq {"n", "m", "y"} /\ x = Comp("unequal", s, TheThird({a.rsym, b.rsym}))
    <3> DEFINE k == TheThird({a.rsym, b.rsym})
    <3>1. /\ a.lsym = s /\ b.lsym = s /\ s \in Operand /\ a.rsym \in Syms /\ b.rsym \in Syms
          /\ Weight(a) = 3 /\ Weight(b) = 3
      <4>1. a.type \in Comparisons /\ b.type \in Comparisons /\ a.type # "symbol" /\ a.type # "not" /\ b.type # "not"
            /\ b.type # "symbol"
        BY <2>3 DEF Comparisons
      <4> QED BY <2>1, <4>1, ExprIs DEF s, SubjectOf, Subject
    <3>2. a.rsym # b.rsym
      <4> SUFFICES ASSUME a.rsym = b.rsym PROVE FALSE
        OBVIOUS
      <4>1. a = b
        BY <2>3, <3>1, ExprIs DEF Comparisons
      <4>2. Eq(a, b)
        BY <2>3, <4>1 DEF Eq, Lists
      <4> QED BY <1>2, <4>2 DEF EqRecurs
    <3>3. k \in {"n", "m", "y"} /\ k \notin {a.rsym, b.rsym}
      <4>1. \E v \in {"n", "m", "y"} : v \notin {a.rsym, b.rsym}
        BY <2>3
      <4> QED BY <4>1 DEF TheThird
    <3> HIDE DEF k
    <3>4. IsExpr(x) /\ Weight(x) = 3 /\ x.type = "unequal"
      <4>1. k \in Syms
        BY <3>3 DEF Syms
      <4> QED BY <2>3, <3>1, <4>1, CompIs, Shapes DEF Comparisons, k
    <3>5. ASSUME NEW val, IsValuation(val)
          PROVE  expr_calc_value(x, val) = Joined("or", expr_calc_value(a, val), expr_calc_value(b, val))
      <4>1. /\ expr_calc_value(a, val) = Truth(val[s].str = val[a.rsym].str)
            /\ expr_calc_value(b, val) = Truth(val[s].str = val[b.rsym].str)
        BY <2>3, <3>1, CalcIs
      <4>2. expr_calc_value(x, val) = Truth(val[s].str # val[k].str)
        <5>1. k \in Syms
          BY <3>3 DEF Syms
        <5> QED BY <2>3, <3>1, <5>1, CalcOf DEF k
      <4>3. val[s].str \in {"n", "m", "y"} /\ val[a.rsym].str = a.rsym /\ val[b.rsym].str = b.rsym /\ val[k].str = k
        BY <2>3, <3>1, <3>3, <3>5, TextIs DEF Operand
      <4> QED BY <2>3, <3>2, <3>3, <4>1, <4>2, <4>3 DEF Joined, Greatest, Truth, no, yes
    <3>6. Weight(x) + 1 <= Weight(a) + Weight(b)
      BY <3>1, <3>4
    <3> QED BY <3>4, <3>5, <3>6 DEF JoinsTo, x
  <2>4. CASE /\ SymType[s] = "boolean" /\ x = Symbol("y")
             /\ \/ a.type = "not" /\ a.left.type = "symbol" /\ b.type = "symbol"
                \/ b.type = "not" /\ b.left.type = "symbol" /\ a.type = "symbol"
    <3>1. IsExpr(x) /\ Weight(x) = 1 /\ x.type = "symbol" /\ "y" \in Operand
      <4>1. "y" \in Operand
        BY DEF Operand, Syms
      <4> QED BY <2>4, <4>1, SymbolIs, Shapes
    <3>2. ASSUME NEW val, IsValuation(val)
          PROVE  expr_calc_value(x, val) = Joined("or", expr_calc_value(a, val), expr_calc_value(b, val))
      <4>1. expr_calc_value(x, val) = yes
        BY <2>4, <3>1, <3>2, CalcOf, TextIs
      <4>2. \/ expr_calc_value(a, val) = 2 - val[s].tri /\ expr_calc_value(b, val) = val[s].tri
            \/ expr_calc_value(b, val) = 2 - val[s].tri /\ expr_calc_value(a, val) = val[s].tri
        BY <2>1, <2>4, <3>2, SimpleIs DEF s
      <4>3. val[s].tri \in {no, yes}
        <5>1. s \in Syms
          BY <2>1, <2>4, <3>2, SimpleIs DEF s, Operand
        <5> QED BY <2>4, <3>2, <5>1, TextIs
      <4> QED BY <4>1, <4>2, <4>3 DEF Joined, Greatest, no, yes
    <3>3. Weight(x) + 1 <= Weight(a) + Weight(b)
      BY <3>1, ExprIs
    <3> QED BY <3>1, <3>2, <3>3 DEF JoinsTo, x
  <2> QED BY <2>2, <2>3, <2>4
<1> QED BY <1>1, <1>2

\* The forms of a symbol and its comparison.
LEMMA SymbolAndShape ==
    ASSUME NEW a, IsExpr(a), NEW b, IsExpr(b), SubjectOf(a) = SubjectOf(b),
           NEW type \in Comparisons, NEW value, SymbolAnd(a, b, type, value)
    PROVE  SubjectOf(a) \in Operand /\ Weight(a) + Weight(b) = 4
<1>1. ASSUME NEW x, IsExpr(x), NEW y, IsExpr(y), x.type = "symbol", y.type = type
      PROVE  SubjectOf(x) \in Operand /\ Weight(x) = 1 /\ Weight(y) = 3
  BY <1>1, ExprIs DEF SubjectOf, Subject
<1> QED BY <1>1 DEF SymbolAnd

\* The value of a symbol and its comparison.
LEMMA SymbolAndIs ==
    ASSUME CalcRecurs, NEW a, IsExpr(a), NEW b, IsExpr(b), SubjectOf(a) = SubjectOf(b),
           NEW type \in Comparisons, NEW value \in {"n", "m", "y"}, SymbolAnd(a, b, type, value),
           NEW val, IsValuation(val)
    PROVE  LET s == SubjectOf(a)
           IN /\ s \in Operand /\ Weight(a) + Weight(b) = 4
              /\ Joined("and", expr_calc_value(a, val), expr_calc_value(b, val)) =
                   Least(val[s].tri, IF type = "equal" THEN Truth(val[s].str = value) ELSE Truth(val[s].str # value))
<1> DEFINE s == SubjectOf(a)
<1>1. type = "equal" \/ type = "unequal"
  BY DEF Comparisons
<1>2. val[value].str = value
  BY TextIs
<1>3. ASSUME NEW x, IsExpr(x), NEW y, IsExpr(y), SubjectOf(x) = s, SubjectOf(y) = s,
             x.type = "symbol", y.type = type, y.rsym = value
      PROVE  /\ s \in Operand /\ Weight(x) = 1 /\ Weight(y) = 3
             /\ expr_calc_value(x, val) = val[s].tri
             /\ expr_calc_value(y, val) =
                  IF type = "equal" THEN Truth(val[s].str = value) ELSE Truth(val[s].str # value)
  <2>1. s = x.sym /\ s \in Operand /\ Weight(x) = 1 /\ expr_calc_value(x, val) = val[s].tri
    BY <1>3, SimpleIs
  <2>2. s = y.lsym /\ Weight(y) = 3
    BY <1>3, SimpleIs
  <2>3. expr_calc_value(y, val) =
          IF type = "equal" THEN Truth(val[s].str = value) ELSE Truth(val[s].str # value)
    <3>1. /\ type = "equal" => expr_calc_value(y, val) = Truth(val[y.lsym].str = val[y.rsym].str)
          /\ type = "unequal" => expr_calc_value(y, val) = Truth(val[y.lsym].str # val[y.rsym].str)
      BY <1>3, SimpleIs
    <3> QED BY <1>1, <1>2, <1>3, <2>2, <3>1
  <2> QED BY <2>1, <2>2, <2>3
<1> HIDE DEF s
<1>4. s \in Operand /\ Weight(a) + Weight(b) = 4
  BY <1>3 DEF SymbolAnd, s
<1>5. \/ /\ expr_calc_value(a, val) = val[s].tri
         /\ expr_calc_value(b, val) = IF type = "equal" THEN Truth(val[s].str = value) ELSE Truth(val[s].str # value)
      \/ /\ expr_calc_value(b, val) = val[s].tri
         /\ expr_calc_value(a, val) = IF type = "equal" THEN Truth(val[s].str = value) ELSE Truth(val[s].str # value)
  BY <1>3 DEF SymbolAnd, s
<1>6. val[s].tri \in Tristate
  BY <1>4 DEF Operand, IsValuation
<1>7. \A k : Truth(k) \in Tristate
  BY DEF Truth, Tristate
<1>8. \A i, j \in Tristate : Least(i, j) = Least(j, i)
  BY DEF Least, Tristate, no, mod, yes
<1> QED BY <1>4, <1>5, <1>6, <1>7, <1>8 DEF Joined, s

\* Equal to one constant and unequal to another: the first says it all, or n.
LEMMA DecidedIs ==
    ASSUME CalcRecurs, ConstantsApart, NEW a, IsExpr(a), NEW b, IsExpr(b), SubjectOf(a) = SubjectOf(b),
           a.type = "equal", b.type = "unequal", a.rsym \in Const, b.rsym \in Const
    PROVE  /\ IsExpr(Decided(a, b)) /\ Decided(a, b).type # "and" /\ Weight(Decided(a, b)) + 1 <= Weight(a) + Weight(b)
           /\ \A val : IsValuation(val) =>
                expr_calc_value(Decided(a, b), val) = Least(expr_calc_value(a, val), expr_calc_value(b, val))
<1> DEFINE s == a.lsym
<1>1. /\ a.lsym \in Operand /\ a.rsym \in Syms /\ b.rsym \in Syms /\ Weight(a) = 3 /\ Weight(b) = 3 /\ b.lsym = a.lsym
      /\ a.type # "and"
  <2>1. /\ a.type \in Comparisons /\ b.type \in Comparisons /\ a.type # "symbol" /\ b.type # "symbol"
        /\ a.type # "not" /\ b.type # "not" /\ a.type # "and"
    BY DEF Comparisons
  <2> QED BY <2>1, ExprIs DEF SubjectOf, Subject
<1>2. a.rsym \in {"n", "m", "y"} /\ b.rsym \in {"n", "m", "y"}
  BY <1>1 DEF ConstantsApart, Syms
<1>3. "n" \in Operand
  BY DEF Operand, Syms
<1>4. Decided(a, b) = IF a.rsym # b.rsym THEN a ELSE Symbol("n")
  BY DEF Decided
<1>5. ASSUME NEW val, IsValuation(val)
      PROVE  expr_calc_value(Decided(a, b), val) = Least(expr_calc_value(a, val), expr_calc_value(b, val))
  <2>1. /\ expr_calc_value(a, val) = Truth(val[s].str = a.rsym)
        /\ expr_calc_value(b, val) = Truth(val[s].str # b.rsym)
    <3>1. val[a.rsym].str = a.rsym /\ val[b.rsym].str = b.rsym
      BY <1>2, <1>5, TextIs
    <3> QED BY <1>1, <3>1, CalcIs
  <2>2. expr_calc_value(Symbol("n"), val) = no
    BY <1>3, <1>5, CalcOf, TextIs
  <2> QED BY <1>4, <2>1, <2>2 DEF Least, Truth, no, yes
<1>6. IsExpr(Decided(a, b)) /\ Weight(Decided(a, b)) <= 3 /\ Decided(a, b).type # "and"
  BY <1>1, <1>3, <1>4, SymbolIs, Shapes
<1>7. Weight(Decided(a, b)) + 1 <= Weight(a) + Weight(b)
  BY <1>1, <1>6, ExprIs
<1> QED BY <1>5, <1>6, <1>7

\* What expr_join_and returns is the conjunction of its arguments.
LEMMA JoinAndIs ==
    ASSUME CalcRecurs, YnRecurs, EqRecurs, CommonRecurs, ConstantsApart,
           NEW a, IsExpr(a), a.type # "and", NEW b, IsExpr(b), JoinAnd(a, b) # Null
    PROVE  JoinsTo("and", a, b, JoinAnd(a, b))
<1> DEFINE x == JoinAnd(a, b)
           s == SubjectOf(a)
<1>1. CASE expr_eq(a, b)
  <2>1. x = a
    BY <1>1 DEF JoinAnd
  <2> QED BY <1>1, <2>1, JoinsToSame DEF Lists
<1>2. CASE ~expr_eq(a, b)
  <2>1. s = SubjectOf(b)
    BY <1>2 DEF JoinAnd, Joinable
  <2>2. \/ /\ SymbolAnd(a, b, "equal", "y") \/ SymbolAnd(a, b, "unequal", "m")
           /\ x = Comp("equal", s, "y")
        \/ SymbolAnd(a, b, "unequal", "n") /\ x = Symbol(s)
        \/ a.type = "equal" /\ b.type = "unequal" /\ a.rsym \in Const /\ b.rsym \in Const /\ x = Decided(a, b)
        \/ a.type = "unequal" /\ b.type = "equal" /\ a.rsym \in Const /\ b.rsym \in Const /\ x = Decided(b, a)
        \/ /\ a.type = "unequal" /\ b.type = "unequal"
           /\ {a.rsym, b.rsym} \subseteq {"n", "m", "y"} /\ x = Comp("equal", s, TheThird({a.rsym, b.rsym}))
    BY <1>2 DEF JoinAnd
  <2>3. \A val : IsValuation(val) =>
          Joined("and", expr_calc_value(a, val), expr_calc_value(b, val)) =
            Least(expr_calc_value(a, val), expr_calc_value(b, val))
    BY DEF Joined
  <2>4. "y" \in Syms /\ "equal" \in Comparisons /\ "unequal" \in Comparisons
    BY DEF Syms, Comparisons
  <2> HIDE DEF x, s
  <2>5. CASE /\ SymbolAnd(a, b, "equal", "y") \/ SymbolAnd(a, b, "unequal", "m")
             /\ x = Comp("equal", s, "y")
    <3>1. ASSUME NEW val, IsValuation(val)
          PROVE  /\ s \in Operand /\ Weight(a) + Weight(b) = 4
                 /\ expr_calc_value(x, val) = Joined("and", expr_calc_value(a, val), expr_calc_value(b, val))
      <4>1. /\ s \in Operand /\ Weight(a) + Weight(b) = 4
            /\ \/ Joined("and", expr_calc_value(a, val), expr_calc_value(b, val)) =
                    Least(val[s].tri, Truth(val[s].str = "y"))
               \/ Joined("and", expr_calc_value(a, val), expr_calc_value(b, val)) =
                    Least(val[s].tri, Truth(val[s].str # "m"))
        BY <2>1, <2>4, <2>5, <3>1, SymbolAndIs DEF s
      <4>2. expr_calc_value(x, val) = Truth(val[s].str = val["y"].str) /\ s \in Syms
        BY <2>4, <2>5, <4>1, CalcOf DEF Operand
      <4>3. /\ val["y"].str = "y"
            /\ \/ val[s].tri = no /\ val[s].str = "n"
               \/ val[s].tri = mod /\ val[s].str = "m"
               \/ val[s].tri = yes /\ val[s].str = "y"
        BY <3>1, <4>2, TextIs
      <4> QED BY <4>1, <4>2, <4>3 DEF Least, Truth, no, mod, yes
    <3>2. s \in Operand /\ Weight(a) + Weight(b) = 4
      BY <2>1, <2>4, <2>5, SymbolAndShape DEF s
    <3>3. IsExpr(x) /\ Weight(x) = 3 /\ x.type = "equal"
      BY <2>4, <2>5, <3>2, CompIs, Shapes
    <3> QED BY <3>1, <3>2, <3>3 DEF JoinsTo, x
  <2>6. CASE SymbolAnd(a, b, "unequal", "n") /\ x = Symbol(s)
    <3>1. ASSUME NEW val, IsValuation(val)
          PROVE  /\ s \in Operand /\ Weight(a) + Weight(b) = 4
                 /\ expr_calc_value(x, val) = Joined("and", expr_calc_value(a, val), expr_calc_value(b, val))
      <4>1. /\ s \in Operand /\ Weight(a) + Weight(b) = 4
            /\ Joined("and", expr_calc_value(a, val), expr_calc_value(b, val)) =
                    Least(val[s].tri, Truth(val[s].str # "n"))
        BY <2>1, <2>4, <2>6, <3>1, SymbolAndIs DEF s
      <4>2. expr_calc_value(x, val) = val[s].tri /\ s \in Syms
        BY <2>6, <4>1, CalcOf DEF Operand
      <4>3. \/ val[s].tri = no /\ val[s].str = "n"
            \/ val[s].tri = mod /\ val[s].str = "m"
            \/ val[s].tri = yes /\ val[s].str = "y"
        BY <3>1, <4>2, TextIs
      <4> QED BY <4>1, <4>2, <4>3 DEF Least, Truth, no, mod, yes
    <3>2. s \in Operand /\ Weight(a) + Weight(b) = 4
      BY <2>1, <2>4, <2>6, SymbolAndShape DEF s
    <3>3. IsExpr(x) /\ Weight(x) = 1 /\ x.type = "symbol"
      BY <2>6, <3>2, SymbolIs, Shapes
    <3> QED BY <3>1, <3>2, <3>3 DEF JoinsTo, x
  <2>7. CASE a.type = "equal" /\ b.type = "unequal" /\ a.rsym \in Const /\ b.rsym \in Const /\ x = Decided(a, b)
    BY <2>1, <2>3, <2>7, DecidedIs DEF JoinsTo, x, s
  <2>8. CASE a.type = "unequal" /\ b.type = "equal" /\ a.rsym \in Const /\ b.rsym \in Const /\ x = Decided(b, a)
    <3>1. /\ IsExpr(x) /\ x.type # "and" /\ Weight(x) + 1 <= Weight(b) + Weight(a)
          /\ \A val : IsValuation(val) =>
               expr_calc_value(x, val) = Least(expr_calc_value(b, val), expr_calc_value(a, val))
      BY <2>1, <2>8, DecidedIs DEF s
    <3>2. \A val : IsValuation(val) => /\ expr_calc_value(a, val) \in Tristate
                                       /\ expr_calc_value(b, val) \in Tristate
      BY CalcTristate
    <3>3. \A i, j \in Tristate : Least(i, j) = Least(j, i)
      BY DEF Least, Tristate, no, mod, yes
    <3>4. Weight(x) + 1 <= Weight(a) + Weight(b)
      BY <3>1, ExprIs
    <3> QED BY <2>3, <3>1, <3>2, <3>3, <3>4 DEF JoinsTo, x
  <2>9. CASE /\ a.type = "unequal" /\ b.type = "unequal"
             /\ {a.rsym, b.rsym} \subseteq {"n", "m", "y"} /\ x = Comp("equal", s, TheThird({a.rsym, b.rsym}))
    <3> DEFINE k == TheThird({a.rsym, b.rsym})
    <3>1. /\ a.lsym = s /\ b.lsym = s /\ s \in Operand /\ a.rsym \in Syms /\ b.rsym \in Syms
          /\ Weight(a) = 3 /\ Weight(b) = 3
      <4>1. a.type \in Comparisons /\ b.type \in Comparisons /\ a.type # "symbol" /\ a.type # "not" /\ b.type # "not"
            /\ b.type # "symbol"
        BY <2>9 DEF Comparisons
      <4> QED BY <2>1, <4>1, ExprIs DEF s, SubjectOf, Subject
    <3>2. a.rsym # b.rsym
      <4> SUFFICES ASSUME a.rsym = b.rsym PROVE FALSE
        OBVIOUS
      <4>1. a = b
        BY <2>9, <3>1, ExprIs DEF Comparisons
      <4>2. Eq(a, b)
        BY <2>9, <4>1 DEF Eq, Lists
      <4> QED BY <1>2, <4>2 DEF EqRecurs
    <3>3. k \in {"n", "m", "y"} /\ k \notin {a.rsym, b.rsym}
      <4>1. \E v \in {"n", "m", "y"} : v \notin {a.rsym, b.rsym}
        BY <2>9
      <4> QED BY <4>1 DEF TheThird
    <3> HIDE DEF k
    <3>4. IsExpr(x) /\ Weight(x) = 3 /\ x.type = "equal"
      <4>1. k \in Syms
        BY <3>3 DEF Syms
      <4> QED BY <2>4, <2>9, <3>1, <4>1, CompIs, Shapes DEF k
    <3>5. ASSUME NEW val, IsValuation(val)
          PROVE  expr_calc_value(x, val) = Least(expr_calc_value(a, val), expr_calc_value(b, val))
      <4>1. /\ expr_calc_value(a, val) = Truth(val[s].str # val[a.rsym].str)
            /\ expr_calc_value(b, val) = Truth(val[s].str # val[b.rsym].str)
        BY <2>9, <3>1, CalcIs
      <4>2. expr_calc_value(x, val) = Truth(val[s].str = val[k].str)
        <5>1. k \in Syms
          BY <3>3 DEF Syms
        <5> QED BY <2>9, <3>1, <5>1, CalcOf DEF k
      <4>3. val[s].str \in {"n", "m", "y"} /\ val[a.rsym].str = a.rsym /\ val[b.rsym].str = b.rsym /\ val[k].str = k
        BY <2>9, <3>1, <3>3, <3>5, TextIs DEF Operand
      <4> QED BY <2>9, <3>2, <3>3, <4>1, <4>2, <4>3 DEF Least, Truth, no, yes
    <3>6. Weight(x) + 1 <= Weight(a) + Weight(b)
      BY <3>1, <3>4
    <3> QED BY <2>3, <3>4, <3>5, <3>6 DEF JoinsTo, x
  <2> QED BY <2>2, <2>5, <2>6, <2>7, <2>8, <2>9
<1> QED BY <1>1, <1>2

\* A joined member says what the two said, and is lighter than both.
LEMMA JoinIs ==
    ASSUME CalcRecurs, YnRecurs, EqRecurs, CommonRecurs, ConstantsApart, NEW t \in Lists,
           NEW a, IsExpr(a), a.type # t, NEW b, IsExpr(b), Join(t, a, b) # Null
    PROVE  JoinsTo(t, a, b, Join(t, a, b))
<1>1. t = "or" \/ t = "and"
  BY DEF Lists
<1> QED BY <1>1, JoinOrIs, JoinAndIs DEF Join

-----------------------------------------------------------------------------
(* Paths into an expression.                                               *)

Sides == {"left", "right"}
Child(e, side) == IF side = "left" THEN e.left ELSE e.right
WithChild(e, side, x) == IF side = "left" THEN Two(e.type, x, e.right) ELSE Two(e.type, e.left, x)

\* g[i] is the part of e after i steps of path p: all before the last have a type in T.
Along(T, e, p, g) ==
    g[0] = e /\ \A i \in 1..Len(p) : g[i - 1].type \in T /\ g[i] = Child(g[i - 1], p[i])
IsPath(T, e, p) == p \in Seq(Sides) /\ \E g : Along(T, e, p, g)

PartRecurs == \A e, p : IsExpr(e) /\ IsPath(Lists, e, p) => part(e, p) = At(e, p)
PutRecurs == \A e, p, x : IsExpr(e) /\ IsPath(Lists, e, p) => with_part(e, p, x) = Put(e, p, x)

\* The first step of a path and the steps after it.
LEMMA HeadTail ==
    ASSUME NEW p \in Seq(Sides), p # <<>>
    PROVE  /\ Head(p) \in Sides /\ Tail(p) \in Seq(Sides) /\ Len(Tail(p)) = Len(p) - 1 /\ Len(p) \in Nat \ {0}
           /\ Head(p) = p[1] /\ \A i \in 1..Len(Tail(p)) : Tail(p)[i] = p[i + 1]
OBVIOUS

\* Without a step one stays where one is.
LEMMA EmptyPath ==
    ASSUME NEW T, NEW e
    PROVE  IsPath(T, e, <<>>)
<1> DEFINE g == [i \in {0} |-> e]
<1>1. Along(T, e, <<>>, g)
  BY DEF Along
<1> QED BY <1>1 DEF IsPath

\* The steps after the first lead on from the part it leads to.
LEMMA PathDown ==
    ASSUME NEW T, NEW e, NEW p, IsPath(T, e, p), p # <<>>
    PROVE  e.type \in T /\ IsPath(T, Child(e, Head(p)), Tail(p))
<1>1. PICK g : Along(T, e, p, g)
  BY DEF IsPath
<1>2. p \in Seq(Sides)
  BY DEF IsPath
<1> DEFINE h == [i \in Nat |-> g[i + 1]]
<1>3. g[0] = e /\ g[0].type \in T /\ g[1] = Child(g[0], p[1])
  BY <1>1, <1>2, HeadTail DEF Along
<1>4. h[0] = Child(e, Head(p))
  BY <1>2, <1>3, HeadTail
<1>5. ASSUME NEW i \in 1..Len(Tail(p)) PROVE h[i - 1].type \in T /\ h[i] = Child(h[i - 1], Tail(p)[i])
  <2>1. i + 1 \in 1..Len(p) /\ Tail(p)[i] = p[i + 1] /\ i \in Nat /\ i - 1 \in Nat
    BY <1>2, HeadTail
  <2>2. g[(i + 1) - 1].type \in T /\ g[i + 1] = Child(g[(i + 1) - 1], p[i + 1])
    BY <1>1, <2>1 DEF Along
  <2>3. h[i - 1] = g[i] /\ h[i] = g[i + 1] /\ (i + 1) - 1 = i
    BY <2>1
  <2> QED BY <2>1, <2>2, <2>3
<1> HIDE DEF h
<1>6. Along(T, Child(e, Head(p)), Tail(p), h)
  BY <1>4, <1>5 DEF Along
<1> QED BY <1>2, <1>3, <1>6, HeadTail DEF IsPath

\* A path is one step longer from where a part belongs to.
LEMMA PathUp ==
    ASSUME NEW T, NEW e, e.type \in T, NEW p \in Seq(Sides), p # <<>>, IsPath(T, Child(e, Head(p)), Tail(p))
    PROVE  IsPath(T, e, p)
<1>1. PICK h : Along(T, Child(e, Head(p)), Tail(p), h)
  BY DEF IsPath
<1> DEFINE g == [i \in Nat |-> IF i = 0 THEN e ELSE h[i - 1]]
<1>2. g[0] = e
  OBVIOUS
<1>3. ASSUME NEW i \in 1..Len(p) PROVE g[i - 1].type \in T /\ g[i] = Child(g[i - 1], p[i])
  <2>1. CASE i = 1
    <3>1. g[1] = h[0] /\ h[0] = Child(e, p[1]) /\ g[0] = e
      BY <1>1, HeadTail DEF Along
    <3> QED BY <2>1, <3>1
  <2>2. CASE i # 1
    <3>1. i - 1 \in 1..Len(Tail(p)) /\ Tail(p)[i - 1] = p[i] /\ i - 1 \in Nat /\ i - 1 # 0 /\ i \in Nat /\ i # 0
      <4>1. i - 1 \in 1..Len(Tail(p))
        BY <2>2, HeadTail
      <4>2. Tail(p)[i - 1] = p[(i - 1) + 1] /\ (i - 1) + 1 = i
        BY <4>1, HeadTail
      <4> QED BY <4>1, <4>2
    <3>2. h[(i - 1) - 1].type \in T /\ h[i - 1] = Child(h[(i - 1) - 1], p[i])
      BY <1>1, <3>1 DEF Along
    <3>3. g[i - 1] = h[(i - 1) - 1] /\ g[i] = h[i - 1]
      BY <3>1
    <3> QED BY <3>2, <3>3
  <2> QED BY <2>1, <2>2
<1> HIDE DEF g
<1>4. Along(T, e, p, g)
  BY <1>2, <1>3 DEF Along
<1> QED BY <1>4 DEF IsPath

\* A path through some types is a path through more.
LEMMA PathWider ==
    ASSUME NEW T, NEW U, T \subseteq U, NEW e, NEW p, IsPath(T, e, p)
    PROVE  IsPath(U, e, p)
BY DEF IsPath, Along

\* One step of a path down a list.
LEMMA StepDown ==
    ASSUME PartRecurs, PutRecurs, NEW e, IsExpr(e), NEW p, IsPath(Lists, e, p), p # <<>>
    PROVE  LET c == Child(e, Head(p))
           IN /\ e.type \in Lists /\ IsExpr(c) /\ Weight(c) < Weight(e) /\ IsPath(Lists, c, Tail(p))
              /\ p \in Seq(Sides) /\ Head(p) \in Sides
              /\ part(e, p) = part(c, Tail(p))
              /\ \A x : with_part(e, p, x) = WithChild(e, Head(p), with_part(c, Tail(p), x))
<1>1. e.type \in Lists /\ IsPath(Lists, Child(e, Head(p)), Tail(p))
  BY PathDown
<1>2. p \in Seq(Sides) /\ Head(p) \in Sides
  BY HeadTail DEF IsPath
<1>3. IsExpr(Child(e, Head(p))) /\ Weight(Child(e, Head(p))) < Weight(e)
  BY <1>1, PartsAreLighter DEF Child
<1>4. part(e, p) = part(Child(e, Head(p)), Tail(p))
  BY DEF PartRecurs, At, Child
<1>5. ASSUME NEW x PROVE with_part(e, p, x) = WithChild(e, Head(p), with_part(Child(e, Head(p)), Tail(p), x))
  <2>1. with_part(e, p, x) = Put(e, p, x)
    BY DEF PutRecurs
  <2> QED BY <2>1 DEF Put, Child, WithChild
<1> QED BY <1>1, <1>2, <1>3, <1>4, <1>5

\* The part at no step is the expression itself.
LEMMA NoStep ==
    ASSUME PartRecurs, PutRecurs, NEW e, IsExpr(e)
    PROVE  part(e, <<>>) = e /\ \A x : with_part(e, <<>>, x) = x
BY EmptyPath DEF PartRecurs, PutRecurs, At, Put

\* An expression whose one part is replaced.
LEMMA WithChildIs ==
    ASSUME NEW e, IsExpr(e), e.type \in Lists, NEW side \in Sides, NEW x, IsExpr(x)
    PROVE  /\ IsExpr(WithChild(e, side, x)) /\ WithChild(e, side, x).type = e.type
           /\ Child(WithChild(e, side, x), side) = x
           /\ \A s \in Sides \ {side} : Child(WithChild(e, side, x), s) = Child(e, s)
           /\ Weight(WithChild(e, side, x)) + Weight(Child(e, side)) = Weight(e) + Weight(x)
           /\ WithChild(e, side, Child(e, side)) = e
           /\ \A y : WithChild(WithChild(e, side, x), side, y) = WithChild(e, side, y)
<1>1. /\ IsExpr(e.left) /\ IsExpr(e.right) /\ e = Two(e.type, e.left, e.right)
      /\ Weight(e) = Weight(e.left) + Weight(e.right) + 2
  BY ExprIs
<1>2. Weight(e.left) \in Nat /\ Weight(e.right) \in Nat /\ Weight(x) \in Nat
  BY <1>1, ExprIs
<1>3. CASE side = "left"
  <2>1. WithChild(e, side, x) = Two(e.type, x, e.right) /\ Child(e, side) = e.left
    BY <1>3 DEF WithChild, Child
  <2>2. IsExpr(Two(e.type, x, e.right)) /\ Weight(Two(e.type, x, e.right)) = Weight(x) + Weight(e.right) + 2
    BY <1>1, TwoIs
  <2>3. \A y : WithChild(WithChild(e, side, x), side, y) = WithChild(e, side, y)
    BY <1>3, <2>1, Shapes DEF WithChild
  <2> QED BY <1>1, <1>2, <1>3, <2>1, <2>2, <2>3, Shapes DEF WithChild, Child, Sides
<1>4. CASE side = "right"
  <2>1. WithChild(e, side, x) = Two(e.type, e.left, x) /\ Child(e, side) = e.right
    BY <1>4 DEF WithChild, Child
  <2>2. IsExpr(Two(e.type, e.left, x)) /\ Weight(Two(e.type, e.left, x)) = Weight(e.left) + Weight(x) + 2
    BY <1>1, TwoIs
  <2>3. \A y : WithChild(WithChild(e, side, x), side, y) = WithChild(e, side, y)
    BY <1>4, <2>1, Shapes DEF WithChild
  <2> QED BY <1>1, <1>2, <1>4, <2>1, <2>2, <2>3, Shapes DEF WithChild, Child, Sides
<1> QED BY <1>3, <1>4 DEF Sides

\* Paths with the same first and the same other steps are the same.
LEMMA SameHeadTail ==
    ASSUME NEW p \in Seq(Sides), NEW q \in Seq(Sides), p # <<>>, q # <<>>, Head(p) = Head(q), Tail(p) = Tail(q)
    PROVE  p = q
<1>1. Len(p) = Len(q)
  BY HeadTail
<1>2. ASSUME NEW i \in 1..Len(p) PROVE p[i] = q[i]
  <2>1. CASE i = 1
    BY <2>1, HeadTail
  <2>2. CASE i # 1
    <3>1. i - 1 \in 1..Len(Tail(p)) /\ i - 1 \in 1..Len(Tail(q)) /\ (i - 1) + 1 = i
      BY <1>1, <2>2, HeadTail
    <3>2. Tail(p)[i - 1] = p[(i - 1) + 1] /\ Tail(q)[i - 1] = q[(i - 1) + 1]
      BY <3>1, HeadTail
    <3> QED BY <3>1, <3>2
  <2> QED BY <2>1, <2>2
<1> QED BY <1>1, <1>2

\* What is put at the end of a path is found there, and nothing else changes.
Fits(e, p) ==
    /\ IsExpr(part(e, p)) /\ Weight(part(e, p)) + Len(p) <= Weight(e)
    /\ with_part(e, p, part(e, p)) = e
    /\ \A x : IsExpr(x) =>
         LET d == with_part(e, p, x)
         IN /\ IsExpr(d) /\ Weight(d) + Weight(part(e, p)) = Weight(e) + Weight(x)
            /\ IsPath(Lists, d, p) /\ part(d, p) = x
            /\ \A y : with_part(d, p, y) = with_part(e, p, y)

\* Replacing a part of an expression changes its weight by that of the part.
LEMMA FitsIs ==
    ASSUME PartRecurs, PutRecurs, NEW e, IsExpr(e), NEW p, IsPath(Lists, e, p)
    PROVE  Fits(e, p)
<1> DEFINE S == {n \in Nat : \A x, q : IsExpr(x) /\ IsPath(Lists, x, q) /\ Len(q) = n => Fits(x, q)}
<1>1. ASSUME NEW n \in Nat, \A i \in 0..(n - 1) : i \in S PROVE n \in S
  <2> SUFFICES ASSUME NEW f, NEW r, IsExpr(f), IsPath(Lists, f, r), Len(r) = n PROVE Fits(f, r)
    OBVIOUS
  <2>0. r \in Seq(Sides)
    BY DEF IsPath
  <2>1. CASE r = <<>>
    <3>1. part(f, r) = f /\ (\A x : with_part(f, r, x) = x) /\ Len(r) = 0
      BY <2>1, NoStep
    <3>2. \A x : IsExpr(x) => Weight(x) \in Nat /\ IsPath(Lists, x, r) /\ part(x, r) = x /\ \A y : with_part(x, r, y) = y
      BY <2>1, NoStep, EmptyPath, ExprIs
    <3> QED BY <3>1, <3>2 DEF Fits
  <2>2. CASE r # <<>>
    <3> DEFINE h == Head(r)
               q == Tail(r)
               c == Child(f, h)
    <3>1. /\ f.type \in Lists /\ IsExpr(c) /\ Weight(c) < Weight(f) /\ IsPath(Lists, c, q)
          /\ h \in Sides /\ part(f, r) = part(c, q)
          /\ \A x : with_part(f, r, x) = WithChild(f, h, with_part(c, q, x))
      BY <2>2, StepDown
    <3>2. Len(q) = Len(r) - 1 /\ Len(q) \in 0..(n - 1)
      BY <2>0, <2>2, HeadTail
    <3>3. Fits(c, q)
      BY <1>1, <3>1, <3>2
    <3> HIDE DEF S
    <3>4. IsExpr(part(f, r)) /\ Weight(part(f, r)) + Len(r) <= Weight(f)
      <4>1. IsExpr(part(c, q)) /\ Weight(part(c, q)) + Len(q) <= Weight(c)
        BY <3>3 DEF Fits
      <4>2. Weight(part(c, q)) \in Nat /\ Weight(c) \in Nat /\ Weight(f) \in Nat
        BY <3>1, <4>1, ExprIs
      <4> HIDE DEF c, q
      <4> QED BY <3>1, <3>2, <4>1, <4>2
    <3>5. with_part(f, r, part(f, r)) = f
      <4>1. with_part(c, q, part(c, q)) = c
        BY <3>3 DEF Fits
      <4>2. WithChild(f, h, c) = f
        BY <3>1, WithChildIs
      <4> HIDE DEF c, q, h
      <4> QED BY <3>1, <4>1, <4>2
    <3>6. ASSUME NEW x, IsExpr(x)
          PROVE  LET d == with_part(f, r, x)
                 IN /\ IsExpr(d) /\ Weight(d) + Weight(part(f, r)) = Weight(f) + Weight(x)
                    /\ IsPath(Lists, d, r) /\ part(d, r) = x
                    /\ \A y : with_part(d, r, y) = with_part(f, r, y)
      <4> DEFINE dc == with_part(c, q, x)
                 d == with_part(f, r, x)
      <4>1. /\ IsExpr(dc) /\ Weight(dc) + Weight(part(c, q)) = Weight(c) + Weight(x)
            /\ IsPath(Lists, dc, q) /\ part(dc, q) = x
            /\ \A y : with_part(dc, q, y) = with_part(c, q, y)
        BY <3>3, <3>6 DEF Fits
      <4>2. d = WithChild(f, h, dc)
        BY <3>1
      <4> HIDE DEF c, h, q, dc, d
      <4>3. /\ IsExpr(d) /\ d.type = f.type /\ Child(d, h) = dc
            /\ Weight(d) + Weight(Child(f, h)) = Weight(f) + Weight(dc)
            /\ \A y : WithChild(d, h, y) = WithChild(f, h, y)
        BY <3>1, <4>1, <4>2, WithChildIs
      <4>4. Weight(d) + Weight(part(f, r)) = Weight(f) + Weight(x)
        <5>1. /\ Weight(d) \in Nat /\ Weight(dc) \in Nat /\ Weight(c) \in Nat /\ Weight(f) \in Nat
              /\ Weight(x) \in Nat /\ Weight(part(f, r)) \in Nat
          BY <3>1, <3>4, <3>6, <4>1, <4>3, ExprIs
        <5>2. Weight(d) + Weight(c) = Weight(f) + Weight(dc)
          BY <4>3 DEF c
        <5>3. Weight(dc) + Weight(part(f, r)) = Weight(c) + Weight(x)
          BY <3>1, <4>1
        <5> QED BY <5>1, <5>2, <5>3
      <4>5. IsPath(Lists, d, r)
        BY <2>0, <2>2, <3>1, <4>1, <4>3, PathUp DEF h, q
      <4>6. /\ part(d, r) = part(dc, q)
            /\ \A y : with_part(d, r, y) = WithChild(d, h, with_part(dc, q, y))
        BY <2>2, <4>3, <4>5, StepDown DEF h, q
      <4> QED BY <3>1, <4>1, <4>3, <4>4, <4>5, <4>6 DEF d
    <3> QED BY <3>4, <3>5, <3>6 DEF Fits
  <2> QED BY <2>1, <2>2
<1>2. \A n \in Nat : n \in S
  <2>1. S \in SUBSET Nat
    OBVIOUS
  <2> HIDE DEF S
  <2> QED BY <1>1, <2>1, Induction
<1>3. Len(p) \in Nat
  BY DEF IsPath
<1> QED BY <1>2, <1>3

\* A path after a path.
Follows(T, e, q, r) ==
    /\ IsPath(T, e, q \o r) /\ part(e, q \o r) = part(part(e, q), r)
    /\ \A x : with_part(e, q \o r, x) = with_part(e, q, with_part(part(e, q), r, x))

\* A path after a path, one step up.
LEMMA FollowsStep ==
    ASSUME PartRecurs, PutRecurs, NEW T, T \subseteq Lists,
           NEW f, IsExpr(f), NEW q, IsPath(T, f, q), q # <<>>, NEW r \in Seq(Sides),
           Follows(T, Child(f, Head(q)), Tail(q), r)
    PROVE  Follows(T, f, q, r)
<1> DEFINE h == Head(q)
           k == Tail(q)
           c == Child(f, h)
           w == q \o r
<1>0. f.type \in T /\ IsPath(Lists, f, q)
  BY PathDown, PathWider
<1>1. /\ IsExpr(c) /\ h \in Sides /\ part(f, q) = part(c, k)
      /\ \A x : with_part(f, q, x) = WithChild(f, h, with_part(c, k, x))
  BY <1>0, StepDown
<1>2. q \in Seq(Sides)
  BY DEF IsPath
<1>3. w \in Seq(Sides) /\ w # <<>> /\ Head(w) = h /\ Tail(w) = k \o r
  BY <1>2
<1> HIDE DEF h, k, c, w
<1>4. /\ IsPath(T, c, k \o r) /\ part(c, k \o r) = part(part(c, k), r)
      /\ \A x : with_part(c, k \o r, x) = with_part(c, k, with_part(part(c, k), r, x))
  BY DEF Follows, c, h, k
<1>5. Child(f, Head(w)) = c
  BY <1>3 DEF c
<1>6. IsPath(T, f, w) /\ IsPath(Lists, f, w)
  BY <1>0, PathWider, <1>3, <1>4, <1>5, PathUp
<1>7. /\ part(f, w) = part(c, k \o r)
      /\ \A x : with_part(f, w, x) = WithChild(f, h, with_part(c, k \o r, x))
  <2>1. /\ part(f, w) = part(Child(f, Head(w)), Tail(w))
        /\ \A x : with_part(f, w, x) = WithChild(f, Head(w), with_part(Child(f, Head(w)), Tail(w), x))
    BY <1>3, <1>6, StepDown
  <2> QED BY <1>3, <1>5, <2>1
<1>8. part(f, w) = part(part(f, q), r)
  BY <1>1, <1>4, <1>7
<1>9. \A x : with_part(f, w, x) = with_part(f, q, with_part(part(f, q), r, x))
  BY <1>1, <1>4, <1>7
<1> QED BY <1>6, <1>8, <1>9 DEF Follows, w

\* The part at a path and a path from there is the part at both paths.
LEMMA FollowsIs ==
    ASSUME PartRecurs, PutRecurs, NEW T, T \subseteq Lists,
           NEW e, IsExpr(e), NEW p, IsPath(T, e, p), NEW r, IsPath(T, part(e, p), r)
    PROVE  Follows(T, e, p, r)
<1> DEFINE Good(f, q) == IsPath(T, part(f, q), r) => Follows(T, f, q, r)
           S == {n \in Nat : \A f, q : IsExpr(f) /\ IsPath(T, f, q) /\ Len(q) = n => Good(f, q)}
<1>1. r \in Seq(Sides)
  BY DEF IsPath
<1>2. ASSUME NEW f, IsExpr(f) PROVE Good(f, <<>>)
  <2>1. part(f, <<>>) = f /\ \A x : with_part(f, <<>>, x) = x
    BY <1>2, NoStep
  <2>2. <<>> \o r = r
    BY <1>1
  <2> DEFINE w == <<>> \o r
  <2>3. IsPath(T, f, r) => /\ IsPath(T, f, w) /\ part(f, w) = part(part(f, <<>>), r)
                               /\ \A x : with_part(f, w, x) = with_part(f, <<>>, with_part(part(f, <<>>), r, x))
    <3> HIDE DEF w
    <3>1. w = r
      BY <2>2 DEF w
    <3> QED BY <2>1, <3>1
  <2>4. IsPath(T, f, r) => Follows(T, f, <<>>, r)
    BY <2>3 DEF Follows
  <2> QED BY <2>1, <2>4
<1>3. ASSUME NEW f, NEW q, IsExpr(f), IsPath(T, f, q), q # <<>>, Good(Child(f, Head(q)), Tail(q))
      PROVE  Good(f, q)
  <2>1. part(f, q) = part(Child(f, Head(q)), Tail(q))
    BY <1>3, PathWider, StepDown
  <2> QED BY <1>1, <1>3, <2>1, FollowsStep
<1> HIDE DEF Good
<1>4. ASSUME NEW n \in Nat, \A i \in 0..(n - 1) : i \in S PROVE n \in S
  <2> SUFFICES ASSUME NEW f, NEW q, IsExpr(f), IsPath(T, f, q), Len(q) = n PROVE Good(f, q)
    OBVIOUS
  <2>1. CASE q = <<>>
    BY <1>2, <2>1
  <2>2. CASE q # <<>>
    <3>1. IsExpr(Child(f, Head(q))) /\ IsPath(T, Child(f, Head(q)), Tail(q)) /\ q \in Seq(Sides)
      BY <2>2, PathDown, PathWider, StepDown
    <3>2. Len(Tail(q)) \in 0..(n - 1)
      BY <2>2, <3>1, HeadTail
    <3> QED BY <1>3, <1>4, <2>2, <3>1, <3>2
  <2> QED BY <2>1, <2>2
<1>5. \A n \in Nat : n \in S
  <2>1. S \in SUBSET Nat
    OBVIOUS
  <2> HIDE DEF S
  <2> QED BY <1>4, <2>1, Induction
<1>6. Good(e, p)
  <2>1. Len(p) \in Nat
    BY DEF IsPath
  <2> QED BY <1>5, <2>1
<1> QED BY <1>6 DEF Good

-----------------------------------------------------------------------------
(* The members of a list: the parts that only lists of its type lead to.   *)

\* What a member says is joined to what the others say.
SpineValue(t, e, p, val) ==
    \E c \in Tristate : \A x : IsExpr(x) =>
      expr_calc_value(with_part(e, p, x), val) = Joined(t, c, expr_calc_value(x, val))

\* The value of a list as one of its two parts is replaced.
LEMMA ChildValue ==
    ASSUME CalcRecurs, NEW val, IsValuation(val), NEW e, IsExpr(e), e.type \in Lists, NEW side \in Sides
    PROVE  \E c \in Tristate : \A x : IsExpr(x) =>
             expr_calc_value(WithChild(e, side, x), val) = Joined(e.type, c, expr_calc_value(x, val))
<1> DEFINE other == IF side = "left" THEN e.right ELSE e.left
           c == expr_calc_value(other, val)
<1>1. IsExpr(other)
  BY PartsAreLighter
<1>2. c \in Tristate
  BY <1>1, CalcTristate
<1>3. ASSUME NEW x, IsExpr(x)
      PROVE  expr_calc_value(WithChild(e, side, x), val) = Joined(e.type, c, expr_calc_value(x, val))
  <2>1. WithChild(e, side, x) = IF side = "left" THEN Two(e.type, x, other) ELSE Two(e.type, other, x)
    BY DEF WithChild
  <2>2. expr_calc_value(x, val) \in Tristate
    BY <1>3, CalcTristate
  <2> HIDE DEF other
  <2>3. /\ expr_calc_value(Two(e.type, x, other), val) = Joined(e.type, expr_calc_value(x, val), c)
        /\ expr_calc_value(Two(e.type, other, x), val) = Joined(e.type, c, expr_calc_value(x, val))
    BY <1>1, <1>3, CalcTwo
  <2> HIDE DEF c
  <2>4. Joined(e.type, expr_calc_value(x, val), c) = Joined(e.type, c, expr_calc_value(x, val))
    BY <1>2, <2>2, JoinedIs
  <2> QED BY <2>1, <2>3, <2>4
<1> HIDE DEF c
<1> QED BY <1>2, <1>3

\* The value of a list as one of its members is replaced.
LEMMA SpineIs ==
    ASSUME CalcRecurs, PartRecurs, PutRecurs, NEW t \in Lists, NEW val, IsValuation(val),
           NEW e, IsExpr(e), NEW p, IsPath({t}, e, p)
    PROVE  SpineValue(t, e, p, val)
<1> DEFINE S == {n \in Nat : \A f, q : IsExpr(f) /\ IsPath({t}, f, q) /\ Len(q) = n => SpineValue(t, f, q, val)}
<1>0. \A f, q : IsPath({t}, f, q) => IsPath(Lists, f, q)
  BY PathWider
<1>1. ASSUME NEW n \in Nat, \A i \in 0..(n - 1) : i \in S PROVE n \in S
  <2> SUFFICES ASSUME NEW f, NEW q, IsExpr(f), IsPath({t}, f, q), Len(q) = n PROVE SpineValue(t, f, q, val)
    OBVIOUS
  <2>1. CASE q = <<>>
    <3>1. \A x : IsExpr(x) => with_part(f, q, x) = x /\ expr_calc_value(x, val) \in Tristate
      BY <2>1, NoStep, CalcTristate
    <3>2. \A x : IsExpr(x) => expr_calc_value(x, val) = Joined(t, UnitValue(t), expr_calc_value(x, val))
      BY <3>1, JoinedIs
    <3>3. UnitValue(t) \in Tristate
      BY DEF UnitValue, Tristate
    <3> HIDE DEF S
    <3> QED BY <3>1, <3>2, <3>3 DEF SpineValue
  <2>2. CASE q # <<>>
    <3> DEFINE h == Head(q)
               k == Tail(q)
               c == Child(f, h)
    <3>1. /\ f.type = t /\ IsPath({t}, c, k)
      BY <2>2, PathDown
    <3>2. /\ IsExpr(c) /\ h \in Sides /\ q \in Seq(Sides)
          /\ \A x : with_part(f, q, x) = WithChild(f, h, with_part(c, k, x))
      BY <1>0, <2>2, StepDown
    <3>3. Len(k) \in 0..(n - 1)
      BY <2>2, <3>2, HeadTail
    <3>4. SpineValue(t, c, k, val)
      BY <1>1, <3>1, <3>2, <3>3
    <3>5. Fits(c, k)
      BY <1>0, <3>1, <3>2, FitsIs
    <3> HIDE DEF S, h, k, c
    <3>6. PICK c1 \in Tristate : \A x : IsExpr(x) =>
            expr_calc_value(with_part(c, k, x), val) = Joined(t, c1, expr_calc_value(x, val))
      BY <3>4 DEF SpineValue
    <3>7. PICK c2 \in Tristate : \A x : IsExpr(x) =>
            expr_calc_value(WithChild(f, h, x), val) = Joined(t, c2, expr_calc_value(x, val))
      BY <3>1, <3>2, ChildValue
    <3> DEFINE d == Joined(t, c2, c1)
    <3>8. d \in Tristate
      BY JoinedIs
    <3>9. ASSUME NEW x, IsExpr(x)
          PROVE  expr_calc_value(with_part(f, q, x), val) = Joined(t, d, expr_calc_value(x, val))
      <4> DEFINE y == with_part(c, k, x)
                 v == expr_calc_value(x, val)
      <4>1. IsExpr(y)
        BY <3>5, <3>9 DEF Fits
      <4>2. v \in Tristate
        BY <3>9, CalcTristate
      <4>3. expr_calc_value(with_part(f, q, x), val) = Joined(t, c2, expr_calc_value(y, val))
        BY <3>2, <3>7, <4>1
      <4>4. expr_calc_value(y, val) = Joined(t, c1, v)
        BY <3>6, <3>9
      <4>5. Joined(t, c2, Joined(t, c1, v)) = Joined(t, d, v)
        <5> HIDE DEF v
        <5> QED BY <4>2, JoinedIs
      <4> QED BY <4>3, <4>4, <4>5
    <3> HIDE DEF d
    <3> QED BY <3>8, <3>9 DEF SpineValue
  <2> QED BY <2>1, <2>2
<1>2. \A n \in Nat : n \in S
  <2>1. S \in SUBSET Nat
    OBVIOUS
  <2> HIDE DEF S
  <2> QED BY <1>1, <2>1, Induction
<1>3. Len(p) \in Nat
  BY DEF IsPath
<1> QED BY <1>2, <1>3

\* Replacing a member leaves the other members and the paths to them.
Stays(t, e, p, s, x) ==
    /\ IsPath({t}, with_part(e, p, x), s)
    /\ s # p /\ part(e, s).type # t => part(with_part(e, p, x), s) = part(e, s)

\* One step down the lists of one type.
LEMMA SpineDown ==
    ASSUME NEW t, NEW e, NEW p, IsPath({t}, e, p), p # <<>>
    PROVE  e.type = t /\ IsPath({t}, Child(e, Head(p)), Tail(p)) /\ p \in Seq(Sides) /\ Head(p) \in Sides
<1> DEFINE T == {t}
<1>1. IsPath(T, e, p)
  OBVIOUS
<1> HIDE DEF T
<1>2. e.type \in T /\ IsPath(T, Child(e, Head(p)), Tail(p)) /\ p \in Seq(Sides) /\ Head(p) \in Sides
  BY <1>1, PathDown, HeadTail DEF IsPath
<1> QED BY <1>2 DEF T

\* One step up the lists of one type.
LEMMA SpineUp ==
    ASSUME NEW t, NEW e, e.type = t, NEW p \in Seq(Sides), p # <<>>, IsPath({t}, Child(e, Head(p)), Tail(p))
    PROVE  IsPath({t}, e, p)
<1> DEFINE T == {t}
<1>1. e.type \in T /\ IsPath(T, Child(e, Head(p)), Tail(p))
  OBVIOUS
<1> HIDE DEF T
<1>2. IsPath(T, e, p)
  BY <1>1, PathUp
<1> QED BY <1>2 DEF T

\* Other members stay when one is replaced, one step up.
LEMMA StaysStep ==
    ASSUME PartRecurs, PutRecurs, NEW t \in Lists, NEW e, IsExpr(e), NEW p, IsPath({t}, e, p), part(e, p).type # t,
           NEW s, IsPath({t}, e, s), s # <<>>, NEW x, IsExpr(x),
           p # <<>> /\ Head(p) = Head(s) => Stays(t, Child(e, Head(s)), Tail(p), Tail(s), x)
    PROVE  Stays(t, e, p, s, x)
<1> DEFINE h == Head(p)
           k == Tail(p)
           c == Child(e, h)
           d == with_part(e, p, x)
<1>0. \A f, q : IsPath({t}, f, q) => IsPath(Lists, f, q)
  BY PathWider
<1>1. e.type = t /\ IsPath({t}, Child(e, Head(s)), Tail(s)) /\ s \in Seq(Sides) /\ Head(s) \in Sides
  BY SpineDown
<1>2. p # <<>>
  BY <1>1, NoStep
<1>3. /\ IsPath({t}, c, k) /\ IsExpr(c) /\ h \in Sides /\ p \in Seq(Sides) /\ part(e, p) = part(c, k)
      /\ d = WithChild(e, h, with_part(c, k, x))
  BY <1>0, <1>2, PathDown, StepDown
<1>4. Fits(c, k)
  BY <1>0, <1>3, FitsIs
<1>5. IsExpr(with_part(c, k, x))
  BY <1>4 DEF Fits
<1> HIDE DEF h, k, c, d
<1>6. /\ IsExpr(d) /\ d.type = t /\ Child(d, h) = with_part(c, k, x)
      /\ \A side \in Sides \ {h} : Child(d, side) = Child(e, side)
  <2> DEFINE y == with_part(c, k, x)
  <2>1. e.type \in Lists /\ IsExpr(y) /\ d = WithChild(e, h, y)
    BY <1>1, <1>3, <1>5
  <2> HIDE DEF y
  <2>2. /\ IsExpr(d) /\ d.type = e.type /\ Child(d, h) = y
        /\ \A side \in Sides \ {h} : Child(d, side) = Child(e, side)
    BY <1>3, <2>1, WithChildIs
  <2> QED BY <1>1, <2>2 DEF y
<1>7. part(e, s) = part(Child(e, Head(s)), Tail(s))
  BY <1>0, StepDown
<1>8. CASE Head(s) = h
  <2>1. Stays(t, c, k, Tail(s), x)
    BY <1>2, <1>8 DEF h, k, c
  <2>2. IsPath({t}, Child(d, Head(s)), Tail(s))
    BY <1>6, <1>8, <2>1 DEF Stays
  <2>3. IsPath({t}, d, s)
    BY <1>1, <1>6, <2>2, SpineUp
  <2>4. ASSUME s # p, part(e, s).type # t PROVE part(d, s) = part(e, s)
    <3>0. IsPath(Lists, d, s)
      BY <1>0, <2>3
    <3>1. Tail(s) # k
      BY <1>1, <1>2, <1>3, <1>8, <2>4, SameHeadTail DEF h, k
    <3>2. part(d, s) = part(Child(d, Head(s)), Tail(s))
      BY <1>6, <3>0, StepDown
    <3>3. Child(e, Head(s)) = c
      BY <1>8 DEF c
    <3> QED BY <1>6, <1>7, <1>8, <2>1, <2>4, <3>1, <3>2, <3>3 DEF Stays
  <2> QED BY <2>3, <2>4 DEF Stays, d
<1>9. CASE Head(s) # h
  <2>1. Child(d, Head(s)) = Child(e, Head(s))
    BY <1>1, <1>6, <1>9
  <2>2. IsPath({t}, d, s)
    <3>1. IsPath({t}, Child(d, Head(s)), Tail(s))
      BY <1>1, <2>1
    <3> QED BY <1>1, <1>6, <3>1, SpineUp
  <2>3. part(d, s) = part(Child(d, Head(s)), Tail(s))
    <3>1. IsPath(Lists, d, s)
      BY <1>0, <2>2
    <3> QED BY <1>6, <3>1, StepDown
  <2> QED BY <1>7, <2>1, <2>2, <2>3 DEF Stays, d
<1> QED BY <1>8, <1>9

\* Other members stay when one is replaced.
LEMMA StaysIs ==
    ASSUME PartRecurs, PutRecurs, NEW t \in Lists, NEW e, IsExpr(e), NEW p, IsPath({t}, e, p), part(e, p).type # t,
           NEW s, IsPath({t}, e, s), NEW x, IsExpr(x)
    PROVE  Stays(t, e, p, s, x)
<1> DEFINE Good(f, q, r) ==
             IsExpr(f) /\ IsPath({t}, f, q) /\ part(f, q).type # t /\ IsPath({t}, f, r) => Stays(t, f, q, r, x)
           S == {n \in Nat : \A f, q, r : IsPath({t}, f, r) /\ Len(r) = n => Good(f, q, r)}
<1>0. \A f, q : IsPath({t}, f, q) => IsPath(Lists, f, q)
  BY PathWider
<1>1. ASSUME NEW f, NEW q PROVE Good(f, q, <<>>)
  <2> SUFFICES ASSUME IsExpr(f), IsPath({t}, f, q), part(f, q).type # t PROVE Stays(t, f, q, <<>>, x)
    OBVIOUS
  <2>1. CASE q = <<>>
    BY <2>1, EmptyPath DEF Stays
  <2>2. CASE q # <<>>
    <3>1. f.type = t /\ part(f, <<>>) = f
      BY <2>2, PathDown, NoStep
    <3> QED BY <3>1, EmptyPath DEF Stays
  <2> QED BY <2>1, <2>2
<1>2. ASSUME NEW f, NEW q, NEW r, r # <<>>, Good(Child(f, Head(r)), Tail(q), Tail(r)) PROVE Good(f, q, r)
  <2> SUFFICES ASSUME IsExpr(f), IsPath({t}, f, q), part(f, q).type # t, IsPath({t}, f, r)
               PROVE  Stays(t, f, q, r, x)
    OBVIOUS
  <2>1. ASSUME q # <<>>, Head(q) = Head(r) PROVE Stays(t, Child(f, Head(r)), Tail(q), Tail(r), x)
    <3>1. IsPath({t}, Child(f, Head(q)), Tail(q)) /\ IsPath({t}, Child(f, Head(r)), Tail(r))
      BY <1>2, <2>1, PathDown
    <3>2. IsExpr(Child(f, Head(q))) /\ part(f, q) = part(Child(f, Head(q)), Tail(q))
      BY <1>0, <2>1, StepDown
    <3> QED BY <1>2, <2>1, <3>1, <3>2
  <2> HIDE DEF Good
  <2> QED BY <1>2, <2>1, StaysStep
<1> HIDE DEF Good
<1>3. ASSUME NEW n \in Nat, \A i \in 0..(n - 1) : i \in S PROVE n \in S
  <2> SUFFICES ASSUME NEW f, NEW q, NEW r, IsPath({t}, f, r), Len(r) = n PROVE Good(f, q, r)
    OBVIOUS
  <2>1. CASE r = <<>>
    BY <1>1, <2>1
  <2>2. CASE r # <<>>
    <3>1. IsPath({t}, Child(f, Head(r)), Tail(r)) /\ r \in Seq(Sides)
      BY <2>2, PathDown DEF IsPath
    <3>2. Len(Tail(r)) \in 0..(n - 1)
      BY <2>2, <3>1, HeadTail
    <3> QED BY <1>2, <1>3, <2>2, <3>1, <3>2
  <2> QED BY <2>1, <2>2
<1>4. \A n \in Nat : n \in S
  <2>1. S \in SUBSET Nat
    OBVIOUS
  <2> HIDE DEF S
  <2> QED BY <1>3, <2>1, Induction
<1>5. Good(e, p, s)
  <2>1. Len(s) \in Nat
    BY DEF IsPath
  <2> QED BY <1>4, <2>1
<1> QED BY <1>5 DEF Good

\* One step further.
LEMMA StepOn ==
    ASSUME PartRecurs, PutRecurs, NEW T, T \subseteq Lists, NEW e, IsExpr(e), NEW p, IsPath(T, e, p), part(e, p).type \in T
    PROVE  /\ IsPath(T, e, Left(p)) /\ part(e, Left(p)) = part(e, p).left
           /\ IsPath(T, e, Right(p)) /\ part(e, Right(p)) = part(e, p).right
           /\ Len(Left(p)) = Len(p) + 1 /\ Len(Right(p)) = Len(p) + 1
<1>1. p \in Seq(Sides) /\ IsPath(Lists, e, p)
  BY PathWider DEF IsPath
<1>2. IsExpr(part(e, p))
  BY <1>1, FitsIs DEF Fits
<1>3. ASSUME NEW side \in Sides
      PROVE  /\ IsPath(T, e, p \o <<side>>) /\ part(e, p \o <<side>>) = Child(part(e, p), side)
  <2>1. <<side>> \in Seq(Sides) /\ <<side>> # <<>> /\ Head(<<side>>) = side /\ Tail(<<side>>) = <<>>
    OBVIOUS
  <2>2. IsPath(T, part(e, p), <<side>>)
    BY <2>1, EmptyPath, PathUp
  <2>3. Follows(T, e, p, <<side>>)
    BY <2>2, FollowsIs
  <2>4. part(part(e, p), <<side>>) = Child(part(e, p), side)
    <3> DEFINE s == <<side>>
    <3>1. IsPath(Lists, part(e, p), s)
      BY <2>2, PathWider
    <3>2. s # <<>> /\ Head(s) = side /\ Tail(s) = <<>>
      BY <2>1
    <3> HIDE DEF s
    <3>3. /\ part(part(e, p), s) = part(Child(part(e, p), side), <<>>)
          /\ IsExpr(Child(part(e, p), side))
      BY <1>2, <3>1, <3>2, StepDown
    <3> QED BY <3>3, NoStep DEF s
  <2> QED BY <2>3, <2>4 DEF Follows
<1>4. Left(p) = p \o <<"left">> /\ Right(p) = p \o <<"right">>
  BY <1>1 DEF Left, Right
<1>5. Len(Left(p)) = Len(p) + 1 /\ Len(Right(p)) = Len(p) + 1
  BY <1>1 DEF Left, Right
<1>6. "left" \in Sides /\ "right" \in Sides
  BY DEF Sides
<1>7. IsPath(T, e, Left(p)) /\ part(e, Left(p)) = part(e, p).left
  BY <1>3, <1>4, <1>6 DEF Child
<1>8. IsPath(T, e, Right(p)) /\ part(e, Right(p)) = part(e, p).right
  BY <1>3, <1>4, <1>6 DEF Child
<1> QED BY <1>5, <1>7, <1>8

-----------------------------------------------------------------------------
(* What expr_eliminate_dups1 and 2 do to the part of an expression at q.   *)

\* The same value, also where a symbol is a module or only where none is.
Counts(exactly, val) == IsValuation(val) /\ (exactly \/ IsTwoValued(val))
Same(exactly, a, b) == \A val : Counts(exactly, val) => expr_calc_value(a, val) = expr_calc_value(b, val)

\* The paths to the members stay such paths.
Reduces(exactly, t, f, g) ==
    /\ IsExpr(g) /\ Weight(g) <= Weight(f) /\ Same(exactly, g, f)
    /\ \A s : IsPath({t}, f, s) => IsPath({t}, g, s) /\ (part(f, s).type # t => part(g, s).type # t)

\* A constant in a list is what expr_eliminate_yn makes lighter.
HasUnit(f) == \E r : IsPath(Lists, f, r) /\ r # <<>> /\ part(f, r) \in {Symbol("y"), Symbol("n")}

Outcome(exactly, t, d, q, d2) ==
    \E g : /\ Reduces(exactly, t, part(d.expr, q), g) /\ d2.expr = with_part(d.expr, q, g)
           /\ d2 = d \/ (d2.changed /\ HasUnit(g))

Settled(exactly, t, d, q, d2) ==
    /\ IsExpr(d2.expr) /\ IsPath(Lists, d2.expr, q) /\ IsExpr(part(d2.expr, q))
    /\ Reduces(exactly, t, part(d.expr, q), part(d2.expr, q))
    /\ d2.expr = with_part(d.expr, q, part(d2.expr, q))
    /\ \A x : with_part(d2.expr, q, x) = with_part(d.expr, q, x)
    /\ d2 = d \/ (d2.changed /\ HasUnit(part(d2.expr, q)))

\* The same, of the part that is found at q in the end.
LEMMA OutcomeIs ==
    ASSUME PartRecurs, PutRecurs, NEW exactly, NEW t, NEW d, IsExpr(d.expr), NEW q, IsPath(Lists, d.expr, q),
           NEW d2, Outcome(exactly, t, d, q, d2)
    PROVE  Settled(exactly, t, d, q, d2)
<1>1. PICK g : /\ Reduces(exactly, t, part(d.expr, q), g) /\ d2.expr = with_part(d.expr, q, g)
               /\ d2 = d \/ (d2.changed /\ HasUnit(g))
  BY DEF Outcome
<1>2. IsExpr(g)
  BY <1>1 DEF Reduces
<1>3. Fits(d.expr, q)
  BY FitsIs
<1>4. /\ IsExpr(d2.expr) /\ IsPath(Lists, d2.expr, q) /\ part(d2.expr, q) = g
      /\ \A x : with_part(d2.expr, q, x) = with_part(d.expr, q, x)
  BY <1>1, <1>2, <1>3 DEF Fits
<1> QED BY <1>1, <1>2, <1>4 DEF Settled

\* Nothing has to be done.
LEMMA ReducesSelf ==
    ASSUME NEW exactly, NEW t, NEW f, IsExpr(f)
    PROVE  Reduces(exactly, t, f, f)
BY ExprIs DEF Reduces, Same

\* What is done in two steps is done.
LEMMA ReducesTwice ==
    ASSUME NEW exactly, NEW t, NEW f, IsExpr(f), NEW g, NEW h,
           Reduces(exactly, t, f, g), Reduces(exactly, t, g, h)
    PROVE  Reduces(exactly, t, f, h)
<1>1. Weight(f) \in Nat /\ Weight(g) \in Nat /\ Weight(h) \in Nat /\ Weight(h) <= Weight(g) /\ Weight(g) <= Weight(f)
  BY ExprIs DEF Reduces
<1>2. Same(exactly, h, f)
  BY DEF Reduces, Same
<1>3. \A s : IsPath({t}, f, s) => IsPath({t}, h, s) /\ (part(f, s).type # t => part(h, s).type # t)
  BY DEF Reduces
<1> QED BY <1>1, <1>2, <1>3 DEF Reduces

\* A pass that changes nothing.
LEMMA OutcomeNone ==
    ASSUME PartRecurs, PutRecurs, NEW exactly, NEW t, NEW d, IsExpr(d.expr), NEW q, IsPath(Lists, d.expr, q)
    PROVE  Outcome(exactly, t, d, q, d)
<1>1. Fits(d.expr, q)
  BY FitsIs
<1>2. IsExpr(part(d.expr, q)) /\ with_part(d.expr, q, part(d.expr, q)) = d.expr
  BY <1>1 DEF Fits
<1>3. Reduces(exactly, t, part(d.expr, q), part(d.expr, q))
  BY <1>2, ReducesSelf
<1> QED BY <1>2, <1>3 DEF Outcome

\* A pass after a pass.
LEMMA OutcomeTwice ==
    ASSUME PartRecurs, PutRecurs, NEW exactly, NEW t, NEW d, IsExpr(d.expr), NEW q, IsPath(Lists, d.expr, q),
           NEW d2, Outcome(exactly, t, d, q, d2), NEW d3, Outcome(exactly, t, d2, q, d3)
    PROVE  Outcome(exactly, t, d, q, d3)
<1>1. Settled(exactly, t, d, q, d2)
  BY OutcomeIs
<1>2. Settled(exactly, t, d2, q, d3)
  <2>1. IsExpr(d2.expr) /\ IsPath(Lists, d2.expr, q)
    BY <1>1 DEF Settled
  <2> QED BY <2>1, OutcomeIs
<1>3. IsExpr(part(d.expr, q))
  BY FitsIs DEF Fits
<1>4. Reduces(exactly, t, part(d.expr, q), part(d3.expr, q))
  BY <1>1, <1>2, <1>3, ReducesTwice DEF Settled
<1>5. d3.expr = with_part(d.expr, q, part(d3.expr, q))
  BY <1>1, <1>2 DEF Settled
<1>6. d3 = d \/ (d3.changed /\ HasUnit(part(d3.expr, q)))
  BY <1>1, <1>2 DEF Settled
<1> QED BY <1>4, <1>5, <1>6 DEF Outcome

\* A member is replaced by another.
Exchanged(t, f, r, y, g) ==
    /\ IsExpr(g) /\ IsExpr(part(f, r)) /\ part(g, r) = y
    /\ Weight(g) + Weight(part(f, r)) = Weight(f) + Weight(y)
    /\ \A s : IsPath({t}, f, s) => /\ IsPath({t}, g, s)
                                   /\ part(f, s).type # t => part(g, s).type # t
                                   /\ s # r /\ part(f, s).type # t => part(g, s) = part(f, s)

\* A member that is no list of the type is replaced by another such member.
LEMMA ReplaceKeepsPaths ==
    ASSUME PartRecurs, PutRecurs, NEW t \in Lists, NEW f, IsExpr(f), NEW r, IsPath({t}, f, r), part(f, r).type # t,
           NEW y, IsExpr(y), y.type # t
    PROVE  Exchanged(t, f, r, y, with_part(f, r, y))
<1>1. IsPath(Lists, f, r)
  BY PathWider
<1>2. Fits(f, r)
  BY <1>1, FitsIs
<1>3. /\ IsExpr(with_part(f, r, y)) /\ IsExpr(part(f, r)) /\ part(with_part(f, r, y), r) = y
      /\ Weight(with_part(f, r, y)) + Weight(part(f, r)) = Weight(f) + Weight(y)
  BY <1>2 DEF Fits
<1>4. \A s : IsPath({t}, f, s) => Stays(t, f, r, s, y)
  BY StaysIs
<1> QED BY <1>3, <1>4 DEF Stays, Exchanged

\* A constant in a part is a constant in the whole.
LEMMA LiftsUnit ==
    ASSUME PartRecurs, PutRecurs, NEW f, IsExpr(f), NEW r, IsPath(Lists, f, r), NEW y, IsExpr(y), HasUnit(y)
    PROVE  HasUnit(with_part(f, r, y))
<1> DEFINE g == with_part(f, r, y)
<1>1. PICK s : IsPath(Lists, y, s) /\ s # <<>> /\ part(y, s) \in {Symbol("y"), Symbol("n")}
  BY DEF HasUnit
<1>2. IsExpr(g) /\ IsPath(Lists, g, r) /\ part(g, r) = y
  BY FitsIs DEF Fits
<1> HIDE DEF g
<1>3. Follows(Lists, g, r, s)
  BY <1>1, <1>2, FollowsIs
<1>4. r \o s # <<>>
  <2>1. r \in Seq(Sides) /\ s \in Seq(Sides)
    BY <1>1 DEF IsPath
  <2>2. Len(r \o s) = Len(r) + Len(s) /\ Len(s) # 0 /\ Len(r) \in Nat /\ Len(s) \in Nat
    BY <1>1, <2>1
  <2> QED BY <2>2
<1>5. IsPath(Lists, g, r \o s) /\ part(g, r \o s) \in {Symbol("y"), Symbol("n")}
  BY <1>1, <1>2, <1>3 DEF Follows
<1> QED BY <1>4, <1>5 DEF HasUnit, g

\* The value of the whole, when the member at r is replaced.
LEMMA OutcomeReplaced ==
    ASSUME PartRecurs, PutRecurs, NEW exactly, NEW t \in Lists, NEW d, IsExpr(d.expr), NEW q, IsPath(Lists, d.expr, q),
           NEW r, IsPath({t}, part(d.expr, q), r), part(part(d.expr, q), r).type # t,
           NEW y, IsExpr(y), y.type # t, Weight(y) <= Weight(part(part(d.expr, q), r)),
           Same(exactly, with_part(part(d.expr, q), r, y), part(d.expr, q)),
           NEW d2, d2.expr = with_part(d.expr, q \o r, y),
           d2 = d \/ (d2.changed /\ HasUnit(with_part(part(d.expr, q), r, y)))
    PROVE  Outcome(exactly, t, d, q, d2)
<1> DEFINE f == part(d.expr, q)
           g == with_part(f, r, y)
<1>1. IsExpr(f)
  BY FitsIs DEF Fits
<1>2. IsPath(Lists, f, r) /\ IsExpr(part(f, r))
  BY <1>1, PathWider, FitsIs DEF Fits
<1>3. d2.expr = with_part(d.expr, q, g)
  <2>1. Follows(Lists, d.expr, q, r)
    BY <1>2, FollowsIs
  <2> DEFINE w == q \o r
  <2>2. /\ \A x : with_part(d.expr, w, x) = with_part(d.expr, q, with_part(part(d.expr, q), r, x))
        /\ d2.expr = with_part(d.expr, w, y)
    BY <2>1 DEF Follows
  <2> HIDE DEF w
  <2> QED BY <2>2
<1>4. Exchanged(t, f, r, y, g)
  BY <1>1, ReplaceKeepsPaths
<1> HIDE DEF f, g
<1>5. IsExpr(g) /\ Weight(g) <= Weight(f)
  <2>1. Weight(g) \in Nat /\ Weight(f) \in Nat /\ Weight(y) \in Nat /\ Weight(part(f, r)) \in Nat
    BY <1>1, <1>2, <1>4, ExprIs DEF Exchanged
  <2>2. Weight(y) <= Weight(part(f, r))
    BY DEF f
  <2> QED BY <1>4, <2>1, <2>2 DEF Exchanged
<1>6. Reduces(exactly, t, f, g)
  <2>1. Same(exactly, g, f)
    BY DEF f, g
  <2>2. \A s : IsPath({t}, f, s) => IsPath({t}, g, s) /\ (part(f, s).type # t => part(g, s).type # t)
    BY <1>4 DEF Exchanged
  <2> QED BY <1>5, <2>1, <2>2 DEF Reduces
<1>7. d2 = d \/ (d2.changed /\ HasUnit(g))
  BY DEF f, g
<1> QED BY <1>3, <1>6, <1>7 DEF Outcome, f

\* What two replacements make of the value of a list.
LEMMA JoinedValue ==
    ASSUME CalcRecurs, PartRecurs, PutRecurs, NEW t \in Lists, NEW f, IsExpr(f),
           NEW r1, IsPath({t}, f, r1), NEW r2,
           NEW f1, f1 = with_part(f, r1, Unit(t)), IsExpr(f1), IsPath({t}, f1, r2),
           NEW b, part(f1, r2) = b, IsExpr(b), NEW x, JoinsTo(t, part(f, r1), b, x),
           NEW val, IsValuation(val)
    PROVE  expr_calc_value(with_part(f1, r2, x), val) = expr_calc_value(f, val)
<1> DEFINE a == part(f, r1)
           u == Unit(t)
           V(y) == expr_calc_value(y, val)
<1>1. /\ IsExpr(a) /\ with_part(f, r1, a) = f /\ with_part(f1, r2, b) = f1
  <2>1. IsPath(Lists, f, r1) /\ IsPath(Lists, f1, r2)
    BY PathWider
  <2>2. Fits(f, r1) /\ Fits(f1, r2)
    BY <2>1, FitsIs
  <2> QED BY <2>2 DEF Fits
<1>2. IsExpr(x) /\ V(x) = Joined(t, V(a), V(b))
  BY DEF JoinsTo
<1>3. IsExpr(u) /\ V(u) = UnitValue(t)
  BY UnitIs, CalcUnit
<1>4. SpineValue(t, f, r1, val) /\ SpineValue(t, f1, r2, val)
  BY SpineIs
<1>5. PICK c \in Tristate : \A y : IsExpr(y) => V(with_part(f, r1, y)) = Joined(t, c, V(y))
  BY <1>4 DEF SpineValue
<1>6. PICK k \in Tristate : \A y : IsExpr(y) => V(with_part(f1, r2, y)) = Joined(t, k, V(y))
  BY <1>4 DEF SpineValue
<1>7. V(a) \in Tristate /\ V(b) \in Tristate
  BY <1>1, CalcTristate
<1>8. V(f) = Joined(t, c, V(a))
  BY <1>1, <1>5
<1>9. V(f1) = Joined(t, c, UnitValue(t))
  BY <1>3, <1>5
<1>10. V(f1) = Joined(t, k, V(b))
  BY <1>1, <1>6
<1>11. V(with_part(f1, r2, x)) = Joined(t, k, Joined(t, V(a), V(b)))
  BY <1>2, <1>6
<1> HIDE DEF V, a, u
<1>12. c = Joined(t, k, V(b))
  BY <1>9, <1>10, JoinedIs
<1>13. Joined(t, k, Joined(t, V(a), V(b))) = Joined(t, Joined(t, k, V(b)), V(a))
  <2>1. Joined(t, V(a), V(b)) = Joined(t, V(b), V(a))
    BY <1>7, JoinedIs
  <2> QED BY <1>7, <2>1, JoinedIs
<1>14. V(with_part(f1, r2, x)) = V(f)
  BY <1>8, <1>11, <1>12, <1>13
<1> QED BY <1>14 DEF V

\* The member at r1 is taken out, the one at r2 becomes what both say.
LEMMA JoinReduces ==
    ASSUME CalcRecurs, PartRecurs, PutRecurs, NEW t \in Lists, NEW f, IsExpr(f),
           NEW r1, IsPath({t}, f, r1), part(f, r1).type # t,
           NEW r2, IsPath({t}, f, r2), part(f, r2).type # t, r1 # r2,
           NEW x, JoinsTo(t, part(f, r1), part(f, r2), x)
    PROVE  LET f1 == with_part(f, r1, Unit(t))
               g == with_part(f1, r2, x)
           IN IsExpr(f1) /\ IsPath(Lists, f1, r2) /\ Reduces(TRUE, t, f, g) /\ HasUnit(g)
<1> DEFINE u == Unit(t)
           f1 == with_part(f, r1, u)
           g == with_part(f1, r2, x)
           a == part(f, r1)
           b == part(f, r2)
<1>1. IsExpr(u) /\ u.type # t /\ Weight(u) = 1 /\ u \in {Symbol("y"), Symbol("n")}
  BY UnitIs, TypesDiffer
<1>2. Exchanged(t, f, r1, u, f1)
  BY <1>1, ReplaceKeepsPaths
<1>3. IsExpr(f1) /\ IsPath({t}, f1, r2) /\ part(f1, r2) = b /\ b.type # t
  BY <1>2 DEF Exchanged
<1>4. IsExpr(x) /\ x.type # t /\ Weight(x) + 1 <= Weight(a) + Weight(b)
  BY DEF JoinsTo
<1>5. Exchanged(t, f1, r2, x, g)
  BY <1>3, <1>4, ReplaceKeepsPaths
<1>6. IsExpr(g) /\ IsExpr(a) /\ IsExpr(b)
  BY <1>2, <1>3, <1>5 DEF Exchanged
<1>7. Weight(g) <= Weight(f)
  <2>1. /\ Weight(g) \in Nat /\ Weight(f) \in Nat /\ Weight(f1) \in Nat /\ Weight(x) \in Nat
        /\ Weight(a) \in Nat /\ Weight(b) \in Nat
    BY <1>3, <1>4, <1>6, ExprIs
  <2>2. Weight(f1) + Weight(a) = Weight(f) + 1
    BY <1>1, <1>2 DEF Exchanged
  <2>3. Weight(g) + Weight(b) = Weight(f1) + Weight(x)
    BY <1>3, <1>5 DEF Exchanged
  <2> HIDE DEF g, f1, a, b
  <2> QED BY <1>4, <2>1, <2>2, <2>3
<1>8. Same(TRUE, g, f)
  BY <1>3, <1>6, JoinedValue DEF Same, Counts
<1>9. \A s : IsPath({t}, f, s) => IsPath({t}, g, s) /\ (part(f, s).type # t => part(g, s).type # t)
  BY <1>2, <1>5 DEF Exchanged
<1>10. IsPath(Lists, f1, r2)
  BY <1>3, PathWider
<1>11. r1 # <<>>
  <2>1. CASE r1 = <<>>
    <3>1. f.type # t
      BY <2>1, NoStep
    <3>2. f.type = t
      BY <2>1, SpineDown
    <3> QED BY <3>1, <3>2
  <2> QED BY <2>1
<1>12. HasUnit(g)
  <2>1. IsPath({t}, f1, r1) /\ part(f1, r1) = u
    BY <1>2 DEF Exchanged
  <2>2. IsPath({t}, g, r1) /\ part(g, r1) = u
    BY <1>1, <1>5, <2>1 DEF Exchanged
  <2>3. IsPath(Lists, g, r1)
    BY <2>2, PathWider
  <2> QED BY <1>1, <1>11, <2>2, <2>3 DEF HasUnit
<1> HIDE DEF f1, g, u
<1>13. Reduces(TRUE, t, f, g)
  BY <1>6, <1>7, <1>8, <1>9 DEF Reduces
<1> QED BY <1>3, <1>10, <1>12, <1>13 DEF f1, g, u

\* Joining two members, at any place of an expression.
LEMMA JoinAtIs ==
    ASSUME CalcRecurs, YnRecurs, EqRecurs, CommonRecurs, ConstantsApart, PartRecurs, PutRecurs, NEW t \in Lists,
           NEW d, IsExpr(d.expr), NEW q, IsPath(Lists, d.expr, q),
           NEW r1, IsPath({t}, part(d.expr, q), r1), part(part(d.expr, q), r1).type # t,
           NEW r2, IsPath({t}, part(d.expr, q), r2), part(part(d.expr, q), r2).type # t, r1 # r2
    PROVE  Outcome(TRUE, t, d, q, JoinAt(t, d, q \o r1, q \o r2))
<1> DEFINE f == part(d.expr, q)
           a == part(f, r1)
           b == part(f, r2)
           u == Unit(t)
           x == Join(t, a, b)
           w1 == q \o r1
           w2 == q \o r2
           f1 == with_part(f, r1, u)
           g == with_part(f1, r2, x)
           d2 == JoinAt(t, d, w1, w2)
<1>1. IsExpr(f)
  BY FitsIs DEF Fits
<1>2. IsPath(Lists, f, r1) /\ IsPath(Lists, f, r2)
  BY PathWider
<1>3. IsExpr(a) /\ IsExpr(b)
  BY <1>1, <1>2, FitsIs DEF Fits
<1>4. Follows(Lists, d.expr, q, r1) /\ Follows(Lists, d.expr, q, r2)
  BY <1>2, FollowsIs
<1>5. part(d.expr, w1) = a /\ part(d.expr, w2) = b
  BY <1>4 DEF Follows
<1>6. CASE x = Null
  <2>1. d2 = d
    BY <1>5, <1>6 DEF JoinAt, JoinedTo
  <2>2. Outcome(TRUE, t, d, q, d)
    BY OutcomeNone
  <2> QED BY <2>1, <2>2
<1>7. CASE x # Null
  <2> DEFINE e1 == with_part(d.expr, w1, u)
  <2>1. d2 = Replaced(Replaced(d, w1, u), w2, x)
    BY <1>5, <1>7 DEF JoinAt, JoinedTo
  <2>2. d2.expr = with_part(e1, w2, x) /\ d2.changed
    BY <2>1 DEF Replaced
  <2>3. JoinsTo(t, a, b, x)
    BY <1>3, <1>7, JoinIs
  <2>4. IsExpr(f1) /\ IsPath(Lists, f1, r2) /\ Reduces(TRUE, t, f, g) /\ HasUnit(g)
    BY <1>1, <2>3, JoinReduces
  <2>5. e1 = with_part(d.expr, q, f1)
    BY <1>4 DEF Follows
  <2>6. /\ IsExpr(e1) /\ IsPath(Lists, e1, q) /\ part(e1, q) = f1
        /\ \A y : with_part(e1, q, y) = with_part(d.expr, q, y)
    <3>1. Fits(d.expr, q)
      BY FitsIs
    <3> QED BY <2>4, <2>5, <3>1 DEF Fits
  <2>7. Follows(Lists, e1, q, r2)
    BY <2>4, <2>6, FollowsIs
  <2>8. with_part(e1, w2, x) = with_part(e1, q, with_part(part(e1, q), r2, x))
    BY <2>7 DEF Follows
  <2> HIDE DEF e1, w2, x, d2, f1
  <2>9. d2.expr = with_part(d.expr, q, g)
    BY <2>2, <2>6, <2>8
  <2> HIDE DEF g, f
  <2>10. Outcome(TRUE, t, d, q, d2)
    BY <2>2, <2>4, <2>9 DEF Outcome, f
  <2> QED BY <2>10 DEF d2, w2
<1> QED BY <1>6, <1>7

\* What becomes of a member is what becomes of the list.
LEMMA MemberReduces ==
    ASSUME CalcRecurs, PartRecurs, PutRecurs, NEW exactly, NEW t \in Lists, NEW f, IsExpr(f),
           NEW r, IsPath({t}, f, r), NEW a, a = part(f, r), a.type # t, a.type \in Lists,
           NEW y, Reduces(exactly, a.type, a, y)
    PROVE  Reduces(exactly, t, f, with_part(f, r, y)) /\ y.type = a.type
<1> DEFINE g == with_part(f, r, y)
<1>1. IsPath(Lists, f, r) /\ Fits(f, r) /\ IsExpr(a) /\ with_part(f, r, a) = f
  <2>1. IsPath(Lists, f, r)
    BY PathWider
  <2>2. Fits(f, r)
    BY <2>1, FitsIs
  <2> QED BY <2>1, <2>2 DEF Fits
<1>2. IsExpr(y) /\ Weight(y) <= Weight(a) /\ Same(exactly, y, a)
  BY DEF Reduces
<1>3. y.type = a.type
  <2> DEFINE p == <<"left">>
  <2>1. p \in Seq(Sides) /\ p # <<>> /\ Head(p) \in Sides /\ Tail(p) = <<>>
    BY DEF Sides
  <2> HIDE DEF p
  <2>2. IsPath({a.type}, Child(a, Head(p)), Tail(p))
    BY <2>1, EmptyPath
  <2>3. IsPath({a.type}, a, p)
    BY <2>1, <2>2, SpineUp
  <2>4. IsPath({a.type}, y, p)
    BY <2>3 DEF Reduces
  <2> QED BY <2>1, <2>4, SpineDown
<1>4. Exchanged(t, f, r, y, g)
  BY <1>2, <1>3, ReplaceKeepsPaths
<1>5. IsExpr(g) /\ Weight(g) <= Weight(f)
  <2>1. IsExpr(g) /\ Weight(g) + Weight(a) = Weight(f) + Weight(y)
    BY <1>4 DEF Exchanged
  <2>2. Weight(g) \in Nat /\ Weight(f) \in Nat /\ Weight(y) \in Nat /\ Weight(a) \in Nat
    BY <1>1, <1>2, <2>1, ExprIs
  <2> HIDE DEF g
  <2> QED BY <1>2, <2>1, <2>2
<1>6. Same(exactly, g, f)
  <2> SUFFICES ASSUME NEW val, Counts(exactly, val) PROVE expr_calc_value(g, val) = expr_calc_value(f, val)
    BY DEF Same
  <2>1. IsValuation(val)
    BY DEF Counts
  <2>2. PICK c \in Tristate : \A z : IsExpr(z) =>
          expr_calc_value(with_part(f, r, z), val) = Joined(t, c, expr_calc_value(z, val))
    <3>1. SpineValue(t, f, r, val)
      BY <2>1, SpineIs
    <3> QED BY <3>1 DEF SpineValue
  <2>3. expr_calc_value(y, val) = expr_calc_value(a, val)
    BY <1>2 DEF Same
  <2>4. expr_calc_value(g, val) = Joined(t, c, expr_calc_value(y, val))
    BY <1>2, <2>2
  <2>5. expr_calc_value(with_part(f, r, a), val) = Joined(t, c, expr_calc_value(a, val))
    BY <1>1, <2>2
  <2> QED BY <1>1, <2>3, <2>4, <2>5
<1>7. \A s : IsPath({t}, f, s) => IsPath({t}, g, s) /\ (part(f, s).type # t => part(g, s).type # t)
  BY <1>4 DEF Exchanged
<1> HIDE DEF g
<1>8. Reduces(exactly, t, f, g)
  BY <1>5, <1>6, <1>7 DEF Reduces
<1> QED BY <1>3, <1>8 DEF g

MemberDone(exactly, t, d, q, w, type, d2) == Outcome(exactly, t, d, q, d2) /\ part(d2.expr, w).type = type

\* A pass over a member is a pass over the list.
LEMMA MemberOutcome ==
    ASSUME CalcRecurs, PartRecurs, PutRecurs, NEW exactly, NEW t \in Lists,
           NEW d, IsExpr(d.expr), NEW q, IsPath(Lists, d.expr, q),
           NEW r, IsPath({t}, part(d.expr, q), r),
           NEW a, a = part(part(d.expr, q), r), a.type # t, a.type \in Lists,
           NEW d2, Outcome(exactly, a.type, d, q \o r, d2)
    PROVE  MemberDone(exactly, t, d, q, q \o r, a.type, d2)
<1> DEFINE f == part(d.expr, q)
           w == q \o r
<1>1. IsExpr(f)
  BY FitsIs DEF Fits
<1>2. IsPath(Lists, f, r)
  BY PathWider
<1>3. Follows(Lists, d.expr, q, r)
  BY <1>2, FollowsIs
<1>4. /\ IsPath(Lists, d.expr, w) /\ part(d.expr, w) = a
      /\ \A x : with_part(d.expr, w, x) = with_part(d.expr, q, with_part(f, r, x))
  BY <1>3 DEF Follows
<1>5. Outcome(exactly, a.type, d, w, d2)
  OBVIOUS
<1> HIDE DEF w
<1>6. PICK y : /\ Reduces(exactly, a.type, a, y) /\ d2.expr = with_part(d.expr, w, y)
               /\ d2 = d \/ (d2.changed /\ HasUnit(y))
  BY <1>4, <1>5 DEF Outcome
<1> DEFINE g == with_part(f, r, y)
<1>7. IsExpr(y)
  BY <1>6 DEF Reduces
<1>8. Reduces(exactly, t, f, g) /\ y.type = a.type
  BY <1>1, <1>6, MemberReduces
<1>9. HasUnit(y) => HasUnit(g)
  BY <1>1, <1>2, <1>7, LiftsUnit
<1>10. d2.expr = with_part(d.expr, q, g)
  BY <1>4, <1>6
<1>11. part(d2.expr, w) = y
  <2>1. Fits(d.expr, w)
    BY <1>4, FitsIs
  <2> QED BY <1>6, <1>7, <2>1 DEF Fits
<1> HIDE DEF g
<1>12. Outcome(exactly, t, d, q, d2)
  BY <1>6, <1>8, <1>9, <1>10 DEF Outcome
<1>13. part(d2.expr, w).type = a.type
  BY <1>8, <1>11
<1> QED BY <1>12, <1>13 DEF w, MemberDone

\* Where expr_eliminate_dups1 and 2 are called: for two members, or lists of
\* members, of the list at q.
Fork(t, d, q, r1, r2) ==
    /\ IsExpr(d.expr) /\ IsPath(Lists, d.expr, q)
    /\ IsPath({t}, part(d.expr, q), r1) /\ IsPath({t}, part(d.expr, q), r2)

\* The two members in the other order.
LEMMA ForkSwaps ==
    ASSUME NEW t, NEW d, NEW q, NEW r1, NEW r2, Fork(t, d, q, r1, r2)
    PROVE  Fork(t, d, q, r2, r1)
BY DEF Fork

\* The members are expressions, and lighter than the list.
LEMMA ForkParts ==
    ASSUME PartRecurs, PutRecurs, NEW t \in Lists, NEW d, NEW q, NEW r1, NEW r2, Fork(t, d, q, r1, r2)
    PROVE  /\ part(d.expr, q \o r1) = part(part(d.expr, q), r1) /\ IsPath(Lists, d.expr, q \o r1)
           /\ IsExpr(part(d.expr, q)) /\ Weight(part(d.expr, q)) \in Nat
           /\ IsExpr(part(d.expr, q \o r1)) /\ Len(r1) \in 0..Weight(part(d.expr, q))
           /\ r1 # <<>> => Weight(part(d.expr, q \o r1)) < Weight(part(d.expr, q))
           /\ q \in Seq(Sides) /\ r1 \in Seq(Sides)
<1> DEFINE f == part(d.expr, q)
           w == q \o r1
<1>1. IsExpr(f) /\ Weight(f) \in Nat
  <2>1. IsExpr(f)
    BY FitsIs DEF Fork, Fits
  <2> QED BY <2>1, ExprIs
<1>2. IsPath(Lists, f, r1)
  BY PathWider DEF Fork
<1>3. Follows(Lists, d.expr, q, r1)
  BY <1>2, FollowsIs DEF Fork
<1>4. part(d.expr, w) = part(f, r1) /\ IsPath(Lists, d.expr, w)
  BY <1>3 DEF Follows
<1>5. Fits(f, r1)
  BY <1>1, <1>2, FitsIs
<1>6. q \in Seq(Sides) /\ r1 \in Seq(Sides)
  BY <1>2 DEF Fork, IsPath
<1> HIDE DEF w, f
<1>7. IsExpr(part(f, r1)) /\ Weight(part(f, r1)) + Len(r1) <= Weight(f) /\ Weight(part(f, r1)) \in Nat
  BY <1>5, ExprIs DEF Fits
<1>8. Len(r1) \in Nat /\ (r1 # <<>> => Len(r1) # 0)
  BY <1>6
<1>9. Len(r1) \in 0..Weight(f) /\ (r1 # <<>> => Weight(part(f, r1)) < Weight(f))
  BY <1>1, <1>7, <1>8
<1> QED BY <1>1, <1>4, <1>6, <1>7, <1>9 DEF f, w

\* The two calls for the two parts of the list at r1.
Descends(t, d, q, r1, r2) ==
    /\ Fork(t, d, q, Left(r1), r2) /\ Fork(t, d, q, Right(r1), r2)
    /\ Left(q \o r1) = q \o Left(r1) /\ Right(q \o r1) = q \o Right(r1)
    /\ Len(Left(r1)) = Len(r1) + 1 /\ Len(Right(r1)) = Len(r1) + 1

\* The two parts of a list of members.
LEMMA ForkDown ==
    ASSUME PartRecurs, PutRecurs, NEW t \in Lists, NEW d, NEW q, NEW r1, NEW r2, Fork(t, d, q, r1, r2),
           part(d.expr, q \o r1).type = t
    PROVE  Descends(t, d, q, r1, r2)
<1> DEFINE T == {t}
           f == part(d.expr, q)
<1>1. T \subseteq Lists /\ IsPath(T, f, r1)
  BY DEF Fork
<1>2. IsExpr(f) /\ part(f, r1).type \in T /\ q \in Seq(Sides) /\ r1 \in Seq(Sides)
  BY ForkParts
<1> HIDE DEF T, f
<1>3. /\ IsPath(T, f, Left(r1)) /\ IsPath(T, f, Right(r1))
      /\ Len(Left(r1)) = Len(r1) + 1 /\ Len(Right(r1)) = Len(r1) + 1
  BY <1>1, <1>2, StepOn
<1>4. Fork(t, d, q, Left(r1), r2) /\ Fork(t, d, q, Right(r1), r2)
  BY <1>3 DEF Fork, T, f
<1>5. \A side : Append(q \o r1, side) = q \o Append(r1, side)
  <2> SUFFICES ASSUME NEW side PROVE Append(q \o r1, side) = q \o Append(r1, side)
    OBVIOUS
  <2>1. q \in Seq(Sides \cup {side}) /\ r1 \in Seq(Sides \cup {side}) /\ side \in Sides \cup {side}
    BY <1>2
  <2> QED BY <2>1
<1>6. Left(q \o r1) = q \o Left(r1) /\ Right(q \o r1) = q \o Right(r1)
  BY <1>5 DEF Left, Right
<1> QED BY <1>3, <1>4, <1>6 DEF Descends

Kept(t, d, d2, q, r1, r2) ==
    /\ Fork(t, d2, q, r1, r2) /\ Weight(part(d2.expr, q)) <= Weight(part(d.expr, q))
    /\ part(d.expr, q \o r1).type # t => part(d2.expr, q \o r1).type # t
    /\ part(d.expr, q \o r2).type # t => part(d2.expr, q \o r2).type # t

\* Both members are still there after a pass.
LEMMA ForkKept ==
    ASSUME PartRecurs, PutRecurs, NEW exactly, NEW t \in Lists, NEW d, NEW q, NEW r1, NEW r2, Fork(t, d, q, r1, r2),
           NEW d2, Outcome(exactly, t, d, q, d2)
    PROVE  Kept(t, d, d2, q, r1, r2)
<1>1. IsExpr(d.expr) /\ IsPath(Lists, d.expr, q)
  BY DEF Fork
<1>2. Settled(exactly, t, d, q, d2)
  BY <1>1, OutcomeIs
<1>3. IsExpr(d2.expr) /\ IsPath(Lists, d2.expr, q) /\ Reduces(exactly, t, part(d.expr, q), part(d2.expr, q))
  BY <1>2 DEF Settled
<1>4. Fork(t, d2, q, r1, r2)
  BY <1>3 DEF Fork, Reduces
<1>5. \A d1 \in {d, d2} : /\ part(d1.expr, q \o r1) = part(part(d1.expr, q), r1)
                          /\ part(d1.expr, q \o r2) = part(part(d1.expr, q), r2)
  BY <1>4, ForkParts, ForkSwaps
<1> HIDE DEF Fork
<1>6. \A s \in {r1, r2} : part(part(d.expr, q), s).type # t => part(part(d2.expr, q), s).type # t
  BY <1>3 DEF Reduces, Fork
<1>7. Weight(part(d2.expr, q)) <= Weight(part(d.expr, q))
  BY <1>3 DEF Reduces
<1> QED BY <1>4, <1>5, <1>6, <1>7 DEF Kept

\* Two calls for the two parts of a list at r1.
AfterDups1(t, d, q, r1, r2) == expr_eliminate_dups1(t, d, q \o r1, q \o r2)
Dups1Recurs ==
    \A t \in Lists : \A d, q, r1, r2 :
      Fork(t, d, q, r1, r2) => AfterDups1(t, d, q, r1, r2) = Dups1(t, d, q \o r1, q \o r2)

\* What the calls for lighter lists and for longer paths do.
Lighter1(n) ==
    \A t \in Lists : \A d, q, r1, r2 :
      Fork(t, d, q, r1, r2) /\ Weight(part(d.expr, q)) < n => Outcome(TRUE, t, d, q, AfterDups1(t, d, q, r1, r2))
Longer1(n, t, q, m) ==
    \A d, r1, r2 :
      Fork(t, d, q, r1, r2) /\ Weight(part(d.expr, q)) <= n /\ Len(r1) + Len(r2) > m =>
        Outcome(TRUE, t, d, q, AfterDups1(t, d, q, r1, r2))

\* The first calls for the two parts of the first list.
LEMMA Dups1OfFirst ==
    ASSUME PartRecurs, PutRecurs, Dups1Recurs, NEW n \in Nat, NEW t \in Lists, NEW d, NEW q, NEW r1, NEW r2,
           Fork(t, d, q, r1, r2), Weight(part(d.expr, q)) <= n, Longer1(n, t, q, Len(r1) + Len(r2)),
           part(d.expr, q \o r1).type = t
    PROVE  Outcome(TRUE, t, d, q, AfterDups1(t, d, q, r1, r2))
<1> DEFINE d1 == AfterDups1(t, d, q, Left(r1), r2)
           d2 == AfterDups1(t, d1, q, Right(r1), r2)
<1>1. /\ Fork(t, d, q, Left(r1), r2) /\ Fork(t, d, q, Right(r1), r2)
      /\ Left(q \o r1) = q \o Left(r1) /\ Right(q \o r1) = q \o Right(r1)
      /\ Len(Left(r1)) = Len(r1) + 1 /\ Len(Right(r1)) = Len(r1) + 1
  <2>1. Descends(t, d, q, r1, r2)
    BY ForkDown
  <2> QED BY <2>1 DEF Descends
<1>2. AfterDups1(t, d, q, r1, r2) = d2
  <2>1. AfterDups1(t, d, q, r1, r2) = Dups1(t, d, q \o r1, q \o r2)
    BY DEF Dups1Recurs
  <2>2. Dups1(t, d, q \o r1, q \o r2) =
          expr_eliminate_dups1(t, expr_eliminate_dups1(t, d, Left(q \o r1), q \o r2), Right(q \o r1), q \o r2)
    BY DEF Dups1
  <2> QED BY <1>1, <2>1, <2>2 DEF AfterDups1
<1>3. Len(r1) \in Nat /\ Len(r2) \in Nat /\ Weight(part(d.expr, q)) \in Nat
  BY ForkParts, ForkSwaps
<1>4. Len(Left(r1)) + Len(r2) > Len(r1) + Len(r2) /\ Len(Right(r1)) + Len(r2) > Len(r1) + Len(r2)
  BY <1>1, <1>3
<1>5. Outcome(TRUE, t, d, q, d1)
  BY <1>1, <1>4 DEF Longer1
<1> HIDE DEF d1
<1>6. Fork(t, d1, q, Right(r1), r2) /\ Weight(part(d1.expr, q)) <= Weight(part(d.expr, q))
  BY <1>1, <1>5, ForkKept DEF Kept
<1>7. Weight(part(d1.expr, q)) <= n
  <2>1. Weight(part(d1.expr, q)) \in Nat
    BY <1>6, ForkParts
  <2> QED BY <1>3, <1>6, <2>1
<1>8. Outcome(TRUE, t, d1, q, d2)
  BY <1>4, <1>6, <1>7 DEF Longer1
<1> HIDE DEF d2
<1>9. Outcome(TRUE, t, d, q, d2)
  BY <1>5, <1>8, OutcomeTwice DEF Fork
<1> QED BY <1>2, <1>9

\* The calls for the two parts of the second list.
LEMMA Dups1OfSecond ==
    ASSUME PartRecurs, PutRecurs, Dups1Recurs, NEW n \in Nat, NEW t \in Lists, NEW d, NEW q, NEW r1, NEW r2,
           Fork(t, d, q, r1, r2), Weight(part(d.expr, q)) <= n, Longer1(n, t, q, Len(r1) + Len(r2)),
           part(d.expr, q \o r1).type # t, part(d.expr, q \o r2).type = t
    PROVE  Outcome(TRUE, t, d, q, AfterDups1(t, d, q, r1, r2))
<1> DEFINE d1 == AfterDups1(t, d, q, r1, Left(r2))
           d2 == AfterDups1(t, d1, q, r1, Right(r2))
<1>1. /\ Fork(t, d, q, r1, Left(r2)) /\ Fork(t, d, q, r1, Right(r2))
      /\ Left(q \o r2) = q \o Left(r2) /\ Right(q \o r2) = q \o Right(r2)
      /\ Len(Left(r2)) = Len(r2) + 1 /\ Len(Right(r2)) = Len(r2) + 1
  <2>1. Fork(t, d, q, r2, r1)
    BY ForkSwaps
  <2>2. Descends(t, d, q, r2, r1)
    BY <2>1, ForkDown
  <2> QED BY <2>2, ForkSwaps DEF Descends
<1>2. AfterDups1(t, d, q, r1, r2) = d2
  <2>1. AfterDups1(t, d, q, r1, r2) = Dups1(t, d, q \o r1, q \o r2)
    BY DEF Dups1Recurs
  <2>2. q \o r1 # q \o r2
    OBVIOUS
  <2>3. Dups1(t, d, q \o r1, q \o r2) =
          expr_eliminate_dups1(t, expr_eliminate_dups1(t, d, q \o r1, Left(q \o r2)), q \o r1, Right(q \o r2))
    BY <2>2 DEF Dups1
  <2> QED BY <1>1, <2>1, <2>3 DEF AfterDups1
<1>3. Len(r1) \in Nat /\ Len(r2) \in Nat /\ Weight(part(d.expr, q)) \in Nat
  BY ForkParts, ForkSwaps
<1>4. Len(r1) + Len(Left(r2)) > Len(r1) + Len(r2) /\ Len(r1) + Len(Right(r2)) > Len(r1) + Len(r2)
  BY <1>1, <1>3
<1>5. Outcome(TRUE, t, d, q, d1)
  BY <1>1, <1>4 DEF Longer1
<1> HIDE DEF d1
<1>6. Fork(t, d1, q, r1, Right(r2)) /\ Weight(part(d1.expr, q)) <= Weight(part(d.expr, q))
  BY <1>1, <1>5, ForkKept DEF Kept
<1>7. Weight(part(d1.expr, q)) <= n
  <2>1. Weight(part(d1.expr, q)) \in Nat
    BY <1>6, ForkParts
  <2> QED BY <1>3, <1>6, <2>1
<1>8. Outcome(TRUE, t, d1, q, d2)
  BY <1>4, <1>6, <1>7 DEF Longer1
<1> HIDE DEF d2
<1>9. Outcome(TRUE, t, d, q, d2)
  BY <1>5, <1>8, OutcomeTwice DEF Fork
<1> QED BY <1>2, <1>9

\* A member is not the whole list when there are two.
LEMMA ForkInside ==
    ASSUME PartRecurs, PutRecurs, NEW t \in Lists, NEW d, NEW q, NEW r1, NEW r2, Fork(t, d, q, r1, r2), r1 # r2,
           part(d.expr, q \o r1).type # t
    PROVE  r1 # <<>>
<1> SUFFICES ASSUME r1 = <<>> PROVE FALSE
  OBVIOUS
<1>1. part(d.expr, q).type # t
  BY ForkParts, NoStep
<1>2. part(d.expr, q).type = t
  BY SpineDown DEF Fork
<1> QED BY <1>1, <1>2

\* A member that is a list is simplified first.
LEMMA Dups1OfMember ==
    ASSUME PartRecurs, PutRecurs, CalcRecurs, NEW n \in Nat, NEW t \in Lists, NEW d, NEW q, NEW r1, NEW r2,
           Fork(t, d, q, r1, r2), r1 # r2, Weight(part(d.expr, q)) <= n, Lighter1(n),
           NEW a, a = part(d.expr, q \o r1), a.type # t, a.type \in Lists
    PROVE  Outcome(TRUE, t, d, q, expr_eliminate_dups1(a.type, d, q \o r1, q \o r1))
<1> DEFINE w == q \o r1
           d1 == AfterDups1(a.type, d, w, <<>>, <<>>)
<1>1. /\ IsPath(Lists, d.expr, w) /\ IsExpr(a) /\ Weight(a) < n /\ w \in Seq(Sides)
      /\ a = part(part(d.expr, q), r1)
  <2>1. r1 # <<>>
    BY ForkInside
  <2>2. Weight(a) < Weight(part(d.expr, q)) /\ Weight(part(d.expr, q)) \in Nat /\ IsExpr(a)
    BY <2>1, ForkParts
  <2>3. Weight(a) \in Nat
    BY <2>2, ExprIs
  <2>4. Weight(a) < n
    BY <2>2, <2>3
  <2> QED BY <2>2, <2>4, ForkParts
<1> HIDE DEF w
<1>2. Fork(a.type, d, w, <<>>, <<>>)
  BY <1>1, EmptyPath DEF Fork
<1>3. Outcome(TRUE, a.type, d, w, d1)
  BY <1>1, <1>2 DEF Lighter1, w
<1>4. d1 = expr_eliminate_dups1(a.type, d, w, w)
  <2>1. w \o <<>> = w
    BY <1>1
  <2> QED BY <2>1 DEF AfterDups1
<1> HIDE DEF d1
<1>5. Outcome(TRUE, t, d, q, d1)
  BY <1>1, <1>3, MemberOutcome DEF Fork, w, MemberDone
<1> QED BY <1>4, <1>5 DEF w

\* Two members: the first is simplified and they are joined if possible.
LEMMA Dups1OfMembers ==
    ASSUME CalcRecurs, YnRecurs, EqRecurs, CommonRecurs, ConstantsApart, PartRecurs, PutRecurs, Dups1Recurs,
           NEW n \in Nat, NEW t \in Lists, NEW d, NEW q, NEW r1, NEW r2,
           Fork(t, d, q, r1, r2), Weight(part(d.expr, q)) <= n, Lighter1(n),
           part(d.expr, q \o r1).type # t, part(d.expr, q \o r2).type # t
    PROVE  Outcome(TRUE, t, d, q, AfterDups1(t, d, q, r1, r2))
<1> DEFINE a == part(d.expr, q \o r1)
           d1 == IF a.type \in Lists THEN expr_eliminate_dups1(a.type, d, q \o r1, q \o r1) ELSE d
           d2 == JoinAt(t, d1, q \o r1, q \o r2)
<1>1. AfterDups1(t, d, q, r1, r2) = Dups1(t, d, q \o r1, q \o r2)
  BY DEF Dups1Recurs
<1>2. Outcome(TRUE, t, d, q, d)
  BY OutcomeNone DEF Fork
<1>3. CASE q \o r1 = q \o r2
  <2>1. Dups1(t, d, q \o r1, q \o r2) = d
    BY <1>3 DEF Dups1
  <2> QED BY <1>1, <1>2, <2>1
<1>4. CASE q \o r1 # q \o r2
  <2>1. Dups1(t, d, q \o r1, q \o r2) = d2
    BY <1>4 DEF Dups1
  <2>2. r1 # r2
    BY <1>4
  <2>3. Outcome(TRUE, t, d, q, d1)
    <3>1. CASE a.type \in Lists
      BY <2>2, <3>1, Dups1OfMember
    <3>2. CASE a.type \notin Lists
      BY <1>2, <3>2
    <3> QED BY <3>1, <3>2
  <2> HIDE DEF d1
  <2>4. /\ Fork(t, d1, q, r1, r2)
        /\ part(d1.expr, q \o r1).type # t /\ part(d1.expr, q \o r2).type # t
    <3>1. Kept(t, d, d1, q, r1, r2)
      BY <2>3, ForkKept
    <3> QED BY <3>1 DEF Kept
  <2>5. /\ part(d1.expr, q \o r1) = part(part(d1.expr, q), r1)
        /\ part(d1.expr, q \o r2) = part(part(d1.expr, q), r2)
    BY <2>4, ForkParts, ForkSwaps
  <2>6. Outcome(TRUE, t, d1, q, d2)
    BY <2>2, <2>4, <2>5, JoinAtIs DEF Fork
  <2> HIDE DEF d2
  <2>7. Outcome(TRUE, t, d, q, d2)
    BY <2>3, <2>6, OutcomeTwice DEF Fork
  <2> QED BY <1>1, <2>1, <2>7
<1> QED BY <1>3, <1>4

\* expr_eliminate_dups1 keeps the value of every expression, also for modules.
LEMMA Dups1Is ==
    ASSUME CalcRecurs, YnRecurs, EqRecurs, CommonRecurs, ConstantsApart, PartRecurs, PutRecurs, Dups1Recurs
    PROVE  \A t \in Lists : \A d, q, r1, r2 :
             Fork(t, d, q, r1, r2) => Outcome(TRUE, t, d, q, AfterDups1(t, d, q, r1, r2))
<1> DEFINE S == {n \in Nat : \A t \in Lists : \A d, q, r1, r2 : Fork(t, d, q, r1, r2) /\ Weight(part(d.expr, q)) = n =>
                               Outcome(TRUE, t, d, q, AfterDups1(t, d, q, r1, r2))}
<1>1. ASSUME NEW n \in Nat, \A i \in 0..(n - 1) : i \in S PROVE n \in S
  <2>1. Lighter1(n)
    <3> SUFFICES ASSUME NEW t \in Lists, NEW d, NEW q, NEW r1, NEW r2, Fork(t, d, q, r1, r2), Weight(part(d.expr, q)) < n
                 PROVE  Outcome(TRUE, t, d, q, AfterDups1(t, d, q, r1, r2))
      BY DEF Lighter1
    <3>1. Weight(part(d.expr, q)) \in Nat
      BY ForkParts
    <3>2. Weight(part(d.expr, q)) \in 0..(n - 1)
      BY <3>1
    <3> QED BY <1>1, <3>2
  <2> HIDE DEF S
  <2> SUFFICES ASSUME NEW t \in Lists, NEW q
               PROVE  \A d, r1, r2 : Fork(t, d, q, r1, r2) /\ Weight(part(d.expr, q)) = n =>
                        Outcome(TRUE, t, d, q, AfterDups1(t, d, q, r1, r2))
    BY DEF S
  <2> DEFINE Good(d, r1, r2) == Outcome(TRUE, t, d, q, AfterDups1(t, d, q, r1, r2))
             R == {m \in Nat : \A d, r1, r2 :
                     Fork(t, d, q, r1, r2) /\ Weight(part(d.expr, q)) <= n /\ 2 * n - (Len(r1) + Len(r2)) = m =>
                       Good(d, r1, r2)}
  <2>2. \A d, r1, r2 : Fork(t, d, q, r1, r2) /\ Weight(part(d.expr, q)) <= n =>
          Len(r1) \in 0..n /\ Len(r2) \in 0..n
    <3> SUFFICES ASSUME NEW d, NEW r1, NEW r2, Fork(t, d, q, r1, r2), Weight(part(d.expr, q)) <= n
                 PROVE  Len(r1) \in 0..n /\ Len(r2) \in 0..n
      OBVIOUS
    <3>1. /\ Len(r1) \in 0..Weight(part(d.expr, q)) /\ Len(r2) \in 0..Weight(part(d.expr, q))
          /\ Weight(part(d.expr, q)) \in Nat
      BY ForkParts, ForkSwaps
    <3> QED BY <3>1
  <2>3. ASSUME NEW m \in Nat, \A i \in 0..(m - 1) : i \in R PROVE m \in R
    <3> SUFFICES ASSUME NEW d, NEW r1, NEW r2, Fork(t, d, q, r1, r2), Weight(part(d.expr, q)) <= n,
                        2 * n - (Len(r1) + Len(r2)) = m
                 PROVE  Good(d, r1, r2)
      OBVIOUS
    <3>1. Longer1(n, t, q, Len(r1) + Len(r2))
      <4> SUFFICES ASSUME NEW e, NEW s1, NEW s2, Fork(t, e, q, s1, s2), Weight(part(e.expr, q)) <= n,
                          Len(s1) + Len(s2) > Len(r1) + Len(r2)
                   PROVE  Good(e, s1, s2)
        BY DEF Longer1
      <4>1. Len(s1) \in 0..n /\ Len(s2) \in 0..n /\ Len(r1) \in 0..n /\ Len(r2) \in 0..n
        BY <2>2
      <4>2. 2 * n - (Len(s1) + Len(s2)) \in 0..(m - 1)
        BY <4>1
      <4> HIDE DEF Good
      <4> QED BY <2>3, <4>2
    <3> HIDE DEF R
    <3>2. CASE part(d.expr, q \o r1).type = t
      BY <3>1, <3>2, Dups1OfFirst
    <3>3. CASE part(d.expr, q \o r1).type # t /\ part(d.expr, q \o r2).type = t
      BY <3>1, <3>3, Dups1OfSecond
    <3>4. CASE part(d.expr, q \o r1).type # t /\ part(d.expr, q \o r2).type # t
      BY <2>1, <3>4, Dups1OfMembers
    <3> QED BY <3>2, <3>3, <3>4
  <2>4. \A m \in Nat : m \in R
    <3>1. R \in SUBSET Nat
      OBVIOUS
    <3> HIDE DEF R
    <3> QED BY <2>3, <3>1, Induction
  <2> SUFFICES ASSUME NEW d, NEW r1, NEW r2, Fork(t, d, q, r1, r2), Weight(part(d.expr, q)) = n
               PROVE  Good(d, r1, r2)
    OBVIOUS
  <2>5. 2 * n - (Len(r1) + Len(r2)) \in Nat
    BY <2>2
  <2> DEFINE m == 2 * n - (Len(r1) + Len(r2))
  <2>6. m \in R
    BY <2>4, <2>5
  <2> HIDE DEF Good
  <2> QED BY <2>6
<1>2. \A n \in Nat : n \in S
  <2>1. S \in SUBSET Nat
    OBVIOUS
  <2> HIDE DEF S
  <2> QED BY <1>1, <2>1, Induction
<1> SUFFICES ASSUME NEW t \in Lists, NEW d, NEW q, NEW r1, NEW r2, Fork(t, d, q, r1, r2)
             PROVE  Outcome(TRUE, t, d, q, AfterDups1(t, d, q, r1, r2))
  OBVIOUS
<1>3. Weight(part(d.expr, q)) \in Nat
  BY ForkParts
<1> QED BY <1>2, <1>3

AfterDups2(t, d, q, r1, r2) == expr_eliminate_dups2(t, d, q \o r1, q \o r2)
Dups2Recurs ==
    \A t \in Lists : \A d, q, r1, r2 :
      Fork(t, d, q, r1, r2) => AfterDups2(t, d, q, r1, r2) = Dups2(t, d, q \o r1, q \o r2)

Lighter2(n) ==
    \A t \in Lists : \A d, q, r1, r2 :
      Fork(t, d, q, r1, r2) /\ Weight(part(d.expr, q)) < n => Outcome(FALSE, t, d, q, AfterDups2(t, d, q, r1, r2))
Longer2(n, t, q, m) ==
    \A d, r1, r2 :
      Fork(t, d, q, r1, r2) /\ Weight(part(d.expr, q)) <= n /\ Len(r1) + Len(r2) > m =>
        Outcome(FALSE, t, d, q, AfterDups2(t, d, q, r1, r2))

\* Where no symbol is a module, nothing and its negation hold together.
LEMMA ContradictionDecides ==
    ASSUME NEW t \in Lists, NEW a \in {no, yes}, NEW c \in Tristate, NEW k \in Tristate, NEW l \in Tristate,
           Joined(t, c, a) = Joined(t, k, Joined(t, l, 2 - a))
    PROVE  Joined(t, c, a) = UnitValue(Dual(t))
BY DEF Joined, UnitValue, Dual, Least, Greatest, Tristate, no, mod, yes, Lists

\* The value of a list with a contradiction, when one side becomes a constant.
LEMMA ContradictionValue ==
    ASSUME CalcRecurs, YnRecurs, EqRecurs, CommonRecurs, ExtractRecurs, TransformRecurs, PartRecurs, PutRecurs,
           NEW t \in Lists, NEW f, IsExpr(f), NEW r1, IsPath({t}, f, r1), NEW r2, IsPath({t}, f, r2),
           NEW a, a = part(f, r1), a.type = Dual(t), Contradicts(a, part(f, r2)),
           NEW val, IsTwoValued(val)
    PROVE  expr_calc_value(with_part(f, r1, Unit(Dual(t))), val) = expr_calc_value(f, val)
<1> DEFINE u == Unit(Dual(t))
           b == part(f, r2)
           V(y) == expr_calc_value(y, val)
<1>0. IsValuation(val)
  BY DEF IsTwoValued
<1>1. IsExpr(a) /\ with_part(f, r1, a) = f /\ IsExpr(b) /\ with_part(f, r2, b) = f
  <2>1. IsPath(Lists, f, r1) /\ IsPath(Lists, f, r2)
    BY PathWider
  <2>2. Fits(f, r1) /\ Fits(f, r2)
    BY <2>1, FitsIs
  <2> QED BY <2>2 DEF Fits
<1>2. Dual(t) \in Lists /\ Dual(Dual(t)) = t /\ IsExpr(u)
  BY UnitIs
<1>3. V(u) = UnitValue(Dual(t))
  BY <1>0, <1>2, CalcUnit
<1>4. SpineValue(t, f, r1, val) /\ SpineValue(t, f, r2, val)
  BY <1>0, SpineIs
<1>5. PICK c \in Tristate : \A y : IsExpr(y) => V(with_part(f, r1, y)) = Joined(t, c, V(y))
  BY <1>4 DEF SpineValue
<1>6. PICK k \in Tristate : \A y : IsExpr(y) => V(with_part(f, r2, y)) = Joined(t, k, V(y))
  BY <1>4 DEF SpineValue
<1>7. PICK l \in Tristate : V(b) = Joined(Dual(a.type), l, 2 - V(a))
  BY <1>0, <1>1, <1>2, ContradictsIs
<1>8. V(a) \in {no, yes}
  BY <1>1, CalcTwoValued
<1>9. V(f) = Joined(t, c, V(a))
  BY <1>1, <1>5
<1>10. V(f) = Joined(t, k, Joined(t, l, 2 - V(a)))
  BY <1>1, <1>2, <1>6, <1>7
<1>11. V(with_part(f, r1, u)) = Joined(t, c, UnitValue(Dual(t)))
  BY <1>2, <1>3, <1>5
<1> HIDE DEF V, u, b
<1>12. V(f) = UnitValue(Dual(t))
  BY <1>8, <1>9, <1>10, ContradictionDecides
<1>13. Joined(t, c, UnitValue(Dual(t))) = UnitValue(Dual(t))
  BY JoinedIs
<1>14. V(with_part(f, r1, u)) = V(f)
  BY <1>11, <1>12, <1>13
<1> QED BY <1>14 DEF V, u

\* Two members are compared, at any place of an expression.
LEMMA CompareOutcome ==
    ASSUME CalcRecurs, YnRecurs, EqRecurs, CommonRecurs, ExtractRecurs, TransformRecurs, PartRecurs, PutRecurs,
           NEW t \in Lists, NEW d, NEW q, NEW r1, NEW r2, Fork(t, d, q, r1, r2), r1 # r2,
           NEW a, a = part(d.expr, q \o r1), a.type # t, a.type \in Lists
    PROVE  Outcome(FALSE, t, d, q, CompareAt(a.type, d, q \o r1, q \o r2))
<1> DEFINE f == part(d.expr, q)
           b == part(f, r2)
           w1 == q \o r1
           w2 == q \o r2
           u == Unit(a.type)
           d2 == CompareAt(a.type, d, w1, w2)
<1>1. a = part(f, r1) /\ part(d.expr, w2) = b /\ IsExpr(f) /\ IsExpr(a)
  BY ForkParts, ForkSwaps
<1>2. IsPath({t}, f, r1) /\ IsPath({t}, f, r2) /\ IsExpr(d.expr) /\ IsPath(Lists, d.expr, q)
  BY DEF Fork
<1>3. CASE ~Contradicts(a, b)
  <2>1. d2 = d
    BY <1>1, <1>3 DEF CompareAt
  <2> QED BY <1>2, <2>1, OutcomeNone
<1>4. CASE Contradicts(a, b)
  <2> DEFINE g == with_part(f, r1, u)
  <2>1. d2 = Replaced(d, w1, u)
    BY <1>1, <1>4 DEF CompareAt
  <2>2. d2.expr = with_part(d.expr, w1, u) /\ d2.changed
    BY <2>1 DEF Replaced
  <2>3. a.type = Dual(t)
    BY DEF Dual, Lists
  <2>4. IsExpr(u) /\ u.type # t /\ Weight(u) = 1 /\ u \in {Symbol("y"), Symbol("n")}
    BY UnitIs, TypesDiffer
  <2>5. Weight(u) <= Weight(a)
    <3>1. Weight(a) \in Nat \ {0}
      BY <1>1, ExprIs
    <3> QED BY <2>4, <3>1
  <2>6. Same(FALSE, g, f)
    BY <1>1, <1>2, <1>4, <2>3, ContradictionValue DEF Same, Counts
  <2>7. HasUnit(g)
    <3>1. Exchanged(t, f, r1, u, g)
      BY <1>1, <1>2, <2>4, ReplaceKeepsPaths
    <3>2. IsPath({t}, g, r1) /\ part(g, r1) = u
      BY <1>2, <3>1 DEF Exchanged
    <3>3. IsPath(Lists, g, r1)
      BY <3>2, PathWider
    <3>4. r1 # <<>>
      BY ForkInside
    <3> QED BY <2>4, <3>2, <3>3, <3>4 DEF HasUnit
  <2> HIDE DEF u, d2
  <2>8. Outcome(FALSE, t, d, q, d2)
    BY <1>1, <1>2, <2>2, <2>4, <2>5, <2>6, <2>7, OutcomeReplaced
  <2> QED BY <2>8 DEF d2
<1> QED BY <1>3, <1>4

\* The first calls for the two parts of the first list.
LEMMA Dups2OfFirst ==
    ASSUME PartRecurs, PutRecurs, Dups2Recurs, NEW n \in Nat, NEW t \in Lists, NEW d, NEW q, NEW r1, NEW r2,
           Fork(t, d, q, r1, r2), Weight(part(d.expr, q)) <= n, Longer2(n, t, q, Len(r1) + Len(r2)),
           part(d.expr, q \o r1).type = t
    PROVE  Outcome(FALSE, t, d, q, AfterDups2(t, d, q, r1, r2))
<1> DEFINE d1 == AfterDups2(t, d, q, Left(r1), r2)
           d2 == AfterDups2(t, d1, q, Right(r1), r2)
<1>1. /\ Fork(t, d, q, Left(r1), r2) /\ Fork(t, d, q, Right(r1), r2)
      /\ Left(q \o r1) = q \o Left(r1) /\ Right(q \o r1) = q \o Right(r1)
      /\ Len(Left(r1)) = Len(r1) + 1 /\ Len(Right(r1)) = Len(r1) + 1
  <2>1. Descends(t, d, q, r1, r2)
    BY ForkDown
  <2> QED BY <2>1 DEF Descends
<1>2. AfterDups2(t, d, q, r1, r2) = d2
  <2>1. AfterDups2(t, d, q, r1, r2) = Dups2(t, d, q \o r1, q \o r2)
    BY DEF Dups2Recurs
  <2>2. Dups2(t, d, q \o r1, q \o r2) =
          expr_eliminate_dups2(t, expr_eliminate_dups2(t, d, Left(q \o r1), q \o r2), Right(q \o r1), q \o r2)
    BY DEF Dups2
  <2> QED BY <1>1, <2>1, <2>2 DEF AfterDups2
<1>3. Len(r1) \in Nat /\ Len(r2) \in Nat /\ Weight(part(d.expr, q)) \in Nat
  BY ForkParts, ForkSwaps
<1>4. Len(Left(r1)) + Len(r2) > Len(r1) + Len(r2) /\ Len(Right(r1)) + Len(r2) > Len(r1) + Len(r2)
  BY <1>1, <1>3
<1>5. Outcome(FALSE, t, d, q, d1)
  BY <1>1, <1>4 DEF Longer2
<1> HIDE DEF d1
<1>6. Fork(t, d1, q, Right(r1), r2) /\ Weight(part(d1.expr, q)) <= Weight(part(d.expr, q))
  BY <1>1, <1>5, ForkKept DEF Kept
<1>7. Weight(part(d1.expr, q)) <= n
  <2>1. Weight(part(d1.expr, q)) \in Nat
    BY <1>6, ForkParts
  <2> QED BY <1>3, <1>6, <2>1
<1>8. Outcome(FALSE, t, d1, q, d2)
  BY <1>4, <1>6, <1>7 DEF Longer2
<1> HIDE DEF d2
<1>9. Outcome(FALSE, t, d, q, d2)
  BY <1>5, <1>8, OutcomeTwice DEF Fork
<1> QED BY <1>2, <1>9

\* A member that is a list is simplified first.
LEMMA Dups2OfMember ==
    ASSUME PartRecurs, PutRecurs, CalcRecurs, NEW n \in Nat, NEW t \in Lists, NEW d, NEW q, NEW r1, NEW r2,
           Fork(t, d, q, r1, r2), r1 # r2, Weight(part(d.expr, q)) <= n, Lighter2(n),
           NEW a, a = part(d.expr, q \o r1), a.type # t, a.type \in Lists
    PROVE  MemberDone(FALSE, t, d, q, q \o r1, a.type, expr_eliminate_dups2(a.type, d, q \o r1, q \o r1))
<1> DEFINE w == q \o r1
           d1 == AfterDups2(a.type, d, w, <<>>, <<>>)
<1>1. /\ IsPath(Lists, d.expr, w) /\ IsExpr(a) /\ Weight(a) < n /\ w \in Seq(Sides)
      /\ a = part(part(d.expr, q), r1)
  <2>1. r1 # <<>>
    BY ForkInside
  <2>2. Weight(a) < Weight(part(d.expr, q)) /\ Weight(part(d.expr, q)) \in Nat /\ IsExpr(a)
    BY <2>1, ForkParts
  <2>3. Weight(a) \in Nat
    BY <2>2, ExprIs
  <2>4. Weight(a) < n
    BY <2>2, <2>3
  <2> QED BY <2>2, <2>4, ForkParts
<1> HIDE DEF w
<1>2. Fork(a.type, d, w, <<>>, <<>>)
  BY <1>1, EmptyPath DEF Fork
<1>3. Outcome(FALSE, a.type, d, w, d1)
  BY <1>1, <1>2 DEF Lighter2, w
<1>4. d1 = expr_eliminate_dups2(a.type, d, w, w)
  <2>1. w \o <<>> = w
    BY <1>1
  <2> QED BY <2>1 DEF AfterDups2
<1> HIDE DEF d1
<1>5. MemberDone(FALSE, t, d, q, w, a.type, d1)
  <2>1. IsExpr(d.expr) /\ IsPath(Lists, d.expr, q) /\ IsPath({t}, part(d.expr, q), r1)
    BY DEF Fork
  <2>2. Outcome(FALSE, a.type, d, q \o r1, d1)
    BY <1>3 DEF w
  <2>3. MemberDone(FALSE, t, d, q, q \o r1, a.type, d1)
    BY <1>1, <2>1, <2>2, MemberOutcome
  <2> QED BY <2>3 DEF w
<1> QED BY <1>4, <1>5 DEF w

\* Two members are compared when the first has been simplified.
LEMMA ListOutcome ==
    ASSUME CalcRecurs, YnRecurs, EqRecurs, CommonRecurs, ExtractRecurs, TransformRecurs, PartRecurs, PutRecurs,
           NEW n \in Nat, NEW t \in Lists, NEW d, NEW q, NEW r1, NEW r2,
           Fork(t, d, q, r1, r2), Weight(part(d.expr, q)) <= n, Lighter2(n), part(d.expr, q \o r1).type # t
    PROVE  Outcome(FALSE, t, d, q, ListAt(d, q \o r1, q \o r2))
<1> DEFINE a == part(d.expr, q \o r1)
           d1 == expr_eliminate_dups2(a.type, d, q \o r1, q \o r1)
           d2 == CompareAt(a.type, d1, q \o r1, q \o r2)
<1>1. CASE q \o r1 = q \o r2 \/ a.type \notin Lists
  <2>1. ListAt(d, q \o r1, q \o r2) = d
    BY <1>1 DEF ListAt
  <2>2. Outcome(FALSE, t, d, q, d)
    BY OutcomeNone DEF Fork
  <2> QED BY <2>1, <2>2
<1>2. CASE q \o r1 # q \o r2 /\ a.type \in Lists
  <2>1. ListAt(d, q \o r1, q \o r2) = d2
    BY <1>2 DEF ListAt
  <2>2. r1 # r2 /\ a.type \in Lists
    BY <1>2
  <2>3. Outcome(FALSE, t, d, q, d1) /\ part(d1.expr, q \o r1).type = a.type
    <3>1. MemberDone(FALSE, t, d, q, q \o r1, a.type, d1)
      BY <2>2, Dups2OfMember
    <3> QED BY <3>1 DEF MemberDone
  <2> HIDE DEF d1
  <2>4. Fork(t, d1, q, r1, r2)
    <3>1. Kept(t, d, d1, q, r1, r2)
      BY <2>3, ForkKept
    <3> QED BY <3>1 DEF Kept
  <2> DEFINE a1 == part(d1.expr, q \o r1)
  <2>5. a1.type = a.type /\ a1.type # t /\ a1.type \in Lists
    BY <2>2, <2>3
  <2>6. Outcome(FALSE, t, d1, q, CompareAt(a1.type, d1, q \o r1, q \o r2))
    <3> HIDE DEF a
    <3> QED BY <2>2, <2>4, <2>5, CompareOutcome
  <2>7. Outcome(FALSE, t, d1, q, d2)
    BY <2>5, <2>6
  <2> HIDE DEF d2
  <2>8. Outcome(FALSE, t, d, q, d2)
    BY <2>3, <2>7, OutcomeTwice DEF Fork
  <2> QED BY <2>1, <2>8
<1> QED BY <1>1, <1>2

\* The calls for the two parts of the second list, which is compared then.
LEMMA Dups2OfSecond ==
    ASSUME CalcRecurs, YnRecurs, EqRecurs, CommonRecurs, ExtractRecurs, TransformRecurs,
           PartRecurs, PutRecurs, Dups2Recurs, NEW n \in Nat, NEW t \in Lists, NEW d, NEW q, NEW r1, NEW r2,
           Fork(t, d, q, r1, r2), Weight(part(d.expr, q)) <= n, Longer2(n, t, q, Len(r1) + Len(r2)), Lighter2(n),
           part(d.expr, q \o r1).type # t, part(d.expr, q \o r2).type = t
    PROVE  Outcome(FALSE, t, d, q, AfterDups2(t, d, q, r1, r2))
<1> DEFINE d1 == AfterDups2(t, d, q, r1, Left(r2))
           d2 == AfterDups2(t, d1, q, r1, Right(r2))
<1>1. /\ Fork(t, d, q, r1, Left(r2)) /\ Fork(t, d, q, r1, Right(r2))
      /\ Left(q \o r2) = q \o Left(r2) /\ Right(q \o r2) = q \o Right(r2)
      /\ Len(Left(r2)) = Len(r2) + 1 /\ Len(Right(r2)) = Len(r2) + 1
  <2>1. Fork(t, d, q, r2, r1)
    BY ForkSwaps
  <2>2. Descends(t, d, q, r2, r1)
    BY <2>1, ForkDown
  <2> QED BY <2>2, ForkSwaps DEF Descends
<1>2. AfterDups2(t, d, q, r1, r2) = ListAt(d2, q \o r1, q \o r2)
  <2>1. AfterDups2(t, d, q, r1, r2) = Dups2(t, d, q \o r1, q \o r2)
    BY DEF Dups2Recurs
  <2>2. q \o r1 # q \o r2
    OBVIOUS
  <2>3. Dups2(t, d, q \o r1, q \o r2) =
          ListAt(expr_eliminate_dups2(t, expr_eliminate_dups2(t, d, q \o r1, Left(q \o r2)), q \o r1, Right(q \o r2)),
                 q \o r1, q \o r2)
    BY DEF Dups2
  <2> QED BY <1>1, <2>1, <2>3 DEF AfterDups2
<1>3. Len(r1) \in Nat /\ Len(r2) \in Nat /\ Weight(part(d.expr, q)) \in Nat
  BY ForkParts, ForkSwaps
<1>4. Len(r1) + Len(Left(r2)) > Len(r1) + Len(r2) /\ Len(r1) + Len(Right(r2)) > Len(r1) + Len(r2)
  BY <1>1, <1>3
<1>5. Outcome(FALSE, t, d, q, d1)
  BY <1>1, <1>4 DEF Longer2
<1> HIDE DEF d1
<1>6. Fork(t, d1, q, r1, Right(r2)) /\ Weight(part(d1.expr, q)) <= Weight(part(d.expr, q))
  BY <1>1, <1>5, ForkKept DEF Kept
<1>7. Weight(part(d1.expr, q)) <= n
  <2>1. Weight(part(d1.expr, q)) \in Nat
    BY <1>6, ForkParts
  <2> QED BY <1>3, <1>6, <2>1
<1>8. Outcome(FALSE, t, d1, q, d2)
  BY <1>4, <1>6, <1>7 DEF Longer2
<1> HIDE DEF d2
<1>9. Outcome(FALSE, t, d, q, d2)
  BY <1>5, <1>8, OutcomeTwice DEF Fork
<1>10. /\ Fork(t, d2, q, r1, r2) /\ Weight(part(d2.expr, q)) <= Weight(part(d.expr, q))
       /\ part(d2.expr, q \o r1).type # t
  <2>1. Kept(t, d, d2, q, r1, r2)
    BY <1>9, ForkKept
  <2> QED BY <2>1 DEF Kept
<1>11. Weight(part(d2.expr, q)) <= n
  <2>1. Weight(part(d2.expr, q)) \in Nat
    BY <1>10, ForkParts
  <2> QED BY <1>3, <1>10, <2>1
<1>12. Outcome(FALSE, t, d2, q, ListAt(d2, q \o r1, q \o r2))
  BY <1>10, <1>11, ListOutcome
<1> QED BY <1>2, <1>9, <1>12, OutcomeTwice DEF Fork

\* Two members are compared.
LEMMA Dups2OfMembers ==
    ASSUME CalcRecurs, YnRecurs, EqRecurs, CommonRecurs, ExtractRecurs, TransformRecurs,
           PartRecurs, PutRecurs, Dups2Recurs,
           NEW n \in Nat, NEW t \in Lists, NEW d, NEW q, NEW r1, NEW r2,
           Fork(t, d, q, r1, r2), Weight(part(d.expr, q)) <= n, Lighter2(n),
           part(d.expr, q \o r1).type # t, part(d.expr, q \o r2).type # t
    PROVE  Outcome(FALSE, t, d, q, AfterDups2(t, d, q, r1, r2))
<1>1. AfterDups2(t, d, q, r1, r2) = Dups2(t, d, q \o r1, q \o r2)
  BY DEF Dups2Recurs
<1>2. Dups2(t, d, q \o r1, q \o r2) = ListAt(d, q \o r1, q \o r2)
  BY DEF Dups2
<1> QED BY <1>1, <1>2, ListOutcome

\* expr_eliminate_dups2 keeps the value where no symbol is a module.
LEMMA Dups2Is ==
    ASSUME CalcRecurs, YnRecurs, EqRecurs, CommonRecurs, ExtractRecurs, TransformRecurs,
           PartRecurs, PutRecurs, Dups2Recurs
    PROVE  \A t \in Lists : \A d, q, r1, r2 :
             Fork(t, d, q, r1, r2) => Outcome(FALSE, t, d, q, AfterDups2(t, d, q, r1, r2))
<1> DEFINE S == {n \in Nat : \A t \in Lists : \A d, q, r1, r2 : Fork(t, d, q, r1, r2) /\ Weight(part(d.expr, q)) = n =>
                               Outcome(FALSE, t, d, q, AfterDups2(t, d, q, r1, r2))}
<1>1. ASSUME NEW n \in Nat, \A i \in 0..(n - 1) : i \in S PROVE n \in S
  <2>1. Lighter2(n)
    <3> SUFFICES ASSUME NEW t \in Lists, NEW d, NEW q, NEW r1, NEW r2, Fork(t, d, q, r1, r2), Weight(part(d.expr, q)) < n
                 PROVE  Outcome(FALSE, t, d, q, AfterDups2(t, d, q, r1, r2))
      BY DEF Lighter2
    <3>1. Weight(part(d.expr, q)) \in Nat
      BY ForkParts
    <3>2. Weight(part(d.expr, q)) \in 0..(n - 1)
      BY <3>1
    <3> QED BY <1>1, <3>2
  <2> HIDE DEF S
  <2> SUFFICES ASSUME NEW t \in Lists, NEW q
               PROVE  \A d, r1, r2 : Fork(t, d, q, r1, r2) /\ Weight(part(d.expr, q)) = n =>
                        Outcome(FALSE, t, d, q, AfterDups2(t, d, q, r1, r2))
    BY DEF S
  <2> DEFINE Good(d, r1, r2) == Outcome(FALSE, t, d, q, AfterDups2(t, d, q, r1, r2))
             R == {m \in Nat : \A d, r1, r2 :
                     Fork(t, d, q, r1, r2) /\ Weight(part(d.expr, q)) <= n /\ 2 * n - (Len(r1) + Len(r2)) = m =>
                       Good(d, r1, r2)}
  <2>2. \A d, r1, r2 : Fork(t, d, q, r1, r2) /\ Weight(part(d.expr, q)) <= n =>
          Len(r1) \in 0..n /\ Len(r2) \in 0..n
    <3> SUFFICES ASSUME NEW d, NEW r1, NEW r2, Fork(t, d, q, r1, r2), Weight(part(d.expr, q)) <= n
                 PROVE  Len(r1) \in 0..n /\ Len(r2) \in 0..n
      OBVIOUS
    <3>1. /\ Len(r1) \in 0..Weight(part(d.expr, q)) /\ Len(r2) \in 0..Weight(part(d.expr, q))
          /\ Weight(part(d.expr, q)) \in Nat
      BY ForkParts, ForkSwaps
    <3> QED BY <3>1
  <2>3. ASSUME NEW m \in Nat, \A i \in 0..(m - 1) : i \in R PROVE m \in R
    <3> SUFFICES ASSUME NEW d, NEW r1, NEW r2, Fork(t, d, q, r1, r2), Weight(part(d.expr, q)) <= n,
                        2 * n - (Len(r1) + Len(r2)) = m
                 PROVE  Good(d, r1, r2)
      OBVIOUS
    <3>1. Longer2(n, t, q, Len(r1) + Len(r2))
      <4> SUFFICES ASSUME NEW e, NEW s1, NEW s2, Fork(t, e, q, s1, s2), Weight(part(e.expr, q)) <= n,
                          Len(s1) + Len(s2) > Len(r1) + Len(r2)
                   PROVE  Good(e, s1, s2)
        BY DEF Longer2
      <4>1. Len(s1) \in 0..n /\ Len(s2) \in 0..n /\ Len(r1) \in 0..n /\ Len(r2) \in 0..n
        BY <2>2
      <4>2. 2 * n - (Len(s1) + Len(s2)) \in 0..(m - 1)
        BY <4>1
      <4> HIDE DEF Good
      <4> QED BY <2>3, <4>2
    <3> HIDE DEF R
    <3>2. CASE part(d.expr, q \o r1).type = t
      BY <3>1, <3>2, Dups2OfFirst
    <3>3. CASE part(d.expr, q \o r1).type # t /\ part(d.expr, q \o r2).type = t
      BY <2>1, <3>1, <3>3, Dups2OfSecond
    <3>4. CASE part(d.expr, q \o r1).type # t /\ part(d.expr, q \o r2).type # t
      BY <2>1, <3>4, Dups2OfMembers
    <3> QED BY <3>2, <3>3, <3>4
  <2>4. \A m \in Nat : m \in R
    <3>1. R \in SUBSET Nat
      OBVIOUS
    <3> HIDE DEF R
    <3> QED BY <2>3, <3>1, Induction
  <2> SUFFICES ASSUME NEW d, NEW r1, NEW r2, Fork(t, d, q, r1, r2), Weight(part(d.expr, q)) = n
               PROVE  Good(d, r1, r2)
    OBVIOUS
  <2>5. 2 * n - (Len(r1) + Len(r2)) \in Nat
    BY <2>2
  <2> DEFINE m == 2 * n - (Len(r1) + Len(r2))
  <2>6. m \in R
    BY <2>4, <2>5
  <2> HIDE DEF Good
  <2> QED BY <2>6
<1>2. \A n \in Nat : n \in S
  <2>1. S \in SUBSET Nat
    OBVIOUS
  <2> HIDE DEF S
  <2> QED BY <1>1, <2>1, Induction
<1> SUFFICES ASSUME NEW t \in Lists, NEW d, NEW q, NEW r1, NEW r2, Fork(t, d, q, r1, r2)
             PROVE  Outcome(FALSE, t, d, q, AfterDups2(t, d, q, r1, r2))
  OBVIOUS
<1>3. Weight(part(d.expr, q)) \in Nat
  BY ForkParts
<1> QED BY <1>2, <1>3

-----------------------------------------------------------------------------
(* expr_eliminate_dups: again, while there is less of it each time.        *)

\* Where one side is a constant, a list becomes one side or a constant.
LEMMA YnDrops ==
    ASSUME YnRecurs, NEW e, IsExpr(e), e.type \in Lists,
           NEW l, l = expr_eliminate_yn(e.left), NEW r, r = expr_eliminate_yn(e.right),
           {l, r} \cap {Unit(e.type), Unit(Dual(e.type))} # {}
    PROVE  expr_eliminate_yn(e) \in {l, r}
<1> DEFINE zero == Unit(Dual(e.type))
           one == Unit(e.type)
<1>1. expr_eliminate_yn(e) =
        CASE l = zero -> zero [] l = one -> r [] r = zero -> zero [] r = one -> l [] OTHER -> Two(e.type, l, r)
  BY DEF YnRecurs, EliminateYn
<1> HIDE DEF zero, one
<1>2. l \in {one, zero} \/ r \in {one, zero}
  BY DEF zero, one
<1> QED BY <1>1, <1>2

\* A list with a constant in it is lighter after expr_eliminate_yn.
LEMMA YnLightens ==
    ASSUME CalcRecurs, YnRecurs, PartRecurs, PutRecurs, NEW e, IsExpr(e), HasUnit(e)
    PROVE  Weight(expr_eliminate_yn(e)) < Weight(e)
<1> DEFINE S == {n \in Nat : \A f : IsExpr(f) /\ Weight(f) = n /\ HasUnit(f) =>
                               Weight(expr_eliminate_yn(f)) < Weight(f)}
<1>1. ASSUME NEW n \in Nat, \A i \in 0..(n - 1) : i \in S PROVE n \in S
  <2> SUFFICES ASSUME NEW f, IsExpr(f), Weight(f) = n, HasUnit(f) PROVE Weight(expr_eliminate_yn(f)) < Weight(f)
    OBVIOUS
  <2>1. PICK p : IsPath(Lists, f, p) /\ p # <<>> /\ part(f, p) \in {Symbol("y"), Symbol("n")}
    BY DEF HasUnit
  <2> DEFINE c == Child(f, Head(p))
             l == expr_eliminate_yn(f.left)
             r == expr_eliminate_yn(f.right)
             a == expr_eliminate_yn(f)
  <2>2. /\ f.type \in Lists /\ IsExpr(c) /\ Weight(c) < Weight(f) /\ IsPath(Lists, c, Tail(p))
        /\ p \in Seq(Sides) /\ Head(p) \in Sides /\ part(f, p) = part(c, Tail(p))
    BY <2>1, StepDown
  <2>3. /\ IsExpr(f.left) /\ IsExpr(f.right) /\ Weight(f) = Weight(f.left) + Weight(f.right) + 2
    BY <2>2, ExprIs
  <2>4. /\ IsExpr(l) /\ Weight(l) <= Weight(f.left) /\ IsExpr(r) /\ Weight(r) <= Weight(f.right)
    BY <2>3, YnSimplifies DEF Simplifies
  <2>5. /\ Weight(f) \in Nat /\ Weight(f.left) \in Nat \ {0} /\ Weight(f.right) \in Nat \ {0}
        /\ Weight(l) \in Nat /\ Weight(r) \in Nat /\ Weight(c) \in Nat
    BY <2>2, <2>3, <2>4, ExprIs
  <2>6. c \in {f.left, f.right}
    BY DEF Child
  <2>7. CASE Tail(p) = <<>>
    <3>1. c \in {Symbol("y"), Symbol("n")}
      BY <2>1, <2>2, <2>7, NoStep
    <3>2. expr_eliminate_yn(c) = c
      <4>1. c.type = "symbol"
        BY <3>1, Shapes
      <4>2. c.type \notin Lists
        BY <4>1 DEF Lists
      <4> QED BY <2>2, <4>2, YnStep
    <3>3. {l, r} \cap {Unit(f.type), Unit(Dual(f.type))} # {}
      <4>1. c \in {Unit(f.type), Unit(Dual(f.type))}
        BY <2>2, <3>1, UnitIs
      <4>2. c \in {l, r}
        BY <2>6, <3>2
      <4> QED BY <4>1, <4>2
    <3>4. a \in {l, r}
      BY <2>2, <3>3, YnDrops
    <3> HIDE DEF a, l, r, c
    <3> QED BY <2>3, <2>4, <2>5, <3>4 DEF a
  <2>8. CASE Tail(p) # <<>>
    <3>1. HasUnit(c)
      BY <2>1, <2>2, <2>8 DEF HasUnit
    <3>2. Weight(c) \in 0..(n - 1)
      BY <2>2, <2>5
    <3>3. Weight(expr_eliminate_yn(c)) < Weight(c)
      BY <1>1, <2>2, <3>1, <3>2
    <3>4. Weight(l) + Weight(r) < Weight(f.left) + Weight(f.right)
      <4>1. Weight(l) < Weight(f.left) \/ Weight(r) < Weight(f.right)
        BY <2>6, <3>3
      <4> HIDE DEF l, r
      <4> QED BY <2>4, <2>5, <4>1
    <3>5. \/ a = Unit(Dual(f.type)) \/ a = r \/ a = l \/ a = Two(f.type, l, r)
      BY <2>2, YnStep
    <3>6. Weight(Two(f.type, l, r)) = Weight(l) + Weight(r) + 2 /\ Weight(Unit(Dual(f.type))) = 1
      BY <2>2, <2>4, TwoIs, UnitIs
    <3> HIDE DEF l, r, a, c, S
    <3>7. Weight(a) < Weight(f)
      BY <2>3, <2>4, <2>5, <3>4, <3>5, <3>6
    <3> QED BY <3>7 DEF a
  <2> QED BY <2>7, <2>8
<1>2. \A n \in Nat : n \in S
  <2>1. S \in SUBSET Nat
    OBVIOUS
  <2> HIDE DEF S
  <2> QED BY <1>1, <2>1, Induction
<1>3. Weight(e) \in Nat
  BY ExprIs
<1> QED BY <1>2, <1>3

DupsRecurs == \A e : IsExpr(e) => expr_eliminate_dups(e) = EliminateDups(e)

\* The two passes over a list.
FirstPass(e) == expr_eliminate_dups1(e.type, DupsOf(e), <<>>, <<>>)
SecondPass(e) == expr_eliminate_dups2(e.type, FirstPass(e), <<>>, <<>>)

\* The first pass over a whole list.
LEMMA FirstPassIs ==
    ASSUME CalcRecurs, YnRecurs, EqRecurs, CommonRecurs, ConstantsApart, PartRecurs, PutRecurs, Dups1Recurs,
           NEW e, IsExpr(e), e.type \in Lists
    PROVE  /\ Fork(e.type, DupsOf(e), <<>>, <<>>, <<>>)
           /\ Outcome(TRUE, e.type, DupsOf(e), <<>>, FirstPass(e))
<1>1. DupsOf(e).expr = e
  BY DEF DupsOf
<1>2. Fork(e.type, DupsOf(e), <<>>, <<>>, <<>>)
  BY <1>1, EmptyPath, NoStep DEF Fork
<1>3. Outcome(TRUE, e.type, DupsOf(e), <<>>, AfterDups1(e.type, DupsOf(e), <<>>, <<>>, <<>>))
  BY <1>2, Dups1Is
<1>4. <<>> \o <<>> = <<>>
  OBVIOUS
<1>5. AfterDups1(e.type, DupsOf(e), <<>>, <<>>, <<>>) = FirstPass(e)
  BY <1>4 DEF AfterDups1, FirstPass
<1> QED BY <1>2, <1>3, <1>5

\* Both passes over a whole list.
LEMMA SecondPassIs ==
    ASSUME CalcRecurs, YnRecurs, EqRecurs, CommonRecurs, ConstantsApart, PartRecurs, PutRecurs, Dups1Recurs,
           ExtractRecurs, TransformRecurs, Dups2Recurs, NEW e, IsExpr(e), e.type \in Lists
    PROVE  LET d1 == FirstPass(e)
               d2 == SecondPass(e)
           IN /\ IsExpr(d1.expr) /\ IsExpr(d2.expr)
              /\ SameValue(d1.expr, e) /\ SameTwoValue(d2.expr, e) /\ Weight(d2.expr) <= Weight(e)
              /\ d2.changed => HasUnit(d2.expr)
<1> DEFINE t == e.type
           d0 == DupsOf(e)
           d1 == FirstPass(e)
           d2 == SecondPass(e)
<1>1. Fork(t, d0, <<>>, <<>>, <<>>) /\ Outcome(TRUE, t, d0, <<>>, d1)
  BY FirstPassIs
<1>2. Settled(TRUE, t, d0, <<>>, d1)
  BY <1>1, OutcomeIs DEF Fork
<1>3. Fork(t, d1, <<>>, <<>>, <<>>)
  <2>1. Kept(t, d0, d1, <<>>, <<>>, <<>>)
    BY <1>1, ForkKept
  <2> QED BY <2>1 DEF Kept
<1>4. Outcome(FALSE, t, d1, <<>>, d2)
  <2>1. <<>> \o <<>> = <<>>
    OBVIOUS
  <2>2. AfterDups2(t, d1, <<>>, <<>>, <<>>) = d2
    BY <2>1 DEF AfterDups2, SecondPass
  <2>3. Outcome(FALSE, t, d1, <<>>, AfterDups2(t, d1, <<>>, <<>>, <<>>))
    <3> HIDE DEF d1, t
    <3>1. t \in Lists
      BY DEF t
    <3> QED BY <1>3, <3>1, Dups2Is
  <2> QED BY <2>2, <2>3
<1> HIDE DEF d1, d2
<1>5. Settled(FALSE, t, d1, <<>>, d2)
  BY <1>3, <1>4, OutcomeIs DEF Fork
<1>6. d0.expr = e /\ d0.changed = FALSE
  BY DEF DupsOf
<1> HIDE DEF d0
<1>7. IsExpr(d1.expr) /\ IsExpr(d2.expr)
  BY <1>2, <1>5 DEF Settled
<1>8. part(d0.expr, <<>>) = e /\ part(d1.expr, <<>>) = d1.expr /\ part(d2.expr, <<>>) = d2.expr
  BY <1>6, <1>7, NoStep
<1>9. /\ Reduces(TRUE, t, e, d1.expr) /\ Reduces(FALSE, t, d1.expr, d2.expr)
      /\ d1 = d0 \/ (d1.changed /\ HasUnit(d1.expr))
      /\ d2 = d1 \/ (d2.changed /\ HasUnit(d2.expr))
  BY <1>2, <1>5, <1>8 DEF Settled
<1>10. SameValue(d1.expr, e)
  BY <1>9 DEF Reduces, Same, Counts, SameValue
<1>11. SameTwoValue(d2.expr, e)
  BY <1>9, <1>10 DEF Reduces, Same, Counts, SameValue, SameTwoValue, IsTwoValued
<1>12. Weight(d2.expr) <= Weight(e)
  <2>1. Weight(d2.expr) <= Weight(d1.expr) /\ Weight(d1.expr) <= Weight(e)
    BY <1>9 DEF Reduces
  <2>2. Weight(d2.expr) \in Nat /\ Weight(d1.expr) \in Nat /\ Weight(e) \in Nat
    BY <1>7, ExprIs
  <2> QED BY <2>1, <2>2
<1>13. d2.changed => HasUnit(d2.expr)
  BY <1>6, <1>9
<1> QED BY <1>7, <1>10, <1>11, <1>12, <1>13 DEF d1, d2

\* expr_eliminate_dups after both passes.
LEMMA DupsStep ==
    ASSUME DupsRecurs, NEW e, IsExpr(e), e.type \in Lists
    PROVE  LET d2 == SecondPass(e)
           IN expr_eliminate_dups(e) = IF d2.changed THEN expr_eliminate_dups(expr_eliminate_yn(d2.expr)) ELSE d2.expr
BY DEF DupsRecurs, EliminateDups, UntilUnchanged, SecondPass, FirstPass

\* expr_eliminate_dups keeps the value of every expression where no symbol is a module.
LEMMA DupsKeeps ==
    ASSUME CalcRecurs, YnRecurs, EqRecurs, CommonRecurs, ConstantsApart, PartRecurs, PutRecurs, Dups1Recurs,
           ExtractRecurs, TransformRecurs, Dups2Recurs, DupsRecurs, NEW e, IsExpr(e)
    PROVE  IsExpr(expr_eliminate_dups(e)) /\ SameTwoValue(expr_eliminate_dups(e), e)
<1> DEFINE Good(f) == IsExpr(expr_eliminate_dups(f)) /\ SameTwoValue(expr_eliminate_dups(f), f)
           S == {n \in Nat : \A f : IsExpr(f) /\ Weight(f) = n => Good(f)}
<1>1. ASSUME NEW n \in Nat, \A i \in 0..(n - 1) : i \in S PROVE n \in S
  <2> SUFFICES ASSUME NEW f, IsExpr(f), Weight(f) = n PROVE Good(f)
    OBVIOUS
  <2>1. CASE f.type \notin Lists
    <3>1. expr_eliminate_dups(f) = f
      BY <2>1 DEF DupsRecurs, EliminateDups
    <3> QED BY <3>1 DEF SameTwoValue
  <2>2. CASE f.type \in Lists
    <3> DEFINE d == SecondPass(f)
               g == expr_eliminate_yn(d.expr)
    <3>1. /\ IsExpr(d.expr) /\ SameTwoValue(d.expr, f) /\ Weight(d.expr) <= Weight(f)
          /\ d.changed => HasUnit(d.expr)
      BY <2>2, SecondPassIs
    <3>2. expr_eliminate_dups(f) = IF d.changed THEN expr_eliminate_dups(g) ELSE d.expr
      BY <2>2, DupsStep
    <3> HIDE DEF d
    <3>3. CASE ~d.changed
      BY <3>1, <3>2, <3>3
    <3>4. CASE d.changed
      <4>1. IsExpr(g) /\ SameValue(g, d.expr)
        BY <3>1, YnSimplifies DEF Simplifies
      <4>2. Weight(g) < Weight(d.expr)
        BY <3>1, <3>4, YnLightens
      <4>3. Weight(g) \in 0..(n - 1)
        <5>1. Weight(g) \in Nat /\ Weight(d.expr) \in Nat
          BY <3>1, <4>1, ExprIs
        <5> QED BY <3>1, <4>2, <5>1
      <4> HIDE DEF g
      <4>4. Good(g)
        BY <1>1, <4>1, <4>3
      <4>5. expr_eliminate_dups(f) = expr_eliminate_dups(g)
        BY <3>2, <3>4
      <4>6. SameTwoValue(expr_eliminate_dups(g), f)
        BY <3>1, <4>1, <4>4 DEF SameTwoValue, SameValue, IsTwoValued
      <4> QED BY <4>4, <4>5, <4>6
    <3> QED BY <3>3, <3>4
  <2> QED BY <2>1, <2>2
<1>2. \A n \in Nat : n \in S
  <2>1. S \in SUBSET Nat
    OBVIOUS
  <2> HIDE DEF S
  <2> QED BY <1>1, <2>1, Induction
<1>3. Weight(e) \in Nat
  BY ExprIs
<1>4. Good(e)
  BY <1>2, <1>3
<1> QED BY <1>4

\* Without contradictions, an expression is simplified for modules, too.
LEMMA JoinedKeeps ==
    ASSUME CalcRecurs, YnRecurs, EqRecurs, CommonRecurs, ConstantsApart, PartRecurs, PutRecurs, Dups1Recurs,
           NEW e, IsExpr(e), OnlyJoined(e)
    PROVE  SameValue(EliminateDups(e), e)
<1>1. CASE e.type \notin Lists
  BY <1>1 DEF EliminateDups, SameValue
<1>2. CASE e.type \in Lists
  <2> DEFINE d == Dups1(e.type, DupsOf(e), <<>>, <<>>)
  <2>1. EliminateDups(e) = EliminateYn(d.expr)
    BY <1>2 DEF OnlyJoined
  <2>2. Fork(e.type, DupsOf(e), <<>>, <<>>, <<>>) /\ Outcome(TRUE, e.type, DupsOf(e), <<>>, FirstPass(e))
    BY <1>2, FirstPassIs
  <2>3. d = FirstPass(e)
    <3>1. AfterDups1(e.type, DupsOf(e), <<>>, <<>>, <<>>) = Dups1(e.type, DupsOf(e), <<>> \o <<>>, <<>> \o <<>>)
      BY <1>2, <2>2 DEF Dups1Recurs
    <3>2. <<>> \o <<>> = <<>>
      OBVIOUS
    <3> QED BY <3>1, <3>2 DEF AfterDups1, FirstPass
  <2> HIDE DEF d
  <2>4. Settled(TRUE, e.type, DupsOf(e), <<>>, d)
    BY <2>2, <2>3, OutcomeIs DEF Fork
  <2>5. DupsOf(e).expr = e
    BY DEF DupsOf
  <2>6. IsExpr(d.expr)
    BY <2>4 DEF Settled
  <2>7. Reduces(TRUE, e.type, e, d.expr)
    BY <2>4, <2>5, <2>6, NoStep DEF Settled
  <2>8. SameValue(d.expr, e)
    BY <2>7 DEF Reduces, Same, Counts, SameValue
  <2>9. EliminateYn(d.expr) = expr_eliminate_yn(d.expr)
    BY <2>6 DEF YnRecurs
  <2>10. SameValue(expr_eliminate_yn(d.expr), d.expr)
    BY <2>6, YnSimplifies DEF Simplifies
  <2> QED BY <2>1, <2>8, <2>9, <2>10 DEF SameValue
<1> QED BY <1>1, <1>2

-----------------------------------------------------------------------------
(* Whom expr_simplify_unmet_dep blames.                                    *)

SelectsRecurs == \A e : IsExpr(e) \/ e = Null => (selects(e) <=> Selects(e))
LeftmostRecurs ==
    \A e : IsExpr(e) /\ Selects(e) /\ e.type # "or" => expr_get_leftmost_symbol(e) = LeftmostSymbol(e)
UnmetRecurs ==
    \A a, b : IsExpr(a) /\ Selects(a) /\ (IsExpr(b) \/ b = Null) => expr_simplify_unmet_dep(a, b) = SimplifyUnmetDep(a, b)

\* For the dependency on one selector and its condition.
LEMMA UnmetOfOne ==
    ASSUME CalcRecurs, YnRecurs, EqRecurs, CommonRecurs, ConstantsApart, PartRecurs, PutRecurs, Dups1Recurs,
           ExtractRecurs, TransformRecurs, Dups2Recurs, DupsRecurs, LeftmostRecurs,
           NEW a, IsExpr(a), Selects(a), a.type = "and", NEW b, IsExpr(b), NEW val, IsTwoValued(val),
           expr_calc_value(a, val) = yes, expr_calc_value(b, val) = no
    PROVE  SimplifyUnmetDep(a, b) # Null
<1> DEFINE e == And(a, b)
           f == expr_eliminate_dups(e)
<1>0. a # Null /\ b # Null
  BY ExprIs, Shapes DEF Comparisons, Lists
<1>1. AllocAnd(a, b) = e
  BY <1>0 DEF AllocAnd
<1>2. IsExpr(e) /\ e.type = "and" /\ e.left = a /\ e.right = b
  BY TwoIs, Shapes DEF And, Lists
<1>3. expr_calc_value(e, val) = no
  <2>1. expr_calc_value(e, val) = Joined("and", yes, no)
    BY <1>2, CalcIs DEF Lists
  <2> QED BY <2>1 DEF Joined, Least, yes, no
<1> HIDE DEF e
<1>4. IsExpr(f) /\ expr_calc_value(f, val) = no
  <2>1. IsExpr(f) /\ SameTwoValue(f, e)
    BY <1>2, DupsKeeps
  <2> QED BY <1>3, <2>1 DEF SameTwoValue
<1>5. ~expr_eq(f, a)
  <2>1. expr_eq(f, a) => SameValue(f, a)
    BY <1>4, Equivalence
  <2>2. IsValuation(val)
    BY DEF IsTwoValued
  <2> QED BY <1>4, <2>1, <2>2 DEF SameValue, yes, no
<1>6. SimplifyUnmetDep(a, b) = expr_get_leftmost_symbol(a)
  BY <1>1, <1>5 DEF SimplifyUnmetDep
<1>7. a.left.type = "symbol" /\ a.left.sym \in Vars /\ IsExpr(a.left)
  BY ExprIs DEF Selects, Lists
<1>8. Selects(a.left)
  BY <1>7 DEF Selects
<1>9. expr_get_leftmost_symbol(a) = expr_get_leftmost_symbol(a.left)
  <2>1. expr_get_leftmost_symbol(a) = LeftmostSymbol(a)
    BY DEF LeftmostRecurs
  <2> QED BY <2>1 DEF LeftmostSymbol
<1>10. expr_get_leftmost_symbol(a.left) = a.left
  <2>1. expr_get_leftmost_symbol(a.left) = LeftmostSymbol(a.left)
    BY <1>7, <1>8 DEF LeftmostRecurs
  <2> QED BY <1>7, <2>1 DEF LeftmostSymbol
<1>11. a.left # Null
  BY <1>7, Shapes
<1> QED BY <1>6, <1>9, <1>10, <1>11

\* For any number of selectors and their conditions.
LEMMA UnmetIs ==
    ASSUME CalcRecurs, YnRecurs, EqRecurs, CommonRecurs, ConstantsApart, PartRecurs, PutRecurs, Dups1Recurs,
           ExtractRecurs, TransformRecurs, Dups2Recurs, DupsRecurs, LeftmostRecurs, SelectsRecurs, UnmetRecurs,
           NEW b, IsExpr(b), NEW val, IsTwoValued(val), expr_calc_value(b, val) = no,
           NEW e, IsExpr(e), Selects(e), expr_calc_value(e, val) = yes
    PROVE  SimplifyUnmetDep(e, b) # Null
<1> DEFINE Good(a) == Selects(a) /\ expr_calc_value(a, val) = yes => SimplifyUnmetDep(a, b) # Null
           S == {n \in Nat : \A a : IsExpr(a) /\ Weight(a) = n => Good(a)}
<1>1. ASSUME NEW n \in Nat, \A i \in 0..(n - 1) : i \in S PROVE n \in S
  <2> SUFFICES ASSUME NEW a, IsExpr(a), Weight(a) = n, Selects(a), expr_calc_value(a, val) = yes
               PROVE  SimplifyUnmetDep(a, b) # Null
    OBVIOUS
  <2>1. \A y : IsExpr(y) /\ Weight(y) < n => Good(y)
    BY <1>1, ExprIs
  <2> HIDE DEF S
  <2>2. CASE a.type = "and"
    BY <2>2, UnmetOfOne
  <2>3. CASE a.type = "or"
    <3> DEFINE l == expr_simplify_unmet_dep(a.left, b)
               r == expr_simplify_unmet_dep(a.right, b)
    <3>1. /\ IsExpr(a.left) /\ IsExpr(a.right) /\ Weight(a.left) < n /\ Weight(a.right) < n
      <4>1. a.type \in Lists
        BY <2>3 DEF Lists
      <4>2. /\ IsExpr(a.left) /\ IsExpr(a.right) /\ Weight(a) = Weight(a.left) + Weight(a.right) + 2
        BY <4>1, ExprIs
      <4>3. Weight(a.left) \in Nat /\ Weight(a.right) \in Nat
        BY <4>2, ExprIs
      <4> QED BY <4>2, <4>3
    <3>2. Selects(a.left) /\ Selects(a.right)
      <4>1. selects(a.left) /\ selects(a.right)
        BY <2>3 DEF Selects
      <4> QED BY <3>1, <4>1 DEF SelectsRecurs
    <3>3. l = SimplifyUnmetDep(a.left, b) /\ r = SimplifyUnmetDep(a.right, b)
      BY <3>1, <3>2 DEF UnmetRecurs
    <3>4. expr_calc_value(a.left, val) = yes \/ expr_calc_value(a.right, val) = yes
      <4>1. expr_calc_value(a, val) = Joined("or", expr_calc_value(a.left, val), expr_calc_value(a.right, val))
        BY <2>3, CalcIs DEF Lists
      <4> QED BY <4>1 DEF Joined, Greatest
    <3>5. l # Null \/ r # Null
      BY <2>1, <3>1, <3>2, <3>3, <3>4
    <3>6. SimplifyUnmetDep(a, b) = AllocAnd(l, r)
      BY <2>3 DEF SimplifyUnmetDep
    <3> HIDE DEF l, r
    <3>7. And(l, r) # Null
      BY Shapes DEF And
    <3> QED BY <3>5, <3>6, <3>7 DEF AllocAnd
  <2>4. CASE a.type \notin {"and", "or"}
    <3>1. a.type = "symbol"
      BY <2>4 DEF Selects
    <3>2. expr_get_leftmost_symbol(a) = LeftmostSymbol(a)
      BY <3>1 DEF LeftmostRecurs
    <3>3. expr_get_leftmost_symbol(a) = a
      BY <3>1, <3>2 DEF LeftmostSymbol
    <3>4. SimplifyUnmetDep(a, b) = a
      BY <2>4, <3>3 DEF SimplifyUnmetDep
    <3> QED BY <3>1, <3>4, Shapes
  <2> QED BY <2>2, <2>3, <2>4
<1>2. \A n \in Nat : n \in S
  <2>1. S \in SUBSET Nat
    OBVIOUS
  <2> HIDE DEF S
  <2> QED BY <1>1, <2>1, Induction
<1>3. Weight(e) \in Nat
  BY ExprIs
<1>4. Good(e)
  BY <1>2, <1>3
<1> QED BY <1>4

-----------------------------------------------------------------------------
(* What menu_finalize does with two expressions.                           *)

\* The code calls its own functions, each for all expressions.
Recurs ==
    /\ CalcRecurs /\ ContainsRecurs /\ DependsRecurs
    /\ YnRecurs /\ EqRecurs /\ CommonRecurs /\ ExtractRecurs
    /\ TransformRecurs /\ BoolRecurs /\ CompareRecurs
    /\ PartRecurs /\ PutRecurs /\ Dups1Recurs /\ Dups2Recurs /\ DupsRecurs
    /\ LeftmostRecurs /\ SelectsRecurs /\ UnmetRecurs

\* An entry that depends on nothing has Null.
Dependency(e) == IsExpr(e) \/ e = Null
Parsed == \A e \in Bases \cup Deps : Dependency(e)

\* The valuations of the properties are such valuations.
LEMMA ValuationsAre ==
    /\ \A val \in AllValuations : IsValuation(val)
    /\ \A val \in TwoValued : IsTwoValued(val)
<1>1. ASSUME NEW v \in [Vars -> {no, mod, yes}], \A s \in Vars : v[s] \in Values(s) PROVE IsValuation(Valuation(v))
  <2> DEFINE val == Valuation(v)
             At0(s) == IF s \in Vars THEN v[s] ELSE CASE s = "n" -> no [] s = "m" -> mod [] s = "y" -> yes
  <2>1. \A s \in Syms : val[s] = ValueOf(At0(s))
    BY DEF Valuation, Syms
  <2>2. \A s \in {"n", "m", "y"} : s \notin Vars
    BY ConstantsAssumption
  <2>3. At0("n") = no /\ At0("m") = mod /\ At0("y") = yes
    BY <2>2
  <2>4. ASSUME NEW s \in Syms PROVE At0(s) \in Tristate /\ (SymType[s] = "boolean" => At0(s) # mod)
    <3>1. CASE s \in Vars
      BY <1>1, <3>1 DEF Tristate, Values, no, mod, yes
    <3>2. CASE s \in {"n", "m", "y"}
      BY <2>3, <3>2, ConstantsAssumption DEF Tristate, no, mod, yes
    <3> QED BY <3>1, <3>2 DEF Syms
  <2> HIDE DEF At0, val
  <2>5. \A t \in Tristate : ValueOf(t).tri = t /\ ValueOf(t).str = TriText(t)
    BY DEF Tristate, ValueOf, TriText, no, mod, yes
  <2>6. \A s \in Syms : val[s].tri = At0(s) /\ val[s].str = TriText(At0(s))
    BY <2>1, <2>4, <2>5
  <2>7. IsValuation(val)
    BY <2>3, <2>4, <2>6 DEF IsValuation, Syms
  <2> QED BY <2>7 DEF val
<1>2. ASSUME NEW val \in AllValuations PROVE IsValuation(val)
  BY <1>1 DEF AllValuations
<1>3. ASSUME NEW v \in [Vars -> {no, yes}] PROVE IsTwoValued(Valuation(v))
  <2>1. v \in [Vars -> {no, mod, yes}] /\ \A s \in Vars : v[s] \in Values(s)
    BY DEF Values
  <2>2. IsValuation(Valuation(v))
    BY <1>1, <2>1
  <2>3. ASSUME NEW s \in Operand PROVE Valuation(v)[s].tri # mod
    <3>1. CASE s \in Vars
      <4>1. Valuation(v)[s] = ValueOf(v[s])
        BY <3>1 DEF Valuation
      <4> QED BY <3>1, <4>1 DEF ValueOf, no, mod, yes
    <3>2. CASE s \in {"n", "y"}
      BY <2>2, <3>2 DEF IsValuation, no, mod, yes
    <3> QED BY <3>1, <3>2 DEF Operand, Syms
  <2> QED BY <2>2, <2>3 DEF IsTwoValued
<1>4. ASSUME NEW val \in TwoValued PROVE IsTwoValued(val)
  BY <1>3 DEF TwoValued
<1> QED BY <1>2, <1>4

\* No dependency is no expression, and is met.
LEMMA NullIs ==
    /\ \A val : CalcValue(Null, val) = yes
    /\ Null.type \notin Lists /\ Null.type \notin Comparisons /\ Null.type \notin {"not", "symbol", "and", "or"}
    /\ \A e : IsExpr(e) => e # Null
<1>1. Null.type = "none"
  BY DEF Null
<1>2. \A e : IsExpr(e) => e # Null
  BY <1>1, ExprIs DEF Lists, Comparisons
<1> QED BY <1>1, <1>2 DEF CalcValue, Lists, Comparisons

\* One expression says what another says.
KeepsTwoValue(a, b) == \A val : IsTwoValued(val) => CalcValue(a, val) = CalcValue(b, val)
KeepsValue(a, b) == \A val : IsValuation(val) => CalcValue(a, val) = CalcValue(b, val)

\* The operators of Expr in place of the functions they call.
LEMMA SamesAreKept ==
    ASSUME CalcRecurs, NEW a, IsExpr(a), NEW b, IsExpr(b)
    PROVE  /\ SameTwoValue(a, b) => KeepsTwoValue(a, b)
           /\ SameValue(a, b) => KeepsValue(a, b) /\ KeepsTwoValue(a, b)
BY DEF CalcRecurs, SameTwoValue, SameValue, KeepsTwoValue, KeepsValue, IsTwoValued

\* expr_transform, of a dependency.
LEMMA TransformKeeps ==
    ASSUME Recurs, NEW e, Dependency(e)
    PROVE  Dependency(Transform(e)) /\ KeepsTwoValue(Transform(e), e) /\ KeepsValue(Transform(e), e)
<1>1. CASE e = Null
  <2>1. Transform(e) = Null
    BY <1>1, NullIs DEF Transform
  <2> QED BY <1>1, <2>1 DEF Dependency, KeepsTwoValue, KeepsValue
<1>2. CASE IsExpr(e)
  <2>1. Transform(e) = expr_transform(e)
    BY <1>2 DEF Recurs, TransformRecurs
  <2>2. IsExpr(expr_transform(e)) /\ SameValue(expr_transform(e), e)
    BY <1>2, TransformSimplifies DEF Recurs, Simplifies
  <2> QED BY <1>2, <2>1, <2>2, SamesAreKept DEF Recurs, Dependency
<1> QED BY <1>1, <1>2 DEF Dependency

\* expr_eliminate_dups, of a dependency.
LEMMA DupsKeepMeaning ==
    ASSUME Recurs, NEW e, Dependency(e)
    PROVE  /\ Dependency(EliminateDups(e)) /\ KeepsTwoValue(EliminateDups(e), e)
           /\ OnlyJoined(e) => KeepsValue(EliminateDups(e), e)
<1>1. CASE e = Null
  <2>1. EliminateDups(e) = Null
    BY <1>1, NullIs DEF EliminateDups
  <2> QED BY <1>1, <2>1 DEF Dependency, KeepsTwoValue, KeepsValue
<1>2. CASE IsExpr(e)
  <2>0. ConstantsApart
    BY ConstantsAssumption DEF ConstantsApart
  <2>1. EliminateDups(e) = expr_eliminate_dups(e)
    BY <1>2 DEF Recurs, DupsRecurs
  <2>2. IsExpr(expr_eliminate_dups(e)) /\ SameTwoValue(expr_eliminate_dups(e), e)
    BY <1>2, <2>0, DupsKeeps DEF Recurs
  <2>3. OnlyJoined(e) => SameValue(EliminateDups(e), e)
    BY <1>2, <2>0, JoinedKeeps DEF Recurs
  <2> QED BY <1>2, <2>1, <2>2, <2>3, SamesAreKept DEF Recurs, Dependency
<1> QED BY <1>1, <1>2 DEF Dependency

\* expr_trans_bool, of a dependency.
LEMMA BoolKeeps ==
    ASSUME Recurs, NEW e, Dependency(e)
    PROVE  Dependency(TransBool(e)) /\ KeepsTwoValue(TransBool(e), e)
<1>1. CASE e = Null
  <2>1. TransBool(e) = Null
    BY <1>1, NullIs DEF TransBool, Comparisons
  <2> QED BY <1>1, <2>1 DEF Dependency, KeepsTwoValue
<1>2. CASE IsExpr(e)
  <2>1. TransBool(e) = expr_trans_bool(e)
    BY <1>2 DEF Recurs, BoolRecurs
  <2>2. IsExpr(expr_trans_bool(e)) /\ SameTwoValue(expr_trans_bool(e), e)
    BY <1>2, BoolKeepsTwoValue DEF Recurs
  <2> QED BY <1>2, <2>1, <2>2, SamesAreKept DEF Recurs, Dependency
<1> QED BY <1>1, <1>2 DEF Dependency

\* expr_trans_compare with n, of a dependency.
LEMMA CompareKeeps ==
    ASSUME Recurs, NEW e, Dependency(e)
    PROVE  LET a == TransCompare(e, "unequal", "n")
           IN Dependency(a) /\ KeepsTwoValue(a, e)
<1> DEFINE a == TransCompare(e, "unequal", "n")
<1>1. CASE e = Null
  <2>1. a = Not(Symbol("n"))
    BY <1>1, NullIs DEF TransCompare, Null, Lists, Comparisons
  <2>2. IsExpr(Symbol("n")) /\ Symbol("n").type = "symbol" /\ Symbol("n").sym = "n"
    BY SymbolIs, Shapes DEF Operand, Syms
  <2>3. IsExpr(a) /\ a.type = "not" /\ a.left = Symbol("n")
    BY <2>1, <2>2, NotIs, Shapes
  <2> HIDE DEF a
  <2>4. ASSUME NEW val, IsTwoValued(val) PROVE CalcValue(a, val) = yes
    <3>1. CalcValue(a, val) = expr_calc_value(a, val)
      BY <2>3 DEF Recurs, CalcRecurs
    <3>2. expr_calc_value(a, val) = 2 - expr_calc_value(Symbol("n"), val)
      BY <2>3, CalcIs DEF Recurs
    <3>3. expr_calc_value(Symbol("n"), val) = no
      <4>1. expr_calc_value(Symbol("n"), val) = val["n"].tri
        BY <2>2, CalcIs DEF Recurs
      <4>2. val["n"].tri = no
        BY <2>4 DEF IsTwoValued, IsValuation
      <4> QED BY <4>1, <4>2
    <3> QED BY <3>1, <3>2, <3>3 DEF no, yes
  <2> QED BY <1>1, <2>3, <2>4, NullIs DEF Dependency, KeepsTwoValue, a
<1>2. CASE IsExpr(e)
  <2>0. "unequal" \in Comparisons
    BY DEF Comparisons
  <2>1. a = expr_trans_compare(e, "unequal", "n")
    BY <1>2, <2>0 DEF Recurs, CompareRecurs
  <2>2. CompareMeans(e)
    BY <1>2, CompareKeepsTwoValue DEF Recurs
  <2>3. IsExpr(a) /\ SameTwoValue(a, e)
    BY <2>0, <2>1, <2>2 DEF CompareMeans, SameTwoValue
  <2> HIDE DEF a
  <2> QED BY <1>2, <2>3, SamesAreKept DEF Recurs, Dependency, a
<1> QED BY <1>1, <1>2 DEF Dependency

\* expr_eliminate_eq, of two dependencies.
LEMMA EliminateEqMeans ==
    ASSUME Recurs, NEW a, Dependency(a), NEW b, Dependency(b)
    PROVE  LET p == EliminateEq(a, b)
           IN /\ Dependency(p[1]) /\ Dependency(p[2])
              /\ \A val : IsTwoValued(val) =>
                   (CalcValue(p[1], val) <= CalcValue(p[2], val) => CalcValue(a, val) <= CalcValue(b, val))
<1> DEFINE p == EliminateEq(a, b)
<1>1. CASE Null \in {a, b}
  <2>1. p = <<a, b>>
    BY <1>1 DEF EliminateEq
  <2> QED BY <2>1
<1>2. CASE Null \notin {a, b}
  <2>1. IsExpr(a) /\ IsExpr(b)
    BY <1>2 DEF Dependency
  <2>2. IsExpr(p[1]) /\ IsExpr(p[2]) /\ Reflects(p, a, b)
    BY <2>1, EliminateEqKeeps DEF Recurs
  <2> HIDE DEF p
  <2>3. \A val : /\ CalcValue(a, val) = expr_calc_value(a, val) /\ CalcValue(b, val) = expr_calc_value(b, val)
                 /\ CalcValue(p[1], val) = expr_calc_value(p[1], val)
                 /\ CalcValue(p[2], val) = expr_calc_value(p[2], val)
    BY <2>1, <2>2 DEF Recurs, CalcRecurs
  <2>4. ASSUME NEW val, IsTwoValued(val), CalcValue(p[1], val) <= CalcValue(p[2], val)
        PROVE  CalcValue(a, val) <= CalcValue(b, val)
    <3>1. IsValuation(val)
      BY <2>4 DEF IsTwoValued
    <3>2. expr_calc_value(p[1], val) <= expr_calc_value(p[2], val)
      BY <2>3, <2>4
    <3>3. expr_calc_value(a, val) <= expr_calc_value(b, val)
      BY <2>2, <3>1, <3>2 DEF Reflects
    <3> QED BY <2>3, <3>3
  <2>5. Dependency(p[1]) /\ Dependency(p[2])
    BY <2>2 DEF Dependency
  <2> QED BY <2>4, <2>5 DEF p
<1> QED BY <1>1, <1>2

-----------------------------------------------------------------------------
(* The invariant.                                                          *)

\* The expressions are dependencies that say what the first ones said; in the
\* end, what is left of the entry implies what is left of the menu only if
\* the entry implied the menu.
RewriteInv ==
    /\ Dependency(dep) /\ Dependency(base) /\ Dependency(dep0) /\ Dependency(base0)
    /\ phase = "rewrite" =>
         /\ KeepsTwoValue(dep, dep0) /\ KeepsTwoValue(base, base0)
         /\ exact => KeepsValue(dep, dep0)
    /\ phase = "eliminated" => \A val : IsTwoValued(val) =>
         (CalcValue(dep, val) <= CalcValue(base, val) => CalcValue(dep0, val) <= CalcValue(base0, val))

\* The invariant holds of the expressions that were read.
LEMMA InitRewriteInv ==
    ASSUME Parsed, Init
    PROVE  RewriteInv
BY DEF Parsed, Init, RewriteInv, KeepsTwoValue, KeepsValue

\* A step that keeps the meaning keeps the invariant.
LEMMA RewriteKeepsInv ==
    ASSUME RewriteInv, NEW b, NEW d, NEW isExact, Rewrite(b, d, isExact),
           Dependency(b), Dependency(d), KeepsTwoValue(b, base), KeepsTwoValue(d, dep),
           isExact => KeepsValue(d, dep)
    PROVE  RewriteInv'
<1>1. /\ base' = b /\ dep' = d /\ base0' = base0 /\ dep0' = dep0 /\ phase' = phase /\ phase = "rewrite"
      /\ exact' = (exact /\ isExact)
  BY DEF Rewrite
<1>2. (Dependency(dep) /\ Dependency(base) /\ Dependency(dep0) /\ Dependency(base0))'
  BY <1>1 DEF RewriteInv, Dependency
<1>3. KeepsTwoValue(d, dep0) /\ KeepsTwoValue(b, base0)
  BY <1>1 DEF RewriteInv, KeepsTwoValue
<1>4. exact /\ isExact => KeepsValue(d, dep0)
  BY <1>1 DEF RewriteInv, KeepsValue
<1>5. (phase = "rewrite" => KeepsTwoValue(dep, dep0) /\ KeepsTwoValue(base, base0) /\ (exact => KeepsValue(dep, dep0)))'
  BY <1>1, <1>3, <1>4 DEF KeepsTwoValue, KeepsValue
<1>6. phase' # "eliminated"
  BY <1>1
<1> QED BY <1>2, <1>5, <1>6 DEF RewriteInv

\* Every step keeps the invariant.
LEMMA NextRewriteInv ==
    ASSUME Recurs, RewriteInv, [Next]_vars
    PROVE  RewriteInv'
<1>0. Dependency(dep) /\ Dependency(base)
  BY DEF RewriteInv
<1>1. KeepsTwoValue(dep, dep) /\ KeepsTwoValue(base, base) /\ KeepsValue(dep, dep)
  BY DEF KeepsTwoValue, KeepsValue
<1>2. CASE TransformDep
  BY <1>0, <1>1, <1>2, TransformKeeps, RewriteKeepsInv DEF TransformDep
<1>3. CASE TransformBase
  BY <1>0, <1>1, <1>3, TransformKeeps, RewriteKeepsInv DEF TransformBase
<1>4. CASE EliminateDupsDep
  BY <1>0, <1>1, <1>4, DupsKeepMeaning, RewriteKeepsInv DEF EliminateDupsDep
<1>5. CASE TransBoolDep
  BY <1>0, <1>1, <1>5, BoolKeeps, RewriteKeepsInv DEF TransBoolDep
<1>6. CASE CompareDep
  BY <1>0, <1>1, <1>6, CompareKeeps, RewriteKeepsInv DEF CompareDep
<1>7. CASE CompareBase
  BY <1>0, <1>1, <1>7, CompareKeeps, RewriteKeepsInv DEF CompareBase
<1>8. CASE EliminateEqDep
  <2> DEFINE p == EliminateEq(dep, base)
  <2>1. /\ dep' = p[1] /\ base' = p[2] /\ base0' = base0 /\ dep0' = dep0
        /\ phase = "rewrite" /\ phase' = "eliminated"
    BY <1>8 DEF EliminateEqDep
  <2>2. /\ Dependency(p[1]) /\ Dependency(p[2])
        /\ \A val : IsTwoValued(val) =>
             (CalcValue(p[1], val) <= CalcValue(p[2], val) => CalcValue(dep, val) <= CalcValue(base, val))
    BY <1>0, EliminateEqMeans
  <2> HIDE DEF p
  <2>3. (Dependency(dep) /\ Dependency(base) /\ Dependency(dep0) /\ Dependency(base0))'
    BY <2>1, <2>2 DEF RewriteInv, Dependency
  <2>4. \A val : IsTwoValued(val) => CalcValue(dep, val) = CalcValue(dep0, val) /\ CalcValue(base, val) = CalcValue(base0, val)
    BY <2>1 DEF RewriteInv, KeepsTwoValue
  <2>5. \A val : IsTwoValued(val) =>
          (CalcValue(p[1], val) <= CalcValue(p[2], val) => CalcValue(dep0, val) <= CalcValue(base0, val))
    BY <2>2, <2>4
  <2>6. (\A val : IsTwoValued(val) =>
          (CalcValue(dep, val) <= CalcValue(base, val) => CalcValue(dep0, val) <= CalcValue(base0, val)))'
    BY <2>1, <2>5
  <2> QED BY <2>1, <2>3, <2>6 DEF RewriteInv
<1>9. CASE UNCHANGED vars
  BY <1>9 DEF vars, RewriteInv, Dependency, KeepsTwoValue, KeepsValue
<1> QED BY <1>2, <1>3, <1>4, <1>5, <1>6, <1>7, <1>8, <1>9 DEF Next

\* The expressions stay dependencies and say what they said.
THEOREM Rewriting ==
    ASSUME Recurs, Parsed
    PROVE  Spec => []RewriteInv
<1>1. Init => RewriteInv
  BY InitRewriteInv
<1>2. RewriteInv /\ [Next]_vars => RewriteInv'
  BY NextRewriteInv
<1> QED BY <1>1, <1>2, PTL DEF Spec

\* No simplification changes whether something is on, and none that is not
\* meant for y and n only changes a module, for every dependency and menu (expr.c 306-772).
THEOREM MeaningIsKept ==
    ASSUME Recurs, Parsed
    PROVE  Spec => []MeaningKept
<1>1. RewriteInv => MeaningKept
  BY ValuationsAre DEF RewriteInv, MeaningKept, KeepsTwoValue, KeepsValue
<1> QED BY <1>1, Rewriting, PTL

\* What expr_depends_symbol and expr_contains_symbol say of a dependency.
LEMMA OffIs ==
    ASSUME Recurs, NEW e, Dependency(e), NEW s \in Vars, NEW val \in AllValuations
    PROVE  /\ DependsSymbol(e, s) => Off(e, s, val) = no
           /\ ~ContainsSymbol(e, s) => Off(e, s, val) = CalcValue(e, val)
<1> DEFINE other == [val EXCEPT ![s] = ValueOf(no)]
<1>1. CASE e = Null
  <2>1. ~DependsSymbol(e, s)
    BY <1>1 DEF DependsSymbol, Null
  <2>2. Off(e, s, val) = CalcValue(e, val)
    BY <1>1, NullIs DEF Off
  <2> QED BY <2>1, <2>2
<1>2. CASE IsExpr(e)
  <2>1. s \in Syms /\ s \notin {"n", "m", "y"}
    BY ConstantsAssumption DEF Syms
  <2>2. IsValuation(val) /\ DOMAIN val = Syms
    <3>1. DOMAIN val = Syms
      BY DEF AllValuations, Valuation, Syms
    <3> QED BY <3>1, ValuationsAre
  <2>3. other[s] = ValueOf(no) /\ \A t \in Syms \ {s} : other[t] = val[t]
    BY <2>1, <2>2
  <2>4. ValueOf(no).tri = no /\ ValueOf(no).str = TriText(no) /\ no \in Tristate /\ no # mod
    BY DEF ValueOf, TriText, Tristate, no, mod, yes
  <2> HIDE DEF other
  <2>5. IsValuation(other) /\ other[s].tri = no
    BY <2>1, <2>2, <2>3, <2>4 DEF IsValuation, Syms
  <2>6. CalcValue(e, other) = expr_calc_value(e, other) /\ CalcValue(e, val) = expr_calc_value(e, val)
    BY <1>2 DEF Recurs, CalcRecurs
  <2>7. DependsSymbol(e, s) => expr_calc_value(e, other) = no
    <3>1. DependsSymbol(e, s) => expr_depends_symbol(e, s)
      BY <1>2 DEF Recurs, DependsRecurs
    <3> QED BY <1>2, <2>1, <2>5, <3>1, DependsIsOff DEF Recurs
  <2>8. ~ContainsSymbol(e, s) => expr_calc_value(e, other) = expr_calc_value(e, val)
    <3>1. ~ContainsSymbol(e, s) => ~expr_contains_symbol(e, s)
      BY <1>2 DEF Recurs, ContainsRecurs
    <3> QED BY <1>2, <2>1, <2>3, <3>1, OthersDecide DEF Recurs
  <2> QED BY <2>6, <2>7, <2>8 DEF Off, other
<1> QED BY <1>1, <1>2 DEF Dependency

\* What menu_finalize puts below a menu is off whenever the menu is (menu.c 340-354).
THEOREM BelowMenuDependsOnIt ==
    ASSUME Recurs, Parsed
    PROVE  Spec => []BelowMeansDepends
<1>1. RewriteInv => BelowMeansDepends
  <2> SUFFICES ASSUME RewriteInv PROVE BelowMeansDepends
    OBVIOUS
  <2>1. \A s \in Vars, v \in AllValuations :
          /\ DependsSymbol(dep, s) => Off(dep, s, v) = no
          /\ ~ContainsSymbol(dep, s) => Off(dep, s, v) = CalcValue(dep, v)
    BY OffIs DEF RewriteInv
  <2>2. ASSUME phase = "eliminated", IsYes(base), NEW v \in TwoValued
        PROVE  CalcValue(dep0, v) <= CalcValue(base0, v)
    <3>1. IsTwoValued(v) /\ IsValuation(v)
      BY ValuationsAre DEF IsTwoValued
    <3>2. CalcValue(base, v) = yes
      <4>1. CASE base = Null
        BY <4>1, NullIs
      <4>2. CASE base = Symbol("y")
        <5>1. IsExpr(base) /\ base.type = "symbol" /\ base.sym = "y"
          BY <4>2, SymbolIs, Shapes DEF Operand, Syms
        <5>2. CalcValue(base, v) = v["y"].tri
          BY <5>1, CalcIs DEF Recurs, CalcRecurs
        <5> QED BY <3>1, <5>2 DEF IsValuation
      <4> QED BY <2>2, <4>1, <4>2 DEF IsYes
    <3>3. CalcValue(dep, v) \in Tristate
      <4>1. CASE dep = Null
        BY <4>1, NullIs DEF Tristate
      <4>2. CASE IsExpr(dep)
        BY <3>1, <4>2, CalcTristate DEF Recurs, CalcRecurs
      <4> QED BY <4>1, <4>2 DEF RewriteInv, Dependency
    <3>4. CalcValue(dep, v) <= CalcValue(base, v)
      BY <3>2, <3>3 DEF Tristate, no, mod, yes
    <3> QED BY <2>2, <3>1, <3>4 DEF RewriteInv
  <2> QED BY <2>1, <2>2 DEF BelowMeansDepends
<1> QED BY <1>1, Rewriting, PTL

\* A symbol is blamed whenever something is selected without what it depends on
\* (expr_simplify_unmet_dep).
THEOREM SelectorIsBlamed ==
    ASSUME Recurs, Parsed
    PROVE  Spec => []UnmetIsBlamed
<1>1. RewriteInv => UnmetIsBlamed
  <2> SUFFICES ASSUME RewriteInv, selects(dep), NEW v \in TwoValued,
                      CalcValue(dep, v) = yes, CalcValue(base, v) = no, phase = "rewrite"
               PROVE  SimplifyUnmetDep(dep, base) # Null
    BY DEF UnmetIsBlamed
  <2>1. IsTwoValued(v)
    BY ValuationsAre
  <2>2. base # Null
    BY NullIs DEF no, yes
  <2>3. IsExpr(base)
    BY <2>2 DEF RewriteInv, Dependency
  <2>4. CASE IsExpr(dep)
    <3>1. Selects(dep)
      BY <2>4 DEF Recurs, SelectsRecurs
    <3>2. expr_calc_value(dep, v) = yes /\ expr_calc_value(base, v) = no
      BY <2>3, <2>4 DEF Recurs, CalcRecurs
    <3>3. ConstantsApart
      BY ConstantsAssumption DEF ConstantsApart
    <3> QED BY <2>1, <2>3, <2>4, <3>1, <3>2, <3>3, UnmetIs DEF Recurs
  <2>5. CASE dep = Null
    <3>1. ~Selects(dep)
      BY <2>5 DEF Selects, Null
    <3>2. Selects(dep)
      BY <2>5 DEF Recurs, SelectsRecurs
    <3> QED BY <3>1, <3>2
  <2> QED BY <2>4, <2>5 DEF RewriteInv, Dependency
<1> QED BY <1>1, Rewriting, PTL

=============================================================================
