------------------------------ MODULE ExprData ------------------------------
(***************************************************************************)
(* The nodes of dependency expressions and the three values they have      *)
(* (support/kconfig/expr.h and the allocation functions of expr.c).        *)
(***************************************************************************)
EXTENDS Integers, Sequences

no == 0
mod == 1
yes == 2

Null == [type |-> "none"]
Symbol(s) == [type |-> "symbol", sym |-> s]
Not(e) == [type |-> "not", left |-> e]
Two(type, e1, e2) == [type |-> type, left |-> e1, right |-> e2]
Comp(type, s1, s2) == [type |-> type, lsym |-> s1, rsym |-> s2]
And(e1, e2) == Two("and", e1, e2)
Or(e1, e2) == Two("or", e1, e2)

Lists == {"and", "or"}
Comparisons == {"equal", "unequal"}

\* The element that leaves a conjunction (disjunction) as it is.
Unit(type) == Symbol(IF type = "and" THEN "y" ELSE "n")
Dual(type) == IF type = "and" THEN "or" ELSE "and"
IsYes(e) == e \in {Null, Symbol("y")}

AllocAnd(e1, e2) ==
    IF e1 = Null THEN e2 ELSE IF e2 = Null THEN e1 ELSE And(e1, e2)

AllocOr(e1, e2) ==
    IF e1 = Null THEN e2 ELSE IF e2 = Null THEN e1 ELSE Or(e1, e2)

Least(a, b) == IF a < b THEN a ELSE b
Greatest(a, b) == IF a > b THEN a ELSE b
Truth(b) == IF b THEN yes ELSE no

=============================================================================
