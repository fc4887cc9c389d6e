------------------------------ MODULE ExprProto ------------------------------
(***************************************************************************)
(* The functions on dependency expressions that call themselves or each    *)
(* other (support/kconfig/expr.c), by the names they have in the code.     *)
(* Expr defines what each does and calls these where the code calls them:  *)
(* for model checking each one is assigned its definition of Expr, and the *)
(* proofs assume that it is that definition, for every expression.         *)
(***************************************************************************)
EXTENDS ExprData

CONSTANTS
    expr_calc_value(_, _),
    expr_contains_symbol(_, _),
    expr_depends_symbol(_, _),
    expr_eliminate_yn(_),
    expr_eq(_, _),
    eliminate_eq(_, _, _),          \* __expr_eliminate_eq
    expr_extract_eq(_, _, _, _),
    expr_transform(_),
    expr_trans_bool(_),
    expr_trans_compare(_, _, _),
    part(_, _),                     \* what is reached by a path of pointers,
    with_part(_, _, _),             \* and the expression with another there
    expr_eliminate_dups1(_, _, _, _),
    expr_eliminate_dups2(_, _, _, _),
    expr_eliminate_dups(_),
    expr_get_leftmost_symbol(_),
    expr_simplify_unmet_dep(_, _),
    expr_print(_, _)

=============================================================================
