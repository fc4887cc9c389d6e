-------------------------------- MODULE MCExpr --------------------------------
(***************************************************************************)
(* The functions of ExprProto are the operators of Expr.  Each is a LET    *)
(* because TLC, where it counts how often an expression is evaluated,      *)
(* looks for calls in what a constant is assigned to, but not in a LET:    *)
(* it would follow a function that calls itself without end.               *)
(***************************************************************************)
EXTENDS Expr

MCCalcValue(e, val) == LET result == CalcValue(e, val) IN result
MCContainsSymbol(e, s) == LET result == ContainsSymbol(e, s) IN result
MCDependsSymbol(e, s) == LET result == DependsSymbol(e, s) IN result
MCEliminateYn(e) == LET result == EliminateYn(e) IN result
MCEq(e1, e2) == LET result == Eq(e1, e2) IN result
MCEliminateCommon(type, e1, e2) == LET result == EliminateCommon(type, e1, e2) IN result
MCExtractCommon(type, e, e1, e2) == LET result == ExtractCommon(type, e, e1, e2) IN result
MCTransform(e) == LET result == Transform(e) IN result
MCTransBool(e) == LET result == TransBool(e) IN result
MCTransCompare(e, type, s) == LET result == TransCompare(e, type, s) IN result
MCAt(e, p) == LET result == At(e, p) IN result
MCPut(e, p, x) == LET result == Put(e, p, x) IN result
MCDups1(type, d, p1, p2) == LET result == Dups1(type, d, p1, p2) IN result
MCDups2(type, d, p1, p2) == LET result == Dups2(type, d, p1, p2) IN result
MCEliminateDups(e) == LET result == EliminateDups(e) IN result
MCLeftmostSymbol(e) == LET result == LeftmostSymbol(e) IN result
MCSimplifyUnmetDep(e1, e2) == LET result == SimplifyUnmetDep(e1, e2) IN result
MCPrinted(e, outer) == LET result == Printed(e, outer) IN result

=============================================================================
