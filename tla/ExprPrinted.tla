---------------------------- MODULE ExprPrinted ----------------------------
(***************************************************************************)
(* What is written of an expression (expr_print, support/kconfig/expr.c),  *)
(* read again by the grammar of the configuration language.                *)
(***************************************************************************)
EXTENDS ExprRewrite

-----------------------------------------------------------------------------
(* The grammar of zconf.y, as a value of a sequence of tokens.             *)

Depth(ts, i) ==
    Cardinality({j \in 1..i : ts[j] = "("}) - Cardinality({j \in 1..(i - 1) : ts[j] = ")"})

RECURSIVE TokensValue(_, _)
TokensValue(ts, val) ==
    LET Split(op) == {i \in 1..Len(ts) : ts[i] = op /\ Depth(ts, i) = 0}
        At1(op) == CHOOSE i \in Split(op) : TRUE
        Before(op) == TokensValue(SubSeq(ts, 1, At1(op) - 1), val)
        After(op) == TokensValue(SubSeq(ts, At1(op) + 1, Len(ts)), val)
    IN CASE Split("||") # {} -> Greatest(Before("||"), After("||"))
         [] Split("||") = {} /\ Split("&&") # {} -> Least(Before("&&"), After("&&"))
         [] Split("||") = {} /\ Split("&&") = {} ->
              CASE ts[1] = "!"  -> 2 - TokensValue(Tail(ts), val)
                [] ts[1] = "("  -> TokensValue(SubSeq(ts, 2, Len(ts) - 1), val)
                [] Len(ts) = 1  -> val[ts[1]].tri
                [] Len(ts) = 3  -> Truth((val[ts[1]].str = val[ts[3]].str) = (ts[2] = "="))

-----------------------------------------------------------------------------
(* Properties *)

\* What expr_print writes has, by the grammar of zconf.y, the value of what
\* it printed, however few parentheses it uses.
PrintedReadsBack ==
    \A v \in AllValuations :
      TokensValue(Printed(dep, "none"), v) = CalcValue(dep, v)

=============================================================================
