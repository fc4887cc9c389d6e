------------------------------ MODULE DepCheck ------------------------------
(***************************************************************************)
(* The search for recursive dependencies at the end of conf_parse          *)
(* (support/kconfig/symbol.c, sym_check_deps): a depth-first search that   *)
(* prints the cycle it meets and unwinds to the symbol where that began.   *)
(*                                                                         *)
(* c is what the search has done: check and checked are the symbols with   *)
(* SYMBOL_CHECK and SYMBOL_CHECKED, reports the cycles it has printed, and *)
(* found the symbol the search is unwinding to.  stack is check_top.       *)
(***************************************************************************)
EXTENDS Menu

RECURSIVE CheckDeps(_, _, _, _)

\* sym_check_print_recursive: the part of the stack from the last entry of
\* the symbol on, or nothing but an error if it is not there.
Report(k, stack, s) ==
    LET last == IF IsChoiceValue(k, s) THEN ChoiceOf(k, s) ELSE s
        full == IF IsChoiceValue(k, s) THEN Append(stack, s) ELSE stack
        from == {i \in 1..Len(full) : full[i] = last}
    IN IF from = {} THEN <<>>
       ELSE SubSeq(full, CHOOSE i \in from : \A j \in from : j <= i, Len(full))

\* sym_check_expr_deps: the symbols of an expression, until one is found.
RECURSIVE CheckExpr(_, _, _, _)
UnlessFound(c, Next2(_)) == IF c.found # NoSym THEN c ELSE Next2(c)
CheckExpr(k, c, e, stack) ==
    CASE e.type = "none"      -> c
      [] e.type = "symbol"    -> CheckDeps(k, c, e.sym, stack)
      [] e.type = "not"       -> CheckExpr(k, c, e.left, stack)
      [] e.type \in Lists     ->
           UnlessFound(CheckExpr(k, c, e.left, stack), LAMBDA d : CheckExpr(k, d, e.right, stack))
      [] e.type \in Comparisons ->
           UnlessFound(CheckDeps(k, c, e.lsym, stack), LAMBDA d : CheckDeps(k, d, e.rsym, stack))

\* The expressions that the value of s depends on, in the order they are
\* looked at: who selects it, and the conditions and defaults.
DependsOnExprs(k, s) ==
    LET Of(q) == CASE k.prop[q].type \in {"choice", "select"} -> <<>>
                   [] k.prop[q].type = "default" /\ ~IsChoice(k, s) -> <<k.prop[q].visible, k.prop[q].expr>>
                   [] OTHER -> <<k.prop[q].visible>>
    IN FoldLeft(LAMBDA seq, q : seq \o Of(q), <<k.rev[s]>>, k.props[s])

\* sym_check_sym_deps
CheckSymDeps(k, c, s, stack) ==
    FoldLeft(LAMBDA a, e : UnlessFound(a, LAMBDA d : CheckExpr(k, d, e, Append(stack, s))),
             c, DependsOnExprs(k, s))

\* sym_check_choice_deps.  While the choice is searched its values count as
\* being searched too, and while a value is, all the others.
Begin(c, S) == [c EXCEPT !.check = @ \cup S, !.checked = @ \cup S]
Finish(c, S) == [c EXCEPT !.check = @ \ S]
CheckChoiceDeps(k, c, s, stack) ==
    LET group == ToSet(ChoiceValues(k, s))
        ForGroup(d) == [Finish(d, group) EXCEPT !.found = IF @ \in group THEN s ELSE @]
    IN ForGroup(FoldLeft(
         LAMBDA a, v : UnlessFound(a, LAMBDA d : CheckSymDeps(k, d, v, Append(stack, s))),
         Finish(CheckSymDeps(k, Begin(c, group \cup {s}), s, Append(stack, s)), {s}),
         ChoiceValues(k, s)))

\* sym_check_deps of a symbol that has not been looked at.
CheckNew(k, c, s, stack) ==
    CASE IsChoiceValue(k, s) -> CheckDeps(k, c, ChoiceOf(k, s), Append(stack, s))
      [] IsChoice(k, s)      -> CheckChoiceDeps(k, c, s, stack)
      [] OTHER               -> Finish(CheckSymDeps(k, Begin(c, {s}), s, stack), {s})
Unwound(c, s) == IF c.found = s THEN [c EXCEPT !.found = NoSym] ELSE c

\* Mutant: what has been looked at once is not looked at again, even if it
\* is being looked at.
CheckDepsOnce(k, c, s, stack) ==
    IF s \notin Names \/ s \in c.checked THEN c ELSE Unwound(CheckNew(k, c, s, stack), s)

CheckDeps(k, c, s, stack) ==
    CASE s \notin Names -> c
      [] s \in Names /\ s \in c.check -> [c EXCEPT !.reports = @ \cup {Report(k, stack, s)}, !.found = s]
      [] s \in Names /\ s \notin c.check /\ s \in c.checked -> c
      [] OTHER -> Unwound(CheckNew(k, c, s, stack), s)

\* conf_parse, for all symbols.
CheckAll(k) ==
    FoldLeft(LAMBDA c, s : CheckDeps(k, c, s, <<>>),
             [check |-> {}, checked |-> {}, reports |-> {}, found |-> NoSym], SymbolHash)

-----------------------------------------------------------------------------
(* What there is to be found.                                              *)

RECURSIVE SymbolsIn(_)
SymbolsIn(e) ==
    CASE e.type = "none"   -> {}
      [] e.type = "symbol" -> {e.sym}
      [] e.type = "not"    -> SymbolsIn(e.left)
      [] e.type \in Lists  -> SymbolsIn(e.left) \cup SymbolsIn(e.right)
      [] OTHER             -> {e.lsym, e.rsym}

\* The symbols that s depends on, and of a choice its values; that a value
\* depends on its choice is no cycle.
Needs(k, s) ==
    (UNION {SymbolsIn(e) : e \in ToSet(DependsOnExprs(k, s))} \cap Names)
        \ (IF IsChoiceValue(k, s) THEN {ChoiceOf(k, s)} ELSE {})

\* Symbols are the same node if they belong to one choice.
Node(k, s) == IF IsChoiceValue(k, s) THEN ChoiceOf(k, s) ELSE s
Edges(k) == {<<Node(k, s), Node(k, t)>> : <<s, t>> \in {p \in Names \X Names : p[2] \in Needs(k, p[1])}}

RECURSIVE Closure(_)
Closure(R) ==
    LET next == R \cup {<<p[1], q[2]>> : <<p, q>> \in {x \in R \X R : x[1][2] = x[2][1]}}
    IN IF next = R THEN R ELSE Closure(next)

IsCyclic(k) == \E s \in Names : <<s, s>> \in Closure(Edges(k))

\* Each symbol of a report depends on the next, and the last on the first.
IsCycle(k, report) ==
    /\ report # <<>>
    /\ \A i \in 1..Len(report) :
         LET next == report[(i % Len(report)) + 1]
         IN <<Node(k, report[i]), Node(k, next)>> \in Edges(k) \/ Node(k, report[i]) = Node(k, next)

=============================================================================
