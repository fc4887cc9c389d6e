------------------------------- MODULE Symbols -------------------------------
(***************************************************************************)
(* The values of the symbols of the configuration system                   *)
(* (support/kconfig/symbol.c, with menu_is_visible of menu.c and           *)
(* set_all_choice_values of confdata.c).                                   *)
(*                                                                         *)
(* st is the memory of a program that has read the Kconfig files:          *)
(*   k                 what it has read, as in Menu                        *)
(*   user[s], auto[s]  def[S_DEF_USER] and def[S_DEF_AUTO]                  *)
(*   curr[s]           the value calculated last                           *)
(*   visible, dir, rev the tristates calculated with it                    *)
(*   prompt[q]         that of the visibility of prompt q                  *)
(*   flags[s]          of VALID, WRITE, USER, AUTO, NEED                    *)
(* A value is a tristate, a text and, of a choice, the selected symbol.    *)
(* Every operator that calculates something returns the new memory.        *)
(***************************************************************************)
EXTENDS Menu

CONSTANT Text   \* Text[c]: the characters of the constant symbol c

-----------------------------------------------------------------------------
(* Texts and numbers *)

AllDigits(str, base) == str # <<>> /\ \A i \in 1..Len(str) : IsDigit(str[i], base)

RECURSIVE Numeral(_, _)
Numeral(n, base) ==
    IF n < base THEN <<Digits[n + 1]>>
    ELSE Append(Numeral(n \div base, base), Digits[(n % base) + 1])

\* %lld and 0x%llx
Formatted(n, type) ==
    CASE type = "hex" -> <<"0", "x">> \o Numeral(n, 16)
      [] type # "hex" /\ n < 0 -> <<"-">> \o Numeral(-n, 10)
      [] OTHER -> Numeral(n, 10)

Upper == [c \in {"Y", "M", "N"} |-> CASE c = "Y" -> yes [] c = "M" -> mod [] c = "N" -> no]
Lower == [c \in {"y", "m", "n"} |-> CASE c = "y" -> yes [] c = "m" -> mod [] c = "n" -> no]
TristateOf(str) ==
    IF str = <<>> THEN -1
    ELSE CASE Head(str) \in DOMAIN Lower -> Lower[Head(str)]
           [] Head(str) \in DOMAIN Upper -> Upper[Head(str)]
           [] OTHER -> -1
TextOf(tri) == <<IF tri = no THEN "n" ELSE IF tri = mod THEN "m" ELSE "y">>

\* sym_string_valid
StringValid(type, str) ==
    CASE type = "string" -> TRUE
      [] type = "int" ->
           LET body == Without(str, <<"-">>)
           IN AllDigits(body, 10) /\ (Head(body) = "0" => Len(body) = 1)
      [] type = "hex"  -> AllDigits(Without(str, <<"0", "x">>), 16)
      [] type \in Logic -> TristateOf(str) # -1
      [] OTHER -> FALSE

-----------------------------------------------------------------------------
(* Values *)

StringValue(st, s) ==
    IF TypeOf(st, s) \in Logic
    THEN TextOf(IF st.curr[s].tri = mod /\ st.modules = no THEN no ELSE st.curr[s].tri)
    ELSE st.curr[s].val

\* What expr_calc_value reads of the symbols; a constant is its own text.
Reading(st, s) ==
    IF s \in Names THEN [tri |-> st.curr[s].tri, str |-> StringValue(st, s)]
    ELSE [tri |-> IF s \in DOMAIN Lower THEN Lower[s] ELSE no, str |-> Text[s]]
Readings(st) == [s \in Names \cup DOMAIN Text |-> Reading(st, s)]

RECURSIVE SymbolsOf(_)
SymbolsOf(e) ==
    CASE e.type = "none"   -> <<>>
      [] e.type = "symbol" -> <<e.sym>>
      [] e.type = "not"    -> SymbolsOf(e.left)
      [] e.type \in Lists  -> SymbolsOf(e.left) \o SymbolsOf(e.right)
      [] OTHER             -> <<e.lsym, e.rsym>>

RECURSIVE Calc(_, _)

\* expr_calc_value: the symbols of the expression are calculated first.
EvalIn(st, e) == [st |-> st, tri |-> CalcValue(e, Readings(st))]
Eval(st, e) == EvalIn(FoldLeft(Calc, st, SymbolsOf(e)), e)

\* sym_get_default_prop, sym_get_range_prop: the first that is visible, or 0.
NoProp(st) == [st |-> st, prop |-> 0, tri |-> no]
RECURSIVE FirstVisible(_, _)
ThisOrLater(v, props) ==
    IF v.tri # no THEN [st |-> v.st, prop |-> Head(props), tri |-> v.tri]
    ELSE FirstVisible(v.st, Tail(props))
FirstVisible(st, props) ==
    IF props = <<>> THEN NoProp(st)
    ELSE ThisOrLater(Eval(st, Prop(st, Head(props)).visible), props)
DefaultProp(st, s) == FirstVisible(st, Props(st, s, {"default"}))
RangeProp(st, s) == FirstVisible(st, Props(st, s, {"range"}))

PutVisible(p, s) ==
    LET toYes == p.tri = mod /\ (TypeOf(p.st, s) # "tristate" \/ p.st.modules = no)
    IN [p.st EXCEPT !.visible[s] = IF toYes THEN yes ELSE p.tri]
PutDir(d, s) == [d.st EXCEPT !.dir[s] = IF d.tri = mod THEN yes ELSE d.tri]
PutRev(r, s) ==
    [r.st EXCEPT !.rev[s] = IF r.tri = mod /\ GetType(r.st, s) = "boolean" THEN yes ELSE r.tri]

\* sym_calc_visibility.  Of a value of a choice the prompts alone count.
CalcPrompts(st, s) ==
    LET Better(p, q, v) == [st |-> [v.st EXCEPT !.prompt[q] = v.tri], tri |-> Greatest(p.tri, v.tri)]
    IN PutVisible(FoldLeft(LAMBDA p, q : Better(p, q, Eval(p.st, Prop(st, q).visible)),
                           [st |-> st, tri |-> no], Props(st, s, WithText)), s)
CalcDir(st, s) == PutDir(Eval(st, K(st).dir[s]), s)
CalcRev(st, s) == PutRev(IF K(st).rev[s] = Null THEN [st |-> st, tri |-> no] ELSE Eval(st, K(st).rev[s]), s)
CalcDeps(st, s) == IF Value(st, s) THEN st ELSE CalcRev(CalcDir(st, s), s)
CalcVisibility(st, s) == CalcDeps(CalcPrompts(st, s), s)

\* sym_choice_default: the first default that is visible, or the first value.
ChoiceDefault(st, s) ==
    LET Take(v, d) == [st |-> v.st, sel |-> IF v.tri # no /\ v.st.visible[d] # no THEN d ELSE NoSym]
        seen == SelectSeq(Members(st, s), LAMBDA v : st.visible[v] # no)
        OrFirst(a) == IF a.sel # NoSym \/ seen = <<>> THEN a ELSE [a EXCEPT !.sel = seen[1]]
    IN OrFirst(FoldLeft(LAMBDA a, q : IF a.sel # NoSym THEN a
                                      ELSE Take(Eval(a.st, Prop(st, q).visible), Prop(st, q).expr.sym),
                        [st |-> st, sel |-> NoSym], Props(st, s, {"default"})))

\* A choice with a visible value that has no value from the user is new again.
NewAgain(st, s) ==
    LET isNew(v) == st.visible[v] # no /\ ~HasValue(st, v)
    IN IF \E v \in ToSet(Members(st, s)) : isNew(v) THEN Clear(st, s, {"USER"}) ELSE st

PutDefault(a, s) ==
    [a.st EXCEPT !.curr[s].sel = a.sel, !.curr[s].tri = IF a.sel = NoSym THEN no ELSE @]
PutSelected(st, s) ==
    LET mine == st.user[s].sel
    IN IF mine # NoSym /\ st.visible[mine] # no THEN [st EXCEPT !.curr[s].sel = mine]
       ELSE PutDefault(ChoiceDefault(st, s), s)

\* sym_calc_choice, for a choice that is y.
CalcChoice(st, s) == PutSelected(NewAgain(FoldLeft(CalcVisibility, st, Members(st, s)), s), s)

\* The boolean or tristate s, whose visibility is known.
\* Mutant: a user value overrides select.
PutTristateUser(own, s) == [own.st EXCEPT !.curr[s].tri = own.tri]

PutTristate(own, s) ==
    LET tri == Greatest(own.tri, own.st.rev[s])
    IN [own.st EXCEPT !.curr[s].tri = IF tri = mod /\ GetType(own.st, s) = "boolean" THEN yes ELSE tri]

OfDefault(dp, e, s) ==
    LET write == dp.st.visible[s] # no \/ dp.st.rev[s] # no \/ dp.prop # 0
    IN [st |-> IF write THEN Set(e.st, s, "WRITE") ELSE e.st, tri |-> Least(e.tri, dp.tri)]
ByDefault(dp, s) ==
    OfDefault(dp, Eval(dp.st, IF dp.prop = 0 THEN Symbol("n") ELSE Prop(dp.st, dp.prop).expr), s)
OwnTristate(st, s) ==
    IF st.visible[s] # no /\ HasValue(st, s)
    THEN [st |-> Set(st, s, "WRITE"), tri |-> Least(st.user[s].tri, st.visible[s])]
    ELSE ByDefault(IF Choice(st, s) THEN NoProp(st) ELSE DefaultProp(st, s), s)

CalcTristate(st, s) ==
    IF Value(st, s) /\ st.visible[s] = yes
    THEN [st EXCEPT !.curr[s].tri = Truth(st.curr[Group(st, s)].sel = s)]
    ELSE PutTristate(OwnTristate(st, s), s)

\* The number or string s.
PutText(st, s, d) == [st EXCEPT !.curr[s].val = Reading(st, d).str]
TextByDefault(dp, s) ==
    LET d == Prop(dp.st, dp.prop).expr.sym
    IN CASE dp.prop # 0 -> PutText(Calc(Set(dp.st, s, "WRITE"), d), s, d)
         [] dp.prop = 0 /\ dp.st.visible[s] # no -> Set(dp.st, s, "WRITE")
         [] OTHER -> dp.st
CalcString(st, s) ==
    IF st.visible[s] # no /\ HasValue(st, s)
    THEN [Set(st, s, "WRITE") EXCEPT !.curr[s].val = st.user[s].val]
    ELSE TextByDefault(DefaultProp(st, s), s)

\* sym_get_range_val of the two ends of a range property
Ends(st, r, base) ==
    [st |-> st, low |-> Number(Reading(st, r.lsym).str, base), high |-> Number(Reading(st, r.rsym).str, base)]
RangeOf(rp, base) ==
    LET r == Prop(rp.st, rp.prop).expr
    IN Ends(Calc(Calc(rp.st, r.lsym), r.rsym), r, base)

Limited(r, n, s, type) ==
    IF r.low <= n /\ n <= r.high THEN r.st
    ELSE [r.st EXCEPT !.curr[s].val = Formatted(IF n < r.low THEN r.low ELSE r.high, type)]
LimitedBy(rp, s) ==
    LET type == TypeOf(rp.st, s)
    IN IF rp.prop = 0 THEN rp.st
       ELSE Limited(RangeOf(rp, Base(type)), Number(rp.st.curr[s].val, Base(type)), s, type)
ValidateRange(st, s) ==
    IF TypeOf(st, s) \notin Numeric THEN st ELSE LimitedBy(RangeProp(st, s), s)

\* set_all_choice_values
SetAllChoiceValues(st, s) ==
    LET Off(a, v) == IF HasValue(a, v) THEN a ELSE [a EXCEPT !.user[v].tri = no]
    IN Clear(Set(FoldLeft(Off, st, Members(st, s)), s, "USER"), s, {"VALID", "NEED"})

\* What sym_calc_value does to the values of choice s when it is known.
WriteMembers(st, s) ==
    LET Write(a, v) == IF Has(a, s, "WRITE") /\ a.visible[v] # no THEN Set(a, v, "WRITE") ELSE a
    IN IF Choice(st, s) THEN FoldLeft(Write, st, Members(st, s)) ELSE st

\* The value of a choice is known before that of its values.
AfterGroup(st, s) ==
    IF Value(st, s) /\ Has(st, s, "NEED") THEN Calc(Clear(st, s, {"NEED"}), Group(st, s)) ELSE st
Marked(st, s) == Set(IF Value(st, s) THEN st ELSE Clear(st, s, {"WRITE"}), s, "VALID")

\* What whoever asks for the value while it is calculated gets.
Started(st, s) ==
    [st EXCEPT !.curr[s] = IF TypeOf(st, s) \in Logic THEN [Zero EXCEPT !.val = <<"n">>] ELSE Zero]
CalcOwn(st, s) == IF TypeOf(st, s) \in Logic THEN CalcTristate(st, s) ELSE CalcString(st, s)
CalcSelected(st, s) == IF Choice(st, s) /\ st.curr[s].tri = yes THEN CalcChoice(st, s) ELSE st
NoteModules(st, s) == IF s = K(st).modules THEN [st EXCEPT !.modules = st.curr[s].tri] ELSE st
NotWritten(st, s) == IF "auto" \in K(st).flags[s] THEN Clear(st, s, {"WRITE"}) ELSE st
IfNeeded(st, s) == IF Has(st, s, "NEED") THEN SetAllChoiceValues(st, s) ELSE st

\* sym_calc_value.  The warning about unmet dependencies is left out here:
\* UnmetIsBlamed in ExprRewrite is about it.
Calc(st, s) ==
    CASE s \notin Names -> st
      [] s \in Names /\ Has(st, s, "VALID") -> st
      [] s \in Names /\ ~Has(st, s, "VALID") /\ ~Known(st, s) -> Set(st, s, "VALID")
      [] OTHER ->
           IfNeeded(NotWritten(WriteMembers(NoteModules(ValidateRange(CalcSelected(CalcOwn(Started(
             CalcVisibility(Marked(AfterGroup(st, s), s), s), s), s), s), s), s), s), s), s)

CalcAll(st) == FoldLeft(Calc, st, SymbolHash)

\* Mutant: what changes a value counts no change.
ClearAllValidUncounted(st) ==
    Calc([st EXCEPT !.flags = [s \in Names |-> @[s] \ {"VALID"}]], K(st).modules)
ClearAllValid(st) ==
    Calc([st EXCEPT !.flags = [s \in Names |-> @[s] \ {"VALID"}], !.changed = TRUE], K(st).modules)

-----------------------------------------------------------------------------
(* Setting values *)

\* A value of a choice that is set to y is the selected one, and the choice
\* and all its visible values are no longer new.
Select(st, s) ==
    LET c == Group(st, s)
        Touch(a, v) == IF a.visible[v] # no THEN Set(a, v, "USER") ELSE a
    IN FoldLeft(Touch, [Set(st, c, "USER") EXCEPT !.user[c].sel = s], Members(st, c))

\* sym_set_tristate_value
ClearIf(changed, st) == IF changed THEN ClearAllValid(st) ELSE st
WithUser(st, s, val) ==
    [(IF Value(st, s) /\ val = yes THEN Select(st, s) ELSE st) EXCEPT !.user[s].tri = val]
SetTristate(st, s, val) ==
    IF MaySet(st, s, val)
    THEN [st |-> ClearIf(st.curr[s].tri # val, WithUser(Set(st, s, "USER"), s, val)), ok |-> TRUE]
    ELSE [st |-> st, ok |-> FALSE]

\* sym_toggle_tristate_value: the next value that can be set.
Toggle(st, s) ==
    LET After(t) == IF t = yes THEN no ELSE t + 1
        old == st.curr[s].tri
        able == SelectSeq(<<After(old), After(After(old)), old>>, LAMBDA t : MaySet(st, s, t))
    IN SetTristate(st, s, able[1]).st

\* sym_string_within_range, of a number or string
Within(r, n) == r.low <= n /\ n <= r.high
InRangeOf(rp, base, n) == rp.prop # 0 => Within(RangeOf(rp, base), n)
StringWithinRange(st, s, str) ==
    LET base == Base(TypeOf(st, s))
    IN /\ StringValid(TypeOf(st, s), str)
       /\ TypeOf(st, s) \in Numeric => InRangeOf(RangeProp(st, s), base, Number(str, base))

\* sym_set_string_value.  A value that is already there is left as it is.
PutString(st, s, val) == [Set(st, s, "USER") EXCEPT !.user[s].val = val]
SetString(st, s, str) ==
    LET hex == TypeOf(st, s) = "hex" /\ ~IsPrefix(<<"0", "x">>, str)
    IN CASE TypeOf(st, s) \in Logic ->
              IF TristateOf(str) = -1 THEN [st |-> st, ok |-> FALSE]
              ELSE SetTristate(st, s, TristateOf(str))
         [] TypeOf(st, s) \notin Logic /\ ~StringWithinRange(st, s, str) -> [st |-> st, ok |-> FALSE]
         [] OTHER -> [st |-> ClearIf(st.user[s].val # str \/ hex,
                                     PutString(st, s, IF hex THEN <<"0", "x">> \o str ELSE str)),
                      ok |-> TRUE]

\* sym_get_string_default
DefaultValue(st, s, d) ==
    LET val == Greatest(d, st.rev[s])
        toYes == TypeOf(st, s) = "boolean" \/ (~Value(st, s) /\ st.modules = no)
    IN IF val = mod /\ toYes THEN yes ELSE val
DefaultText(st, d) == Reading(Calc(st, d), d).str
OfDefaultProp(dp, s) ==
    LET expr == Prop(dp.st, dp.prop).expr
    IN CASE TypeOf(dp.st, s) \in Logic ->
              TextOf(DefaultValue(dp.st, s, IF dp.prop = 0 THEN no ELSE Least(Eval(dp.st, expr).tri, dp.tri)))
         [] TypeOf(dp.st, s) \notin Logic /\ dp.prop = 0 -> <<>>
         [] OTHER -> DefaultText(dp.st, expr.sym)
StringDefault(st, s) ==
    OfDefaultProp(DefaultProp(Calc(CalcVisibility(st, s), K(st).modules), s), s)

\* sym_escape_string_value
Escaped(str) ==
    LET Escape(c) == IF c \in {"\"", "\\"} THEN <<"\\", c>> ELSE <<c>>
    IN <<"\"">> \o FoldLeft(LAMBDA out, c : out \o Escape(c), <<>>, str) \o <<"\"">>

-----------------------------------------------------------------------------
(* menu_is_visible *)

RECURSIVE MenuVisible(_, _)

\* The entry has a value, so the entries below it may be seen.
SeenBelow(b, s) == IF b.shown /\ s # NoSym THEN [b EXCEPT !.st = Set(@, s, "USER")] ELSE b
AnyBelow(st, m) ==
    LET Child(a, c) == IF a.shown THEN a ELSE MenuVisible(a.st, c)
    IN FoldLeft(Child, [st |-> st, shown |-> FALSE], K(st).list[m])
AfterOwn(own, m, s) ==
    CASE own.tri # no -> [st |-> own.st, shown |-> TRUE]
      [] own.tri = no /\ (s = NoSym \/ own.st.curr[s].tri = no) -> [st |-> own.st, shown |-> FALSE]
      [] OTHER -> SeenBelow(AnyBelow(own.st, m), s)
PromptShown(st, q) == [st |-> st, tri |-> st.prompt[q]]
AfterGate(gate, m) ==
    LET menu == Entry(K(gate.st), m)
    IN IF gate.tri = no THEN [st |-> gate.st, shown |-> FALSE]
       ELSE AfterOwn(IF menu.sym = NoSym THEN Eval(gate.st, Prop(gate.st, menu.prompt).visible)
                     ELSE PromptShown(Calc(gate.st, menu.sym), menu.prompt), m, menu.sym)
MenuVisible(st, m) ==
    IF Entry(K(st), m).prompt = 0 THEN [st |-> st, shown |-> FALSE]
    ELSE AfterGate(Eval(st, Entry(K(st), m).visibility), m)

=============================================================================
