--------------------------------- MODULE Lkc --------------------------------
(***************************************************************************)
(* What the programs of the configuration system share with its library    *)
(* (support/kconfig/lkc.h and expr.h): the menu entries and properties     *)
(* that have been read, the memory, and the small functions that only look *)
(* at them.                                                                *)
(*                                                                         *)
(* k is what has been read of the Kconfig files, and st the memory of a    *)
(* program; Menu and Symbols say how they come about.                      *)
(***************************************************************************)
EXTENDS ExprData, FiniteSets, SequencesExt

CONSTANT SymbolHash   \* the symbols and choices, in the order of symbol_hash

Names == ToSet(SymbolHash)

NoSym == ""
Root == 1

Entry(k, m) == k.menu[m]
PropsOf(k, s, types) == SelectSeq(k.props[s], LAMBDA q : k.prop[q].type \in types)
IsMenu(k, m) == Entry(k, m).prompt # 0 /\ k.prop[Entry(k, m).prompt].type = "menu"
IsChoice(k, s) == s # NoSym /\ "choice" \in k.flags[s]
IsChoiceValue(k, s) == s # NoSym /\ "choiceval" \in k.flags[s]

\* sym_get_choice_prop: its list of values, and the choice of a value.
ChoiceValues(k, s) == k.prop[PropsOf(k, s, {"choice"})[1]].values
ChoiceOf(k, s) == k.prop[PropsOf(k, s, {"choice"})[1]].expr.sym

\* _menu_init and the prompt of rootmenu.
Nothing ==
    [menu |-> <<[sym |-> NoSym, parent |-> 0, prompt |-> 1, dep |-> Null, visibility |-> Null]>>,
     list |-> << <<>> >>,
     prop |-> <<[type |-> "menu", sym |-> NoSym, menu |-> Root, expr |-> Null,
                 visible |-> Null, values |-> <<>>]>>,
     props |-> [s \in Names |-> <<>>],
     type |-> [s \in Names |-> "unknown"],
     flags |-> [s \in Names |-> {}],
     dir |-> [s \in Names |-> Null],
     rev |-> [s \in Names |-> Null],
     modules |-> "n", current |-> Root, entry |-> Root]

-----------------------------------------------------------------------------
(* The memory *)

K(st) == st.k
TypeOf(st, s) == K(st).type[s]
Known(st, s) == s \in Names /\ TypeOf(st, s) # "unknown"
Logic == {"boolean", "tristate"}
Numeric == {"int", "hex"}

Choice(st, s) == IsChoice(K(st), s)
Value(st, s) == IsChoiceValue(K(st), s)
Members(st, s) == ChoiceValues(K(st), s)
Group(st, s) == ChoiceOf(K(st), s)
Prop(st, q) == K(st).prop[q]
Props(st, s, types) == PropsOf(K(st), s, types)

Zero == [tri |-> no, val |-> <<>>, sel |-> NoSym]
InitMem(k) ==
    [k |-> k,
     user |-> [s \in Names |-> Zero], auto |-> [s \in Names |-> Zero], curr |-> [s \in Names |-> Zero],
     visible |-> [s \in Names |-> no], dir |-> [s \in Names |-> no], rev |-> [s \in Names |-> no],
     prompt |-> [q \in 1..Len(k.prop) |-> no],
     flags |-> [s \in Names |-> {}],
     modules |-> no, changed |-> TRUE]

Has(st, s, f) == f \in st.flags[s]
Set(st, s, f) == [st EXCEPT !.flags[s] = @ \cup {f}]
Clear(st, s, fs) == [st EXCEPT !.flags[s] = @ \ fs]
HasValue(st, s) == Has(st, s, "USER")

GetType(st, s) ==
    IF /\ TypeOf(st, s) = "tristate"
       /\ (Value(st, s) /\ st.visible[s] = yes) \/ st.modules = no
    THEN "boolean" ELSE TypeOf(st, s)

\* sym_is_changable, sym_tristate_within_range and the first test of
\* sym_set_tristate_value
Changeable(st, s) == st.visible[s] > st.rev[s]

TristateWithinRange(st, s, val) ==
    /\ st.visible[s] # no
    /\ GetType(st, s) \in Logic
    /\ GetType(st, s) = "boolean" => val # mod
    /\ st.visible[s] > st.rev[s]
    /\ IF Value(st, s) /\ st.visible[s] = yes THEN val = yes
       ELSE st.rev[s] <= val /\ val <= st.visible[s]

MaySet(st, s, val) == st.curr[s].tri = val \/ TristateWithinRange(st, s, val)

-----------------------------------------------------------------------------
(* Texts, numbers and files *)

Digits == <<"0", "1", "2", "3", "4", "5", "6", "7", "8", "9", "a", "b", "c", "d", "e", "f">>
DigitOf(c) == SelectInSeq(Digits, LAMBDA d : d = c) - 1
IsDigit(c, base) == DigitOf(c) \in 0..(base - 1)
Without(str, prefix) ==
    IF IsPrefix(prefix, str) THEN SubSeq(str, Len(prefix) + 1, Len(str)) ELSE str
Base(type) == IF type = "hex" THEN 16 ELSE 10

\* strtoll: the digits at the beginning, 0 without any.
AddDigit(a, c, base) ==
    IF a.more /\ IsDigit(c, base) THEN [a EXCEPT !.n = (@ * base) + DigitOf(c)] ELSE [a EXCEPT !.more = FALSE]
Magnitude(str, base) == FoldLeft(LAMBDA a, c : AddDigit(a, c, base), [n |-> 0, more |-> TRUE], str).n
Number(str, base) ==
    (IF IsPrefix(<<"-">>, str) THEN -1 ELSE 1)
      * Magnitude(Without(Without(str, <<"-">>), IF base = 16 THEN <<"0", "x">> ELSE <<>>), base)

NoFile == [exists |-> FALSE, lines |-> <<>>]
FileOf(lines) == [exists |-> TRUE, lines |-> lines]
Assigned(s, text) == [sym |-> s, isSet |-> TRUE, text |-> text]
NotSet(s) == [sym |-> s, isSet |-> FALSE, text |-> <<>>]
Quoted(text) == text # <<>> /\ Head(text) = "\""

=============================================================================
