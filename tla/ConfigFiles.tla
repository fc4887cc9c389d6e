----------------------------- MODULE ConfigFiles -----------------------------
(***************************************************************************)
(* How the programs of the configuration system read and write .config,    *)
(* defconfig files and auto.conf (support/kconfig/confdata.c).             *)
(*                                                                         *)
(* A line of a file is "CONFIG_sym=text", with the characters of the text, *)
(* or "# CONFIG_sym is not set".  Headings and other comments are left     *)
(* out: conf_read_simple skips them.  Buildroot has no symbol with option  *)
(* defconfig_list, so that without .config nothing is read.                *)
(***************************************************************************)
EXTENDS Symbols

-----------------------------------------------------------------------------
(* Reading.  def is "user" for .config and "auto" for auto.conf.           *)

DefFlag == [user |-> "USER", auto |-> "AUTO"]

\* A string value up to its closing quote, backslashes resolved.
RECURSIVE Unescaped(_)
Before(c, rest) == [rest EXCEPT !.val = <<c>> \o @]

\* Mutant: a backslash is taken out alone, and what follows it looked at.
UnescapedTwice(text) ==
    CASE text = <<>>         -> [ok |-> FALSE, val |-> <<>>]
      [] text # <<>> /\ Head(text) = "\"" -> [ok |-> TRUE, val |-> <<>>]
      [] text # <<>> /\ Head(text) = "\\" -> Unescaped(Tail(text))
      [] OTHER -> Before(Head(text), Unescaped(Tail(text)))

Unescaped(text) ==
    LET here == IF text # <<>> /\ Head(text) = "\\" THEN Tail(text) ELSE text
    IN CASE here = <<>> -> [ok |-> FALSE, val |-> <<>>]
         [] here # <<>> /\ Head(text) = "\"" -> [ok |-> TRUE, val |-> <<>>]
         [] OTHER -> Before(Head(here), Unescaped(Tail(here)))

\* conf_set_sym_val: the memory, and if the value was valid.
Refused(st) == [st |-> st, ok |-> FALSE]
SetTri(st, s, def, tri) ==
    IF tri = -1 \/ (tri = mod /\ TypeOf(st, s) = "boolean") THEN Refused(st)
    ELSE [st |-> [Set(st, s, DefFlag[def]) EXCEPT ![def][s].tri = tri], ok |-> TRUE]
SetVal(st, s, def, val) ==
    IF StringValid(TypeOf(st, s), val)
    THEN [st |-> [Set(st, s, DefFlag[def]) EXCEPT ![def][s].val = val], ok |-> TRUE]
    ELSE Refused(st)
SetSymVal(st, s, def, text) ==
    LET type == TypeOf(st, s)
        tri == IF text = <<>> \/ Head(text) \notin DOMAIN Lower THEN -1 ELSE Lower[Head(text)]
        string == Unescaped(Tail(text))
    IN CASE type \in Logic -> SetTri(st, s, def, tri)
         [] type = "string" /\ ~Quoted(text) -> [st |-> st, ok |-> TRUE]
         [] type = "string" /\ Quoted(text) /\ ~string.ok -> Refused(st)
         [] OTHER -> SetVal(st, s, def, IF type = "string" THEN string.val ELSE text)

\* What a line about a value of a choice says of the choice.
ReadMember(r, s, def) ==
    LET c == Group(r.st, s)
        tri == r.st[def][s].tri
        old == r.st[def][c].tri
        clash == tri = mod /\ old = yes
    IN [st |-> [(IF clash THEN Clear(r.st, c, {DefFlag[def]}) ELSE r.st) EXCEPT
                  ![def][c].sel = IF tri = yes THEN s ELSE @,
                  ![def][c].tri = Greatest(old, tri)],
        warned |-> r.warned \/ clash \/ (tri = yes /\ old # no)]

\* One line.  A symbol that is in no Kconfig file any more counts as a
\* change in .config; in auto.conf it becomes a symbol again, but one with
\* a quoted text is never visited by for_all_symbols.  (An expression may
\* still refer to such a symbol, and it is then no change; the Kconfig files
\* considered define what they refer to.)
Unset(st, s, def) ==
    IF TypeOf(st, s) \in Logic THEN [Set(st, s, DefFlag[def]) EXCEPT ![def][s].tri = no] ELSE st
IfMember(r, s, def) == IF Value(r.st, s) THEN ReadMember(r, s, def) ELSE r
IfValid(v, s, def, warned) ==
    IF v.ok THEN IfMember([st |-> v.st, warned |-> warned], s, def)
    ELSE [st |-> v.st, warned |-> warned \/ def = "user"]
ReadLine(r, line, def) ==
    LET s == line.sym
        warned == r.warned \/ Has(r.st, s, DefFlag[def])
    IN CASE ~Known(r.st, s) /\ def = "user" -> [r EXCEPT !.st.changed = TRUE]
         [] ~Known(r.st, s) /\ def = "auto" ->
              IF Quoted(line.text) THEN r ELSE [r EXCEPT !.st = Set(@, s, "AUTO")]
         [] Known(r.st, s) /\ line.isSet -> IfValid(SetSymVal(r.st, s, def, line.text), s, def, warned)
         [] OTHER -> IfMember([st |-> Unset(r.st, s, def), warned |-> warned], s, def)

\* conf_read_simple, of a file that exists
Emptied(st, def) ==
    [st EXCEPT
       !.flags = [s \in Names |->
                    (@[s] \ {"VALID", DefFlag[def]}) \cup (IF Choice(st, s) THEN {DefFlag[def]} ELSE {})],
       ![def] = [s \in Names |-> Zero]]
ReadSimple(st, def, file) ==
    LET Last2(r) == [r EXCEPT !.st = Calc(@, K(st).modules)]
    IN Last2(FoldLeft(LAMBDA a, line : ReadLine(a, line, def),
                      [st |-> Emptied(st, def), warned |-> FALSE], file.lines))

\* The saved value is what is calculated from it.
Agrees(st, s) ==
    /\ HasValue(st, s) = Has(st, s, "WRITE")
    /\ HasValue(st, s) => IF TypeOf(st, s) \in Logic THEN st.user[s].tri = st.curr[s].tri
                          ELSE st.user[s].val = st.curr[s].val

\* Generated values become new again; a value out of range is dropped.
OutOfRange(st, s) == TypeOf(st, s) \notin Logic /\ ~StringWithinRange(st, s, st.user[s].val)
Dropped(a, s) ==
    IF OutOfRange(a.st, s) THEN [a EXCEPT !.st = Clear(@, s, {"USER", "VALID"}), !.unsaved = TRUE] ELSE a
ResetValue(a, s) ==
    CASE ~HasValue(a.st, s) \/ Value(a.st, s) -> a
      [] OTHER -> Dropped([a EXCEPT !.st = IF @.visible[s] = no /\ ~a.unsaved THEN Clear(@, s, {"USER"}) ELSE @],
                          s)

\* conf_read, for a file that exists.
NoteUnsaved(r) ==
    [r EXCEPT !.unsaved = \E s \in Names :
       Known(r.st, s) /\ ~Choice(r.st, s) /\ "auto" \notin K(r.st).flags[s] /\ ~Agrees(r.st, s)]
NoteChanged(a) == [a.st EXCEPT !.changed = @ \/ a.warned \/ a.unsaved]
ReadExisting(r) ==
    NoteChanged(FoldLeft(ResetValue,
                         NoteUnsaved([st |-> CalcAll(r.st), warned |-> r.warned, unsaved |-> FALSE]),
                         SymbolHash))
\* Without the file it fails.
ReadConfig(st, file) ==
    IF ~file.exists THEN Calc([st EXCEPT !.changed = TRUE], K(st).modules)
    ELSE ReadExisting(ReadSimple([st EXCEPT !.changed = FALSE], "user", file))

-----------------------------------------------------------------------------
(* Writing *)

\* The entries of the tree below m, from first to last.
RECURSIVE Traversal(_, _)
Traversal(k, m) ==
    FoldLeft(LAMBDA seq, c : seq \o <<c>> \o Traversal(k, c), <<>>, k.list[m])

\* conf_write_symbol with kconfig_printer_cb: no, one or two lines.
Line(st, s, skipUnset) ==
    LET str == StringValue(st, s)
    IN CASE TypeOf(st, s) = "string" -> <<Assigned(s, Escaped(str))>>
         [] TypeOf(st, s) \in Logic /\ str = <<"n">> -> IF skipUnset THEN <<>> ELSE <<NotSet(s)>>
         [] OTHER -> <<Assigned(s, str)>>

\* Entry m in conf_write, a is the memory and the lines so far.
IfWritten(a, s) ==
    IF Has(a.st, s, "WRITE")
    THEN [st |-> Clear(a.st, s, {"WRITE"}), lines |-> a.lines \o Line(a.st, s, FALSE)] ELSE a
WriteEntry(a, m) ==
    LET s == Entry(K(a.st), m).sym
    IN CASE s = NoSym       -> [a EXCEPT !.st = MenuVisible(@, m).st]
         [] Choice(a.st, s) -> a
         [] OTHER           -> IfWritten([a EXCEPT !.st = Calc(@, s)], s)

\* The file that conf_write writes, and the memory when it has.
WriteConfig(st) ==
    FoldLeft(WriteEntry, [st |-> ClearIf(~st.changed, st), lines |-> <<>>], Traversal(K(st), Root))

\* The value is the one it would have anyway, or the default of its choice.
IsDefault(st, s) ==
    \/ StringValue(st, s) = StringDefault(st, s)
    \/ /\ Value(st, s)
       /\ "optional" \notin K(st).flags[Group(st, s)]
       /\ s = ChoiceDefault(st, Group(st, s)).sel
       /\ TypeOf(st, s) = "boolean" /\ st.curr[s].tri = yes

\* conf_write_defconfig
IfNotDefault(a, s) ==
    CASE ~Has(a.st, s, "WRITE") -> a
      [] Has(a.st, s, "WRITE") /\ (~Changeable(a.st, s) \/ IsDefault(a.st, s)) ->
           [a EXCEPT !.st = Clear(@, s, {"WRITE"})]
      [] OTHER -> IfWritten(a, s)
DefconfigEntry(a, m) ==
    LET s == Entry(K(a.st), m).sym
    IN CASE s = NoSym       -> [a EXCEPT !.st = MenuVisible(@, m).st]
         [] Choice(a.st, s) -> a
         [] OTHER           -> IfNotDefault([a EXCEPT !.st = Calc(@, s)], s)
WriteDefconfig(st) ==
    FoldLeft(DefconfigEntry, [st |-> ClearAllValid(st), lines |-> <<>>], Traversal(K(st), Root))

\* conf_split_config: auto.conf is read and the headers to touch determined.
ReadAuto(st, file) == CalcAll(IF file.exists THEN ReadSimple(st, "auto", file).st ELSE st)

\* Mutant: a symbol that is no longer written is not looked at.
DiffersIfWritten(st, s) ==
    /\ ~Choice(st, s) /\ "auto" \notin K(st).flags[s]
    /\ Has(st, s, "WRITE")
    /\ IF TypeOf(st, s) \in Logic THEN st.curr[s].tri # st.auto[s].tri
       ELSE StringValue(st, s) # st.auto[s].val

Differs(st, s) ==
    /\ ~Choice(st, s) /\ "auto" \notin K(st).flags[s]
    /\ CASE ~Has(st, s, "WRITE") -> Has(st, s, "AUTO")
         [] Has(st, s, "WRITE") /\ ~Has(st, s, "AUTO") -> TypeOf(st, s) \in Logic => st.curr[s].tri # no
         [] OTHER -> IF TypeOf(st, s) \in Logic THEN st.curr[s].tri # st.auto[s].tri
                     ELSE StringValue(st, s) # st.auto[s].val

ToTouch(st) == SelectSeq(SymbolHash, LAMBDA s : Differs(st, s))

\* The lines of autoconf.h and tristate.conf; those of auto.conf are Line.
Header(st, s) ==
    LET str == StringValue(st, s)
        text == CASE TypeOf(st, s) \in Logic     -> <<"1">>
                  [] TypeOf(st, s) = "string"    -> Escaped(str)
                  [] TypeOf(st, s) = "int"       -> str
                  [] TypeOf(st, s) = "hex"       -> <<"0", "x">> \o Without(str, <<"0", "x">>)
    IN IF TypeOf(st, s) \in Logic /\ str = <<"n">> THEN <<>>
       ELSE <<[sym |-> s, module |-> TypeOf(st, s) \in Logic /\ str = <<"m">>, text |-> text]>>
Tristate(st, s) ==
    IF TypeOf(st, s) # "tristate" \/ StringValue(st, s) = <<"n">> THEN <<>>
    ELSE <<Assigned(s, StringValue(st, s))>>

Written(st) == SelectSeq(SymbolHash, LAMBDA s : Has(st, s, "WRITE") /\ ~Choice(st, s))
Concat(Op(_), seq) == FoldLeft(LAMBDA out, s : out \o Op(s), <<>>, seq)
GeneratedFrom(st) ==
    [st |-> st,
     conf |-> Concat(LAMBDA s : Line(st, s, TRUE), Written(st)),
     header |-> Concat(LAMBDA s : Header(st, s), Written(st)),
     tristate |-> Concat(LAMBDA s : Tristate(st, s), Written(st))]
Generated(st) == GeneratedFrom(CalcAll(st))

-----------------------------------------------------------------------------
(* conf_set_all_new_symbols.  pick is what rand() gives: a value for each  *)
(* symbol and a member for each choice.                                    *)

NewValue(st, s, how, pick) ==
    CASE how = "yes" -> yes [] how = "mod" -> mod [] how = "no" -> no
      [] how = "random" -> IF pick[s] = mod /\ TypeOf(st, s) # "tristate" THEN no ELSE pick[s]

\* randomize_choice_values, of choice s
Randomize(st, s, member) ==
    LET One(a, v) == [Clear(Set(a, v, "USER"), v, {"VALID"}) EXCEPT !.user[v].tri = Truth(v = member)]
    IN Clear(Set([FoldLeft(One, st, Members(st, s)) EXCEPT !.user[s].sel = member], s, "USER"), s, {"VALID"})

\* Symbols without a value get one.
IsUnset(st, s) == ~HasValue(st, s) /\ ~Has(st, s, "VALID") /\ Known(st, s) /\ GetType(st, s) \in Logic
MarkGiven(st, s, how) == IF Choice(st, s) /\ how = "random" THEN st ELSE Set(st, s, "USER")
Give(st, s, how, pick) ==
    IF ~IsUnset(st, s) \/ how = "default" THEN st
    ELSE MarkGiven([st EXCEPT !.user[s].tri = NewValue(st, s, how, pick)], s, how)
NeedChoice(st, s, how) ==
    IF how # "random" /\ (Value(st, s) \/ (Choice(st, s) /\ ~HasValue(st, s))) THEN Set(st, s, "NEED") ELSE st

\* Choices without a value get one of theirs.
SettleCalculated(a, s, how, pick) ==
    CASE how # "random" -> [st |-> SetAllChoiceValues(a.st, s), changed |-> TRUE]
      [] how = "random" /\ a.st.curr[s].tri # yes -> [a EXCEPT !.changed = FALSE]
      [] OTHER -> [st |-> Randomize(a.st, s, Members(a.st, s)[(pick[s] % Len(Members(a.st, s))) + 1]),
                   changed |-> TRUE]
Settle(a, s, how, pick) ==
    IF ~Choice(a.st, s) \/ HasValue(a.st, s) THEN a
    ELSE SettleCalculated([a EXCEPT !.st = Calc(@, s)], s, how, pick)

\* First all that is new is given a value, then the choices are settled.
GiveAll(st, how, pick) ==
    [st |-> ClearAllValid(FoldLeft(LAMBDA a, s : Give(a, s, how, pick), st, SymbolHash)),
     changed |-> \E s \in Names : IsUnset(st, s)]

\* The memory, and whether to go on: what happened to the last choice counts.
SettleAll(g, how, pick) ==
    FoldLeft(LAMBDA a, s : Settle(a, s, how, pick),
             [g EXCEPT !.st = FoldLeft(LAMBDA a, s : NeedChoice(a, s, how), @, SymbolHash)],
             SymbolHash)

-----------------------------------------------------------------------------
\* The configuration in a memory, for properties.
ValuesOf(st) == [s \in Names |-> IF Known(st, s) THEN <<StringValue(st, s), st.curr[s].sel>> ELSE <<>>]

=============================================================================
