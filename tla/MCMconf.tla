------------------------------- MODULE MCMconf -------------------------------
(***************************************************************************)
(* Mconf with a main menu that does not fit on a small terminal, a choice, *)
(* a menu, a "menuconfig" entry, a number and a string; and users who each *)
(* try one thing.                                                          *)
(***************************************************************************)
EXTENDS Mconf, Screens, MCKconfig

MCSymbolHash == <<"A", "B", "C", "X", "Y", "N", "T", "S", "G", "F">>
MCSymType ==
    [s \in ToSet(MCSymbolHash) \cup {"y", "m", "n"} |->
       CASE s = "N" -> "int" [] s = "T" -> "string" [] s \in {"y", "m", "n"} -> "tristate"
         [] OTHER -> "boolean"]
MCText == [c \in {"y", "m", "n", "1", "2", "d"} |-> <<c>>]
MCConst == DOMAIN MCText

MCSource ==
    Bool("A", <<>>) \o Bool("B", <<DependsOn(Symbol("A"))>>)
    \o Block(<<[is |-> "choice", sym |-> "C"], Prompt(Null)>>,
             Bool("X", <<>>) \o Bool("Y", <<>>) \o <<Word("comment")>>)
    \o Config("N", "int") \o <<Prompt(Null), InRange("1", "2"), Default("1", Null)>>
    \o Block(<<Word("menu")>>, Bool("S", <<DependsOn(Symbol("A"))>>) \o <<Word("comment")>>)
    \o Bool("G", <<Word("menuconfig")>>) \o Bool("F", <<DependsOn(Symbol("G"))>>)
    \o Config("T", "string") \o <<Prompt(Null), Default("d", Null)>>

MCHot == [m \in 1..20 |-> IF m \in {3, 6, 8} THEN "b" ELSE "a"]
MCConfigName == <<"d">>
MCFileNames == {<<"d">>, <<"2">>}

MCLines ==
    <<Assigned("A", <<"y">>), NotSet("B"), NotSet("X"), Assigned("Y", <<"y">>), Assigned("N", <<"1">>),
      NotSet("S"), Assigned("G", <<"y">>), NotSet("F"), Assigned("T", <<"\"", "d", "\"">>)>>
DiskWith(file) == [n \in MCFileNames |-> IF n = MCConfigName THEN file ELSE NoFile]
MCDisk == DiskWith(FileOf(MCLines))

MCFieldChars == {"1", "2", "d", "s", "z", "y", "n", "b", "h", "e", "m", "space", "slash"}
MCMatches(pattern) ==
    CASE pattern = <<"s">> -> <<"S", "F", "X", "Y">>
      [] pattern = <<"2">> -> <<"N">>
      [] OTHER -> <<>>

User(keys, limit) ==
    [keys |-> keys, disks |-> {MCDisk}, first |-> {19}, heights |-> {}, limit |-> limit,
     signal |-> FALSE, single |-> FALSE, readonly |-> FALSE]
MCSessions == {
    User({"down", "enter", "space", "esc"}, 2),
    [User({"down", "space", "esc"}, 3) EXCEPT !.disks = @ \cup {DiskWith(NoFile)}],
    User({"down", "y", "n", "m", "z", "esc"}, 3),
    User({"down", "up", "enter", "h", "esc"}, 0),
    [User({"down", "up", "pageup", "pagedown", "b", "esc"}, 2) EXCEPT !.heights = {9, 17, 19, 21}],
    [User({"down", "enter", "space", "esc"}, 2) EXCEPT !.heights = {7, 19, 21}],
    User({"slash", "s", "enter", "1", "2", "space", "esc"}, 3),
    [User({"slash", "s", "enter", "end", "pagedown", "up"}, 2) EXCEPT !.first = {19, 30}],
    User({"h", "right", "left", "0", "down", "esc"}, 0),
    [User({"right", "enter", "space", "backspace", "2", "esc"}, 5) EXCEPT
       !.signal = TRUE, !.disks = @ \cup {DiskWith(NoFile)}],
    [User({"enter", "down", "space", "esc"}, 1) EXCEPT !.single = TRUE],
    [User({"down", "right", "enter", "backspace", "2", "esc"}, 2) EXCEPT !.readonly = TRUE],
    [User({"enter"}, 0) EXCEPT !.first = {18}]}

\* The library; a LET, as in MCExpr, keeps TLC from counting what happens in it.
MCMenuVisible(st, m) == LET result == MenuVisible(st, m) IN result
MCCalc(st, s) == LET result == Calc(st, s) IN result
MCClearAllValid(st) == LET result == ClearAllValid(st) IN result
MCStringValue(st, s) == LET result == StringValue(st, s) IN result
MCSetTristate(st, s, val) == LET result == SetTristate(st, s, val) IN result
MCSetString(st, s, str) == LET result == SetString(st, s, str) IN result
MCReadConfig(st, file) == LET result == ReadConfig(st, file) IN result
MCWriteConfig(st) == LET result == WriteConfig(st) IN result
MCItemsBelow(st, m, view) == LET result == ItemsBelow(st, m, view) IN result
MCToggle(st, s) == LET result == Toggle(st, s) IN result
MCRelations(st, syms) == LET result == Relations(st, syms) IN result
MCHelpOf(st, s) == LET result == HelpOf(st, s) IN result

=============================================================================
