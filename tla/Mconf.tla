-------------------------------- MODULE Mconf --------------------------------
(***************************************************************************)
(* The program menuconfig (support/kconfig/mconf.c): a user walks through  *)
(* the menus with the dialogs of lxdialog, sets values, searches, loads    *)
(* and saves, resizes the terminal and leaves, or interrupts the program.  *)
(*                                                                         *)
(* stack are the functions that are running, the last one on top; at says  *)
(* where each is.  A function goes on when no dialog is shown; ret is what *)
(* the dialog or the function it called has returned.  A key is pressed    *)
(* when there is a dialog.  The handler of SIGINT is pushed on the stack   *)
(* and never returns.                                                      *)
(***************************************************************************)
EXTENDS LkcProto, Dialogs

CONSTANTS
    Source,      \* the statements of the Kconfig files
    ConfigName,  \* conf_get_configname, a sequence of characters
    FileNames,   \* the names of files that can be written
    FieldChars,  \* the characters that are typed into input boxes
    Matches(_),  \* the symbols that sym_re_search finds for a pattern, in its order
    ReadmeLines, \* the lines of README
    Sessions,    \* what a user does: see Press
    build_conf(_, _, _),              \* memory, items of a menu, and if there are any
    sym_toggle_tristate_value(_, _),
    get_relations_str(_, _),          \* memory, lines and jumps of what is said of symbols
    menu_get_ext_help(_, _)           \* the same of the help for a symbol

IsSequence(s) == s \in Seq(ToSet(s))

ASSUME MconfConstantsOK ==
    /\ IsSequence(ConfigName) /\ ConfigName \in FileNames /\ ReadmeLines \in Nat
    /\ FieldChars \cap {"backspace", "left", "right"} = {}
    /\ \A s \in Sessions : /\ s.first \cup s.heights \subseteq Nat
                           /\ \A f \in s.disks : DOMAIN f = FileNames

VARIABLES
    session,   \* one of Sessions
    left,      \* how often the user may still type, set, resize, ...
    height,    \* of the terminal
    mem,       \* the symbols in memory
    files, old,\* the files, and those with .old
    filename,
    opt,       \* show_all_options, save_and_exit, child_count # 0, the open menus of single_menu_mode
    subtitle,  \* the menus named at the top of the screen, 0 for a search
    stack, dlg, ret,
    forgot,    \* changes that a load which failed has made the program forget
    outcome    \* what the program has said in the end

user == <<session, left, height>>
disk == <<files, old>>
vars == <<user, mem, disk, filename, opt, subtitle, stack, dlg, ret, forgot, outcome>>

NoDlg == [kind |-> "none"]
Spin == [kind |-> "spin"]   \* a loop that shows nothing and waits for nothing
NoRet == [res |-> "none", menu |-> 0, tag |-> "", text |-> <<>>, scroll |-> 0, column |-> 0]
Returns(res) == [NoRet EXCEPT !.res = res]
Running == [said |-> "nothing", cut |-> FALSE]

Main(at) == [fn |-> "main", at |-> at]
ConfCall(m, active) == [fn |-> "conf", at |-> "loop", menu |-> m, active |-> active, scroll |-> 0]
ChoiceCall(m, value) == [fn |-> "choice", at |-> "loop", menu |-> m, chosen |-> value]
StringCall(m) == [fn |-> "string", at |-> "loop", menu |-> m]
FileCall(fn) == [fn |-> fn, at |-> "loop", name |-> <<>>]
WriteCall(name) == [fn |-> "write", at |-> "tmp", name |-> name, lines |-> <<>>]
TextCall(rows, nl, tail) == [fn |-> "text", at |-> "show", rows |-> rows, text |-> [nl |-> nl, tail |-> tail]]
SearchCall == [fn |-> "search", at |-> "loop", pattern |-> <<>>, vscroll |-> 0, hscroll |-> 0]
ExitCall(signal) == [fn |-> "exit", at |-> "ask", signal |-> signal]

Init ==
    /\ session \in Sessions /\ left = session.limit /\ height \in session.first
    /\ mem = InitMem(Nothing)
    /\ files \in session.disks /\ old = [n \in FileNames |-> NoFile]
    /\ filename = ConfigName
    /\ opt = [all |-> FALSE, leaving |-> FALSE, counted |-> FALSE, open |-> {}]
    /\ subtitle = <<>>
    /\ stack = <<Main("start")>> /\ dlg = NoDlg /\ ret = NoRet
    /\ forgot = FALSE /\ outcome = Running

-----------------------------------------------------------------------------
(* The stack *)

Top == Last(stack)
Callers == Front(stack)
Ready(fn, at) ==
    outcome = Running /\ dlg = NoDlg /\ Top.fn = fn /\ Top.at = at
TopAt(where) == Append(Callers, [Top EXCEPT !.at = where])

\* The running function goes on at another place, calls one, returns, or
\* shows a dialog.
Goto(where) == stack' = TopAt(where) /\ dlg' = NoDlg /\ ret' = NoRet
Call(f, where) == stack' = Append(TopAt(where), f) /\ dlg' = NoDlg /\ ret' = NoRet
Return(res) == stack' = Callers /\ dlg' = NoDlg /\ ret' = Returns(res)
Show(d, where) == stack' = TopAt(where) /\ dlg' = d /\ ret' = NoRet

Quiet == UNCHANGED <<user, disk, filename, opt, subtitle, forgot, outcome>>

MenuEntry(m) == Entry(K(mem), m)
SymOf(m) == MenuEntry(m).sym

\* trail: the menus below the root that are open, and searches.
NoTitle == -1
Title(f) ==
    CASE f.fn = "conf" /\ f.menu # Root                 -> f.menu
      [] f.fn = "search" /\ f.at \in {"show", "shown"}   -> 0
      [] OTHER                                           -> NoTitle
Titles(ts) == SelectSeq(ts, LAMBDA t : t # NoTitle)
Trail(s) == Titles([i \in DOMAIN s |-> Title(s[i])])

-----------------------------------------------------------------------------
(* Texts, and the input boxes of a function                                *)

Readme == TextCall(0, ReadmeLines, FALSE)
Box(rows) == TextCall(rows, 0, TRUE)
ShowHelp(s, where) ==
    \E a \in {menu_get_ext_help(mem, s)} : mem' = a.st /\ Call(TextCall(0, a.nl, FALSE), where)

TextShow ==
    /\ Ready("text", "show")
    /\ IF TextFits(height) THEN Show(LayText(OpenText(Top.rows, Top.text, 0, FALSE, <<>>), height), "shown")
       ELSE Return("small")
    /\ UNCHANGED mem /\ Quiet
TextShown == Ready("text", "shown") /\ Return("done") /\ UNCHANGED mem /\ Quiet

\* Only the search looks at the result of a box that does not fit: the other
\* functions show it again, for ever.
ShowField(rows, text) ==
    LET d == OpenField(rows, text)
    IN Show(IF FieldFits(d, height) THEN LayField(d) ELSE Spin, "result")

-----------------------------------------------------------------------------
(* main *)

Start ==
    /\ Ready("main", "start")
    /\ \E st \in {InitMem(conf_parse(Source))} : mem' = conf_read(st, files[ConfigName])
    /\ outcome' = IF height < 19 THEN [Running EXCEPT !.said = "small"] ELSE outcome
    /\ Goto("conf")
    /\ UNCHANGED <<user, disk, filename, opt, subtitle, forgot>>
MainConf == Ready("main", "conf") /\ Call(ConfCall(Root, 0), "exit") /\ UNCHANGED mem /\ Quiet
MainExit == Ready("main", "exit") /\ Call(ExitCall(FALSE), "conf") /\ UNCHANGED mem /\ Quiet

-----------------------------------------------------------------------------
(* conf *)

View ==
    [counted |-> opt.counted, all |-> opt.all, open |-> IF session.single THEN opt.open ELSE {}]
ShowMenu(b) ==
    IF b.counted /\ MenuFits(height)
    THEN Show(LayMenu(OpenMenu(b.items, Top.active, Top.scroll), height), "result")
    ELSE Return("done")
ConfLoop ==
    /\ Ready("conf", "loop")
    /\ \E b \in {build_conf(mem, Top.menu, View)} :
         /\ mem' = b.st
         /\ opt' = [opt EXCEPT !.counted = b.counted]
         /\ subtitle' = IF b.counted THEN Trail(stack) ELSE subtitle
         /\ ShowMenu(b)
    /\ UNCHANGED <<user, disk, filename, forgot, outcome>>

\* What the user has chosen: a command, and the item it is about.
Chosen(res) == Ready("conf", "result") /\ ret.res = res
Noted == [Top EXCEPT !.at = "loop", !.active = ret.menu, !.scroll = ret.scroll]
Again == stack' = Append(Callers, Noted) /\ dlg' = NoDlg /\ ret' = NoRet
Then(f) == stack' = Callers \o <<Noted, f>> /\ dlg' = NoDlg /\ ret' = NoRet
Sym == SymOf(ret.menu)

ConfLeave ==
    /\ \E res \in {"exit", "esc", "small"} : Chosen(res)
    /\ Return("done") /\ UNCHANGED mem /\ Quiet

ConfUnfold ==
    /\ Chosen("select") /\ ret.tag = "m" /\ session.single
    /\ opt' = [opt EXCEPT !.open = SymDiff(@, {ret.menu})]
    /\ Again
    /\ UNCHANGED <<user, mem, disk, filename, subtitle, forgot, outcome>>

HasValues(m) == Choice(mem, SymOf(m)) /\ mem.curr[SymOf(m)].tri = yes
ConfSubmenu ==
    /\ \/ Chosen("select") /\ ret.tag = "m" /\ ~session.single
       \/ Chosen("select") /\ ret.tag = "t" /\ ~HasValues(ret.menu) /\ IsMenu(K(mem), ret.menu)
       \/ Chosen("toggle") /\ ret.tag = "m"
    /\ Then(ConfCall(ret.menu, 0))
    /\ UNCHANGED mem /\ Quiet
ConfChoice ==
    /\ Chosen("select") /\ ret.tag = "t" /\ HasValues(ret.menu)
    /\ Then(ChoiceCall(ret.menu, mem.curr[Sym].sel))
    /\ UNCHANGED mem /\ Quiet
ConfString ==
    /\ Chosen("select") /\ ret.tag = "s"
    /\ Then(StringCall(ret.menu))
    /\ UNCHANGED mem /\ Quiet
\* Comments cannot be selected, nor symbols without a menu.
ConfNothing ==
    /\ \/ /\ Chosen("select")
          /\ ret.tag = "t" => ~HasValues(ret.menu) /\ ~IsMenu(K(mem), ret.menu)
          /\ ret.tag \notin {"m", "s"}
       \/ Chosen("toggle") /\ ret.tag \notin {"t", "m"}
       \/ \E res \in {"yes", "no", "mod"} : Chosen(res) /\ ret.tag # "t"
    /\ Again /\ UNCHANGED mem /\ Quiet

ConfHelp ==
    /\ Chosen("help")
    /\ IF ret.menu # 0 /\ Sym # NoSym
       THEN /\ \E a \in {menu_get_ext_help(mem, Sym)} : mem' = a.st /\ Then(TextCall(0, a.nl, FALSE))
            /\ subtitle' = subtitle
       ELSE Then(Readme) /\ subtitle' = <<>> /\ mem' = mem
    /\ UNCHANGED <<user, disk, filename, opt, forgot, outcome>>
ConfFile ==
    /\ \E res \in {"save", "load"} : Chosen(res) /\ Then(FileCall(res))
    /\ subtitle' = <<>>
    /\ UNCHANGED <<user, mem, disk, filename, opt, forgot, outcome>>
ConfSearch == Chosen("search") /\ Then(SearchCall) /\ UNCHANGED mem /\ Quiet
ConfAll ==
    /\ Chosen("all") /\ Again
    /\ opt' = [opt EXCEPT !.all = ~@]
    /\ UNCHANGED <<user, mem, disk, filename, subtitle, forgot, outcome>>

\* y sets m, and says so, where y is not possible.
OrModule(set) == IF set.ok THEN [st |-> set.st, note |-> FALSE]
              ELSE LET other == sym_set_tristate_value(mem, Sym, mod) IN [st |-> other.st, note |-> other.ok]
ConfSetYes ==
    /\ Chosen("yes") /\ ret.tag = "t"
    /\ \E set \in {OrModule(sym_set_tristate_value(mem, Sym, yes))} :
         mem' = set.st /\ IF set.note THEN Then(TextCall(6, 1, TRUE)) ELSE Again
    /\ Quiet
ConfSet ==
    /\ ret.tag = "t"
    /\ \/ Chosen("no") /\ mem' = sym_set_tristate_value(mem, Sym, no).st
       \/ Chosen("mod") /\ mem' = sym_set_tristate_value(mem, Sym, mod).st
       \/ Chosen("toggle") /\ mem' = sym_toggle_tristate_value(mem, Sym)
    /\ Again /\ Quiet

-----------------------------------------------------------------------------
(* conf_choice *)

ChoiceItem(a, m, selected) ==
    LET child == Entry(K(a.st), m)
        tag == CASE child.sym = selected -> "X"
                 [] child.sym # selected /\ child.sym = NoSym -> ":"
                 [] OTHER -> " "
    IN [Item(m, tag) EXCEPT !.selected = child.sym = Top.chosen]
ChoiceItems(st, c) ==
    LET Add(a, m) == IF a.shown THEN [a EXCEPT !.items = Append(@, ChoiceItem(a, m, a.st.curr[c].sel))] ELSE a
        See(a, m) == LET v == menu_is_visible(a.st, m) IN Add([a EXCEPT !.st = v.st, !.shown = v.shown], m)
    IN FoldLeft(See, [st |-> st, items |-> <<>>, shown |-> FALSE], K(st).list[Top.menu])

ChoiceLoop ==
    /\ Ready("choice", "loop")
    /\ \E c \in {ChoiceItems(mem, SymOf(Top.menu))} :
         /\ mem' = c.st
         /\ IF ListFits(height) THEN Show(LayList(OpenList(c.items)), "result") ELSE Return("small")
    /\ Quiet

\* A comment among the values cannot be selected.
ChoiceSelect ==
    /\ Ready("choice", "result") /\ ret.res = "select"
    /\ IF Sym = NoSym THEN Goto("loop") /\ mem' = mem
       ELSE Return("done") /\ mem' = sym_set_tristate_value(mem, Sym, yes).st
    /\ Quiet
ChoiceHelp ==
    /\ Ready("choice", "result") /\ ret.res = "help"
    /\ \E a \in {menu_get_ext_help(mem, Sym)} :
         /\ mem' = a.st
         /\ stack' = Callers \o <<[Top EXCEPT !.at = "loop", !.chosen = Sym], TextCall(0, a.nl, FALSE)>>
    /\ dlg' = NoDlg /\ ret' = NoRet
    /\ Quiet
ChoiceLeave ==
    /\ Ready("choice", "result") /\ ret.res \in {"esc", "small"}
    /\ Return("done") /\ UNCHANGED mem /\ Quiet

-----------------------------------------------------------------------------
(* conf_string *)

StringLoop ==
    /\ Ready("string", "loop")
    /\ ShowField(10, sym_get_string_value(mem, SymOf(Top.menu)))
    /\ UNCHANGED mem /\ Quiet
StringOk ==
    /\ Ready("string", "result") /\ ret.res = "ok"
    /\ \E set \in {sym_set_string_value(mem, SymOf(Top.menu), ret.text)} :
         mem' = set.st /\ IF set.ok THEN Return("done") ELSE Call(Box(5), "loop")
    /\ Quiet
StringHelp ==
    /\ Ready("string", "result") /\ ret.res = "help"
    /\ ShowHelp(SymOf(Top.menu), "loop") /\ Quiet

\* ESC leaves an input box; a terminal that is too small begins it again.
BoxLeave ==
    /\ Top.fn \in {"string", "load", "save"}
    /\ Ready(Top.fn, "result") /\ ret.res \in {"esc", "small"}
    /\ IF ret.res = "esc" THEN Return("done") ELSE Goto("loop")
    /\ UNCHANGED mem /\ Quiet

-----------------------------------------------------------------------------
(* conf_load and conf_save *)

FileLoop ==
    /\ \E fn \in {"load", "save"} : Ready(fn, "loop")
    /\ ShowField(11, filename)
    /\ UNCHANGED mem /\ Quiet
FileHelp ==
    /\ \E fn \in {"load", "save"} : Ready(fn, "result")
    /\ ret.res = "help" /\ Call(Readme, "loop")
    /\ UNCHANGED mem /\ Quiet
FileBlank ==
    /\ \E fn \in {"load", "save"} : Ready(fn, "result")
    /\ ret.res = "ok" /\ ret.text = <<>> /\ Return("done")
    /\ UNCHANGED mem /\ Quiet

Exists(name) == name \in FileNames /\ files[name].exists
Load ==
    /\ Ready("load", "result") /\ ret.res = "ok" /\ Exists(ret.text)
    /\ mem' = [conf_read(mem, files[ret.text]) EXCEPT !.changed = TRUE]
    /\ filename' = ret.text
    /\ forgot' = FALSE
    /\ Return("done")
    /\ UNCHANGED <<user, disk, opt, subtitle, outcome>>
\* conf_read has set the number of changes to 0 before it fails.
LoadMissing ==
    /\ Ready("load", "result") /\ ret.res = "ok" /\ ret.text # <<>> /\ ~Exists(ret.text)
    /\ mem' = [mem EXCEPT !.changed = FALSE]
    /\ forgot' = (forgot \/ mem.changed)
    /\ Call(Box(5), "loop")
    /\ UNCHANGED <<user, disk, filename, opt, subtitle, outcome>>

Save ==
    /\ Ready("save", "result") /\ ret.res = "ok" /\ ret.text # <<>>
    /\ stack' = Callers \o <<[Top EXCEPT !.at = "written", !.name = ret.text], WriteCall(ret.text)>>
    /\ dlg' = NoDlg /\ ret' = NoRet
    /\ UNCHANGED mem /\ Quiet

\* Mutant: the first name is kept.
KeepsName(name) == filename
NewName(name) == name
Saved ==
    /\ Ready("save", "written") /\ ret.res = "ok"
    /\ filename' = NewName(Top.name)
    /\ Return("done")
    /\ UNCHANGED <<user, mem, disk, opt, subtitle, forgot, outcome>>
SaveFailed ==
    /\ Ready("save", "written") /\ ret.res = "fail" /\ Call(Box(5), "loop")
    /\ UNCHANGED mem /\ Quiet

-----------------------------------------------------------------------------
(* conf_write.  The number of changes is set to 0 after the message, for   *)
(* which the user has to press a key unless the program is leaving.        *)

WriteFails ==
    /\ Ready("write", "tmp") /\ (session.readonly \/ Top.name \notin FileNames)
    /\ Return("fail") /\ UNCHANGED mem /\ Quiet
WriteTmp ==
    /\ Ready("write", "tmp") /\ ~session.readonly /\ Top.name \in FileNames
    /\ \E w \in {conf_write(mem)} :
         /\ mem' = w.st
         /\ stack' = Append(Callers, [Top EXCEPT !.at = "rename", !.lines = w.lines])
    /\ UNCHANGED <<dlg, ret>> /\ Quiet
WriteRename ==
    /\ Ready("write", "rename")
    /\ old' = IF files[Top.name].exists THEN [old EXCEPT ![Top.name] = files[Top.name]] ELSE old
    /\ files' = [files EXCEPT ![Top.name] = FileOf(Top.lines)]
    /\ IF opt.leaving THEN Goto("done") ELSE Call(Box(6), "done")
    /\ UNCHANGED <<user, mem, filename, opt, subtitle, forgot, outcome>>
WriteDone ==
    /\ Ready("write", "done")
    /\ mem' = [mem EXCEPT !.changed = FALSE]
    /\ forgot' = FALSE
    /\ Return("ok")
    /\ UNCHANGED <<user, disk, filename, opt, subtitle, outcome>>

-----------------------------------------------------------------------------
(* search_conf *)

SearchLoop ==
    /\ Ready("search", "loop")
    /\ IF FieldFits(OpenField(10, <<>>), height) THEN ShowField(10, <<>>) ELSE Return("small")
    /\ UNCHANGED mem /\ Quiet
SearchHelp ==
    /\ Ready("search", "result") /\ ret.res = "help" /\ Call(Readme, "loop")
    /\ UNCHANGED mem /\ Quiet
SearchLeave ==
    /\ Ready("search", "result") /\ ret.res \in {"esc", "small"}
    /\ Return("done") /\ UNCHANGED mem /\ Quiet
SearchFor ==
    /\ Ready("search", "result") /\ ret.res = "ok"
    /\ mem' = FoldLeft(sym_calc_value, mem, Matches(ret.text))
    /\ stack' = Append(Callers, [Top EXCEPT !.at = "show", !.pattern = ret.text])
    /\ dlg' = NoDlg /\ ret' = NoRet
    /\ Quiet

\* The results are shown where they were left.
Results(a) ==
    [OpenText(0, [nl |-> a.nl, tail |-> FALSE], Top.vscroll, TRUE, a.jumps) EXCEPT !.hscroll = Top.hscroll]
SearchShow ==
    /\ Ready("search", "show")
    /\ subtitle' = Trail(stack)
    /\ \E a \in {get_relations_str(mem, Matches(Top.pattern))} :
         /\ mem' = a.st
         /\ IF TextFits(height) THEN Show(LayText(Results(a), height), "shown") ELSE Return("small")
    /\ UNCHANGED <<user, disk, filename, opt, forgot, outcome>>

\* A jump key opens the menu of its target, and the results come again.
SearchJump ==
    /\ Ready("search", "shown") /\ ret.menu # 0
    /\ stack' = Callers \o <<[Top EXCEPT !.at = "show", !.vscroll = ret.scroll, !.hscroll = ret.column],
                             ConfCall(MenuEntry(ret.menu).parent, ret.menu)>>
    /\ dlg' = NoDlg /\ ret' = NoRet
    /\ UNCHANGED mem /\ Quiet
SearchDone ==
    /\ Ready("search", "shown") /\ ret.menu = 0
    /\ Return("done") /\ UNCHANGED mem /\ Quiet

-----------------------------------------------------------------------------
(* handle_exit *)

ExitAsk ==
    /\ Ready("exit", "ask")
    /\ opt' = [opt EXCEPT !.leaving = TRUE]
    /\ subtitle' = <<>>
    /\ stack' = TopAt("answer")
    /\ IF mem.changed /\ YesNoFits(height) THEN dlg' = OpenYesNo /\ ret' = NoRet
       ELSE dlg' = NoDlg /\ ret' = Returns(IF mem.changed THEN "small" ELSE "clean")
    /\ UNCHANGED <<user, mem, disk, filename, forgot, outcome>>

\* The last words.  A handler that interrupted conf_write is told apart.
Cut == Top.signal /\ \E i \in DOMAIN Callers : Callers[i].fn = "write"
Say(what) ==
    /\ outcome' = [said |-> what, cut |-> Cut]
    /\ UNCHANGED <<user, mem, disk, filename, opt, subtitle, stack, dlg, ret, forgot>>

ExitYes ==
    /\ Ready("exit", "answer") /\ ret.res = "yes"
    /\ Call(WriteCall(filename), "written") /\ UNCHANGED mem /\ Quiet
ExitUnchanged == Ready("exit", "answer") /\ ret.res = "clean" /\ Say("end")
ExitNo == Ready("exit", "answer") /\ ret.res \in {"no", "small"} /\ Say("not saved")
\* After ESC the program says that nothing was saved and goes on, but not
\* when it was interrupted.
ExitEsc ==
    /\ Ready("exit", "answer") /\ ret.res = "esc"
    /\ IF Top.signal THEN Say("not saved")
       ELSE Return("esc") /\ UNCHANGED mem /\ Quiet
ExitWritten ==
    /\ Ready("exit", "written") /\ Say(IF ret.res = "ok" THEN "end" ELSE "not saved")

-----------------------------------------------------------------------------
(* The user, who presses the keys of the session.  What changes values or  *)
(* text or the size of the terminal, or goes back to the main menu from a  *)
(* search, is bounded.                                                     *)

Alive == outcome = Running /\ dlg.kind \notin {"none", "spin"} /\ (dlg.kind = "menu" => dlg.alive)

KeyTo(key, h) ==
    CASE dlg.kind = "menu"  -> MenuKey(dlg, key, h)
      [] dlg.kind = "list"  -> ListKey(dlg, key, h)
      [] dlg.kind = "field" -> FieldKey(dlg, key, FieldChars, h)
      [] dlg.kind = "yesno" -> YesNoKey(dlg, key, h)
      [] dlg.kind = "text"  -> TextKey(dlg, TextKeyFor(key), h)

\* What a dialog that is over has returned.
TakenItem(d, res) == [NoRet EXCEPT
    !.res = res,
    !.menu = IF Activated(d.items) = 0 THEN 0 ELSE d.items[Activated(d.items)].data,
    !.tag = IF Activated(d.items) = 0 THEN "" ELSE d.items[Activated(d.items)].tag,
    !.scroll = IF d.kind = "menu" THEN d.saved ELSE 0]
JumpTarget(d, res) ==
    IF Hit(d, res) = {} THEN 0 ELSE (CHOOSE k \in Hit(d, res) : TRUE).target
Result(r) ==
    CASE r.d.kind \in {"menu", "list"} -> TakenItem(r.d, r.res)
      [] r.d.kind = "field" -> [Returns(r.res) EXCEPT !.text = r.d.text]
      [] r.d.kind = "yesno" -> Returns(r.res)
      [] r.d.kind = "text"  -> [Returns(r.res) EXCEPT !.menu = JumpTarget(r.d, r.res),
                                  !.scroll = r.d.vscroll, !.column = r.d.hscroll]

Bounded == {"yes", "no", "mod", "toggle", "save", "load", "search", "all"}
Cost(r, key) ==
    IF \/ r.res \in Bounded
       \/ r.d.kind = "field" /\ r.d.text # dlg.text
       \/ key = "resize"
    THEN 1 ELSE 0
Pressed(r, key) ==
    /\ left >= Cost(r, key) /\ left' = left - Cost(r, key)
    /\ IF r.res = "none" THEN dlg' = r.d /\ ret' = NoRet ELSE dlg' = NoDlg /\ ret' = Result(r)
    /\ UNCHANGED <<session, mem, disk, filename, opt, subtitle, stack, forgot, outcome>>

Press ==
    /\ Alive
    /\ \E key \in session.keys : \E r \in {KeyTo(key, height)} : Pressed(r, key)
    /\ UNCHANGED height
Resize ==
    /\ Alive
    /\ \E h \in session.heights \ {height} :
         height' = h /\ \E r \in {KeyTo("resize", h)} : Pressed(r, "resize")

\* dialog_menu has read the data of an item after the last one.
Crash ==
    /\ outcome = Running /\ dlg.kind = "menu" /\ ~dlg.alive
    /\ outcome' = [Running EXCEPT !.said = "crash"]
    /\ UNCHANGED <<user, mem, disk, filename, opt, subtitle, stack, dlg, ret, forgot>>

\* SIGINT, while the user looks at something or a file is written.  The
\* handler is not interrupted itself.
Interrupt ==
    /\ outcome = Running /\ session.signal
    /\ dlg # NoDlg \/ Top.fn = "write"
    /\ \A i \in DOMAIN stack : stack[i].fn = "exit" => ~stack[i].signal
    /\ stack' = Append(stack, ExitCall(TRUE)) /\ dlg' = NoDlg /\ ret' = NoRet
    /\ UNCHANGED mem /\ Quiet

Spinning == outcome = Running /\ dlg = Spin /\ UNCHANGED vars
Done == outcome # Running /\ UNCHANGED vars

Next ==
    \/ Start \/ MainConf \/ MainExit \/ ConfLoop \/ ConfLeave
    \/ ConfUnfold \/ ConfSubmenu \/ ConfChoice \/ ConfString \/ ConfNothing
    \/ ConfHelp \/ ConfFile \/ ConfSearch \/ ConfAll \/ ConfSetYes \/ ConfSet
    \/ ChoiceLoop \/ ChoiceSelect \/ ChoiceHelp \/ ChoiceLeave
    \/ StringLoop \/ StringOk \/ StringHelp \/ BoxLeave
    \/ FileLoop \/ FileHelp \/ FileBlank \/ Load \/ LoadMissing \/ Save \/ Saved \/ SaveFailed
    \/ WriteFails \/ WriteTmp \/ WriteRename \/ WriteDone
    \/ SearchLoop \/ SearchHelp \/ SearchLeave \/ SearchFor \/ SearchShow \/ SearchJump \/ SearchDone
    \/ TextShow \/ TextShown \/ ExitAsk \/ ExitYes \/ ExitUnchanged \/ ExitNo \/ ExitEsc \/ ExitWritten
    \/ Press \/ Resize \/ Crash \/ Interrupt \/ Spinning \/ Done

Spec == Init /\ [][Next]_vars

-----------------------------------------------------------------------------
(* Properties *)

\* What the library says of symbols fits into a text box: the places of jump
\* keys, which update_text counts on, follow each other in the text, each on
\* a line of its own.
PlacesFollow(a) ==
    /\ a.nl \in Nat /\ IsSequence(a.jumps)
    /\ \A i \in DOMAIN a.jumps : a.jumps[i].line \in 0..(a.nl - 1)
    /\ \A i, j \in DOMAIN a.jumps : i < j => a.jumps[i].line < a.jumps[j].line

\* What the functions of the program get from the library, where they show it,
\* is what the dialogs can show (build_conf, sym_get_string_value,
\* get_relations_str and menu_get_ext_help).
ShowsData ==
    /\ Ready("conf", "loop") => IsSequence(build_conf(mem, Top.menu, View).items)
    /\ Ready("choice", "loop") => IsSequence(ChoiceItems(mem, SymOf(Top.menu)).items)
    /\ Ready("string", "loop") => IsSequence(sym_get_string_value(mem, SymOf(Top.menu)))
    /\ Ready("search", "show") => PlacesFollow(get_relations_str(mem, Matches(Top.pattern)))
    /\ Ready("text", "show") => Top.text.nl \in Nat

\* The values of all symbols; Kept are those that would be saved.
Configuration(st) ==
    [s \in Names |-> IF Known(st, s) THEN <<sym_get_string_value(st, s), st.curr[s].sel>> ELSE <<>>]
Kept(st) == Configuration(FoldLeft(sym_calc_value, st, SymbolHash))
ReadBack(st, file) == Configuration(conf_read(InitMem(K(st)), file))

\* The handler of SIGINT has interrupted conf_write.
InWrite(s) == \E i \in DOMAIN s : \E j \in 1..i : s[i].fn = "exit" /\ s[i].signal /\ s[j].fn = "write"
\* What conf_write has written reads back as the configuration in memory, but
\* for a handler that found conf_write in the middle, with the flags that say
\* what to write gone.
WrittenReadsBack ==
    Ready("write", "rename") /\ ~InWrite(stack) => ReadBack(mem, FileOf(Top.lines)) = Kept(mem)

\* What the library gives is good for a screen (build_conf and others) and for
\* a file: conf_read gives back what conf_write has written.
LibraryData == ShowsData /\ WrittenReadsBack

\* No function changes the configuration and leaves the number of changes at 0,
\* from which handle_exit concludes that there is nothing to save, or takes
\* changes back but the end of conf_write and a load (sym_set_changed and
\* sym_add_change_count in symbol.c and confdata.c).
IsCounted ==
    /\ K(mem') = K(mem)
    /\ mem'.changed \/ Kept(mem') = Kept(mem)
    /\ mem.changed /\ ~mem'.changed => forgot' \/ Top.at = "done"
ReadWell == ~mem'.changed => Kept(mem') = ReadBack(mem', files[filename])
StepIsCounted ==
    /\ "changed" \in DOMAIN mem'
    /\ IF Top.at = "start" THEN ReadWell ELSE mem' = mem \/ IsCounted
ChangesAreCounted == [][StepIsCounted]_vars

\* What handle_exit says in the end is true: unless it says that nothing was
\* saved, the file that is named at the top of the screen reads back as the
\* configuration in memory.  Changes that a load which failed has dropped are
\* left out, and an interrupt while conf_write shows its message.
ExitTellsTheTruth ==
    outcome.said = "end" /\ ~outcome.cut /\ ~forgot => ReadBack(mem, files[filename]) = Kept(mem)

\* What dialog_menu, dialog_checklist and dialog_inputbox change on the screen
\* one line or character at a time is what they would draw anew, and the
\* menus that set_subtitle names are those around the one that is shown.  A
\* menu that was resized is left out: it may be drawn from a stale first_item.
ScreenIsTrue ==
    /\ dlg.kind = "menu" => subtitle = Trail(stack)
    /\ dlg.kind = "list" \/ (dlg.kind = "menu" /\ ~dlg.resized) => ListIsTrue(dlg)
    /\ dlg.kind = "field" => FieldIsTrue(dlg)

\* The jump keys that work in the results of a search (update_text) are those
\* on the screen, and each goes to the place it stands at.
JumpGoesWhereShown == dlg.kind = "text" /\ dlg.updates => JumpsAreTrue(dlg)

=============================================================================
