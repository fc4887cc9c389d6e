-------------------------------- MODULE Conf --------------------------------
(***************************************************************************)
(* The program conf (support/kconfig/conf.c), which "make oldconfig",      *)
(* "make defconfig" and the build itself run: it reads the Kconfig files   *)
(* and .config, asks for the values that are new, and writes .config; for  *)
(* the build it then brings auto.conf and the headers that depend on       *)
(* single symbols up to date.                                              *)
(*                                                                         *)
(* A plan is a sequence of runs of the program, each with a mode, the      *)
(* version of the Kconfig files it finds and whether there is a terminal.  *)
(* A run may crash at any step; the disk may be full once.  The recursion  *)
(* of conf and check_conf is the stack todo of the calls still to be made. *)
(***************************************************************************)
EXTENDS LkcProto

CONSTANTS
    Sources,    \* Sources[i]: the statements of version i of the Kconfig files
    Plans,      \* the plans to choose from
    Picks,      \* what rand() may give: a number for each symbol
    Answers,    \* Answers[type]: the lines a user may type, without newline
    MaxFaults   \* bound on crashes and full disks

VARIABLES
    plan, run,  \* the plan, and which run of it is next or going on
    pc,         \* where the program is
    mode,       \* input_mode
    mem,        \* the symbols in memory
    todo,       \* the calls still to be made, the next one first
    cnt,        \* conf_cnt # 0
    rootEntry,
    disk,       \* the files
    tmp,        \* what a run has put into its .tmpconfig files
    touched,    \* the headers touched since auto.conf was last replaced
    saved,      \* the .config that was last written completely, until it is given up
    asked,      \* the Kconfig version whose questions .config answers, or 0
    faults

program == <<pc, mode, mem, todo, cnt, rootEntry, tmp>>
world == <<disk, touched, saved, asked>>
vars == <<plan, run, program, world, faults>>

Asking == {"oldaskconfig", "oldconfig", "silentoldconfig"}
SetNew == [allnoconfig |-> "no", allyesconfig |-> "yes", allmodconfig |-> "mod",
           alldefconfig |-> "default", randconfig |-> "random", defconfig |-> "default"]

This == plan[run]
Sync == This.mode = "silentoldconfig"   \* sync_kconfig
NoTmp == [whole |-> TRUE, lines |-> <<>>, header |-> <<>>, tristate |-> <<>>]
Call(name, m) == [call |-> name, m |-> m]
NoMem == InitMem(Nothing)

Init ==
    /\ plan \in Plans
    /\ run = 1
    /\ pc = "idle" /\ mode = "none" /\ mem = NoMem /\ todo = <<>>
    /\ cnt = FALSE /\ rootEntry = Root /\ tmp = NoTmp
    /\ disk = [config |-> NoFile, old |-> NoFile, defconfig |-> NoFile, auto |-> NoFile,
               header |-> <<>>, tristate |-> <<>>]
    /\ touched = {} /\ saved = NoFile /\ asked = 0 /\ faults = 0

-----------------------------------------------------------------------------
(* Start and end *)

\* The memory after conf_parse, and after conf_read in the modes that read.
Parsed == InitMem(conf_parse(Sources[This.kconf]))
Reads == Asking \cup {"defconfig", "savedefconfig", "listnewconfig", "olddefconfig"}
ToRead == IF This.mode = "defconfig" THEN disk.defconfig ELSE disk.config

CannotStart ==
    \/ Sync /\ ~disk.config.exists
    \/ This.mode = "defconfig" /\ ~disk.defconfig.exists

\* Nobody is told that a full disk cut .config off: who goes on from that
\* file has given up the one in .config.old.
Start ==
    /\ pc = "idle" /\ run <= Len(plan) /\ ~CannotStart
    /\ mode' = This.mode
    /\ \E st \in {Parsed} : mem' = IF This.mode \in Reads THEN conf_read(st, ToRead) ELSE st
    /\ pc' = CASE This.mode \in DOMAIN SetNew   -> "set"
               [] This.mode = "savedefconfig"   -> "save"
               [] OTHER                         -> "loop"
    /\ todo' = CASE pc' # "loop" -> <<>>
                 [] This.mode = "oldaskconfig" -> <<Call("conf", Root)>>
                 [] OTHER -> <<Call("check", Root)>>
    /\ saved' = IF disk.config.exists /\ disk.config # saved THEN NoFile ELSE saved
    /\ UNCHANGED <<plan, run, cnt, rootEntry, tmp, disk, touched, asked, faults>>

\* The memory is gone, the files stay.
Exit ==
    /\ pc' = "idle" /\ mode' = "none" /\ mem' = NoMem /\ todo' = <<>>
    /\ cnt' = FALSE /\ rootEntry' = Root /\ tmp' = NoTmp
    /\ run' = run + 1

Refuse ==
    /\ pc = "idle" /\ run <= Len(plan) /\ CannotStart
    /\ Exit
    /\ UNCHANGED <<plan, world, faults>>

Crash ==
    /\ pc \notin {"idle", "end"} /\ faults < MaxFaults
    /\ faults' = faults + 1
    /\ Exit
    /\ UNCHANGED <<plan, world>>

End ==
    /\ pc = "end"
    /\ Exit
    /\ UNCHANGED <<plan, world, faults>>

-----------------------------------------------------------------------------
(* Modes that set everything that is new *)

NoPick == [s \in Names |-> no]

SetAll ==
    /\ pc = "set"
    /\ \E pick \in IF mode = "randconfig" THEN Picks ELSE {NoPick} :
       \E g \in {set_all_new_symbols(mem, SetNew[mode], pick)} :
       \E r \in {settle_all_choices(g, SetNew[mode], pick)} :
         /\ mem' = r.st
         /\ pc' = IF mode = "randconfig" /\ r.changed THEN "set" ELSE "write"
    /\ UNCHANGED <<plan, run, mode, todo, cnt, rootEntry, tmp, world, faults>>

-----------------------------------------------------------------------------
(* Asking.  The head of todo is the call that is made next; a call for     *)
(* "string", "sym" or "pick" stays there until an answer is accepted.    *)

Top == Head(todo)
Menu1 == Entry(K(mem), Top.m)
Sym1 == Menu1.sym
Calls(name, ms) == [i \in 1..Len(ms) |-> Call(name, ms[i])]
Children(m) == K(mem).list[m]

\* The call at the head is replaced by others.
Do(name, st, calls) ==
    /\ pc = "loop" /\ todo # <<>> /\ Top.call = name
    /\ mem' = st
    /\ todo' = calls \o Tail(todo)
    /\ UNCHANGED <<plan, run, pc, mode, tmp, world, faults>>

\* menu_get_parent_menu
ParentMenu(k, m) ==
    LET up[e \in 1..Len(k.menu)] ==
          IF e = Root \/ (Entry(k, e).prompt # 0 /\ k.prop[Entry(k, e).prompt].type = "menu") THEN e
          ELSE up[Entry(k, e).parent]
    IN up[m]

\* Whether check_conf takes the symbol of a visible entry for new.
IsNew(st, s) ==
    /\ s # NoSym /\ ~HasValue(st, s)
    /\ Changeable(st, s) \/ (Choice(st, s) /\ st.curr[s].tri = yes)

CheckConf ==
    /\ todo # <<>> /\ Top.call = "check"
    /\ \E v \in {menu_is_visible(mem, Top.m)} :
         LET ask == v.shown /\ IsNew(v.st, Sym1) /\ mode \in Asking
             up == ParentMenu(K(mem), Top.m)
             below == IF v.shown THEN Calls("check", Children(Top.m)) ELSE <<>>
         IN /\ Do("check", v.st, (IF ask THEN <<Call("conf", up)>> ELSE <<>>) \o below)
            /\ cnt' = (cnt \/ ask)
            /\ rootEntry' = IF ask THEN up ELSE rootEntry

\* What conf does with a visible entry.
Inside ==
    LET isMenu == Menu1.prompt # 0 /\ K(mem).prop[Menu1.prompt].type = "menu"
        rest == Calls("conf", Children(Top.m))
    IN CASE isMenu /\ mode = "silentoldconfig" /\ rootEntry # Top.m -> <<Call("check", Top.m)>>
         [] Sym1 = NoSym       -> rest
         [] Choice(mem, Sym1)  -> <<Call("choice", Top.m), Call("ifmod", Top.m)>>
         [] TypeOf(mem, Sym1) \in Logic -> <<Call("sym", Top.m)>> \o rest
         [] OTHER              -> <<Call("string", Top.m)>> \o rest

ConfEntry ==
    /\ todo # <<>> /\ Top.call = "conf"
    /\ \E v \in {menu_is_visible(mem, Top.m)} : Do("conf", v.st, IF v.shown THEN Inside ELSE <<>>)
    /\ UNCHANGED <<cnt, rootEntry>>

\* conf_choice: the tristate of the choice is asked for first.
ConfChoice ==
    LET choose == [call |-> "choose", m |-> Top.m, new |-> ~HasValue(mem, Sym1)]
    IN /\ Do("choice", mem, IF Changeable(mem, Sym1) THEN <<Call("sym", Top.m), choose>> ELSE <<choose>>)
       /\ UNCHANGED <<cnt, rootEntry>>

IfMod ==
    /\ Do("ifmod", mem, IF mem.curr[Sym1].tri = mod THEN Calls("conf", Children(Top.m)) ELSE <<>>)
    /\ UNCHANGED <<cnt, rootEntry>>

\* conf_askvalue reads a line from the user.
Asks == Changeable(mem, Sym1) /\ (mode = "oldaskconfig" \/ ~HasValue(mem, Sym1))
NoTerminal == Sync /\ ~This.tty

Skip(name) == ~Asks /\ Do(name, mem, <<>>) /\ UNCHANGED <<cnt, rootEntry>>
ConfSymKept == todo # <<>> /\ Top.call = "sym" /\ Skip("sym")
ConfStringKept == todo # <<>> /\ Top.call = "string" /\ Skip("string")

\* The tristate a line stands for; an empty line is the current value.
Meaning(line, old) ==
    CASE line = <<>> -> old
      [] line \in {<<"n">>, <<"n", "o">>, <<"N">>} -> no
      [] line \in {<<"m">>, <<"M">>} -> mod
      [] line \in {<<"y">>, <<"y", "e", "s">>, <<"Y">>} -> yes
      [] OTHER -> -1

ConfSym ==
    /\ pc = "loop" /\ todo # <<>> /\ Top.call = "sym" /\ Asks /\ ~NoTerminal
    /\ \E line \in Answers["sym"] :
       \E val \in {Meaning(line, mem.curr[Sym1].tri)} \ {-1} :
         /\ MaySet(mem, Sym1, val)
         /\ Do("sym", sym_set_tristate_value(mem, Sym1, val).st, <<>>)
    /\ UNCHANGED <<cnt, rootEntry>>

ConfString ==
    /\ pc = "loop" /\ todo # <<>> /\ Top.call = "string" /\ Asks /\ ~NoTerminal
    /\ \E line \in Answers[TypeOf(mem, Sym1)] \ {<<"?">>} :
       \E r \in {sym_set_string_value(mem, Sym1, IF line = <<>> THEN sym_get_string_value(mem, Sym1) ELSE line)} :
         r.ok /\ Do("string", r.st, <<>>)
    /\ UNCHANGED <<cnt, rootEntry>>

\* The values of a choice that is y are listed, those that are shown.
See(a, c) ==
    LET Shown(v) ==
          [st |-> v.st,
           seen |-> IF v.shown /\ Entry(K(v.st), c).sym # NoSym THEN Append(a.seen, c) ELSE a.seen]
    IN Shown(menu_is_visible(a.st, c))
ConfChoiceList ==
    /\ todo # <<>> /\ Top.call = "choose"
    /\ \E l \in {FoldLeft(See, [st |-> sym_calc_value(mem, Sym1), seen |-> <<>>], Children(Top.m))} :
         Do("choose", l.st,
            IF l.st.curr[Sym1].tri = yes
            THEN <<[call |-> "pick", m |-> Top.m, new |-> Top.new, seen |-> l.seen]>> ELSE <<>>)
    /\ UNCHANGED <<cnt, rootEntry>>

\* The number of the selected value; number n is set, and the entries below
\* it are next.
SymAt(m) == Entry(K(mem), m).sym
Current == SelectInSeq(Top.seen, LAMBDA c : SymAt(c) = mem.curr[Sym1].sel)
ChooseNumber(n) ==
    /\ n \in DOMAIN Top.seen
    /\ Do("pick", sym_set_tristate_value(mem, SymAt(Top.seen[n]), yes).st, Calls("conf", Children(Top.seen[n])))

Picking == pc = "loop" /\ todo # <<>> /\ Top.call = "pick"
AsksChoice == Len(Top.seen) # 1 /\ (mode = "oldaskconfig" \/ Top.new)
NumberOf(line) ==
    CASE line = <<>> -> Current
      [] line # <<>> /\ IsDigit(Head(line), 10) /\ Last(line) # "?" -> Number(line, 10)
      [] OTHER -> 0

ConfChoicePick ==
    /\ Picking /\ (AsksChoice => ~NoTerminal)
    /\ \E n \in IF AsksChoice THEN {NumberOf(line) : line \in Answers["choice"]}
                ELSE {IF Len(Top.seen) = 1 THEN 1 ELSE Current} : ChooseNumber(n)
    /\ UNCHANGED <<cnt, rootEntry>>

\* check_stdin: the build has no terminal to ask on.
Abort ==
    /\ pc = "loop" /\ todo # <<>> /\ NoTerminal
    /\ \/ Top.call \in {"sym", "string"} /\ Asks
       \/ Picking /\ AsksChoice
    /\ Exit
    /\ UNCHANGED <<plan, world, faults>>

\* The end of the loop in main: once more, as long as something was asked.
\* Mutant: once is enough.
OnceMoreNever == mode = "oldaskconfig"

OnceMore == mode = "oldaskconfig" \/ (cnt /\ mode \in Asking)

AskedAll ==
    /\ pc = "loop" /\ todo = <<>>
    /\ todo' = IF OnceMore THEN <<Call("check", Root)>> ELSE <<>>
    /\ mode' = IF mode = "oldaskconfig" THEN "silentoldconfig" ELSE mode
    /\ cnt' = FALSE
    /\ pc' = CASE OnceMore -> "loop"
               [] ~OnceMore /\ mode = "listnewconfig" -> "end"
               [] OTHER -> IF Sync /\ ~mem.changed THEN "split" ELSE "write"
    /\ UNCHANGED <<plan, run, mem, rootEntry, tmp, world, faults>>

-----------------------------------------------------------------------------
(* conf_write: a temporary file, then two renames.  No write is checked.   *)

WriteTmp ==
    /\ pc = "write"
    /\ \E w \in {conf_write(mem)} :
         /\ mem' = w.st
         /\ \/ tmp' = [tmp EXCEPT !.lines = w.lines] /\ UNCHANGED faults
            \/ /\ faults < MaxFaults /\ faults' = faults + 1     \* the disk is full
               /\ tmp' = [tmp EXCEPT !.whole = FALSE, !.lines = SubSeq(w.lines, 1, Len(w.lines) \div 2)]
    /\ pc' = "keep"
    /\ UNCHANGED <<plan, run, mode, todo, cnt, rootEntry, world>>

\* Mutant: the old file is deleted.
KeepNothing ==
    /\ pc = "keep"
    /\ disk' = [disk EXCEPT !.config = NoFile]
    /\ pc' = "replace"
    /\ UNCHANGED <<plan, run, mode, mem, todo, cnt, rootEntry, tmp, touched, saved, asked, faults>>

KeepOld ==
    /\ pc = "keep"
    /\ disk' = IF disk.config.exists THEN [disk EXCEPT !.old = disk.config, !.config = NoFile] ELSE disk
    /\ pc' = "replace"
    /\ UNCHANGED <<plan, run, mode, mem, todo, cnt, rootEntry, tmp, touched, saved, asked, faults>>

Replace ==
    /\ pc = "replace"
    /\ disk' = [disk EXCEPT !.config = FileOf(tmp.lines)]
    /\ saved' = IF tmp.whole THEN FileOf(tmp.lines) ELSE saved
    /\ asked' = IF tmp.whole /\ mode \in Asking THEN This.kconf ELSE 0
    /\ mem' = [mem EXCEPT !.changed = FALSE]
    /\ pc' = IF Sync THEN "split" ELSE "end"
    /\ UNCHANGED <<plan, run, mode, todo, cnt, rootEntry, tmp, touched, faults>>

\* conf_write_defconfig opens the file for writing, which empties it.
OpenDefconfig ==
    /\ pc = "save"
    /\ \E w \in {conf_write_defconfig(mem)} : mem' = w.st /\ tmp' = [tmp EXCEPT !.lines = w.lines]
    /\ disk' = [disk EXCEPT !.defconfig = FileOf(<<>>)]
    /\ pc' = "fill"
    /\ UNCHANGED <<plan, run, mode, todo, cnt, rootEntry, touched, saved, asked, faults>>

FillDefconfig ==
    /\ pc = "fill"
    /\ disk' = [disk EXCEPT !.defconfig = FileOf(tmp.lines)]
    /\ pc' = "end"
    /\ UNCHANGED <<plan, run, mode, mem, todo, cnt, rootEntry, tmp, touched, saved, asked, faults>>

-----------------------------------------------------------------------------
(* conf_write_autoconf, which only the build runs                          *)

Split ==
    /\ pc = "split"
    /\ \E st \in {conf_split_config(sym_clear_all_valid(mem), disk.auto)} :
         /\ mem' = st
         /\ \E syms \in {touched_by_split(st)} :
              todo' = [i \in DOMAIN syms |-> [call |-> "touch", sym |-> syms[i]]]
    /\ pc' = "touch"
    /\ UNCHANGED <<plan, run, mode, cnt, rootEntry, tmp, world, faults>>

Touch ==
    /\ pc = "touch" /\ todo # <<>>
    /\ touched' = touched \cup {Top.sym}
    /\ todo' = Tail(todo)
    /\ UNCHANGED <<plan, run, pc, mode, mem, cnt, rootEntry, tmp, disk, saved, asked, faults>>

\* Mutant: the headers are touched after auto.conf is written, if at all.
GenerateEarly ==
    /\ pc = "touch"
    /\ \E g \in {conf_write_autoconf(mem)} :
         /\ mem' = g.st
         /\ tmp' = [whole |-> TRUE, lines |-> g.conf, header |-> g.header, tristate |-> g.tristate]
    /\ pc' = "header" /\ todo' = <<>>
    /\ UNCHANGED <<plan, run, mode, cnt, rootEntry, world, faults>>

Generate ==
    /\ pc = "touch" /\ todo = <<>>
    /\ \E g \in {conf_write_autoconf(mem)} :
         /\ mem' = g.st
         /\ tmp' = [whole |-> TRUE, lines |-> g.conf, header |-> g.header, tristate |-> g.tristate]
    /\ pc' = "header"
    /\ UNCHANGED <<plan, run, mode, todo, cnt, rootEntry, world, faults>>

RenameHeader ==
    /\ pc = "header"
    /\ disk' = [disk EXCEPT !.header = tmp.header]
    /\ pc' = "tristate"
    /\ UNCHANGED <<plan, run, mode, mem, todo, cnt, rootEntry, tmp, touched, saved, asked, faults>>

RenameTristate ==
    /\ pc = "tristate"
    /\ disk' = [disk EXCEPT !.tristate = tmp.tristate]
    /\ pc' = "auto"
    /\ UNCHANGED <<plan, run, mode, mem, todo, cnt, rootEntry, tmp, touched, saved, asked, faults>>

RenameAuto ==
    /\ pc = "auto"
    /\ disk' = [disk EXCEPT !.auto = FileOf(tmp.lines)]
    /\ touched' = {}
    /\ pc' = "end"
    /\ UNCHANGED <<plan, run, mode, mem, todo, cnt, rootEntry, tmp, saved, asked, faults>>

-----------------------------------------------------------------------------
Done == pc = "idle" /\ run > Len(plan) /\ UNCHANGED vars

Next ==
    \/ Start \/ Refuse \/ Crash \/ End \/ SetAll
    \/ CheckConf \/ ConfEntry \/ ConfChoice \/ IfMod
    \/ ConfSymKept \/ ConfSym \/ ConfStringKept \/ ConfString
    \/ ConfChoiceList \/ ConfChoicePick \/ Abort \/ AskedAll
    \/ WriteTmp \/ KeepOld \/ Replace \/ OpenDefconfig \/ FillDefconfig
    \/ Split \/ Touch \/ Generate \/ RenameHeader \/ RenameTristate \/ RenameAuto
    \/ Done

Spec == Init /\ [][Next]_vars

-----------------------------------------------------------------------------
(* Properties *)

\* No crash and no full disk makes the user lose the configuration that was
\* saved last (conf_write): it is in .config or in .config.old, at least until
\* the next run after the disk was full.
LastSaveSurvives == saved.exists => saved \in {disk.config, disk.old}

\* What the lines of auto.conf say of a symbol.  The line of s is stale if new
\* lines say something else.  Left out are strings that are in no Kconfig file
\* any more: conf_split_config never sees them.
About(lines, s) == {l \in ToSet(lines) : l.sym = s}
Gone(st, s) == ~Known(st, s) /\ \E l \in About(disk.auto.lines, s) : Quoted(l.text)
Stale(st, s, lines) == About(disk.auto.lines, s) # About(lines, s) /\ ~Gone(st, s)
SymbolsOfLines(lines) == {l.sym : l \in ToSet(lines)}

\* conf_split_config, which compares values, touches the header of every
\* symbol whose line conf_write_autoconf will write differently, and that
\* writes the same symbols to autoconf.h and auto.conf.
SplitFindsAll ==
    pc = "touch" =>
      \E g \in {conf_write_autoconf(mem)} :
        /\ touched_by_split(mem) \in Seq(Names)
        /\ \A s \in Names : Stale(g.st, s, g.conf) => s \in ToSet(touched_by_split(mem))
        /\ SymbolsOfLines(g.header) = SymbolsOfLines(g.conf)

\* auto.conf is replaced last (conf_write_autoconf): by then the header of
\* every symbol whose line in it changes has been touched, in this run or one
\* that was interrupted, and autoconf.h has the same symbols as it.
HeadersTouched ==
    [][disk'.auto # disk.auto =>
         /\ \A s \in Names : Stale(mem, s, disk'.auto.lines) => s \in touched
         /\ SymbolsOfLines(disk.header) = SymbolsOfLines(disk'.auto.lines)]_vars

=============================================================================
