------------------------------- MODULE Dialogs -------------------------------
(***************************************************************************)
(* The dialogs of menuconfig (support/kconfig/lxdialog): what a key does   *)
(* to the state of a dialog and to what stands on the screen, which the    *)
(* code changes line by line.                                              *)
(*                                                                         *)
(* d is the state of a dialog: the local variables of its function, the    *)
(* items (the list of util.c) and the lines on the screen.  h is the       *)
(* height of the terminal; it is always wide enough here.  A key gives the *)
(* new state and the result, "none" as long as the dialog goes on.  Keys   *)
(* with the same meaning have one name.                                    *)
(***************************************************************************)
EXTENDS Integers, Sequences, FiniteSets, SequencesExt

CONSTANTS
    Hot,          \* Hot[data]: the letter that the text of an item begins with
    ListHeight,   \* CHECKLIST_HEIGTH_MIN, the lines of a radio list
    FieldWidth,   \* box_width of an input box
    MaxLen,       \* MAX_LEN
    JumpNb        \* JUMP_NB, the jump keys on a page

ASSUME DialogsConstantsOK == {ListHeight, FieldWidth, MaxLen, JumpNb} \subseteq Nat \ {0}

Going(d) == [d |-> d, res |-> "none"]
Over(d, res) == [d |-> d, res |-> res]

Smaller(a, b) == IF a < b THEN a ELSE b
Larger(a, b) == IF a > b THEN a ELSE b
FirstOf(S, other) == IF S = {} THEN other ELSE CHOOSE i \in S : \A j \in S : i <= j
LastOf(S, other) == IF S = {} THEN other ELSE CHOOSE i \in S : \A j \in S : i >= j
Repeat(Op(_), d, n) ==
    LET after[i \in Nat] == IF i = 0 THEN d ELSE Op(after[i - 1]) IN after[Larger(n, 0)]

-----------------------------------------------------------------------------
(* Items and lines.  Items count from 0 in the code; the line l of a list  *)
(* shows the item lines[l], -1 stands for an empty line, and lit are the   *)
(* highlighted ones.                                                       *)

Item(data, tag) == [data |-> data, tag |-> tag, hot |-> Hot[data], selected |-> FALSE]
ItemAt(d, i) == d.items[i + 1]
Count(d) == Len(d.items)
\* item_activate_selected
Activated(items) == SelectInSeq(items, LAMBDA i : i.selected)

PrintItem(d, item, line, on) ==
    [d EXCEPT !.lines[line] = item, !.lit = IF on THEN @ \cup {line} ELSE @ \ {line}]
DoScroll(d, n) ==
    LET all == DOMAIN d.lines
    IN [d EXCEPT !.lines = [l \in all |-> IF l + n \in all THEN @[l + n] ELSE -1],
                 !.lit = {l - n : l \in @} \cap all,
                 !.scroll = @ + n]
Draw(d, first, max) ==
    [d EXCEPT !.max = max,
              !.lines = [l \in 0..(max - 1) |-> first + l],
              !.lit = {d.choice} \cap 0..(max - 1)]

-----------------------------------------------------------------------------
(* dialog_menu *)

MenuFits(h) == h >= 15
OpenMenu(items, selected, saved) ==
    [kind |-> "menu", items |-> items, selected |-> selected, saved |-> saved, button |-> 0,
     choice |-> 0, scroll |-> 0, first |-> 0, max |-> 0, lines |-> <<>>, lit |-> {}, alive |-> TRUE, resized |-> FALSE]

\* The item to begin with: the one that is asked for, if it is in the list.
DefaultItem(d) ==
    [d EXCEPT !.choice = LastOf({i \in 0..(Count(d) - 1) : d.selected = ItemAt(d, i).data}, @)]
\* The scroll position of the last time is taken again if it still fits;
\* first, where printing begins, keeps its value otherwise.
Restored(d, max) ==
    IF /\ d.saved <= d.choice /\ d.choice < d.saved + max
       /\ 0 <= d.saved /\ d.saved + max <= Count(d)
    THEN [d EXCEPT !.scroll = d.saved, !.first = d.saved, !.choice = @ - d.saved]
    ELSE [d EXCEPT !.scroll = 0]
Centred(d, max) ==
    LET start == IF d.choice >= Count(d) - (max \div 2) THEN Count(d) - max ELSE d.choice - (max \div 2)
    IN IF d.choice < max THEN d
       ELSE [d EXCEPT !.scroll = start, !.first = start, !.choice = @ - start]
\* Printing an item after the last one is a NULL pointer.
LayMenu(d, h) ==
    LET max == Smaller(h - 14, Count(d))
        c == Centred(Restored(DefaultItem(d), max), max)
    IN [Draw(c, c.first, max) EXCEPT !.alive = c.first + max <= Count(d)]

\* The line of the next item that begins with the letter; y, n, m and h
\* are commands.
WithLetter(d, key, lines) == {l \in lines : ItemAt(d, d.scroll + l).hot = key}
LetterLine(d, key) ==
    IF key \in {"y", "n", "m", "h", "space"} THEN d.max
    ELSE FirstOf(WithLetter(d, key, (d.choice + 1)..(d.max - 1)),
                 FirstOf(WithLetter(d, key, 0..(d.max - 1)), d.max))

MenuUp(d) ==
    IF d.choice < 2 /\ d.scroll # 0 THEN PrintItem(DoScroll(d, -1), d.scroll - 1, 0, FALSE)
    ELSE [d EXCEPT !.choice = Larger(@ - 1, 0)]

\* Mutant: the item of the new line is taken before scrolling.
MenuDownLate(d) ==
    IF d.choice > d.max - 3 /\ d.scroll + d.max < Count(d)
    THEN PrintItem(DoScroll(d, 1), d.scroll + d.max - 1, d.max - 1, FALSE)
    ELSE [d EXCEPT !.choice = Smaller(@ + 1, d.max - 1)]

MenuDown(d) ==
    IF d.choice > d.max - 3 /\ d.scroll + d.max < Count(d)
    THEN PrintItem(DoScroll(d, 1), d.scroll + d.max, d.max - 1, FALSE)
    ELSE [d EXCEPT !.choice = Smaller(@ + 1, d.max - 1)]
PageUpLine(d) ==
    IF d.scroll > 0 THEN PrintItem(DoScroll(d, -1), d.scroll - 1, 0, FALSE)
    ELSE [d EXCEPT !.choice = Larger(@ - 1, 0)]
PageDownLine(d) ==
    IF d.scroll + d.max < Count(d) THEN PrintItem(DoScroll(d, 1), d.scroll + d.max, d.max - 1, FALSE)
    ELSE [d EXCEPT !.choice = IF @ + 1 < d.max THEN @ + 1 ELSE @]

LinesUp(d, n) == Repeat(PageUpLine, d, n)
LinesDown(d, n) == Repeat(PageDownLine, d, n)

MenuMoves == {"up", "down", "pageup", "pagedown"}
MenuMoved(d, key) ==
    CASE key = "up"       -> MenuUp(d)
      [] key = "down"     -> MenuDown(d)
      [] key = "pageup"   -> LinesUp(d, d.max)
      [] key = "pagedown" -> LinesDown(d, d.max)
      [] OTHER            -> [d EXCEPT !.choice = LetterLine(d, key)]
Highlight(d, on) == PrintItem(d, d.scroll + d.choice, d.choice, on)
MenuMove(d, key) == Highlight(MenuMoved(Highlight(d, FALSE), key), TRUE)

Turned(button, key, buttons) == (button + (IF key = "left" THEN buttons - 1 ELSE 1)) % buttons
MenuButtons == <<"select", "exit", "help", "save", "load">>
MenuCommands ==
    [h |-> "help", s |-> "yes", y |-> "yes", n |-> "no", m |-> "mod", space |-> "toggle",
     slash |-> "search", z |-> "all"]

\* What is activated is the item that the code counts as highlighted.
MenuTaken(d) ==
    [d EXCEPT !.saved = d.scroll,
              !.items = IF @ = <<>> THEN @ ELSE [@ EXCEPT ![d.scroll + d.choice + 1].selected = TRUE]]
MenuCommand(d, key, h) ==
    CASE key \in {"left", "right"}   -> Going([d EXCEPT !.button = Turned(@, key, 5)])
      [] key \in DOMAIN MenuCommands -> Over(MenuTaken(d), MenuCommands[key])
      [] key = "enter"               -> Over(MenuTaken(d), MenuButtons[d.button + 1])
      [] key \in {"e", "x", "esc"}   -> Over(d, "esc")
      [] key = "resize"              -> IF MenuFits(h) THEN Going([LayMenu(d, h) EXCEPT !.resized = TRUE])
                                         ELSE Over(d, "small")
      [] OTHER                       -> Going(d)
MenuKey(d, key, h) ==
    IF d.items # <<>> /\ (key \in MenuMoves \/ LetterLine(d, key) < d.max)
    THEN Going(MenuMove(d, key)) ELSE MenuCommand(d, key, h)

-----------------------------------------------------------------------------
(* dialog_checklist, a radio list.  The box is 15 lines high.              *)

ListFits(h) == h >= 15 + ListHeight
\* The selected item is highlighted, or else the last one that is marked.
OpenList(items) ==
    LET marked == {i \in 0..(Len(items) - 1) : items[i + 1].tag = "X"}
    IN [kind |-> "list", items |-> items, button |-> 0, scroll |-> 0, max |-> 0,
        choice |-> IF Activated(items) # 0 THEN Activated(items) - 1 ELSE LastOf(marked, 0),
        lines |-> <<>>, lit |-> {}]
LayList(d) ==
    LET above == Larger(d.choice - ListHeight + 1, 0)
        e == IF above = 0 THEN d ELSE [d EXCEPT !.scroll = above, !.choice = @ - above]
    IN Draw(e, e.scroll, Smaller(ListHeight, Count(d)))

ListMove(d, line) == Highlight([Highlight(d, FALSE) EXCEPT !.choice = line], TRUE)
ListUp(d) ==
    CASE d.choice # 0                  -> ListMove(d, d.choice - 1)
      [] d.choice = 0 /\ d.scroll = 0  -> d
      [] d.choice = 0 /\ d.scroll # 0  ->
           PrintItem(DoScroll(PrintItem(d, d.scroll, 0, FALSE), -1), d.scroll - 1, 0, TRUE)
ListDown(d) ==
    LET last == d.max - 1
    IN CASE d.choice # last                                          -> ListMove(d, d.choice + 1)
         [] d.choice = last /\ d.scroll + d.choice >= Count(d) - 1   -> d
         [] d.choice = last /\ d.scroll + d.choice < Count(d) - 1    ->
              PrintItem(DoScroll(PrintItem(d, d.scroll + last, last, FALSE), 1), d.scroll + d.max, last, TRUE)

ListTaken(d) ==
    [d EXCEPT !.items = [i \in DOMAIN @ |-> [@[i] EXCEPT !.selected = (i = d.scroll + d.choice + 1)]]]
ListCommand(d, key, h) ==
    CASE key = "h"                     -> Over(ListTaken(d), "help")
      [] key \in {"s", "space", "enter"} -> Over(ListTaken(d), <<"select", "help">>[d.button + 1])
      [] key \in {"left", "right"}     -> Going([d EXCEPT !.button = Turned(@, key, 2)])
      [] key \in {"x", "esc"}          -> Over(d, "esc")
      [] key = "resize"                -> IF ListFits(h) THEN Going(LayList(d)) ELSE Over(d, "small")
      [] OTHER                         -> Going(d)
ListKey(d, key, h) ==
    LET hit == FirstOf(WithLetter(d, key, 0..(d.max - 1)), d.max)
    IN CASE key = "up"                             -> Going(ListUp(d))
         [] key = "down"                           -> Going(ListDown(d))
         [] key \notin {"up", "down"} /\ hit < d.max -> Going(ListMove(d, hit))
         [] OTHER                                  -> ListCommand(d, key, h)

-----------------------------------------------------------------------------
(* dialog_inputbox: text is dialog_input_result, pos the position in it.   *)
(* The box shows the text from showX on, the cursor is at inputX in it.    *)
(* Button 0 is the box itself, 1 is Ok and 2 is Help.                      *)

\* What a cell shows that no character is printed in.
Blank == " "
FieldFits(d, h) == h > d.rows - 2
OpenField(rows, text) ==
    [kind |-> "field", rows |-> rows, text |-> text, pos |-> 0, showX |-> 0, inputX |-> 0,
     button |-> 0, cells |-> <<>>]
\* The cells are those of a new window.
LayField(d) ==
    LET len == Len(d.text)
        show == IF len >= FieldWidth THEN len - FieldWidth + 1 ELSE 0
    IN [d EXCEPT !.pos = len, !.showX = show, !.inputX = len - show,
                 !.cells = [i \in 1..FieldWidth |-> IF show + i <= len THEN d.text[show + i] ELSE Blank]]

\* Printing ends with one blank after the text; what is right of it stays.
Reprint(d) ==
    LET left == Len(d.text) - d.showX
    IN [d EXCEPT !.cells = [i \in 1..FieldWidth |->
          CASE i <= left -> d.text[d.showX + i] [] i = left + 1 -> Blank [] OTHER -> @[i]]]
CursorLeft(d) ==
    IF d.inputX = 0 THEN [d EXCEPT !.showX = @ - 1, !.pos = @ - 1]
    ELSE [d EXCEPT !.inputX = @ - 1, !.pos = @ - 1]
CursorRight(d) ==
    IF d.inputX = FieldWidth - 1 THEN [d EXCEPT !.showX = @ + 1, !.pos = @ + 1]
    ELSE [d EXCEPT !.inputX = @ + 1, !.pos = @ + 1]
Rubout(d) ==
    IF d.pos = 0 THEN d
    ELSE Reprint([CursorLeft(d) EXCEPT
                    !.text = SubSeq(@, 1, d.pos - 1) \o SubSeq(@, d.pos + 1, Len(@))])
Typed(d, c) ==
    IF Len(d.text) >= MaxLen THEN d
    ELSE Reprint([CursorRight(d) EXCEPT
                    !.text = SubSeq(@, 1, d.pos) \o <<c>> \o SubSeq(@, d.pos + 1, Len(@))])
\* Without scrolling only the cursor moves.
MoveLeft(d) ==
    CASE d.pos = 0                   -> d
      [] d.pos > 0 /\ d.inputX > 0   -> CursorLeft(d)
      [] OTHER                       -> Reprint(CursorLeft(d))
MoveRight(d) ==
    CASE d.pos >= Len(d.text)                                   -> d
      [] d.pos < Len(d.text) /\ d.inputX < FieldWidth - 1       -> CursorRight(d)
      [] OTHER                                                  -> Reprint(CursorRight(d))

\* In the box all characters are typed; on the buttons some are commands.
FieldEdit(d, key, chars) ==
    CASE key = "backspace" -> Rubout(d)
      [] key = "left"      -> MoveLeft(d)
      [] key = "right"     -> MoveRight(d)
      [] key \in chars     -> Typed(d, key)
FieldCommand(d, key, h) ==
    CASE key \in {"up", "left"}           -> Going([d EXCEPT !.button = Turned(@, "left", 3)])
      [] key \in {"down", "right", "tab"} -> Going([d EXCEPT !.button = Turned(@, "right", 3)])
      [] key = "o"                        -> Over(d, "ok")
      [] key = "h"                        -> Over(d, "help")
      [] key \in {"space", "enter"}       -> Over(d, <<"ok", "ok", "help">>[d.button + 1])
      [] key \in {"x", "esc"}             -> Over(d, "esc")
      [] key = "resize"                   -> IF FieldFits(d, h) THEN Going(LayField(d)) ELSE Over(d, "small")
      [] OTHER                            -> Going(d)
FieldKey(d, key, chars, h) ==
    IF d.button = 0 /\ key \in {"backspace", "left", "right"} \cup chars
    THEN Going(FieldEdit(d, key, chars)) ELSE FieldCommand(d, key, h)

-----------------------------------------------------------------------------
(* dialog_yesno                                                            *)

YesNoFits(h) == h >= 6 + 4
OpenYesNo == [kind |-> "yesno", button |-> 0]
YesNoKey(d, key, h) ==
    CASE key = "y"                     -> Over(d, "yes")
      [] key = "n"                     -> Over(d, "no")
      [] key \in {"left", "right"}     -> Going([d EXCEPT !.button = Turned(@, key, 2)])
      [] key \in {"space", "enter"}    -> Over(d, <<"yes", "no">>[d.button + 1])
      [] key = "esc"                   -> Over(d, "esc")
      [] key = "resize"                -> IF YesNoFits(h) THEN Going(d) ELSE Over(d, "small")
      [] OTHER                         -> Going(d)

-----------------------------------------------------------------------------
(* dialog_textbox.  A text has nl lines that end with a newline, and one   *)
(* more without, if tail.  page is the number of the line the pointer is   *)
(* at the beginning of, EndOf at the end of the text; it is after the last *)
(* line on the screen between keys, and top is the first line.  begun,     *)
(* ended and length are begin_reached, end_reached and page_length.        *)
(*                                                                         *)
(* jumps are the places in the text where a jump key may be shown, with    *)
(* the line and the target; hint[i] is the key that stands there, 0 for    *)
(* none, and keys the pairs of key and target that update_text has given.  *)

TextFits(h) == h >= 8
EndOf(t) == t.nl + (IF t.tail THEN 1 ELSE 0)
BoxLines(d, h) == (IF d.rows # 0 THEN d.rows ELSE h - 4) - 4

GetLine(d) ==
    [d EXCEPT !.page = IF @ = EndOf(d.text) THEN @ ELSE @ + 1,
              !.ended = d.page = EndOf(d.text) \/ d.page = d.text.nl]

GetLines(d, n) == Repeat(GetLine, d, n)

\* One line back; at the end of the text, one only takes back that the end
\* was reached.
LineBack(a) ==
    CASE a.stop -> a
      [] ~a.stop /\ a.d.page = EndOf(a.d.text) /\ a.d.ended -> [a EXCEPT !.d.ended = FALSE]
      [] OTHER -> [d |-> [a.d EXCEPT !.page = Larger(@ - 1, 0), !.begun = a.d.page <= 1],
                   stop |-> a.d.page <= 1]
LinesBack(a, n) == Repeat(LineBack, a, n)
BackLines(d, n) == LinesBack([d |-> [d EXCEPT !.begun = FALSE], stop |-> FALSE], n).d

OnPage(d, from, to) == {i \in DOMAIN d.jumps : from <= d.jumps[i].line /\ d.jumps[i].line < to}
\* update_text of mconf.c: the first jumps on the page get a key, the others
\* on it a blank.
KeyOf(i) == ((i - 1) % JumpNb) + 1
Given(page) == {i \in page : Cardinality({j \in page : j < i}) < JumpNb}
UpdateText(d, from, to) ==
    LET page == OnPage(d, from, to)
    IN [d EXCEPT !.keys = {[key |-> KeyOf(i), target |-> d.jumps[i].target] : i \in Given(page)},
                 !.hint = [i \in DOMAIN @ |-> CASE i \in Given(page) -> KeyOf(i)
                                                [] i \in page \ Given(page) -> 0
                                                [] OTHER -> @[i]]]

\* Mutant: the page to be shown begins where the pointer was.
PrepareEarly(d) ==
    LET e == GetLines(d, d.boxh)
    IN UpdateText(BackLines(e, d.boxh), d.page, e.page)

Prepare(d) ==
    LET e == GetLines(d, d.boxh)
        b == BackLines(e, d.boxh)
    IN UpdateText(b, b.page, e.page)

PrintLine(d) ==
    LET e == GetLine(d)
    IN [e EXCEPT !.length = IF d.passed THEN @ ELSE @ + 1, !.passed = e.ended \/ d.passed]
PrintLines(d, n) == Repeat(PrintLine, d, n)
PrintPage(d) == PrintLines([d EXCEPT !.top = d.page, !.length = 0, !.passed = FALSE], d.boxh)
Refresh(d) == PrintPage(IF d.updates THEN Prepare(d) ELSE d)

\* The vscroll-th line is the first one.
OpenText(rows, text, vscroll, updates, jumps) ==
    GetLines([kind |-> "text", rows |-> rows, text |-> text, boxh |-> 0, page |-> 0, top |-> 0,
              begun |-> vscroll = 0, ended |-> FALSE, length |-> 0, passed |-> FALSE, hscroll |-> 0,
              updates |-> updates, jumps |-> jumps, hint |-> [i \in DOMAIN jumps |-> 0], keys |-> {},
              vscroll |-> vscroll],
             vscroll)
LayText(d, h) == Refresh([d EXCEPT !.boxh = BoxLines(d, h)])

TextMove(d, key) ==
    CASE key = "home" /\ ~d.begun     -> Refresh([d EXCEPT !.begun = TRUE, !.page = 0])
      [] key = "end"                  -> Refresh(BackLines([d EXCEPT !.ended = TRUE, !.page = EndOf(d.text)], d.boxh))
      [] key = "up" /\ ~d.begun       -> Refresh(BackLines(d, d.length + 1))
      [] key = "pageup" /\ ~d.begun   -> Refresh(BackLines(d, d.length + d.boxh))
      [] key = "down" /\ ~d.ended     -> Refresh(BackLines(d, d.length - 1))
      [] key = "pagedown" /\ ~d.ended -> Refresh([d EXCEPT !.begun = FALSE])
      [] key \in {"left", "0"} /\ d.hscroll > 0 ->
           Refresh(BackLines([d EXCEPT !.hscroll = IF key = "0" THEN 0 ELSE @ - 1], d.length))
      [] key = "right" /\ d.hscroll < MaxLen -> Refresh(BackLines([d EXCEPT !.hscroll = @ + 1], d.length))
      [] OTHER                        -> d

\* vscroll is given back, as the number of newlines before the page.
TextOver(d) ==
    LET b == BackLines(d, d.length)
    IN [b EXCEPT !.vscroll = Smaller(b.page, b.text.nl)]
TextMoves == {"home", "end", "up", "down", "pageup", "pagedown", "left", "right", "0"}
\* The other keys for these moves.
TextKeyFor(key) ==
    CASE key = "h" -> "left" [] key = "space" -> "pagedown" [] key = "b" -> "pageup" [] OTHER -> key
JumpKey == <<"1", "2", "3", "4", "5", "6", "7", "8", "9">>
Hit(d, key) == {k \in d.keys : k.key \in DOMAIN JumpKey /\ JumpKey[k.key] = key}
TextKey(d, key, h) ==
    CASE key \in TextMoves         -> Going(TextMove(d, key))
      [] key \in {"enter", "e", "x"} -> Over(TextOver(d), "done")
      [] key = "esc"               -> Over(TextOver(d), "esc")
      [] key = "resize"            ->
           LET b == BackLines(d, d.boxh + 4)
           IN IF TextFits(h) THEN Going(LayText(b, h)) ELSE Over(b, "small")
      [] Hit(d, key) # {}          -> Over(TextOver(d), key)
      [] OTHER                     -> Going(d)

-----------------------------------------------------------------------------
(* What should be on the screen.                                           *)

\* A list shows its items from the scroll position on, and highlights the one
\* that ENTER takes.
ListIsTrue(d) ==
    d.items # <<>> =>
      /\ d.scroll \in 0..(Count(d) - d.max)
      /\ \A l \in 0..(d.max - 1) : d.lines[l] = d.scroll + l
      /\ d.choice \in 0..(d.max - 1) /\ d.lit = {d.choice}
\* An input box shows the text around the cursor, and the cursor is where
\* the next character goes.
FieldIsTrue(d) ==
    /\ \A i \in 1..FieldWidth :
         d.cells[i] = IF d.showX + i <= Len(d.text) THEN d.text[d.showX + i] ELSE Blank
    /\ d.pos = d.showX + d.inputX
    /\ d.inputX \in 0..(FieldWidth - 1) /\ d.pos <= Len(d.text)
\* The jump keys of a text are those that stand on the screen, each at one
\* place, whose target is that of the key.
JumpsShown(d) ==
    {i \in DOMAIN d.jumps : d.jumps[i].line \in d.top..(d.top + d.boxh - 1) /\ d.hint[i] # 0}
JumpsAreTrue(d) ==
    /\ d.keys = {[key |-> d.hint[i], target |-> d.jumps[i].target] : i \in JumpsShown(d)}
    /\ \A i, j \in JumpsShown(d) : d.hint[i] = d.hint[j] => i = j

=============================================================================
