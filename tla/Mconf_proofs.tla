---------------------------- MODULE Mconf_proofs ----------------------------
(***************************************************************************)
(* What menuconfig shows is true, and what it says in the end: in every    *)
(* session of a user, with any menus, symbols and texts the library gives  *)
(* it.                                                                     *)
(*                                                                         *)
(* A dialog that goes on stays true by the lemmas of Dialogs_proofs; the   *)
(* invariant below says what the functions around it give to a new one.    *)
(***************************************************************************)
EXTENDS Mconf, Dialogs_proofs

-----------------------------------------------------------------------------
(* Frames, the stack and what is returned.                                 *)

\* A text over some characters.
IsText(t) == \E S : t \in Seq(S)

\* What the frames of each function hold that the dialogs depend on.
IsFrame(f) ==
    /\ f = [x \in DOMAIN f |-> f[x]] /\ {"fn", "at"} \subseteq DOMAIN f
    /\ f.fn = "conf" => {"menu", "active", "scroll"} \subseteq DOMAIN f /\ f.scroll \in Int
    /\ f.fn = "save" => "name" \in DOMAIN f /\ IsText(f.name)
    /\ f.fn = "text" => {"rows", "text"} \subseteq DOMAIN f /\ (f.rows = 0 \/ (f.rows \in Nat /\ f.rows >= 4))
    /\ f.fn = "search" => {"pattern", "vscroll", "hscroll"} \subseteq DOMAIN f /\ f.vscroll \in Int
    /\ f.fn = "write" => {"name", "lines"} \subseteq DOMAIN f
    /\ f.fn = "exit" => "signal" \in DOMAIN f

IsStack(s) ==
    \E S : s \in Seq(S) /\ (\A f \in S : IsFrame(f)) /\ Len(s) > 0 /\ s[1].fn = "main"

RetFields == {"res", "menu", "tag", "text", "scroll", "column"}
IsRet(r) == r = [x \in RetFields |-> r[x]] /\ IsText(r.text) /\ r.scroll \in Int

\* What a dialog shows is true.
DialogIsTrue(d) ==
    /\ d.kind = "menu" => IsMenuDialog(d) /\ (d.resized \/ ListIsTrue(d))
    /\ d.kind = "list" => IsLaidList(d) /\ ListIsTrue(d)
    /\ d.kind = "field" => \E chars : Blank \in chars /\ FieldChars \subseteq chars
                                      /\ d \in Fields(chars) /\ FieldIsTrue(d)
    /\ d.kind = "yesno" => d \in [kind : {"yesno"}, button : 0..1]
    /\ d.kind = "text" => TrueText(d)
    /\ d.kind \in {"none", "spin", "menu", "list", "field", "yesno", "text"}

Inv ==
    /\ session \in Sessions /\ height \in Nat
    /\ IsStack(stack) /\ IsText(filename)
    /\ IsRet(ret) /\ DialogIsTrue(dlg)
    /\ dlg.kind = "menu" => subtitle = Trail(stack)

\* A frame that goes on at another place.
LEMMA FrameAt ==
    ASSUME NEW f, IsFrame(f), NEW w, NEW p
    PROVE  p = [f EXCEPT !.at = w] => IsFrame(p) /\ p.fn = f.fn
<1>0. SUFFICES ASSUME p = [f EXCEPT !.at = w] PROVE IsFrame(p) /\ p.fn = f.fn
  OBVIOUS
<1>1. f = [x \in DOMAIN f |-> f[x]] /\ {"fn", "at"} \subseteq DOMAIN f
  BY DEF IsFrame
<1>2. /\ DOMAIN p = DOMAIN f /\ p = [x \in DOMAIN p |-> p[x]]
      /\ \A x \in DOMAIN f : x # "at" => p[x] = f[x]
  BY <1>0, <1>1
<1>3. p.fn = f.fn
  BY <1>1, <1>2
<1>4. f.fn = "conf" => p.scroll = f.scroll
  BY <1>2 DEF IsFrame
<1>5. f.fn = "save" => p.name = f.name
  BY <1>2 DEF IsFrame
<1>6. f.fn = "text" => p.rows = f.rows /\ p.text = f.text
  BY <1>2 DEF IsFrame
<1>7. f.fn = "search" => p.vscroll = f.vscroll
  BY <1>2 DEF IsFrame
<1> QED BY <1>1, <1>2, <1>3, <1>4, <1>5, <1>6, <1>7 DEF IsFrame

\* The running function and those it was called from.
LEMMA StackHas ==
    ASSUME NEW s, IsStack(s)
    PROVE  /\ IsFrame(Last(s))
           /\ Last(s).fn # "main" => IsStack(Front(s))
<1>1. PICK S : s \in Seq(S) /\ (\A f \in S : IsFrame(f)) /\ Len(s) > 0 /\ s[1].fn = "main"
  BY DEF IsStack
<1>2. Len(s) \in Nat /\ DOMAIN s = 1..Len(s) /\ \A i \in 1..Len(s) : s[i] \in S
  BY <1>1, LenProperties, ElementOfSeq
<1>3. Last(s) = s[Len(s)] /\ Last(s) \in S
  BY <1>1, <1>2 DEF Last
<1>4. ASSUME Last(s).fn # "main" PROVE IsStack(Front(s))
  <2>1. Len(s) > 1
    BY <1>1, <1>2, <1>3, <1>4
  <2>2. Front(s) = SubSeq(s, 1, Len(s) - 1)
    BY DEF Front
  <2>3. /\ Front(s) \in Seq(S) /\ Len(Front(s)) = Len(s) - 1
        /\ Front(s)[1] = s[1]
    BY <1>1, <1>2, <2>1, <2>2, SubSeqProperties
  <2> QED BY <1>1, <1>2, <2>1, <2>3 DEF IsStack
<1> QED BY <1>1, <1>3, <1>4

\* A call.
LEMMA StackPushed ==
    ASSUME NEW s, IsStack(s), NEW f, IsFrame(f), NEW p
    PROVE  p = Append(s, f) => IsStack(p)
<1>0. SUFFICES ASSUME p = Append(s, f) PROVE IsStack(p)
  OBVIOUS
<1>1. PICK S : s \in Seq(S) /\ (\A g \in S : IsFrame(g)) /\ Len(s) > 0 /\ s[1].fn = "main"
  BY DEF IsStack
<1>2. PICK T : T = S \cup {f}
  OBVIOUS
<1>3. s \in Seq(T) /\ f \in T /\ \A g \in T : IsFrame(g)
  BY <1>1, <1>2, SeqMonotonic
<1>4. Len(s) \in Nat
  BY <1>1, LenProperties
<1>5. p \in Seq(T) /\ Len(p) = Len(s) + 1 /\ p[1] = s[1]
  BY <1>0, <1>1, <1>3, <1>4, AppendProperties
<1> QED BY <1>1, <1>3, <1>4, <1>5 DEF IsStack

\* The running function goes on with another frame.
LEMMA StackReplaced ==
    ASSUME NEW s, IsStack(s), NEW f, IsFrame(f), f.fn = Last(s).fn, NEW p
    PROVE  p = Append(Front(s), f) => IsStack(p)
<1>0. SUFFICES ASSUME p = Append(Front(s), f) PROVE IsStack(p)
  OBVIOUS
<1>1. PICK S : s \in Seq(S) /\ (\A g \in S : IsFrame(g)) /\ Len(s) > 0 /\ s[1].fn = "main"
  BY DEF IsStack
<1>2. PICK T : T = S \cup {f}
  OBVIOUS
<1>3. s \in Seq(T) /\ f \in T /\ \A g \in T : IsFrame(g)
  BY <1>1, <1>2, SeqMonotonic
<1>4. Len(s) \in Nat /\ Last(s) = s[Len(s)]
  BY <1>1, LenProperties DEF Last
<1>5. PICK c : c = Front(s)
  OBVIOUS
<1>6. /\ c \in Seq(T) /\ Len(c) = Len(s) - 1
      /\ Len(s) > 1 => c[1] = s[1]
  <2>1. c = SubSeq(s, 1, Len(s) - 1)
    BY <1>5 DEF Front
  <2>2. PICK n : n = Len(s) - 1
    OBVIOUS
  <2>3. n \in 0..Len(s)
    BY <1>1, <1>4, <2>2
  <2>4. SubSeq(s, 1, n) \in Seq(T) /\ Len(SubSeq(s, 1, n)) = n
    BY <1>3, <1>4, <2>3, SubSeqProperties
  <2>5. ASSUME Len(s) > 1 PROVE SubSeq(s, 1, n)[1] = s[1]
    BY <1>3, <1>4, <2>2, <2>3, <2>5, SubSeqProperties
  <2> QED BY <2>1, <2>2, <2>4, <2>5
<1>7. p \in Seq(T) /\ Len(p) = Len(s) /\ (Len(s) > 1 => p[1] = s[1]) /\ (Len(s) = 1 => p[1] = f)
  BY <1>0, <1>1, <1>3, <1>4, <1>5, <1>6, AppendProperties
<1>8. p[1].fn = "main"
  BY <1>1, <1>4, <1>7
<1> QED BY <1>1, <1>3, <1>4, <1>7, <1>8 DEF IsStack

\* The running function notes something and calls another.
LEMMA StackReplacedPushed ==
    ASSUME NEW s, IsStack(s), NEW f, IsFrame(f), f.fn = Last(s).fn, NEW g, IsFrame(g), NEW p
    PROVE  p = Front(s) \o <<f, g>> => IsStack(p)
<1>0. SUFFICES ASSUME p = Front(s) \o <<f, g>> PROVE IsStack(p)
  OBVIOUS
<1>1. PICK q : q = Append(Front(s), f)
  OBVIOUS
<1>2. IsStack(q)
  BY <1>1, StackReplaced
<1>3. PICK S : s \in Seq(S) /\ Len(s) > 0
  BY DEF IsStack
<1>4. PICK T : T = S \cup {f, g}
  OBVIOUS
<1>5. s \in Seq(T) /\ Len(s) \in Nat /\ f \in T /\ g \in T
  BY <1>3, <1>4, SeqMonotonic, LenProperties
<1>6. PICK c : c = Front(s)
  OBVIOUS
<1>7. c \in Seq(T)
  BY <1>3, <1>5, <1>6, SubSeqProperties DEF Front
<1>8. p = Append(q, g)
  BY <1>0, <1>1, <1>5, <1>6, <1>7
<1> QED BY <1>2, <1>8, StackPushed

\* The frames of the functions that are called.
LEMMA FramesAre ==
    ASSUME NEW m, NEW v, NEW name
    PROVE  /\ IsFrame(ConfCall(m, v)) /\ IsFrame(ChoiceCall(m, v)) /\ IsFrame(StringCall(m))
           /\ IsFrame(WriteCall(name)) /\ IsFrame(SearchCall) /\ IsFrame(ExitCall(v)) /\ IsFrame(Main(v))
<1>2. IsFrame(ConfCall(m, v)) /\ IsFrame(ChoiceCall(m, v)) /\ IsFrame(StringCall(m))
  BY DEF IsFrame, ConfCall, ChoiceCall, StringCall
<1>3. IsFrame(WriteCall(name)) /\ IsFrame(SearchCall) /\ IsFrame(ExitCall(v)) /\ IsFrame(Main(v))
  BY DEF IsFrame, WriteCall, SearchCall, ExitCall, Main
<1> QED BY <1>2, <1>3

\* A call of conf_load or conf_save.
LEMMA FileFrame ==
    ASSUME NEW fn, fn \in {"load", "save"}
    PROVE  IsFrame(FileCall(fn))
<1>1. PICK none : none = <<>>
  OBVIOUS
<1>2. IsText(none)
  <2>1. none \in Seq({})
    BY <1>1
  <2> QED BY <2>1 DEF IsText
<1>3. PICK f : f = FileCall(fn)
  OBVIOUS
<1>4. f = [fn |-> fn, at |-> "loop", name |-> none]
  BY <1>1, <1>3 DEF FileCall
<1>5. DOMAIN f = {"fn", "at", "name"} /\ f = [x \in DOMAIN f |-> f[x]] /\ f.fn = fn /\ IsText(f.name)
  BY <1>2, <1>4
<1> QED BY <1>3, <1>5 DEF IsFrame

\* A call of show_textbox; a box is as high as the terminal or at least five lines.
LEMMA TextFrame ==
    ASSUME NEW rows, rows \in {0, 5, 6}, NEW nl, NEW tail
    PROVE  IsFrame(TextCall(rows, nl, tail))
BY DEF IsFrame, TextCall

\* What is returned without a dialog.
LEMMA RetsAre ==
    ASSUME NEW res
    PROVE  IsRet(NoRet) /\ IsRet(Returns(res)) /\ Returns(res).text = <<>>
<1>1. IsText(<<>>)
  <2>1. <<>> \in Seq({})
    OBVIOUS
  <2> QED BY <2>1 DEF IsText
<1>2. PICK none : none = <<>>
  OBVIOUS
<1>3. PICK r : r = NoRet
  OBVIOUS
<1>4. r = [x \in RetFields |-> r[x]] /\ r.text = none /\ r.scroll = 0 /\ DOMAIN r = RetFields
  BY <1>2, <1>3 DEF NoRet, RetFields
<1>5. PICK t : t = Returns(res)
  OBVIOUS
<1>6. t = [r EXCEPT !.res = res]
  BY <1>3, <1>5 DEF Returns
<1>7. t = [x \in RetFields |-> t[x]] /\ t.text = none /\ t.scroll = 0
  BY <1>4, <1>6 DEF RetFields
<1> QED BY <1>1, <1>2, <1>3, <1>4, <1>5, <1>7 DEF IsRet

-----------------------------------------------------------------------------
(* Steps that leave no dialog.                                             *)

Between == IsStack(stack') /\ dlg' = NoDlg /\ IsRet(ret')

\* A step after which no dialog is shown, with a good stack and result, keeps the
\* invariant.
LEMMA Calm ==
    ASSUME Inv, Between, IsText(filename'), UNCHANGED <<session, height>>
    PROVE  Inv'
<1>1. DialogIsTrue(NoDlg) /\ NoDlg.kind # "menu"
  BY DEF DialogIsTrue, NoDlg
<1>2. DialogIsTrue(dlg)' /\ (dlg.kind # "menu")'
  BY <1>1 DEF Between
<1> QED BY <1>2 DEF Inv, Between

\* The running function goes on at another place.
LEMMA GotoIs ==
    ASSUME IsStack(stack), NEW w
    PROVE  Goto(w) => Between
<1> SUFFICES ASSUME Goto(w) PROVE Between
  OBVIOUS
<1>1. PICK f : f = [Top EXCEPT !.at = w]
  OBVIOUS
<1>2. IsFrame(Top)
  BY StackHas DEF Top
<1>3. IsFrame(f) /\ f.fn = Top.fn
  BY <1>1, <1>2, FrameAt
<1>4. stack' = Append(Front(stack), f)
  BY <1>1 DEF Goto, TopAt, Callers
<1>5. IsStack(stack')
  BY <1>3, <1>4, StackReplaced DEF Top
<1> QED BY <1>5, RetsAre DEF Between, Goto

\* The running function calls another one.
LEMMA CallIs ==
    ASSUME IsStack(stack), NEW f, IsFrame(f), NEW w
    PROVE  Call(f, w) => Between
<1> SUFFICES ASSUME Call(f, w) PROVE Between
  OBVIOUS
<1>1. PICK g : g = [Top EXCEPT !.at = w]
  OBVIOUS
<1>2. IsFrame(Top)
  BY StackHas DEF Top
<1>3. IsFrame(g) /\ g.fn = Top.fn
  BY <1>1, <1>2, FrameAt
<1>4. PICK s : s = TopAt(w)
  OBVIOUS
<1>5. s = Append(Front(stack), g)
  BY <1>1, <1>4 DEF TopAt, Callers
<1>6. IsStack(s)
  BY <1>3, <1>5, StackReplaced DEF Top
<1>7. stack' = Append(s, f)
  BY <1>4 DEF Call
<1>8. IsStack(stack')
  BY <1>6, <1>7, StackPushed
<1> QED BY <1>8, RetsAre DEF Between, Call

\* A function returns; main never does.
LEMMA ReturnIs ==
    ASSUME IsStack(stack), Top.fn # "main", NEW res
    PROVE  Return(res) => Between
BY StackHas, RetsAre DEF Between, Return, Callers, Top

\* conf notes what was chosen.
LEMMA NotedIs ==
    ASSUME IsStack(stack), IsRet(ret), Top.fn = "conf"
    PROVE  IsFrame(Noted) /\ Noted.fn = Top.fn
<1>1. IsFrame(Top)
  BY StackHas DEF Top
<1>2. PICK scroll : scroll = ret.scroll
  OBVIOUS
<1>3. scroll \in Int
  BY <1>2 DEF IsRet
<1>4. PICK f : f = Top
  OBVIOUS
<1>5. f = [x \in DOMAIN f |-> f[x]] /\ {"fn", "at", "menu", "active", "scroll"} \subseteq DOMAIN f /\ f.fn = "conf"
  BY <1>1, <1>4 DEF IsFrame
<1>6. PICK n : n = Noted
  OBVIOUS
<1>7. n = [f EXCEPT !.at = "loop", !.active = ret.menu, !.scroll = scroll]
  BY <1>2, <1>4, <1>6 DEF Noted
<1>8. n = [x \in DOMAIN n |-> n[x]] /\ DOMAIN n = DOMAIN f /\ n.fn = "conf" /\ n.scroll = scroll
  BY <1>5, <1>7
<1> QED BY <1>3, <1>4, <1>5, <1>6, <1>8 DEF IsFrame

\* conf notes what was chosen and shows its menu again.
LEMMA AgainIs ==
    ASSUME IsStack(stack), IsRet(ret), Top.fn = "conf"
    PROVE  Again => Between
<1> SUFFICES ASSUME Again PROVE Between
  OBVIOUS
<1>1. PICK f : f = Noted
  OBVIOUS
<1>2. IsFrame(f) /\ f.fn = Last(stack).fn
  BY <1>1, NotedIs DEF Top
<1>3. stack' = Append(Front(stack), f)
  BY <1>1 DEF Again, Callers
<1>4. IsStack(stack')
  BY <1>2, <1>3, StackReplaced
<1> QED BY <1>4, RetsAre DEF Between, Again

\* conf notes what was chosen and calls a function for it.
LEMMA ThenIs ==
    ASSUME IsStack(stack), IsRet(ret), Top.fn = "conf", NEW g, IsFrame(g)
    PROVE  Then(g) => Between
<1> SUFFICES ASSUME Then(g) PROVE Between
  OBVIOUS
<1>1. PICK f : f = Noted
  OBVIOUS
<1>2. IsFrame(f) /\ f.fn = Last(stack).fn
  BY <1>1, NotedIs DEF Top
<1>3. stack' = Front(stack) \o <<f, g>>
  BY <1>1 DEF Then, Callers
<1>4. IsStack(stack')
  BY <1>2, <1>3, StackReplacedPushed
<1> QED BY <1>4, RetsAre DEF Between, Then

-----------------------------------------------------------------------------
(* The steps of the functions.                                             *)

\* main.
LEMMA MainSteps ==
    ASSUME Inv, Start \/ MainConf \/ MainExit
    PROVE  Inv'
<1>1. IsStack(stack) /\ IsText(filename)
  BY DEF Inv
<1>2. CASE Start
  <2>1. Goto("conf") /\ UNCHANGED <<session, height, filename>>
    BY <1>2 DEF Start, user
  <2> QED BY <1>1, <2>1, GotoIs, Calm
<1>3. CASE MainConf \/ MainExit
  <2>1. PICK f, w : IsFrame(f) /\ Call(f, w)
    BY <1>3, FramesAre DEF MainConf, MainExit
  <2>2. UNCHANGED <<session, height, filename>>
    BY <1>3 DEF MainConf, MainExit, Quiet, user
  <2> QED BY <1>1, <2>1, <2>2, CallIs, Calm
<1> QED BY <1>2, <1>3

\* conf, but for showing the menu.
LEMMA ConfSteps ==
    ASSUME Inv, \/ ConfLeave \/ ConfUnfold \/ ConfSubmenu \/ ConfChoice \/ ConfString \/ ConfNothing
                \/ ConfHelp \/ ConfFile \/ ConfSearch \/ ConfAll \/ ConfSetYes \/ ConfSet
    PROVE  Inv'
<1>1. IsStack(stack) /\ IsText(filename) /\ IsRet(ret)
  BY DEF Inv
<1>2. Top.fn = "conf" /\ UNCHANGED <<session, height, filename>>
  BY DEF ConfLeave, ConfUnfold, ConfSubmenu, ConfChoice, ConfString, ConfNothing, ConfHelp, ConfFile,
         ConfSearch, ConfAll, ConfSetYes, ConfSet, Chosen, Ready, Quiet, user
<1>3. CASE ConfLeave
  <2>1. Return("done")
    BY <1>3 DEF ConfLeave
  <2> QED BY <1>1, <1>2, <2>1, ReturnIs, Calm
<1>4. CASE Again
  BY <1>1, <1>2, <1>4, AgainIs, Calm
<1>5. ASSUME NEW f, IsFrame(f), Then(f) PROVE Inv'
  BY <1>1, <1>2, <1>5, ThenIs, Calm
<1>6. CASE ConfUnfold \/ ConfNothing \/ ConfAll \/ ConfSet
  BY <1>4, <1>6 DEF ConfUnfold, ConfNothing, ConfAll, ConfSet
<1>7. CASE ConfSubmenu
  BY <1>5, <1>7, FramesAre DEF ConfSubmenu
<1>8. CASE ConfChoice
  BY <1>5, <1>8, FramesAre DEF ConfChoice
<1>9. CASE ConfString
  BY <1>5, <1>9, FramesAre DEF ConfString
<1>10. CASE ConfSearch
  BY <1>5, <1>10, FramesAre DEF ConfSearch
<1>11. CASE ConfFile
  <2>1. PICK res \in {"save", "load"} : Then(FileCall(res))
    BY <1>11 DEF ConfFile
  <2> QED BY <1>5, <2>1, FileFrame
<1>12. ASSUME NEW rows, rows \in {0, 5, 6}, NEW nl, NEW tail, Then(TextCall(rows, nl, tail)) PROVE Inv'
  BY <1>5, <1>12, TextFrame
<1>13. CASE ConfHelp
  BY <1>12, <1>13 DEF ConfHelp, Readme
<1>14. CASE ConfSetYes
  BY <1>4, <1>12, <1>14 DEF ConfSetYes
<1> QED BY <1>3, <1>6, <1>7, <1>8, <1>9, <1>10, <1>11, <1>13, <1>14

\* conf_choice, but for showing the values.
LEMMA ChoiceSteps ==
    ASSUME Inv, ChoiceSelect \/ ChoiceHelp \/ ChoiceLeave
    PROVE  Inv'
<1>1. IsStack(stack) /\ IsText(filename) /\ IsRet(ret)
  BY DEF Inv
<1>2. Top.fn = "choice" /\ UNCHANGED <<session, height, filename>>
  BY DEF ChoiceSelect, ChoiceHelp, ChoiceLeave, Ready, Quiet, user
<1>3. ASSUME NEW res, Return(res) PROVE Inv'
  BY <1>1, <1>2, <1>3, ReturnIs, Calm
<1>4. ASSUME NEW w, Goto(w) PROVE Inv'
  BY <1>1, <1>2, <1>4, GotoIs, Calm
<1>5. CASE ChoiceSelect
  BY <1>3, <1>4, <1>5 DEF ChoiceSelect
<1>6. CASE ChoiceLeave
  BY <1>3, <1>6 DEF ChoiceLeave
<1>7. CASE ChoiceHelp
  <2>1. PICK a : /\ stack' = Callers \o <<[Top EXCEPT !.at = "loop", !.chosen = Sym], TextCall(0, a.nl, FALSE)>>
                 /\ dlg' = NoDlg /\ ret' = NoRet
    BY <1>7 DEF ChoiceHelp
  <2>2. PICK f : f = Top
    OBVIOUS
  <2>3. IsFrame(f) /\ f.fn = "choice"
    BY <1>1, <1>2, <2>2, StackHas DEF Top
  <2>4. PICK g : g = [f EXCEPT !.at = "loop", !.chosen = Sym]
    OBVIOUS
  <2>5. f = [x \in DOMAIN f |-> f[x]] /\ {"fn", "at"} \subseteq DOMAIN f
    BY <2>3 DEF IsFrame
  <2>6. g = [x \in DOMAIN g |-> g[x]] /\ DOMAIN g = DOMAIN f /\ g.fn = "choice"
    BY <2>3, <2>4, <2>5
  <2>7. IsFrame(g) /\ g.fn = Last(stack).fn
    BY <1>2, <2>5, <2>6 DEF IsFrame, Top
  <2>8. PICK t : t = TextCall(0, a.nl, FALSE)
    OBVIOUS
  <2>9. IsFrame(t)
    BY <2>8, TextFrame
  <2>10. stack' = Front(stack) \o <<g, t>>
    BY <2>1, <2>2, <2>4, <2>8 DEF Callers
  <2>11. IsStack(stack')
    BY <1>1, <2>7, <2>9, <2>10, StackReplacedPushed
  <2>12. Between
    BY <2>1, <2>11, RetsAre DEF Between
  <2> QED BY <1>1, <1>2, <2>12, Calm
<1> QED BY <1>5, <1>6, <1>7

\* conf_string, conf_load and conf_save, but for showing the input box.
LEMMA FieldSteps ==
    ASSUME Inv, \/ StringOk \/ StringHelp \/ BoxLeave \/ FileHelp \/ FileBlank
                \/ Load \/ LoadMissing \/ Save \/ Saved \/ SaveFailed
    PROVE  Inv'
<1>1. IsStack(stack) /\ IsText(filename) /\ IsRet(ret) /\ IsText(ret.text)
  BY DEF Inv, IsRet
<1>2. Top.fn \in {"string", "load", "save"} /\ UNCHANGED <<session, height>>
  BY DEF StringOk, StringHelp, BoxLeave, FileHelp, FileBlank, Load, LoadMissing, Save, Saved, SaveFailed,
         Ready, Quiet, user
<1>3. ASSUME NEW res, Return(res), IsText(filename') PROVE Inv'
  BY <1>1, <1>2, <1>3, ReturnIs, Calm
<1>4. ASSUME NEW rows, rows \in {0, 5, 6}, NEW nl, NEW tail, NEW w, Call(TextCall(rows, nl, tail), w),
             IsText(filename')
      PROVE  Inv'
  BY <1>1, <1>2, <1>4, TextFrame, CallIs, Calm
<1>5. ASSUME NEW w, Goto(w), IsText(filename') PROVE Inv'
  BY <1>1, <1>2, <1>5, GotoIs, Calm
<1>6. CASE StringOk \/ StringHelp
  <2>1. IsText(filename')
    BY <1>1, <1>6 DEF StringOk, StringHelp, Quiet
  <2> QED BY <1>3, <1>4, <1>6, <2>1 DEF StringOk, StringHelp, ShowHelp, Box
<1>7. CASE BoxLeave
  <2>1. IsText(filename')
    BY <1>1, <1>7 DEF BoxLeave, Quiet
  <2> QED BY <1>3, <1>5, <1>7, <2>1 DEF BoxLeave
<1>8. CASE FileHelp \/ FileBlank \/ LoadMissing \/ SaveFailed
  <2>1. IsText(filename')
    BY <1>1, <1>8 DEF FileHelp, FileBlank, LoadMissing, SaveFailed, Quiet
  <2> QED BY <1>3, <1>4, <1>8, <2>1 DEF FileHelp, FileBlank, LoadMissing, SaveFailed, Readme, Box
<1>9. CASE Load
  <2>1. IsText(filename')
    BY <1>1, <1>9 DEF Load
  <2> QED BY <1>3, <1>9, <2>1 DEF Load
<1>10. CASE Saved
  <2>1. IsFrame(Top) /\ Top.fn = "save"
    BY <1>1, <1>10, StackHas DEF Top, Saved, Ready
  <2>2. IsText(filename')
    BY <1>10, <2>1 DEF Saved, NewName, IsFrame
  <2> QED BY <1>3, <1>10, <2>2 DEF Saved
<1>11. CASE Save
  <2>1. PICK f : f = Top
    OBVIOUS
  <2>2. IsFrame(f) /\ f.fn = "save"
    BY <1>1, <1>11, <2>1, StackHas DEF Top, Save, Ready
  <2>3. PICK text : text = ret.text
    OBVIOUS
  <2>4. PICK g : g = [f EXCEPT !.at = "written", !.name = text]
    OBVIOUS
  <2>5. f = [x \in DOMAIN f |-> f[x]] /\ {"fn", "at", "name"} \subseteq DOMAIN f
    BY <2>2 DEF IsFrame
  <2>6. g = [x \in DOMAIN g |-> g[x]] /\ DOMAIN g = DOMAIN f /\ g.fn = "save" /\ g.name = text
    BY <2>2, <2>4, <2>5
  <2>7. IsFrame(g) /\ g.fn = Last(stack).fn
    BY <1>1, <2>1, <2>2, <2>3, <2>5, <2>6 DEF IsFrame, Top
  <2>8. PICK w : w = WriteCall(text)
    OBVIOUS
  <2>9. IsFrame(w)
    BY <2>8, FramesAre
  <2>10. stack' = Front(stack) \o <<g, w>>
    BY <1>11, <2>1, <2>3, <2>4, <2>8 DEF Callers, Save
  <2>11. IsStack(stack')
    BY <1>1, <2>7, <2>9, <2>10, StackReplacedPushed
  <2>12. Between /\ IsText(filename')
    BY <1>1, <1>11, <2>11, RetsAre DEF Between, Save, Quiet
  <2> QED BY <1>2, <2>12, Calm
<1> QED BY <1>6, <1>7, <1>8, <1>9, <1>10, <1>11

\* conf_write.
LEMMA WriteSteps ==
    ASSUME Inv, WriteFails \/ WriteTmp \/ WriteRename \/ WriteDone
    PROVE  Inv'
<1>1. IsStack(stack) /\ IsText(filename) /\ IsRet(ret)
  BY DEF Inv
<1>2. Top.fn = "write" /\ UNCHANGED <<session, height, filename>>
  BY DEF WriteFails, WriteTmp, WriteRename, WriteDone, Ready, Quiet, user
<1>3. CASE WriteFails \/ WriteDone
  <2>1. PICK res : Return(res)
    BY <1>3 DEF WriteFails, WriteDone
  <2> QED BY <1>1, <1>2, <2>1, ReturnIs, Calm
<1>4. CASE WriteTmp
  <2>1. PICK w : stack' = Append(Callers, [Top EXCEPT !.at = "rename", !.lines = w.lines])
    BY <1>4 DEF WriteTmp
  <2>2. PICK f : f = Top
    OBVIOUS
  <2>3. IsFrame(f) /\ f.fn = "write"
    BY <1>1, <1>2, <2>2, StackHas DEF Top
  <2>4. PICK g : g = [f EXCEPT !.at = "rename", !.lines = w.lines]
    OBVIOUS
  <2>5. f = [x \in DOMAIN f |-> f[x]] /\ {"fn", "at", "name", "lines"} \subseteq DOMAIN f
    BY <2>3 DEF IsFrame
  <2>6. g = [x \in DOMAIN g |-> g[x]] /\ DOMAIN g = DOMAIN f /\ g.fn = "write"
    BY <2>3, <2>4, <2>5
  <2>7. IsFrame(g) /\ g.fn = Last(stack).fn
    BY <1>2, <2>5, <2>6 DEF IsFrame, Top
  <2>8. stack' = Append(Front(stack), g)
    BY <2>1, <2>2, <2>4 DEF Callers
  <2>9. IsStack(stack')
    BY <1>1, <2>7, <2>8, StackReplaced
  <2>10. dlg' = NoDlg /\ ret' = ret
    BY <1>4 DEF WriteTmp, Ready
  <2>11. Between
    BY <1>1, <2>9, <2>10 DEF Between
  <2> QED BY <1>1, <1>2, <2>11, Calm
<1>5. CASE WriteRename
  <2>1. Goto("done") \/ Call(TextCall(6, 0, TRUE), "done")
    BY <1>5 DEF WriteRename, Box
  <2> QED BY <1>1, <1>2, <2>1, GotoIs, CallIs, TextFrame, Calm
<1> QED BY <1>3, <1>4, <1>5

\* search_conf, but for what it shows.
LEMMA SearchSteps ==
    ASSUME Inv, SearchHelp \/ SearchLeave \/ SearchFor \/ SearchJump \/ SearchDone
    PROVE  Inv'
<1>1. IsStack(stack) /\ IsText(filename) /\ IsRet(ret)
  BY DEF Inv
<1>2. Top.fn = "search" /\ UNCHANGED <<session, height, filename>>
  BY DEF SearchHelp, SearchLeave, SearchFor, SearchJump, SearchDone, Ready, Quiet, user
<1>3. PICK f : f = Top
  OBVIOUS
<1>4. IsFrame(f) /\ f.fn = "search"
  BY <1>1, <1>2, <1>3, StackHas DEF Top
<1>5. /\ f = [x \in DOMAIN f |-> f[x]] /\ {"fn", "at", "pattern", "vscroll", "hscroll"} \subseteq DOMAIN f
      /\ f.vscroll \in Int
  BY <1>4 DEF IsFrame
<1>6. CASE SearchHelp
  <2>1. Call(TextCall(0, ReadmeLines, FALSE), "loop")
    BY <1>6 DEF SearchHelp, Readme
  <2> QED BY <1>1, <1>2, <2>1, CallIs, TextFrame, Calm
<1>7. CASE SearchLeave \/ SearchDone
  <2>1. Return("done")
    BY <1>7 DEF SearchLeave, SearchDone
  <2> QED BY <1>1, <1>2, <2>1, ReturnIs, Calm
<1>8. CASE SearchFor
  <2>1. PICK g : g = [f EXCEPT !.at = "show", !.pattern = ret.text]
    OBVIOUS
  <2>2. g = [x \in DOMAIN g |-> g[x]] /\ DOMAIN g = DOMAIN f /\ g.fn = "search" /\ g.vscroll = f.vscroll
    BY <1>4, <1>5, <2>1
  <2>3. IsFrame(g) /\ g.fn = Last(stack).fn
    BY <1>2, <1>5, <2>2 DEF IsFrame, Top
  <2>4. stack' = Append(Front(stack), g)
    BY <1>3, <1>8, <2>1 DEF SearchFor, Callers
  <2>5. IsStack(stack')
    BY <1>1, <2>3, <2>4, StackReplaced
  <2>6. Between
    BY <1>8, <2>5, RetsAre DEF Between, SearchFor
  <2> QED BY <1>1, <1>2, <2>6, Calm
<1>9. CASE SearchJump
  <2>1. PICK scroll : scroll = ret.scroll
    OBVIOUS
  <2>2. scroll \in Int
    BY <1>1, <2>1 DEF IsRet
  <2>3. PICK g : g = [f EXCEPT !.at = "show", !.vscroll = scroll, !.hscroll = ret.column]
    OBVIOUS
  <2>4. g = [x \in DOMAIN g |-> g[x]] /\ DOMAIN g = DOMAIN f /\ g.fn = "search" /\ g.vscroll = scroll
    BY <1>4, <1>5, <2>3
  <2>5. IsFrame(g) /\ g.fn = Last(stack).fn
    BY <1>2, <1>5, <2>2, <2>4 DEF IsFrame, Top
  <2>6. PICK c : c = ConfCall(MenuEntry(ret.menu).parent, ret.menu)
    OBVIOUS
  <2>7. IsFrame(c)
    BY <2>6, FramesAre
  <2>8. stack' = Front(stack) \o <<g, c>>
    BY <1>3, <1>9, <2>1, <2>3, <2>6 DEF SearchJump, Callers
  <2>9. IsStack(stack')
    BY <1>1, <2>5, <2>7, <2>8, StackReplacedPushed
  <2>10. Between
    BY <1>9, <2>9, RetsAre DEF Between, SearchJump
  <2> QED BY <1>1, <1>2, <2>10, Calm
<1> QED BY <1>6, <1>7, <1>8, <1>9

\* The program says its last words, or nothing happens.
LEMMA LastWords ==
    ASSUME Inv, UNCHANGED <<session, height, filename, subtitle, stack, dlg, ret>>
    PROVE  Inv'
BY DEF Inv

\* handle_exit after its question, the end of the program and SIGINT.
LEMMA ExitSteps ==
    ASSUME Inv, \/ TextShown \/ ExitYes \/ ExitUnchanged \/ ExitNo \/ ExitEsc \/ ExitWritten
                \/ Crash \/ Interrupt \/ Spinning \/ Done
    PROVE  Inv'
<1>1. IsStack(stack) /\ IsText(filename) /\ IsRet(ret)
  BY DEF Inv
<1>2. ASSUME NEW what, Say(what) PROVE Inv'
  BY <1>2, LastWords DEF Say, user
<1>3. CASE ExitUnchanged \/ ExitNo \/ ExitWritten
  BY <1>2, <1>3 DEF ExitUnchanged, ExitNo, ExitWritten
<1>4. CASE Crash \/ Spinning \/ Done
  BY <1>4, LastWords DEF Crash, Spinning, Done, vars, user
<1>5. CASE TextShown
  <2>1. Return("done") /\ Top.fn = "text" /\ UNCHANGED <<session, height, filename>>
    BY <1>5 DEF TextShown, Ready, Quiet, user
  <2> QED BY <1>1, <2>1, ReturnIs, Calm
<1>6. CASE ExitYes
  <2>1. Call(WriteCall(filename), "written") /\ UNCHANGED <<session, height, filename>>
    BY <1>6 DEF ExitYes, Quiet, user
  <2> QED BY <1>1, <2>1, CallIs, FramesAre, Calm
<1>7. CASE ExitEsc
  <2>1. CASE Top.signal
    BY <1>2, <1>7, <2>1 DEF ExitEsc
  <2>2. CASE ~Top.signal
    <3>1. Return("esc") /\ Top.fn = "exit" /\ UNCHANGED <<session, height, filename>>
      BY <1>7, <2>2 DEF ExitEsc, Ready, Quiet, user
    <3> QED BY <1>1, <3>1, ReturnIs, Calm
  <2> QED BY <2>1, <2>2
<1>8. CASE Interrupt
  <2>1. PICK f : f = ExitCall(TRUE)
    OBVIOUS
  <2>2. IsFrame(f)
    BY <2>1, FramesAre
  <2>3. stack' = Append(stack, f) /\ dlg' = NoDlg /\ ret' = NoRet /\ UNCHANGED <<session, height, filename>>
    BY <1>8, <2>1 DEF Interrupt, Quiet, user
  <2>4. IsStack(stack')
    BY <1>1, <2>2, <2>3, StackPushed
  <2>5. Between
    BY <2>3, <2>4, RetsAre DEF Between
  <2> QED BY <1>1, <2>3, <2>5, Calm
<1> QED BY <1>3, <1>4, <1>5, <1>6, <1>7, <1>8

-----------------------------------------------------------------------------
(* Steps that show a dialog.                                               *)

\* Where conf goes on makes no difference to the menus around it.
LEMMA TrailAt ==
    ASSUME NEW s, IsStack(s), Last(s).fn = "conf", NEW w, NEW f, f = [Last(s) EXCEPT !.at = w], NEW p
    PROVE  p = Append(Front(s), f) => Trail(p) = Trail(s)
<1>0. SUFFICES ASSUME p = Append(Front(s), f) PROVE Trail(p) = Trail(s)
  OBVIOUS
<1>1. PICK S : s \in Seq(S) /\ Len(s) > 0
  BY DEF IsStack
<1>2. PICK T : T = S \cup {f}
  OBVIOUS
<1>3. PICK n : n = Len(s)
  OBVIOUS
<1>4. s \in Seq(T) /\ n \in Nat /\ n > 0 /\ f \in T /\ DOMAIN s = 1..n
  BY <1>1, <1>2, <1>3, SeqMonotonic, LenProperties
<1>5. PICK c : c = SubSeq(s, 1, n - 1)
  OBVIOUS
<1>6. c \in Seq(T) /\ Len(c) = n - 1 /\ \A i \in 1..(n - 1) : c[i] = s[i]
  <2>1. PICK m : m = n - 1
    OBVIOUS
  <2>2. m \in Int /\ 1 \in Int /\ \A i \in 1..m : s[i] \in T
    BY <1>4, <2>1
  <2>3. SubSeq(s, 1, m) \in Seq(T) /\ Len(SubSeq(s, 1, m)) = m
    BY <1>4, <2>1, <2>2, SubSeqProperties
  <2>4. \A i \in 1..m : SubSeq(s, 1, m)[i] = s[i]
    BY <1>4, <2>1, <2>2, SubSeqProperties
  <2> QED BY <1>5, <2>1, <2>3, <2>4
<1>7. p = Append(c, f)
  BY <1>0, <1>3, <1>5 DEF Front
<1>8. DOMAIN p = 1..n /\ p[n] = f /\ \A i \in 1..(n - 1) : p[i] = s[i]
  BY <1>4, <1>6, <1>7, AppendProperties
<1>9. Title(f) = Title(s[n])
  <2>1. PICK l : l = s[n]
    OBVIOUS
  <2>2. l = Last(s) /\ IsFrame(l) /\ l.fn = "conf"
    BY <1>3, <2>1, StackHas DEF Last
  <2>3. l = [x \in DOMAIN l |-> l[x]] /\ {"fn", "at", "menu"} \subseteq DOMAIN l
    BY <2>2 DEF IsFrame
  <2>4. f = [l EXCEPT !.at = w]
    BY <2>2
  <2>5. f.fn = "conf" /\ f.menu = l.menu
    BY <2>2, <2>3, <2>4
  <2>6. CASE l.menu # Root
    BY <2>1, <2>2, <2>5, <2>6 DEF Title
  <2>7. CASE l.menu = Root
    BY <2>1, <2>2, <2>5, <2>7 DEF Title
  <2> QED BY <2>6, <2>7
<1>10. \A i \in 1..n : Title(p[i]) = Title(s[i])
  <2> SUFFICES ASSUME NEW i \in 1..n PROVE Title(p[i]) = Title(s[i])
    OBVIOUS
  <2>1. CASE i = n
    BY <1>8, <1>9, <2>1
  <2>2. CASE i # n
    <3>1. i \in 1..(n - 1)
      BY <1>4, <2>2
    <3> QED BY <1>8, <3>1
  <2> QED BY <2>1, <2>2
<1>11. PICK a : a = [i \in DOMAIN s |-> Title(s[i])]
  OBVIOUS
<1>12. a = [i \in DOMAIN p |-> Title(p[i])]
  BY <1>4, <1>8, <1>10, <1>11
<1> QED BY <1>11, <1>12 DEF Trail

\* A dialog that is true is shown.
LEMMA ShowIs ==
    ASSUME Inv, NEW d, NEW w, Show(d, w), DialogIsTrue(d), d.kind = "menu" => subtitle' = Trail(stack'),
           UNCHANGED <<session, height, filename>>
    PROVE  Inv'
<1>1. PICK f : f = [Top EXCEPT !.at = w]
  OBVIOUS
<1>2. IsStack(stack) /\ IsFrame(Top)
  BY StackHas DEF Top, Inv
<1>3. IsFrame(f) /\ f.fn = Top.fn
  BY <1>1, <1>2, FrameAt
<1>4. stack' = Append(Front(stack), f)
  BY <1>1 DEF Show, TopAt, Callers
<1>5. IsStack(stack')
  BY <1>2, <1>3, <1>4, StackReplaced DEF Top
<1>6. dlg' = d /\ IsRet(ret')
  BY RetsAre DEF Show
<1>7. DialogIsTrue(dlg') /\ (dlg'.kind = "menu" => subtitle' = Trail(stack'))
  BY <1>6
<1>8. session' = session /\ height' = height /\ filename' = filename
  OBVIOUS
<1>9. session' \in Sessions /\ height' \in Nat /\ IsText(filename')
  BY <1>8 DEF Inv
<1> QED BY <1>5, <1>6, <1>7, <1>9 DEF Inv

\* A new menu.
LEMMA NewMenu ==
    ASSUME NEW items, IsSequence(items), NEW selected, NEW saved, saved \in Int, NEW h, h \in Nat, MenuFits(h), NEW p
    PROVE  p = LayMenu(OpenMenu(items, selected, saved), h) => DialogIsTrue(p)
<1>0. SUFFICES ASSUME p = LayMenu(OpenMenu(items, selected, saved), h) PROVE DialogIsTrue(p)
  OBVIOUS
<1>1. items \in Seq(ToSet(items)) /\ Len(items) \in Nat
  BY LenProperties DEF IsSequence
<1>2. PICK d : d = OpenMenu(items, selected, saved)
  OBVIOUS
<1>3. IsMenuDialog(d) /\ d.choice = 0 /\ d.first = 0 /\ d.items = items
  BY <1>1, <1>2, OpenMenuIs
<1>4. /\ IsMenuDialog(p) /\ p.items = d.items /\ p.resized = d.resized
      /\ d.choice = 0 /\ d.first = 0 /\ Count(d) > 0 => ListIsTrue(p)
  BY <1>0, <1>2, <1>3, LaidMenuIs
<1>5. ListIsTrue(p)
  <2>1. CASE Len(items) > 0
    BY <1>3, <1>4, <2>1 DEF Count
  <2>2. CASE ~(Len(items) > 0)
    <3>1. items = <<>>
      BY <1>1, <2>2, EmptySeq
    <3> QED BY <1>3, <1>4, <3>1 DEF ListIsTrue
  <2> QED BY <2>1, <2>2
<1>6. p.kind = "menu"
  BY <1>4 DEF IsMenuDialog
<1> QED BY <1>4, <1>5, <1>6 DEF DialogIsTrue

\* A new radio list.
LEMMA NewList ==
    ASSUME NEW items, IsSequence(items), NEW p
    PROVE  p = LayList(OpenList(items)) => DialogIsTrue(p)
<1>0. SUFFICES ASSUME p = LayList(OpenList(items)) PROVE DialogIsTrue(p)
  OBVIOUS
<1>1. items \in Seq(ToSet(items)) /\ Len(items) \in Nat
  BY LenProperties DEF IsSequence
<1>2. PICK d : d = OpenList(items)
  OBVIOUS
<1>3. /\ IsListDialog(d) /\ d.scroll = 0 /\ d.items = items
      /\ Len(items) > 0 => d.choice \in 0..(Count(d) - 1)
  BY <1>1, <1>2, OpenListIs
<1>4. /\ IsLaidList(p)
      /\ \/ d.scroll = 0 /\ d.choice \in 0..(Count(d) - 1)
         \/ d.max = Smaller(ListHeight, Count(d)) /\ d.items # <<>> /\ ListIsTrue(d)
         => ListIsTrue(p)
  BY <1>0, <1>2, <1>3, LaidListIs
<1>5. p.items = items
  <2>1. p.items = d.items
    BY <1>0, <1>2, <1>3 DEF LayList, Draw, IsListDialog, ListFields
  <2> QED BY <1>3, <2>1
<1>6. ListIsTrue(p)
  <2>1. CASE Len(items) > 0
    BY <1>3, <1>4, <2>1
  <2>2. CASE ~(Len(items) > 0)
    <3>1. items = <<>>
      BY <1>1, <2>2, EmptySeq
    <3> QED BY <1>5, <3>1 DEF ListIsTrue
  <2> QED BY <2>1, <2>2
<1>7. p.kind = "list"
  BY <1>4 DEF IsLaidList, IsListDialog
<1> QED BY <1>4, <1>6, <1>7 DEF DialogIsTrue

\* A new input box, or the loop that shows nothing.
LEMMA NewField ==
    ASSUME NEW rows, rows \in Int, NEW text, IsText(text), NEW p
    PROVE  /\ p = LayField(OpenField(rows, text)) => DialogIsTrue(p) /\ p.kind # "menu"
           /\ p = Spin => DialogIsTrue(p) /\ p.kind # "menu"
<1>1. ASSUME p = Spin PROVE DialogIsTrue(p) /\ p.kind # "menu"
  BY <1>1 DEF Spin, DialogIsTrue
<1>2. ASSUME p = LayField(OpenField(rows, text)) PROVE DialogIsTrue(p) /\ p.kind # "menu"
  <2>1. PICK S : text \in Seq(S)
    BY DEF IsText
  <2>2. PICK chars : chars = S \cup FieldChars \cup {Blank}
    OBVIOUS
  <2>3. text \in Seq(chars) /\ Blank \in chars /\ FieldChars \subseteq chars
    BY <2>1, <2>2, SeqMonotonic
  <2>4. p \in Fields(chars) /\ FieldIsTrue(p)
    BY <1>2, <2>3, OpenFieldIs
  <2>5. p.kind = "field"
    BY <2>4 DEF Fields
  <2> QED BY <2>3, <2>4, <2>5 DEF DialogIsTrue
<1> QED BY <1>1, <1>2

\* A new text, and the results of a search.
LEMMA NewText ==
    ASSUME NEW rows, rows = 0 \/ (rows \in Nat /\ rows >= 4), NEW text, text.nl \in Nat,
           NEW vscroll, vscroll \in Int, NEW updates, NEW jumps,
           updates => JumpLines([text |-> text, jumps |-> jumps, hint |-> [i \in DOMAIN jumps |-> 0]]),
           NEW p
    PROVE  p = OpenText(rows, text, vscroll, updates, jumps) => Readable(p)
<1>0. SUFFICES ASSUME p = OpenText(rows, text, vscroll, updates, jumps) PROVE Readable(p)
  OBVIOUS
<1>1. PICK begun \in BOOLEAN : begun = (vscroll = 0)
  OBVIOUS
<1>2. PICK hint : hint = [i \in DOMAIN jumps |-> 0]
  OBVIOUS
<1>3. PICK d : d = [kind |-> "text", rows |-> rows, text |-> text, boxh |-> 0, page |-> 0, top |-> 0,
              begun |-> begun, ended |-> FALSE, length |-> 0, passed |-> FALSE, hscroll |-> 0,
              updates |-> updates, jumps |-> jumps, hint |-> hint, keys |-> {}, vscroll |-> vscroll]
  OBVIOUS
<1>4. /\ d = [x \in TextFields |-> d[x]] /\ d.kind = "text" /\ d.rows = rows /\ d.text = text /\ d.boxh = 0
      /\ d.page = 0 /\ d.begun = begun /\ ~d.ended /\ d.ended \in BOOLEAN /\ ~d.passed /\ d.passed \in BOOLEAN
      /\ d.length = 0 /\ d.updates = updates /\ d.jumps = jumps /\ d.hint = hint /\ d.vscroll = vscroll
  BY <1>3 DEF TextFields
<1>5. 0 \in 0..EndOf(text)
  BY DEF EndOf
<1>6. IsTextDialog(d)
  BY <1>4, <1>5 DEF IsTextDialog
<1>7. updates => JumpLines(d)
  BY <1>2, <1>4 DEF JumpLines
<1>8. Readable(d)
  BY <1>4, <1>6, <1>7 DEF Readable
<1>9. p = GetLines(d, vscroll)
  BY <1>0, <1>1, <1>2, <1>3 DEF OpenText
<1>10. d \in Leafed(d)
  BY <1>6, LeafedSelf
<1>11. /\ p \in Leafed(d)
       /\ vscroll <= 0 => p = d
       /\ vscroll > 0 => /\ p.page = Smaller(d.page + vscroll, EndOf(d.text))
                          /\ (p.ended <=> Smaller(d.page + (vscroll - 1), EndOf(d.text)) \in {EndOf(d.text), d.text.nl})
  BY <1>6, <1>9, <1>10, GetLinesIs
<1>12. p \in Leafed(d)
  BY <1>11
<1> QED BY <1>8, <1>12, LeafedReadable

\* A text box is true when it is shown.
LEMMA TrueTextShown ==
    ASSUME NEW d, Readable(d), NEW h, h \in Nat, TextFits(h), NEW p
    PROVE  p = LayText(d, h) => DialogIsTrue(p) /\ p.kind = "text"
<1>0. SUFFICES ASSUME p = LayText(d, h) PROVE DialogIsTrue(p) /\ p.kind = "text"
  OBVIOUS
<1>1. TrueText(p)
  BY <1>0, LayTextIs
<1>2. p.kind = "text"
  BY <1>1 DEF TrueText, Readable, IsTextDialog
<1> QED BY <1>1, <1>2 DEF DialogIsTrue

\* conf shows a menu under the names of the menus around it.
LEMMA ConfShows ==
    ASSUME Inv, ShowsData, ConfLoop
    PROVE  Inv'
<1>1. IsStack(stack) /\ IsText(filename) /\ height \in Nat /\ Top.fn = "conf" /\ Ready("conf", "loop")
  BY DEF Inv, ConfLoop, Ready
<1>2. UNCHANGED <<session, height, filename>>
  BY DEF ConfLoop, user
<1>3. PICK b : /\ b = build_conf(mem, Top.menu, View)
               /\ subtitle' = IF b.counted THEN Trail(stack) ELSE subtitle
               /\ ShowMenu(b)
  BY DEF ConfLoop
<1>4. PICK items : items = b.items
  OBVIOUS
<1>5. IsSequence(items)
  BY <1>1, <1>3, <1>4 DEF ShowsData
<1>6. CASE b.counted /\ MenuFits(height)
  <2>1. PICK saved : saved = Top.scroll
    OBVIOUS
  <2>2. IsFrame(Top)
    BY <1>1, StackHas DEF Top
  <2>3. saved \in Int
    BY <1>1, <2>1, <2>2 DEF IsFrame
  <2>4. PICK d : d = LayMenu(OpenMenu(items, Top.active, saved), height)
    OBVIOUS
  <2>5. Show(d, "result")
    BY <1>3, <1>4, <1>6, <2>1, <2>4 DEF ShowMenu
  <2>6. PICK h : h = height
    OBVIOUS
  <2>7. d = LayMenu(OpenMenu(items, Top.active, saved), h) /\ h \in Nat /\ MenuFits(h)
    BY <1>1, <1>6, <2>4, <2>6
  <2>8. DialogIsTrue(d)
    BY <1>5, <2>3, <2>7, NewMenu
  <2>9. PICK f : f = [Last(stack) EXCEPT !.at = "result"]
    OBVIOUS
  <2>10. stack' = Append(Front(stack), f)
    BY <2>5, <2>9 DEF Show, TopAt, Callers, Top
  <2>11. Last(stack).fn = "conf"
    BY <1>1 DEF Top
  <2>12. Trail(stack') = Trail(stack)
    BY <1>1, <2>9, <2>10, <2>11, TrailAt
  <2>13. subtitle' = Trail(stack')
    BY <1>3, <1>6, <2>12
  <2> QED BY <1>2, <2>5, <2>8, <2>13, ShowIs
<1>7. CASE ~(b.counted /\ MenuFits(height))
  <2>1. Return("done")
    BY <1>3, <1>7 DEF ShowMenu
  <2> QED BY <1>1, <1>2, <2>1, ReturnIs, Calm
<1> QED BY <1>6, <1>7

\* conf_choice shows the values of a choice.
LEMMA ChoiceShows ==
    ASSUME Inv, ShowsData, ChoiceLoop
    PROVE  Inv'
<1>1. IsStack(stack) /\ IsText(filename) /\ Top.fn = "choice" /\ Ready("choice", "loop")
  BY DEF Inv, ChoiceLoop, Ready
<1>2. UNCHANGED <<session, height, filename>>
  BY DEF ChoiceLoop, Quiet, user
<1>3. PICK c : /\ c = ChoiceItems(mem, SymOf(Top.menu))
               /\ IF ListFits(height) THEN Show(LayList(OpenList(c.items)), "result") ELSE Return("small")
  BY DEF ChoiceLoop
<1>4. PICK items : items = c.items
  OBVIOUS
<1>5. IsSequence(items)
  BY <1>1, <1>3, <1>4 DEF ShowsData
<1>6. PICK d : d = LayList(OpenList(items))
  OBVIOUS
<1>7. DialogIsTrue(d)
  BY <1>5, <1>6, NewList
<1>8. d.kind = "list"
  <2>1. PICK e : e = OpenList(items)
    OBVIOUS
  <2>2. IsListDialog(e)
    <3>1. Len(items) \in Nat
      BY <1>5, LenProperties DEF IsSequence
    <3> QED BY <2>1, <3>1, OpenListIs
  <2>3. IsLaidList(d)
    BY <1>6, <2>1, <2>2, LaidListIs
  <2> QED BY <2>3 DEF IsLaidList, IsListDialog
<1>9. CASE ListFits(height)
  <2>1. Show(d, "result")
    BY <1>3, <1>4, <1>6, <1>9
  <2> QED BY <1>2, <1>7, <1>8, <2>1, ShowIs
<1>10. CASE ~ListFits(height)
  <2>1. Return("small")
    BY <1>3, <1>10
  <2> QED BY <1>1, <1>2, <2>1, ReturnIs, Calm
<1> QED BY <1>9, <1>10

\* The input boxes of conf_string, conf_load, conf_save and search_conf.
LEMMA FieldShows ==
    ASSUME Inv, ShowsData, StringLoop \/ FileLoop \/ SearchLoop
    PROVE  Inv'
<1>1. IsStack(stack) /\ IsText(filename) /\ Top.fn \in {"string", "load", "save", "search"}
  BY DEF Inv, StringLoop, FileLoop, SearchLoop, Ready
<1>2. UNCHANGED <<session, height, filename>>
  BY DEF StringLoop, FileLoop, SearchLoop, Quiet, user
<1>3. ASSUME NEW rows, rows \in Int, NEW text, IsText(text), ShowField(rows, text) PROVE Inv'
  <2>1. PICK d : d = IF FieldFits(OpenField(rows, text), height) THEN LayField(OpenField(rows, text)) ELSE Spin
    OBVIOUS
  <2>2. DialogIsTrue(d) /\ d.kind # "menu"
    BY <1>3, <2>1, NewField
  <2>3. Show(d, "result")
    BY <1>3, <2>1 DEF ShowField
  <2> QED BY <1>2, <2>2, <2>3, ShowIs
<1>4. CASE StringLoop
  <2>1. PICK text : text = sym_get_string_value(mem, SymOf(Top.menu))
    OBVIOUS
  <2>2. IsText(text)
    BY <1>4, <2>1 DEF StringLoop, ShowsData, IsSequence, IsText
  <2>3. ShowField(10, text) /\ 10 \in Int
    BY <1>4, <2>1 DEF StringLoop
  <2> QED BY <1>3, <2>2, <2>3
<1>5. CASE FileLoop
  <2>1. ShowField(11, filename) /\ 11 \in Int
    BY <1>5 DEF FileLoop
  <2> QED BY <1>1, <1>3, <2>1
<1>6. CASE SearchLoop
  <2>1. PICK none : none = <<>>
    OBVIOUS
  <2>2. IsText(none)
    <3>1. none \in Seq({})
      BY <2>1
    <3> QED BY <3>1 DEF IsText
  <2>3. ShowField(10, none) \/ Return("small")
    BY <1>6, <2>1 DEF SearchLoop
  <2>4. CASE ShowField(10, none)
    <3>1. 10 \in Int
      OBVIOUS
    <3> QED BY <1>3, <2>2, <2>4, <3>1
  <2>5. CASE Return("small")
    BY <1>1, <1>2, <2>5, ReturnIs, Calm
  <2> QED BY <2>3, <2>4, <2>5
<1> QED BY <1>4, <1>5, <1>6

\* show_textbox shows a text.
LEMMA TextShows ==
    ASSUME Inv, ShowsData, TextShow
    PROVE  Inv'
<1>1. IsStack(stack) /\ IsText(filename) /\ Top.fn = "text" /\ Ready("text", "show") /\ height \in Nat
  BY DEF Inv, TextShow, Ready
<1>2. UNCHANGED <<session, height, filename>>
  BY DEF TextShow, Quiet, user
<1>3. IF TextFits(height) THEN Show(LayText(OpenText(Top.rows, Top.text, 0, FALSE, <<>>), height), "shown")
      ELSE Return("small")
  BY DEF TextShow
<1>4. CASE TextFits(height)
  <2>1. PICK rows : rows = Top.rows
    OBVIOUS
  <2>2. rows = 0 \/ (rows \in Nat /\ rows >= 4)
    BY <1>1, <2>1, StackHas DEF Top, IsFrame
  <2>3. PICK text : text = Top.text
    OBVIOUS
  <2>4. text.nl \in Nat
    BY <1>1, <2>3 DEF ShowsData
  <2>5. PICK vscroll : vscroll = 0
    OBVIOUS
  <2>6. PICK updates : updates = FALSE
    OBVIOUS
  <2>7. PICK jumps : jumps = <<>>
    OBVIOUS
  <2>8. PICK d : d = OpenText(rows, text, vscroll, updates, jumps)
    OBVIOUS
  <2>9. updates => JumpLines([text |-> text, jumps |-> jumps, hint |-> [i \in DOMAIN jumps |-> 0]])
    BY <2>6
  <2>10. vscroll \in Int
    BY <2>5
  <2>11. Readable(d)
    BY <2>2, <2>4, <2>8, <2>9, <2>10, NewText
  <2>12. PICK h : h = height
    OBVIOUS
  <2>13. h \in Nat /\ TextFits(h)
    BY <1>1, <1>4, <2>12
  <2>14. PICK p : p = LayText(d, h)
    OBVIOUS
  <2>15. DialogIsTrue(p) /\ p.kind = "text"
    BY <2>11, <2>13, <2>14, TrueTextShown
  <2>16. Show(p, "shown")
    BY <1>3, <1>4, <2>1, <2>3, <2>5, <2>6, <2>7, <2>8, <2>12, <2>14
  <2> QED BY <1>2, <2>15, <2>16, ShowIs
<1>5. CASE ~TextFits(height)
  <2>1. Return("small")
    BY <1>3, <1>5
  <2> QED BY <1>1, <1>2, <2>1, ReturnIs, Calm
<1> QED BY <1>4, <1>5

\* The places of jump keys, as a text box needs them.
LEMMA PlacesAre ==
    ASSUME NEW a, PlacesFollow(a), NEW text, text.nl = a.nl, NEW jumps, jumps = a.jumps
    PROVE  JumpLines([text |-> text, jumps |-> jumps, hint |-> [i \in DOMAIN jumps |-> 0]])
<1>1. PICK hint : hint = [i \in DOMAIN jumps |-> 0]
  OBVIOUS
<1>2. jumps \in Seq(ToSet(jumps))
  BY DEF PlacesFollow, IsSequence
<1>3. Len(jumps) \in Nat /\ DOMAIN jumps = 1..Len(jumps) /\ DOMAIN hint = DOMAIN jumps
  BY <1>1, <1>2, LenProperties
<1>4. \A i \in DOMAIN jumps : jumps[i].line \in 0..(text.nl - 1)
  BY DEF PlacesFollow
<1>5. text.nl \in Nat
  BY DEF PlacesFollow
<1>6. ASSUME NEW i \in DOMAIN jumps, NEW j \in DOMAIN jumps, i < j PROVE jumps[i].line <= jumps[j].line
  <2>1. jumps[i].line < jumps[j].line
    BY <1>6 DEF PlacesFollow
  <2>2. jumps[i].line \in Int /\ jumps[j].line \in Int
    BY <1>4, <1>5
  <2> QED BY <2>1, <2>2
<1>7. PICK d : d = [text |-> text, jumps |-> jumps, hint |-> hint]
  OBVIOUS
<1>8. d.text = text /\ d.jumps = jumps /\ d.hint = hint
  BY <1>7
<1>9. JumpLines(d)
  BY <1>3, <1>4, <1>6, <1>8 DEF JumpLines
<1> QED BY <1>1, <1>7, <1>9

\* search_conf shows its results where they were left.
LEMMA SearchShows ==
    ASSUME Inv, ShowsData, SearchShow
    PROVE  Inv'
<1>1. IsStack(stack) /\ IsText(filename) /\ Top.fn = "search" /\ Ready("search", "show") /\ height \in Nat
  BY DEF Inv, SearchShow, Ready
<1>2. UNCHANGED <<session, height, filename>>
  BY DEF SearchShow, user
<1>3. PICK a : /\ a = get_relations_str(mem, Matches(Top.pattern))
               /\ IF TextFits(height) THEN Show(LayText(Results(a), height), "shown") ELSE Return("small")
  BY DEF SearchShow
<1>4. PlacesFollow(a)
  BY <1>1, <1>3 DEF ShowsData
<1>5. CASE TextFits(height)
  <2>1. PICK rows : rows = 0
    OBVIOUS
  <2>2. PICK text : text = [nl |-> a.nl, tail |-> FALSE]
    OBVIOUS
  <2>3. text.nl = a.nl /\ text.nl \in Nat
    BY <1>4, <2>2 DEF PlacesFollow
  <2>4. PICK vscroll : vscroll = Top.vscroll
    OBVIOUS
  <2>5. vscroll \in Int
    BY <1>1, <2>4, StackHas DEF Top, IsFrame
  <2>6. PICK updates : updates = TRUE
    OBVIOUS
  <2>7. PICK jumps : jumps = a.jumps
    OBVIOUS
  <2>8. PICK d : d = OpenText(rows, text, vscroll, updates, jumps)
    OBVIOUS
  <2>9. updates => JumpLines([text |-> text, jumps |-> jumps, hint |-> [i \in DOMAIN jumps |-> 0]])
    BY <1>4, <2>3, <2>7, PlacesAre
  <2>10. rows = 0 \/ (rows \in Nat /\ rows >= 4)
    BY <2>1
  <2>11. text.nl \in Nat
    BY <2>3
  <2>12. Readable(d)
    BY <2>5, <2>8, <2>9, <2>10, <2>11, NewText
  <2>13. PICK e : e = [d EXCEPT !.hscroll = Top.hscroll]
    OBVIOUS
  <2>14. Readable(e) /\ e.length = d.length
    BY <2>12, <2>13, ScrolledReadable
  <2>15. PICK h : h = height
    OBVIOUS
  <2>16. h \in Nat /\ TextFits(h)
    BY <1>1, <1>5, <2>15
  <2>17. PICK p : p = LayText(e, h)
    OBVIOUS
  <2>18. DialogIsTrue(p) /\ p.kind = "text"
    BY <2>14, <2>16, <2>17, TrueTextShown
  <2>19. Show(p, "shown")
    BY <1>3, <1>5, <2>1, <2>2, <2>4, <2>6, <2>7, <2>8, <2>13, <2>15, <2>17 DEF Results
  <2> QED BY <1>2, <2>18, <2>19, ShowIs
<1>6. CASE ~TextFits(height)
  <2>1. Return("small")
    BY <1>3, <1>6
  <2> QED BY <1>1, <1>2, <2>1, ReturnIs, Calm
<1> QED BY <1>5, <1>6

\* handle_exit asks whether to save.
LEMMA ExitAsks ==
    ASSUME Inv, ExitAsk
    PROVE  Inv'
<1>1. IsStack(stack) /\ IsText(filename)
  BY DEF Inv
<1>2. UNCHANGED <<session, height, filename>>
  BY DEF ExitAsk, user
<1>3. CASE dlg' = OpenYesNo /\ ret' = NoRet
  <2>1. Show(OpenYesNo, "answer")
    BY <1>3 DEF ExitAsk, Show
  <2>2. DialogIsTrue(OpenYesNo) /\ OpenYesNo.kind # "menu"
    BY DEF DialogIsTrue, OpenYesNo
  <2> QED BY <1>2, <2>1, <2>2, ShowIs
<1>4. ASSUME NEW res, dlg' = NoDlg /\ ret' = Returns(res) PROVE Inv'
  <2>1. PICK f : f = [Top EXCEPT !.at = "answer"]
    OBVIOUS
  <2>2. IsFrame(Top)
    BY <1>1, StackHas DEF Top
  <2>3. IsFrame(f) /\ f.fn = Top.fn
    BY <2>1, <2>2, FrameAt
  <2>4. stack' = Append(Front(stack), f)
    BY <2>1 DEF ExitAsk, TopAt, Callers
  <2>5. IsStack(stack')
    BY <1>1, <2>3, <2>4, StackReplaced DEF Top
  <2>6. Between
    BY <1>4, <2>5, RetsAre DEF Between
  <2> QED BY <1>1, <1>2, <2>6, Calm
<1> QED BY <1>3, <1>4 DEF ExitAsk

-----------------------------------------------------------------------------
(* Keys.                                                                   *)

\* What a dialog that is over returns.
LEMMA ResultIs ==
    ASSUME NEW r, \/ MenuEnds(r) \/ ListEnds(r) \/ TextEnds(r)
                  \/ \E chars : FieldEnds(r, chars)
                  \/ r.d.kind = "yesno"
    PROVE  IsRet(Result(r))
<1>1. PICK n : n = NoRet
  OBVIOUS
<1>2. n = [x \in RetFields |-> n[x]] /\ DOMAIN n = RetFields /\ IsText(n.text) /\ n.scroll \in Int
  <2>1. IsRet(n)
    BY <1>1, RetsAre
  <2> QED BY <2>1 DEF IsRet
<1>3. PICK q : q = Returns(r.res)
  OBVIOUS
<1>4. q = [x \in RetFields |-> q[x]] /\ DOMAIN q = RetFields /\ IsText(q.text) /\ q.scroll \in Int
  <2>1. IsRet(q)
    BY <1>3, RetsAre
  <2> QED BY <2>1 DEF IsRet
<1>5. CASE MenuEnds(r) \/ ListEnds(r)
  <2>1. r.d.kind \in {"menu", "list"} /\ (r.d.kind = "menu" => r.d.saved \in Int)
    BY <1>5 DEF MenuEnds, ListEnds
  <2>0. PICK scroll : scroll = IF r.d.kind = "menu" THEN r.d.saved ELSE 0
    OBVIOUS
  <2>2. PICK menu, tag :
          /\ menu = IF Activated(r.d.items) = 0 THEN 0 ELSE r.d.items[Activated(r.d.items)].data
          /\ tag = IF Activated(r.d.items) = 0 THEN "" ELSE r.d.items[Activated(r.d.items)].tag
    OBVIOUS
  <2>3. Result(r) = TakenItem(r.d, r.res)
    BY <2>1 DEF Result
  <2>4. Result(r) = [n EXCEPT !.res = r.res, !.menu = menu, !.tag = tag, !.scroll = scroll]
    BY <1>1, <2>0, <2>2, <2>3 DEF TakenItem
  <2>5. scroll \in Int
    BY <2>0, <2>1
  <2>6. PICK p : p = [n EXCEPT !.res = r.res, !.menu = menu, !.tag = tag, !.scroll = scroll]
    OBVIOUS
  <2>7. p = [x \in RetFields |-> p[x]] /\ p.text = n.text /\ p.scroll = scroll
    BY <1>2, <2>6 DEF RetFields
  <2> QED BY <1>2, <2>4, <2>5, <2>6, <2>7 DEF IsRet
<1>6. CASE \E chars : FieldEnds(r, chars)
  <2>1. PICK chars : FieldEnds(r, chars)
    BY <1>6
  <2>2. r.d.kind = "field" /\ IsText(r.d.text)
    BY <2>1 DEF FieldEnds, IsText
  <2>3. PICK text : text = r.d.text
    OBVIOUS
  <2>4. PICK p : p = [q EXCEPT !.text = text]
    OBVIOUS
  <2>5. Result(r) = p
    BY <1>3, <2>2, <2>3, <2>4 DEF Result
  <2>6. p = [x \in RetFields |-> p[x]] /\ p.text = text /\ p.scroll = q.scroll
    BY <1>4, <2>4 DEF RetFields
  <2> QED BY <1>4, <2>2, <2>3, <2>5, <2>6 DEF IsRet
<1>7. CASE r.d.kind = "yesno"
  <2>1. Result(r) = Returns(r.res)
    BY <1>7 DEF Result
  <2> QED BY <2>1, RetsAre
<1>8. CASE TextEnds(r)
  <2>1. r.d.kind = "text" /\ r.d.vscroll \in Int
    BY <1>8 DEF TextEnds
  <2>2. PICK menu, scroll, column : menu = JumpTarget(r.d, r.res) /\ scroll = r.d.vscroll /\ column = r.d.hscroll
    OBVIOUS
  <2>3. PICK p : p = [q EXCEPT !.menu = menu, !.scroll = scroll, !.column = column]
    OBVIOUS
  <2>4. Result(r) = p
    BY <1>3, <2>1, <2>2, <2>3 DEF Result
  <2>5. p = [x \in RetFields |-> p[x]] /\ p.text = q.text /\ p.scroll = scroll
    BY <1>4, <2>3 DEF RetFields
  <2> QED BY <1>4, <2>1, <2>2, <2>4, <2>5 DEF IsRet
<1> QED BY <1>5, <1>6, <1>7, <1>8

\* A key of a question leaves it as it is, turns to the other button or ends it.
LEMMA YesNoKeyIs ==
    ASSUME NEW d, d \in [kind : {"yesno"}, button : 0..1], NEW key, NEW h, NEW r
    PROVE  r = YesNoKey(d, key, h) =>
             /\ r.d \in [kind : {"yesno"}, button : 0..1]
             /\ r.d.kind = "yesno"
<1>0. SUFFICES ASSUME r = YesNoKey(d, key, h)
               PROVE  r.d \in [kind : {"yesno"}, button : 0..1]
  OBVIOUS
<1>1. CASE key \in {"left", "right"}
  <2>1. PICK b : b = Turned(d.button, key, 2)
    OBVIOUS
  <2>2. b \in 0..1
    BY <2>1, TurnedIs
  <2>3. r = Going([d EXCEPT !.button = b])
    BY <1>0, <1>1, <2>1 DEF YesNoKey
  <2>4. PICK p : p = [d EXCEPT !.button = b]
    OBVIOUS
  <2>5. p \in [kind : {"yesno"}, button : 0..1]
    BY <2>2, <2>4
  <2> QED BY <2>3, <2>4, <2>5 DEF Going
<1>2. CASE key \notin {"left", "right"}
  <2>1. r.d = d
    BY <1>0, <1>2 DEF YesNoKey, Going, Over
  <2> QED BY <2>1
<1> QED BY <1>1, <1>2

\* What a key leads to: the dialog goes on and is true, or it is over.
Led(d, r) ==
    \/ r.res = "none" /\ DialogIsTrue(r.d) /\ r.d.kind = d.kind
    \/ r.res # "none" /\ IsRet(Result(r))

\* Each key leads a dialog that is true to one that is true, or to a result.
LEMMA KeyToIs ==
    ASSUME Inv, Alive, NEW key, NEW h, h \in Nat, NEW r
    PROVE  r = KeyTo(key, h) => Led(dlg, r)
<1>0. SUFFICES ASSUME r = KeyTo(key, h) PROVE Led(dlg, r)
  OBVIOUS
<1>1. DialogIsTrue(dlg) /\ dlg.kind \in {"menu", "list", "field", "yesno", "text"}
  BY DEF Inv, DialogIsTrue, Alive
<1>2. CASE dlg.kind = "menu"
  <2>1. r = MenuKey(dlg, key, h)
    BY <1>0, <1>2 DEF KeyTo
  <2>2. IsMenuDialog(dlg) /\ (dlg.resized \/ ListIsTrue(dlg))
    BY <1>1, <1>2 DEF DialogIsTrue
  <2>3. MenuGoesOn(dlg, r) \/ MenuEnds(r)
    BY <2>1, <2>2, MenuKeyIs
  <2>4. CASE MenuGoesOn(dlg, r)
    <3>1. r.res = "none" /\ IsMenuDialog(r.d) /\ (r.d.resized \/ ListIsTrue(r.d))
      BY <2>2, <2>4 DEF MenuGoesOn
    <3>2. r.d.kind = "menu"
      BY <3>1 DEF IsMenuDialog
    <3> QED BY <1>2, <3>1, <3>2 DEF Led, DialogIsTrue
  <2>5. CASE MenuEnds(r)
    BY <2>5, ResultIs DEF Led, MenuEnds
  <2> QED BY <2>3, <2>4, <2>5
<1>3. CASE dlg.kind = "list"
  <2>1. r = ListKey(dlg, key, h)
    BY <1>0, <1>3 DEF KeyTo
  <2>2. IsLaidList(dlg) /\ ListIsTrue(dlg)
    BY <1>1, <1>3 DEF DialogIsTrue
  <2>3. ListGoesOn(dlg, r) \/ ListEnds(r)
    BY <2>1, <2>2, ListKeyIs
  <2>4. CASE ListGoesOn(dlg, r)
    <3>1. r.res = "none" /\ IsLaidList(r.d) /\ ListIsTrue(r.d)
      BY <2>2, <2>4 DEF ListGoesOn
    <3>2. r.d.kind = "list"
      BY <3>1 DEF IsLaidList, IsListDialog
    <3> QED BY <1>3, <3>1, <3>2 DEF Led, DialogIsTrue
  <2>5. CASE ListEnds(r)
    BY <2>5, ResultIs DEF Led, ListEnds
  <2> QED BY <2>3, <2>4, <2>5
<1>4. CASE dlg.kind = "field"
  <2>1. r = FieldKey(dlg, key, FieldChars, h)
    BY <1>0, <1>4 DEF KeyTo
  <2>2. PICK chars : Blank \in chars /\ FieldChars \subseteq chars /\ dlg \in Fields(chars) /\ FieldIsTrue(dlg)
    BY <1>1, <1>4 DEF DialogIsTrue
  <2>3. PICK keys : keys = FieldChars
    OBVIOUS
  <2>4. keys \subseteq chars /\ keys \cap {"backspace", "left", "right"} = {} /\ r = FieldKey(dlg, key, keys, h)
    BY <2>1, <2>2, <2>3, MconfConstantsOK
  <2>5. FieldGoesOn(r, chars) \/ FieldEnds(r, chars)
    BY <2>2, <2>4, FieldKeyIs
  <2>6. CASE FieldGoesOn(r, chars)
    <3>1. r.res = "none" /\ r.d \in Fields(chars) /\ FieldIsTrue(r.d)
      BY <2>6 DEF FieldGoesOn
    <3>2. r.d.kind = "field"
      BY <3>1 DEF Fields
    <3> QED BY <1>4, <2>2, <3>1, <3>2 DEF Led, DialogIsTrue
  <2>7. CASE FieldEnds(r, chars)
    <3>1. IsRet(Result(r))
      BY <2>7, ResultIs
    <3> QED BY <2>7, <3>1 DEF Led, FieldEnds
  <2> QED BY <2>5, <2>6, <2>7
<1>5. CASE dlg.kind = "yesno"
  <2>1. r = YesNoKey(dlg, key, h)
    BY <1>0, <1>5 DEF KeyTo
  <2>2. dlg \in [kind : {"yesno"}, button : 0..1]
    BY <1>1, <1>5 DEF DialogIsTrue
  <2>3. r.d \in [kind : {"yesno"}, button : 0..1] /\ r.d.kind = "yesno"
    BY <2>1, <2>2, YesNoKeyIs
  <2>4. IsRet(Result(r))
    BY <2>3, ResultIs
  <2>5. DialogIsTrue(r.d)
    BY <2>3 DEF DialogIsTrue
  <2> QED BY <1>5, <2>3, <2>4, <2>5 DEF Led
<1>6. CASE dlg.kind = "text"
  <2>1. r = TextKey(dlg, TextKeyFor(key), h)
    BY <1>0, <1>6 DEF KeyTo
  <2>2. TrueText(dlg)
    BY <1>1, <1>6 DEF DialogIsTrue
  <2>3. TextGoesOn(r) \/ TextEnds(r)
    BY <2>1, <2>2, TextKeyIs
  <2>4. CASE TextGoesOn(r)
    <3>1. r.res = "none" /\ TrueText(r.d)
      BY <2>4 DEF TextGoesOn
    <3>2. r.d.kind = "text"
      BY <3>1 DEF TrueText, Readable, IsTextDialog
    <3> QED BY <1>6, <3>1, <3>2 DEF Led, DialogIsTrue
  <2>5. CASE TextEnds(r)
    BY <2>5, ResultIs DEF Led, TextEnds
  <2> QED BY <2>3, <2>4, <2>5
<1> QED BY <1>1, <1>2, <1>3, <1>4, <1>5, <1>6

\* A key, or a terminal of another size.
LEMMA KeySteps ==
    ASSUME Inv, Press \/ Resize
    PROVE  Inv'
<1>1. Alive
  BY DEF Press, Resize
<1>2. PICK key, h, r : h \in Nat /\ height' = h /\ r = KeyTo(key, h) /\ Pressed(r, key)
  <2>1. CASE Press
    BY <2>1 DEF Press, Inv
  <2>2. CASE Resize
    <3>1. session.heights \subseteq Nat
      BY MconfConstantsOK DEF Inv
    <3> QED BY <2>2, <3>1 DEF Resize
  <2> QED BY <2>1, <2>2
<1>3. Led(dlg, r)
  BY <1>1, <1>2, KeyToIs
<1>4. UNCHANGED <<session, filename, subtitle, stack>>
  BY <1>2 DEF Pressed
<1>5. CASE r.res = "none"
  <2>1. dlg' = r.d /\ ret' = NoRet
    BY <1>2, <1>5 DEF Pressed
  <2>2. DialogIsTrue(r.d) /\ r.d.kind = dlg.kind
    BY <1>3, <1>5 DEF Led
  <2>3. IsRet(NoRet)
    BY RetsAre
  <2> QED BY <1>2, <1>4, <2>1, <2>2, <2>3 DEF Inv
<1>6. CASE r.res # "none"
  <2>1. dlg' = NoDlg /\ ret' = Result(r)
    BY <1>2, <1>6 DEF Pressed
  <2>2. IsRet(Result(r))
    BY <1>3, <1>6 DEF Led
  <2>3. DialogIsTrue(NoDlg) /\ NoDlg.kind # "menu"
    BY DEF DialogIsTrue, NoDlg
  <2> QED BY <1>2, <1>4, <2>1, <2>2, <2>3 DEF Inv
<1> QED BY <1>5, <1>6

-----------------------------------------------------------------------------
(* The specification.                                                      *)

\* The invariant holds when the program begins
LEMMA InitIs == Init => Inv
<1> SUFFICES ASSUME Init PROVE Inv
  OBVIOUS
<1>1. session \in Sessions /\ height \in Nat
  BY MconfConstantsOK DEF Init
<1>2. IsStack(stack)
  <2>1. PICK f : f = Main("start")
    OBVIOUS
  <2>2. IsFrame(f) /\ f.fn = "main"
    <3>1. IsFrame(f)
      BY <2>1, FramesAre
    <3> QED BY <2>1, <3>1 DEF Main
  <2>3. PICK s, S : s = <<f>> /\ S = {f}
    OBVIOUS
  <2>4. s \in Seq(S) /\ Len(s) > 0 /\ s[1] = f /\ \A g \in S : IsFrame(g)
    BY <2>2, <2>3
  <2>5. IsStack(s)
    BY <2>2, <2>4 DEF IsStack
  <2> QED BY <2>1, <2>3, <2>5 DEF Init
<1>3. IsText(filename)
  BY MconfConstantsOK DEF Init, IsText, IsSequence
<1>4. IsRet(ret)
  BY RetsAre DEF Init
<1>5. DialogIsTrue(dlg) /\ dlg.kind # "menu"
  BY DEF Init, DialogIsTrue, NoDlg
<1> QED BY <1>1, <1>2, <1>3, <1>4, <1>5 DEF Inv

\* and every step keeps it where the library gives lists and texts.
LEMMA NextIs == Inv /\ ShowsData /\ [Next]_vars => Inv'
<1> SUFFICES ASSUME Inv, ShowsData, [Next]_vars PROVE Inv'
  OBVIOUS
<1>1. CASE Start \/ MainConf \/ MainExit
  BY <1>1, MainSteps
<1>2. CASE \/ ConfLeave \/ ConfUnfold \/ ConfSubmenu \/ ConfChoice \/ ConfString \/ ConfNothing
           \/ ConfHelp \/ ConfFile \/ ConfSearch \/ ConfAll \/ ConfSetYes \/ ConfSet
  BY <1>2, ConfSteps
<1>3. CASE ConfLoop
  BY <1>3, ConfShows
<1>4. CASE ChoiceLoop
  BY <1>4, ChoiceShows
<1>5. CASE ChoiceSelect \/ ChoiceHelp \/ ChoiceLeave
  BY <1>5, ChoiceSteps
<1>6. CASE StringLoop \/ FileLoop \/ SearchLoop
  BY <1>6, FieldShows
<1>7. CASE \/ StringOk \/ StringHelp \/ BoxLeave \/ FileHelp \/ FileBlank
           \/ Load \/ LoadMissing \/ Save \/ Saved \/ SaveFailed
  BY <1>7, FieldSteps
<1>8. CASE WriteFails \/ WriteTmp \/ WriteRename \/ WriteDone
  BY <1>8, WriteSteps
<1>9. CASE SearchHelp \/ SearchLeave \/ SearchFor \/ SearchJump \/ SearchDone
  BY <1>9, SearchSteps
<1>10. CASE SearchShow
  BY <1>10, SearchShows
<1>11. CASE TextShow
  BY <1>11, TextShows
<1>12. CASE ExitAsk
  BY <1>12, ExitAsks
<1>13. CASE \/ TextShown \/ ExitYes \/ ExitUnchanged \/ ExitNo \/ ExitEsc \/ ExitWritten
            \/ Crash \/ Interrupt \/ Spinning \/ Done
  BY <1>13, ExitSteps
<1>14. CASE Press \/ Resize
  BY <1>14, KeySteps
<1>15. CASE UNCHANGED vars
  BY <1>15, LastWords DEF vars, user
<1> QED
  BY <1>1, <1>2, <1>3, <1>4, <1>5, <1>6, <1>7, <1>8, <1>9, <1>10, <1>11, <1>12, <1>13, <1>14, <1>15 DEF Next

\* So it always holds.
LEMMA InvHolds == Spec /\ []ShowsData => []Inv
<1>1. Init => Inv
  BY InitIs
<1>2. Inv /\ ShowsData /\ [Next]_vars => Inv'
  BY NextIs
<1> QED BY <1>1, <1>2, PTL DEF Spec

\* What stands on the screen is true in every session: the lists of menus and
\* choices, the text of an input box, and the menus that are named at the top,
\* as long as the library gives lists and texts (dialog_menu, dialog_checklist,
\* dialog_inputbox, set_subtitle).
THEOREM ScreenStaysTrue == Spec /\ []ShowsData => []ScreenIsTrue
<1>1. Inv => ScreenIsTrue
  BY DEF Inv, DialogIsTrue, ScreenIsTrue
<1> QED BY <1>1, InvHolds, PTL

\* The jump keys of the results of a search are those on the screen, however
\* the user has scrolled, resized and come back, if the places of the jumps
\* follow each other in the text (get_relations_str, update_text).
THEOREM JumpsStayTrue == Spec /\ []ShowsData => []JumpGoesWhereShown
<1>1. Inv => JumpGoesWhereShown
  BY DEF Inv, DialogIsTrue, TrueText, JumpGoesWhereShown
<1> QED BY <1>1, InvHolds, PTL

-----------------------------------------------------------------------------
(* What menuconfig says in the end.                                        *)
(*                                                                         *)
(* Unless the handler of SIGINT runs on top of conf_write, the file named  *)
(* by filename reads back as the configuration in memory whenever the      *)
(* number of changes is 0; for a moment after conf_save has written, it is *)
(* the file that conf_save was given.  The stack has to be known for that: *)
(* on top of conf_write is at most a text, and below it the function that  *)
(* takes the name it has written.                                          *)

IsSignal(f) == f.fn = "exit" /\ f.signal
IsPlain(f) == f.fn # "write" /\ ~IsSignal(f)
AllPlain(s) == \E S : s \in Seq(S) /\ \A f \in S : IsPlain(f)

\* The handler calls nothing but conf_write, and that shows a text.
Handler(s) ==
    \A i, j \in DOMAIN s : i < j /\ IsSignal(s[i]) => s[j].fn \in {"write", "text"}

\* The function that waits for conf_write, and takes over its name.
CalledBy(c, w, name) ==
    /\ c.at = "written"
    /\ (c.fn = "save" /\ w.name = c.name) \/ (c.fn = "exit" /\ w.name = name)
Shape(s, name) ==
    /\ \A i, j \in DOMAIN s : i < j /\ s[i].fn = "write" => s[j].fn = "text"
    /\ \A j \in DOMAIN s : s[j].fn = "write" => j > 1 /\ CalledBy(s[j - 1], s[j], name)

Good(name) == ReadBack(mem, files[name]) = Kept(mem)
JustSaved == Top.fn = "save" /\ Top.at = "written" /\ ret.res = "ok"

World == filename \in FileNames /\ DOMAIN files = FileNames /\ "changed" \in DOMAIN mem

WritesAreGood ==
    \A i \in DOMAIN stack :
        /\ stack[i].fn = "write" /\ stack[i].at \in {"rename", "done"} => stack[i].name \in FileNames
        /\ stack[i].fn = "write" /\ stack[i].at = "done" => Good(stack[i].name)

Told ==
    /\ Top.at # "start" /\ ~mem.changed /\ ~forgot /\ ~JustSaved => Good(filename)
    /\ JustSaved => Top.name \in FileNames /\ Good(Top.name)
    /\ Top.fn = "exit" /\ Top.at = "written" /\ ret.res = "ok" => Good(filename)
    /\ Top.fn = "exit" /\ Top.at = "answer" /\ ret.res = "clean" => ~mem.changed

FileIsTrue == Shape(stack, filename) /\ World /\ WritesAreGood /\ Told

\* Where a function can be while a dialog is shown.
TopPlaced ==
    dlg # NoDlg => Top.at \in {"result", "shown", "answer"} /\ (Top.fn = "exit" => dlg.kind = "yesno")

TruthInv ==
    /\ Inv /\ Handler(stack) /\ TopPlaced /\ ExitTellsTheTruth
    /\ InWrite(stack) \/ FileIsTrue

-----------------------------------------------------------------------------
(* Stacks, frame by frame.                                                 *)

Replaced(p, s, f) ==
    Len(p) = Len(s) /\ p[Len(s)] = f /\ \A i \in 1..(Len(s) - 1) : p[i] = s[i]
Pushed(p, s, f) ==
    Len(p) = Len(s) + 1 /\ p[Len(s) + 1] = f /\ \A i \in 1..Len(s) : p[i] = s[i]
Popped(p, s) == Len(p) = Len(s) - 1 /\ \A i \in 1..(Len(s) - 1) : p[i] = s[i]

\* The frames of a stack.
LEMMA StackIs ==
    ASSUME NEW s, IsStack(s)
    PROVE  /\ Len(s) \in Nat \ {0} /\ DOMAIN s = 1..Len(s) /\ Last(s) = s[Len(s)]
           /\ \A i \in DOMAIN s : IsFrame(s[i])
           /\ s[1].fn = "main"
<1>1. PICK S : s \in Seq(S) /\ (\A f \in S : IsFrame(f)) /\ Len(s) > 0 /\ s[1].fn = "main"
  BY DEF IsStack
<1>2. Len(s) \in Nat /\ DOMAIN s = 1..Len(s) /\ \A i \in 1..Len(s) : s[i] \in S
  BY <1>1, LenProperties, ElementOfSeq
<1>3. Last(s) = s[Len(s)]
  BY DEF Last
<1> QED BY <1>1, <1>2, <1>3

\* The running function returns,
LEMMA PoppedIs ==
    ASSUME NEW s, IsStack(s), NEW p
    PROVE  p = Front(s) => Popped(p, s)
<1>0. SUFFICES ASSUME p = Front(s) PROVE Popped(p, s)
  OBVIOUS
<1>1. PICK S : s \in Seq(S) /\ Len(s) > 0
  BY DEF IsStack
<1>2. PICK n : n = Len(s) - 1
  OBVIOUS
<1>3. Len(s) \in Nat /\ n \in 0..Len(s)
  BY <1>1, <1>2, LenProperties
<1>4. p = SubSeq(s, 1, n)
  BY <1>0, <1>2 DEF Front
<1>5. Len(p) = n /\ \A i \in 1..n : p[i] = s[i]
  BY <1>1, <1>3, <1>4, SubSeqProperties
<1> QED BY <1>2, <1>5 DEF Popped

\* goes on with another frame,
LEMMA ReplacedIs ==
    ASSUME NEW s, IsStack(s), NEW f, NEW p
    PROVE  p = Append(Front(s), f) => Replaced(p, s, f)
<1>0. SUFFICES ASSUME p = Append(Front(s), f) PROVE Replaced(p, s, f)
  OBVIOUS
<1>1. PICK S : s \in Seq(S) /\ Len(s) > 0
  BY DEF IsStack
<1>2. PICK T : T = S \cup {f}
  OBVIOUS
<1>3. s \in Seq(T) /\ f \in T /\ Len(s) \in Nat
  BY <1>1, <1>2, SeqMonotonic, LenProperties
<1>4. PICK c : c = Front(s)
  OBVIOUS
<1>5. Popped(c, s)
  BY <1>4, PoppedIs
<1>6. c \in Seq(T)
  BY <1>1, <1>3, <1>4, SubSeqProperties DEF Front
<1>7. p = Append(c, f)
  BY <1>0, <1>4
<1>8. Len(p) = Len(c) + 1 /\ p[Len(c) + 1] = f /\ \A i \in 1..Len(c) : p[i] = c[i]
  BY <1>3, <1>6, <1>7, AppendProperties
<1>9. Len(c) = Len(s) - 1 /\ \A i \in 1..(Len(s) - 1) : c[i] = s[i]
  BY <1>5 DEF Popped
<1>10. Len(c) + 1 = Len(s) /\ \A i \in 1..(Len(s) - 1) : p[i] = s[i]
  BY <1>3, <1>8, <1>9
<1> QED BY <1>8, <1>10 DEF Replaced

\* or calls another one.
LEMMA PushedIs ==
    ASSUME NEW s, IsStack(s), NEW f, NEW p
    PROVE  p = Append(s, f) => Pushed(p, s, f)
<1>0. SUFFICES ASSUME p = Append(s, f) PROVE Pushed(p, s, f)
  OBVIOUS
<1>1. PICK S : s \in Seq(S) /\ Len(s) > 0
  BY DEF IsStack
<1>2. PICK T : T = S \cup {f}
  OBVIOUS
<1>3. s \in Seq(T) /\ f \in T /\ Len(s) \in Nat
  BY <1>1, <1>2, SeqMonotonic, LenProperties
<1> QED BY <1>0, <1>3, AppendProperties DEF Pushed

\* A stack with the same functions at other places.
LEMMA ReplacedKeeps ==
    ASSUME NEW s, IsStack(s), NEW p, IsStack(p), NEW f, Replaced(p, s, f),
           f.fn = Last(s).fn, IsSignal(f) <=> IsSignal(Last(s)), Handler(s)
    PROVE  Handler(p) /\ (InWrite(p) <=> InWrite(s))
<1>1. /\ Len(s) \in Nat \ {0} /\ DOMAIN s = 1..Len(s) /\ DOMAIN p = 1..Len(s)
      /\ Last(s) = s[Len(s)]
  BY StackIs DEF Replaced
<1>2. \A i \in DOMAIN s : p[i].fn = s[i].fn /\ (IsSignal(p[i]) <=> IsSignal(s[i]))
  <2>1. TAKE i \in DOMAIN s
  <2>2. CASE i = Len(s)
    BY <1>1, <2>2 DEF Replaced
  <2>3. CASE i # Len(s)
    <3>1. i \in 1..(Len(s) - 1)
      BY <1>1, <2>3
    <3>2. p[i] = s[i]
      BY <3>1 DEF Replaced
    <3> QED BY <3>2
  <2> QED BY <2>2, <2>3
<1>3. Handler(p)
  BY <1>1, <1>2 DEF Handler
<1>4. InWrite(s) <=> \E i \in DOMAIN s : \E j \in 1..i : IsSignal(s[i]) /\ s[j].fn = "write"
  BY DEF InWrite, IsSignal
<1>5. InWrite(p) <=> \E i \in DOMAIN p : \E j \in 1..i : IsSignal(p[i]) /\ p[j].fn = "write"
  BY DEF InWrite, IsSignal
<1>6. \A i \in DOMAIN s : \A j \in 1..i : j \in DOMAIN s
  BY <1>1
<1>7. InWrite(p) <=> InWrite(s)
  BY <1>1, <1>2, <1>4, <1>5, <1>6
<1> QED BY <1>3, <1>7

\* A call: nothing but conf_write and texts above the handler.
LEMMA PushedKeeps ==
    ASSUME NEW s, IsStack(s), NEW p, IsStack(p), NEW f, Pushed(p, s, f), Handler(s),
           f.fn \in {"write", "text"} \/ \A i \in DOMAIN s : ~IsSignal(s[i])
    PROVE  Handler(p) /\ (InWrite(s) => InWrite(p))
<1>1. /\ Len(s) \in Nat \ {0} /\ DOMAIN s = 1..Len(s) /\ DOMAIN p = 1..(Len(s) + 1)
      /\ p[Len(s) + 1] = f /\ \A i \in DOMAIN s : p[i] = s[i]
  BY StackIs DEF Pushed
<1>2. Handler(p)
  <2>1. SUFFICES ASSUME NEW i \in DOMAIN p, NEW j \in DOMAIN p, i < j, IsSignal(p[i])
                 PROVE  p[j].fn \in {"write", "text"}
    BY DEF Handler
  <2>2. i \in DOMAIN s /\ p[i] = s[i]
    BY <1>1, <2>1
  <2>3. CASE j \in DOMAIN s
    <3>1. p[j] = s[j]
      BY <1>1, <2>3
    <3> QED BY <2>1, <2>2, <2>3, <3>1 DEF Handler
  <2>4. CASE j \notin DOMAIN s
    <3>1. j = Len(s) + 1
      BY <1>1, <2>1, <2>4
    <3> QED BY <1>1, <2>1, <2>2, <3>1
  <2> QED BY <2>3, <2>4
<1>3. ASSUME InWrite(s) PROVE InWrite(p)
  <2>1. PICK i \in DOMAIN s : \E j \in 1..i : s[i].fn = "exit" /\ s[i].signal /\ s[j].fn = "write"
    BY <1>3 DEF InWrite
  <2>2. PICK j \in 1..i : s[i].fn = "exit" /\ s[i].signal /\ s[j].fn = "write"
    BY <2>1
  <2>3. i \in DOMAIN p /\ j \in DOMAIN s
    BY <1>1, <2>1, <2>2
  <2>4. p[i] = s[i] /\ p[j] = s[j]
    BY <1>1, <2>3
  <2> QED BY <2>2, <2>3, <2>4 DEF InWrite
<1> QED BY <1>2, <1>3

\* A return.
LEMMA PoppedKeeps ==
    ASSUME NEW s, IsStack(s), NEW p, IsStack(p), Popped(p, s), Handler(s)
    PROVE  /\ Handler(p) /\ (InWrite(p) => InWrite(s))
           /\ InWrite(s) /\ ~IsSignal(Last(s)) => InWrite(p)
<1>1. /\ Len(s) \in Nat \ {0} /\ DOMAIN s = 1..Len(s) /\ DOMAIN p = 1..(Len(s) - 1)
      /\ Last(s) = s[Len(s)]
      /\ \A i \in DOMAIN p : i \in DOMAIN s /\ p[i] = s[i]
  BY StackIs DEF Popped
<1>2. Handler(p)
  BY <1>1 DEF Handler
<1>3. ASSUME InWrite(p) PROVE InWrite(s)
  <2>1. PICK i \in DOMAIN p : \E j \in 1..i : p[i].fn = "exit" /\ p[i].signal /\ p[j].fn = "write"
    BY <1>3 DEF InWrite
  <2>2. PICK j \in 1..i : p[i].fn = "exit" /\ p[i].signal /\ p[j].fn = "write"
    BY <2>1
  <2>3. j \in DOMAIN p
    BY <1>1, <2>1, <2>2
  <2>4. i \in DOMAIN s /\ p[i] = s[i] /\ p[j] = s[j]
    BY <1>1, <2>1, <2>3
  <2> QED BY <2>2, <2>4 DEF InWrite
<1>4. ASSUME InWrite(s), ~IsSignal(Last(s)) PROVE InWrite(p)
  <2>1. PICK i \in DOMAIN s : \E j \in 1..i : s[i].fn = "exit" /\ s[i].signal /\ s[j].fn = "write"
    BY <1>4 DEF InWrite
  <2>2. PICK j \in 1..i : s[i].fn = "exit" /\ s[i].signal /\ s[j].fn = "write"
    BY <2>1
  <2>3. i # Len(s)
    BY <1>1, <1>4, <2>2 DEF IsSignal
  <2>4. i \in DOMAIN p /\ j \in DOMAIN p
    BY <1>1, <2>1, <2>2, <2>3
  <2>5. p[i] = s[i] /\ p[j] = s[j]
    BY <1>1, <2>4
  <2> QED BY <2>2, <2>4, <2>5 DEF InWrite
<1> QED BY <1>2, <1>3, <1>4

\* The shape of a stack stays when the running function goes on,
LEMMA ShapeReplaced ==
    ASSUME NEW s, IsStack(s), NEW p, IsStack(p), NEW f, Replaced(p, s, f), NEW name, Shape(s, name),
           f.fn = Last(s).fn, f.fn = "write" => f.name = Last(s).name
    PROVE  Shape(p, name)
<1>1. /\ Len(s) \in Nat \ {0} /\ DOMAIN s = 1..Len(s) /\ DOMAIN p = 1..Len(s)
      /\ Last(s) = s[Len(s)] /\ p[Len(s)] = f
      /\ \A i \in 1..(Len(s) - 1) : p[i] = s[i]
  BY StackIs DEF Replaced
<1>2. ASSUME NEW i \in DOMAIN s
      PROVE  p[i].fn = s[i].fn /\ (s[i].fn = "write" => p[i].name = s[i].name)
  <2>1. CASE i = Len(s)
    BY <1>1, <2>1
  <2>2. CASE i # Len(s)
    <3>1. i \in 1..(Len(s) - 1)
      BY <1>1, <2>2
    <3>2. p[i] = s[i]
      BY <1>1, <3>1
    <3> QED BY <3>2
  <2> QED BY <2>1, <2>2
<1>3. \A i, j \in DOMAIN p : i < j /\ p[i].fn = "write" => p[j].fn = "text"
  BY <1>1, <1>2 DEF Shape
<1>4. ASSUME NEW j \in DOMAIN p, p[j].fn = "write" PROVE j > 1 /\ CalledBy(p[j - 1], p[j], name)
  <2>1. s[j].fn = "write" /\ p[j].name = s[j].name
    BY <1>1, <1>2, <1>4
  <2>2. j > 1 /\ CalledBy(s[j - 1], s[j], name)
    BY <1>1, <1>4, <2>1 DEF Shape
  <2>3. j - 1 \in 1..(Len(s) - 1)
    BY <1>1, <1>4, <2>2
  <2>4. p[j - 1] = s[j - 1]
    BY <1>1, <2>3
  <2> QED BY <2>1, <2>2, <2>4 DEF CalledBy
<1> QED BY <1>3, <1>4 DEF Shape

\* returns,
LEMMA ShapePopped ==
    ASSUME NEW s, IsStack(s), NEW p, IsStack(p), Popped(p, s), NEW name, Shape(s, name)
    PROVE  Shape(p, name)
<1>1. /\ Len(s) \in Nat \ {0} /\ DOMAIN s = 1..Len(s) /\ DOMAIN p = 1..(Len(s) - 1)
      /\ \A i \in DOMAIN p : i \in DOMAIN s /\ p[i] = s[i]
  BY StackIs DEF Popped
<1>2. \A i, j \in DOMAIN p : i < j /\ p[i].fn = "write" => p[j].fn = "text"
  BY <1>1 DEF Shape
<1>3. ASSUME NEW j \in DOMAIN p, p[j].fn = "write" PROVE j > 1 /\ CalledBy(p[j - 1], p[j], name)
  <2>1. j \in DOMAIN s /\ s[j].fn = "write" /\ p[j] = s[j]
    BY <1>1, <1>3
  <2>2. j > 1 /\ CalledBy(s[j - 1], s[j], name)
    BY <2>1 DEF Shape
  <2>3. j - 1 \in DOMAIN p
    BY <1>1, <1>3, <2>2
  <2>4. p[j - 1] = s[j - 1]
    BY <1>1, <2>3
  <2> QED BY <2>1, <2>2, <2>4
<1> QED BY <1>2, <1>3 DEF Shape

\* shows a text,
LEMMA ShapePushedText ==
    ASSUME NEW s, IsStack(s), NEW p, IsStack(p), NEW f, Pushed(p, s, f), NEW name, Shape(s, name),
           f.fn = "text"
    PROVE  Shape(p, name)
<1>1. /\ Len(s) \in Nat \ {0} /\ DOMAIN s = 1..Len(s) /\ DOMAIN p = 1..(Len(s) + 1)
      /\ p[Len(s) + 1] = f /\ \A i \in DOMAIN s : p[i] = s[i]
  BY StackIs DEF Pushed
<1>2. ASSUME NEW i \in DOMAIN p, NEW j \in DOMAIN p, i < j, p[i].fn = "write" PROVE p[j].fn = "text"
  <2>1. i \in DOMAIN s /\ s[i].fn = "write"
    BY <1>1, <1>2
  <2>2. CASE j \in DOMAIN s
    <3>1. s[j].fn = "text"
      BY <1>2, <2>1, <2>2 DEF Shape
    <3> QED BY <1>1, <2>2, <3>1
  <2>3. CASE j \notin DOMAIN s
    <3>1. j = Len(s) + 1
      BY <1>1, <1>2, <2>3
    <3> QED BY <1>1, <3>1
  <2> QED BY <2>2, <2>3
<1>3. ASSUME NEW j \in DOMAIN p, p[j].fn = "write" PROVE j > 1 /\ CalledBy(p[j - 1], p[j], name)
  <2>1. j \in DOMAIN s
    <3>1. j # Len(s) + 1
      BY <1>1, <1>3
    <3> QED BY <1>1, <1>3, <3>1
  <2>2. s[j].fn = "write" /\ p[j] = s[j]
    BY <1>1, <1>3, <2>1
  <2>3. j > 1 /\ CalledBy(s[j - 1], s[j], name)
    BY <2>1, <2>2 DEF Shape
  <2>4. j - 1 \in DOMAIN s
    BY <1>1, <2>1, <2>3
  <2> QED BY <1>1, <2>2, <2>3, <2>4
<1> QED BY <1>2, <1>3 DEF Shape

\* and, where no file is being written, when it calls another function, which
\* may be conf_write for its own name.
LEMMA ShapePushed ==
    ASSUME NEW s, IsStack(s), NEW p, IsStack(p), NEW f, Pushed(p, s, f), NEW name,
           \A i \in DOMAIN s : s[i].fn # "write",
           f.fn = "write" => CalledBy(Last(s), f, name)
    PROVE  Shape(p, name)
<1>1. /\ Len(s) \in Nat \ {0} /\ DOMAIN s = 1..Len(s) /\ DOMAIN p = 1..(Len(s) + 1)
      /\ p[Len(s) + 1] = f /\ (\A i \in DOMAIN s : p[i] = s[i]) /\ Last(s) = s[Len(s)]
  BY StackIs DEF Pushed
<1>2. ASSUME NEW i \in DOMAIN p, p[i].fn = "write" PROVE i = Len(s) + 1
  <2>1. i \notin DOMAIN s
    BY <1>1, <1>2
  <2> QED BY <1>1, <1>2, <2>1
<1>3. \A i, j \in DOMAIN p : i < j /\ p[i].fn = "write" => p[j].fn = "text"
  BY <1>1, <1>2
<1>4. ASSUME NEW j \in DOMAIN p, p[j].fn = "write" PROVE j > 1 /\ CalledBy(p[j - 1], p[j], name)
  <2>1. j = Len(s) + 1
    BY <1>2, <1>4
  <2>2. j - 1 = Len(s) /\ p[Len(s)] = Last(s) /\ p[j] = f
    BY <1>1, <2>1
  <2> QED BY <1>1, <1>4, <2>1, <2>2
<1> QED BY <1>3, <1>4 DEF Shape

\* Where neither conf_write nor a text nor the end runs, nothing is written and
\* no handler runs.
LEMMA PlainIs ==
    ASSUME NEW s, IsStack(s), NEW name, Handler(s), InWrite(s) \/ Shape(s, name),
           Last(s).fn \notin {"write", "text", "exit"}
    PROVE  AllPlain(s) /\ ~InWrite(s)
<1>1. /\ Len(s) \in Nat \ {0} /\ DOMAIN s = 1..Len(s) /\ Last(s) = s[Len(s)]
  BY StackIs
<1>2. ASSUME NEW i \in DOMAIN s PROVE ~IsSignal(s[i])
  <2>1. CASE i = Len(s)
    BY <1>1, <2>1 DEF IsSignal
  <2>2. CASE i # Len(s)
    <3>1. i < Len(s) /\ Len(s) \in DOMAIN s
      BY <1>1, <2>2
    <3> QED BY <1>1, <3>1 DEF Handler
  <2> QED BY <2>1, <2>2
<1>3. ~InWrite(s)
  BY <1>2 DEF InWrite, IsSignal
<1>4. ASSUME NEW i \in DOMAIN s PROVE s[i].fn # "write"
  <2>1. CASE i = Len(s)
    BY <1>1, <2>1
  <2>2. CASE i # Len(s)
    <3>1. i < Len(s) /\ Len(s) \in DOMAIN s
      BY <1>1, <2>2
    <3> QED BY <1>1, <1>3, <3>1 DEF Shape
  <2> QED BY <2>1, <2>2
<1>5. PICK S : S = {s[i] : i \in DOMAIN s}
  OBVIOUS
<1>6. s \in Seq(S)
  <2>1. PICK R : s \in Seq(R)
    BY DEF IsStack
  <2>2. s = [i \in 1..Len(s) |-> s[i]]
    BY <1>1, <2>1
  <2>3. \A i \in 1..Len(s) : s[i] \in S
    BY <1>1, <1>5
  <2> QED BY <1>1, <2>2, <2>3, SeqDef
<1>7. \A f \in S : IsPlain(f)
  BY <1>2, <1>4, <1>5 DEF IsPlain
<1> QED BY <1>3, <1>6, <1>7 DEF AllPlain

\* In a plain stack nothing is written, and no handler runs.
LEMMA PlainHas ==
    ASSUME NEW s, IsStack(s), AllPlain(s), NEW name
    PROVE  /\ \A i \in DOMAIN s : s[i].fn # "write" /\ ~IsSignal(s[i])
           /\ Handler(s) /\ ~InWrite(s) /\ Shape(s, name)
<1>1. PICK S : s \in Seq(S) /\ \A f \in S : IsPlain(f)
  BY DEF AllPlain
<1>2. DOMAIN s = 1..Len(s) /\ Len(s) \in Nat
  BY StackIs
<1>3. \A i \in DOMAIN s : s[i] \in S
  BY <1>1, <1>2, ElementOfSeq
<1>4. \A i \in DOMAIN s : s[i].fn # "write" /\ ~IsSignal(s[i])
  BY <1>1, <1>3 DEF IsPlain
<1>5. \A i \in DOMAIN s : \A j \in 1..i : j \in DOMAIN s
  BY <1>2
<1> QED BY <1>4, <1>5 DEF Handler, InWrite, IsSignal, Shape

\* A plain stack stays plain.
LEMMA PlainMoves ==
    ASSUME NEW s, IsStack(s), AllPlain(s), NEW f, IsPlain(f), NEW g, IsPlain(g), NEW p
    PROVE  /\ p = Front(s) => AllPlain(p)
           /\ p = Append(Front(s), f) => AllPlain(p)
           /\ p = Append(s, g) => AllPlain(p)
           /\ p = Append(Append(Front(s), f), g) => AllPlain(p)
           /\ p = Front(s) \o <<f, g>> => AllPlain(p)
<1>1. PICK S : s \in Seq(S) /\ \A h \in S : IsPlain(h)
  BY DEF AllPlain
<1>2. PICK T : T = S \cup {f, g}
  OBVIOUS
<1>3. s \in Seq(T) /\ f \in T /\ g \in T /\ (\A h \in T : IsPlain(h)) /\ Len(s) \in Nat /\ Len(s) > 0
  BY <1>1, <1>2, SeqMonotonic, StackIs
<1>4. PICK c : c = Front(s)
  OBVIOUS
<1>5. c \in Seq(T)
  BY <1>3, <1>4, SubSeqProperties DEF Front
<1>6. Append(c, f) \in Seq(T) /\ Append(s, g) \in Seq(T) /\ Append(Append(c, f), g) \in Seq(T)
  BY <1>3, <1>5
<1>7. c \o <<f, g>> \in Seq(T)
  <2>1. <<f, g>> \in Seq(T)
    BY <1>3
  <2> QED BY <1>5, <2>1, ConcatProperties
<1> QED BY <1>3, <1>4, <1>5, <1>6, <1>7 DEF AllPlain

-----------------------------------------------------------------------------
(* Steps that neither write nor end.                                       *)

PlainMove == AllPlain(stack') /\ TopPlaced' /\ ret'.res \notin {"ok", "clean"}

\* The running function at another place is plain where it was.
LEMMA PlainAt ==
    ASSUME IsStack(stack), AllPlain(stack), Top.fn # "exit", NEW w, NEW f
    PROVE  f = [Top EXCEPT !.at = w] => IsPlain(f) /\ f.fn = Top.fn /\ f.at = w
<1>0. SUFFICES ASSUME f = [Top EXCEPT !.at = w] PROVE IsPlain(f) /\ f.fn = Top.fn /\ f.at = w
  OBVIOUS
<1>1. IsFrame(Top)
  BY StackHas DEF Top
<1>2. f.fn = Top.fn
  BY <1>0, <1>1, FrameAt
<1>3. "at" \in DOMAIN Top
  BY <1>1 DEF IsFrame
<1>4. f.at = w
  BY <1>0, <1>3
<1>5. Top.fn # "write"
  <2>1. PICK n : n = Len(stack)
    OBVIOUS
  <2>2. n \in DOMAIN stack /\ Top = stack[n]
    BY <2>1, StackIs DEF Top
  <2> QED BY <2>2, PlainHas
<1> QED BY <1>2, <1>4, <1>5 DEF IsPlain, IsSignal

\* No dialog, no question of where.
LEMMA NoneIsPlaced ==
    ASSUME dlg' = NoDlg, ret' = NoRet \/ \E res : res \notin {"ok", "clean"} /\ ret' = Returns(res)
    PROVE  TopPlaced' /\ ret'.res \notin {"ok", "clean"}
<1>1. TopPlaced'
  BY DEF TopPlaced
<1>2. NoRet.res = "none"
  BY DEF NoRet
<1>3. ASSUME NEW res PROVE Returns(res).res = res
  BY DEF Returns, NoRet
<1> QED BY <1>1, <1>2, <1>3

\* The ways to go on.
LEMMA GotoPlain ==
    ASSUME IsStack(stack), AllPlain(stack), Top.fn # "exit", NEW w
    PROVE  Goto(w) => PlainMove
<1> SUFFICES ASSUME Goto(w) PROVE PlainMove
  OBVIOUS
<1>1. PICK f : f = [Top EXCEPT !.at = w]
  OBVIOUS
<1>2. IsPlain(f)
  BY <1>1, PlainAt
<1>3. stack' = Append(Front(stack), f)
  BY <1>1 DEF Goto, TopAt, Callers
<1>4. AllPlain(stack')
  BY <1>2, <1>3, PlainMoves
<1> QED BY <1>4, NoneIsPlaced DEF PlainMove, Goto

\* A call,
LEMMA CallPlain ==
    ASSUME IsStack(stack), AllPlain(stack), Top.fn # "exit", NEW w, NEW g, IsPlain(g)
    PROVE  Call(g, w) => PlainMove
<1> SUFFICES ASSUME Call(g, w) PROVE PlainMove
  OBVIOUS
<1>1. PICK f : f = [Top EXCEPT !.at = w]
  OBVIOUS
<1>2. IsPlain(f)
  BY <1>1, PlainAt
<1>3. stack' = Append(Append(Front(stack), f), g)
  BY <1>1 DEF Call, TopAt, Callers
<1>4. AllPlain(stack')
  BY <1>2, <1>3, PlainMoves
<1> QED BY <1>4, NoneIsPlaced DEF PlainMove, Call

\* a return,
LEMMA ReturnPlain ==
    ASSUME IsStack(stack), AllPlain(stack), Top.fn # "exit", NEW res, res \notin {"ok", "clean"}
    PROVE  Return(res) => PlainMove
<1> SUFFICES ASSUME Return(res) PROVE PlainMove
  OBVIOUS
<1>1. PICK f : f = [Top EXCEPT !.at = "loop"]
  OBVIOUS
<1>2. IsPlain(f)
  BY <1>1, PlainAt
<1>3. stack' = Front(stack)
  BY DEF Return, Callers
<1>4. AllPlain(stack')
  BY <1>2, <1>3, PlainMoves
<1> QED BY <1>4, NoneIsPlaced DEF PlainMove, Return

\* a dialog,
LEMMA ShowPlain ==
    ASSUME IsStack(stack), AllPlain(stack), Top.fn # "exit", NEW d, NEW w, w \in {"result", "shown"},
           IsStack(stack')
    PROVE  Show(d, w) => PlainMove
<1> SUFFICES ASSUME Show(d, w) PROVE PlainMove
  OBVIOUS
<1>1. PICK f : f = [Top EXCEPT !.at = w]
  OBVIOUS
<1>2. IsPlain(f) /\ f.fn = Top.fn /\ f.at = w
  BY <1>1, PlainAt
<1>3. stack' = Append(Front(stack), f)
  BY <1>1 DEF Show, TopAt, Callers
<1>4. AllPlain(stack')
  BY <1>2, <1>3, PlainMoves
<1>5. Top' = f
  <2>1. Replaced(stack', stack, f)
    BY <1>3, ReplacedIs
  <2>2. Last(stack') = stack'[Len(stack')]
    BY DEF Last
  <2> QED BY <2>1, <2>2 DEF Replaced, Top
<1>6. ret'.res = "none"
  BY DEF Show, NoRet
<1>7. TopPlaced'
  BY <1>2, <1>5 DEF TopPlaced
<1> QED BY <1>4, <1>6, <1>7 DEF PlainMove

\* or, of conf, a note of what was chosen and perhaps a call.
LEMMA NotedPlain ==
    ASSUME IsStack(stack), AllPlain(stack), IsRet(ret), Top.fn = "conf", NEW g, IsPlain(g)
    PROVE  Again \/ Then(g) => PlainMove
<1>1. PICK f : f = Noted
  OBVIOUS
<1>2. IsPlain(f)
  BY <1>1, NotedIs DEF IsPlain, IsSignal
<1>3. ASSUME Again PROVE PlainMove
  <2>1. stack' = Append(Front(stack), f)
    BY <1>1, <1>3 DEF Again, Callers
  <2>2. AllPlain(stack')
    BY <1>2, <2>1, PlainMoves
  <2> QED BY <1>3, <2>2, NoneIsPlaced DEF PlainMove, Again
<1>4. ASSUME Then(g) PROVE PlainMove
  <2>1. stack' = Front(stack) \o <<f, g>>
    BY <1>1, <1>4 DEF Then, Callers
  <2>2. AllPlain(stack')
    BY <1>2, <2>1, PlainMoves
  <2> QED BY <1>4, <2>2, NoneIsPlaced DEF PlainMove, Then
<1> QED BY <1>3, <1>4

\* What they call.
LEMMA PlainCalls ==
    ASSUME NEW m, NEW v, NEW rows, NEW nl, NEW tail, NEW fn \in {"load", "save"}
    PROVE  /\ IsPlain(ConfCall(m, v)) /\ IsPlain(ChoiceCall(m, v)) /\ IsPlain(StringCall(m))
           /\ IsPlain(FileCall(fn)) /\ IsPlain(SearchCall) /\ IsPlain(TextCall(rows, nl, tail))
           /\ IsPlain(ExitCall(FALSE))
BY DEF IsPlain, IsSignal, ConfCall, ChoiceCall, StringCall, FileCall, SearchCall, TextCall, ExitCall

\* What is said of memory and files depends on the symbols alone.
LEMMA SameValues ==
    ASSUME Kept(mem') = Kept(mem), K(mem') = K(mem), NEW name, NEW n,
           files'[name] = files[n], Good(n)
    PROVE  ReadBack(mem', files'[name]) = Kept(mem')
BY DEF Good, ReadBack

\* A step that leaves the number of changes at 0 leaves the configuration.
LEMMA CountedIs ==
    ASSUME StepIsCounted, Top.at \notin {"start", "done"}, ~mem'.changed, ~forgot'
    PROVE  ~mem.changed /\ Kept(mem') = Kept(mem) /\ K(mem') = K(mem)
<1>1. CASE mem' = mem
  <2>1. PICK m : m = mem
    OBVIOUS
  <2>2. mem' = m
    BY <1>1, <2>1
  <2> QED BY <2>1, <2>2
<1>2. CASE IsCounted
  BY <1>2 DEF IsCounted
<1>3. mem' = mem \/ IsCounted
  BY DEF StepIsCounted
<1> QED BY <1>1, <1>2, <1>3

\* A step with a plain stack before and after it that leaves files and names.
LEMMA PlainStep ==
    ASSUME TruthInv, Inv', PlainMove, StepIsCounted, outcome = Running,
           UNCHANGED <<files, filename, forgot, outcome>>,
           Top.fn \notin {"write", "text", "exit"}, Top.at \notin {"start", "done"}, ~JustSaved
    PROVE  TruthInv'
<1>1. IsStack(stack) /\ IsStack(stack')
  BY DEF TruthInv, Inv
<1>2. FileIsTrue
  <2>1. Last(stack).fn \notin {"write", "text", "exit"}
    BY DEF Top
  <2>2. Handler(stack) /\ (InWrite(stack) \/ Shape(stack, filename))
    BY DEF TruthInv, FileIsTrue
  <2>3. ~InWrite(stack)
    BY <1>1, <2>1, <2>2, PlainIs
  <2> QED BY <2>3 DEF TruthInv
<1>3. /\ \A i \in DOMAIN stack' : stack'[i].fn # "write"
      /\ Handler(stack') /\ Shape(stack', filename)
  BY <1>1, PlainHas DEF PlainMove
<1>4. World'
  BY <1>2 DEF FileIsTrue, World, StepIsCounted
<1>5. WritesAreGood'
  BY <1>3 DEF WritesAreGood
<1>6. Told'
  <2>1. ASSUME ~mem'.changed, ~forgot' PROVE ReadBack(mem', files'[filename']) = Kept(mem')
    <3>1. ~mem.changed /\ Kept(mem') = Kept(mem) /\ K(mem') = K(mem)
      BY <2>1, CountedIs
    <3>2. Good(filename)
      BY <1>2, <2>1, <3>1 DEF FileIsTrue, Told
    <3>3. files'[filename'] = files[filename]
      OBVIOUS
    <3> QED BY <3>1, <3>2, <3>3, SameValues
  <2> QED BY <2>1 DEF Told, JustSaved, PlainMove, Good
<1>7. Shape(stack, filename)'
  BY <1>3
<1>8. ExitTellsTheTruth'
  BY DEF ExitTellsTheTruth, Running
<1> QED BY <1>3, <1>4, <1>5, <1>6, <1>7, <1>8 DEF TruthInv, FileIsTrue, PlainMove

\* Before a step of these functions the stack is plain.
LEMMA PlainBefore ==
    ASSUME TruthInv, Top.fn \notin {"write", "text", "exit"}
    PROVE  IsStack(stack) /\ AllPlain(stack) /\ Top.fn # "exit" /\ IsRet(ret)
<1>1. IsStack(stack) /\ IsRet(ret)
  BY DEF TruthInv, Inv
<1>2. Last(stack).fn \notin {"write", "text", "exit"}
  BY DEF Top
<1>3. Handler(stack) /\ (InWrite(stack) \/ Shape(stack, filename))
  BY DEF TruthInv, FileIsTrue
<1>4. AllPlain(stack)
  BY <1>1, <1>2, <1>3, PlainIs
<1> QED BY <1>1, <1>4

\* main calls conf, and in the end handle_exit.
LEMMA TruthOfMain ==
    ASSUME TruthInv, Inv', StepIsCounted, MainConf \/ MainExit
    PROVE  TruthInv'
<1>1. /\ Top.fn = "main" /\ Top.at \in {"conf", "exit"} /\ outcome = Running
      /\ UNCHANGED <<files, filename, forgot, outcome>>
  BY DEF MainConf, MainExit, Ready, Quiet, disk
<1>2. IsStack(stack) /\ AllPlain(stack) /\ Top.fn # "exit"
  BY <1>1, PlainBefore
<1>3. PlainMove
  <2>1. PICK g, w : IsPlain(g) /\ Call(g, w)
    BY PlainCalls DEF MainConf, MainExit
  <2> QED BY <1>2, <2>1, CallPlain
<1>4. ~JustSaved
  BY <1>1 DEF JustSaved
<1> QED BY <1>1, <1>3, <1>4, PlainStep

\* conf.
LEMMA TruthOfConf ==
    ASSUME TruthInv, Inv', StepIsCounted,
           \/ ConfLoop \/ ConfLeave \/ ConfUnfold \/ ConfSubmenu \/ ConfChoice \/ ConfString \/ ConfNothing
           \/ ConfHelp \/ ConfFile \/ ConfSearch \/ ConfAll \/ ConfSetYes \/ ConfSet
    PROVE  TruthInv'
<1>1. /\ Top.fn = "conf" /\ Top.at \in {"loop", "result"} /\ outcome = Running
      /\ UNCHANGED <<files, filename, forgot, outcome>>
  BY DEF ConfLoop, ConfLeave, ConfUnfold, ConfSubmenu, ConfChoice, ConfString, ConfNothing, ConfHelp, ConfFile,
         ConfSearch, ConfAll, ConfSetYes, ConfSet, Chosen, Ready, Quiet, disk
<1>2. IsStack(stack) /\ AllPlain(stack) /\ Top.fn # "exit" /\ IsRet(ret)
  BY <1>1, PlainBefore
<1>3. IsStack(stack')
  BY DEF Inv
<1>4. PICK some : some = "load"
  OBVIOUS
<1>5. ASSUME NEW g, IsPlain(g), Again \/ Then(g) PROVE PlainMove
  BY <1>1, <1>2, <1>5, NotedPlain
<1>6. ASSUME Again PROVE PlainMove
  <2>1. IsPlain(SearchCall)
    BY <1>4, PlainCalls
  <2> QED BY <1>5, <1>6, <2>1
<1>7. PlainMove
  <2>1. CASE ConfLoop
    <3>1. Return("done") \/ \E d : Show(d, "result")
      BY <2>1 DEF ConfLoop, ShowMenu
    <3> QED BY <1>2, <1>3, <3>1, ReturnPlain, ShowPlain
  <2>2. CASE ConfLeave
    BY <1>2, <2>2, ReturnPlain DEF ConfLeave
  <2>3. CASE ConfUnfold \/ ConfNothing \/ ConfAll \/ ConfSet
    BY <1>6, <2>3 DEF ConfUnfold, ConfNothing, ConfAll, ConfSet
  <2>4. CASE ConfSubmenu \/ ConfChoice \/ ConfString \/ ConfSearch
    BY <1>4, <1>5, <2>4, PlainCalls DEF ConfSubmenu, ConfChoice, ConfString, ConfSearch
  <2>5. CASE ConfFile
    <3>1. PICK fn \in {"save", "load"} : Then(FileCall(fn))
      BY <2>5 DEF ConfFile
    <3> QED BY <1>5, <3>1, PlainCalls
  <2>6. ASSUME NEW rows, NEW nl, NEW tail, Then(TextCall(rows, nl, tail)) PROVE PlainMove
    BY <1>4, <1>5, <2>6, PlainCalls
  <2>7. CASE ConfHelp
    BY <2>6, <2>7 DEF ConfHelp, Readme
  <2>8. CASE ConfSetYes
    BY <1>6, <2>6, <2>8 DEF ConfSetYes
  <2> QED BY <2>1, <2>2, <2>3, <2>4, <2>5, <2>7, <2>8
<1>8. ~JustSaved
  BY <1>1 DEF JustSaved
<1> QED BY <1>1, <1>7, <1>8, PlainStep

\* conf_choice.
LEMMA TruthOfChoice ==
    ASSUME TruthInv, Inv', StepIsCounted, ChoiceLoop \/ ChoiceSelect \/ ChoiceHelp \/ ChoiceLeave
    PROVE  TruthInv'
<1>1. /\ Top.fn = "choice" /\ Top.at \in {"loop", "result"} /\ outcome = Running
      /\ UNCHANGED <<files, filename, forgot, outcome>>
  BY DEF ChoiceLoop, ChoiceSelect, ChoiceHelp, ChoiceLeave, Ready, Quiet, disk
<1>2. IsStack(stack) /\ AllPlain(stack) /\ Top.fn # "exit"
  BY <1>1, PlainBefore
<1>3. IsStack(stack')
  BY DEF Inv
<1>4. PlainMove
  <2>1. CASE ChoiceLoop
    <3>1. Return("small") \/ \E d : Show(d, "result")
      BY <2>1 DEF ChoiceLoop
    <3> QED BY <1>2, <1>3, <3>1, ReturnPlain, ShowPlain
  <2>2. CASE ChoiceSelect \/ ChoiceLeave
    BY <1>2, <2>2, ReturnPlain, GotoPlain DEF ChoiceSelect, ChoiceLeave
  <2>3. CASE ChoiceHelp
    <3>1. PICK nl : stack' = Callers \o <<[Top EXCEPT !.at = "loop", !.chosen = Sym], TextCall(0, nl, FALSE)>>
      BY <2>3 DEF ChoiceHelp
    <3>2. PICK f, g, t : t = Top /\ f = [t EXCEPT !.at = "loop", !.chosen = Sym] /\ g = TextCall(0, nl, FALSE)
      OBVIOUS
    <3>3. IsPlain(g)
      <4>1. PICK some : some = "load"
        OBVIOUS
      <4> QED BY <3>2, <4>1, PlainCalls
    <3>4. IsPlain(f)
      <4>1. "fn" \in DOMAIN t
        <5>1. IsFrame(t)
          BY <1>2, <3>2, StackHas DEF Top
        <5> QED BY <5>1 DEF IsFrame
      <4>2. f.fn = "choice"
        BY <1>1, <3>2, <4>1
      <4> QED BY <4>2 DEF IsPlain, IsSignal
    <3>5. stack' = Front(stack) \o <<f, g>>
      BY <3>1, <3>2 DEF Callers
    <3>6. AllPlain(stack')
      BY <1>2, <3>3, <3>4, <3>5, PlainMoves
    <3> QED BY <2>3, <3>6, NoneIsPlaced DEF PlainMove, ChoiceHelp
  <2> QED BY <2>1, <2>2, <2>3
<1>5. ~JustSaved
  BY <1>1 DEF JustSaved
<1> QED BY <1>1, <1>4, <1>5, PlainStep

\* Input boxes.
LEMMA TruthOfFields ==
    ASSUME TruthInv, Inv', StepIsCounted,
           \/ StringLoop \/ StringOk \/ StringHelp \/ BoxLeave
           \/ FileLoop \/ FileHelp \/ FileBlank \/ SaveFailed
    PROVE  TruthInv'
<1>1. /\ Top.fn \in {"string", "load", "save"} /\ Top.at \in {"loop", "result", "written"} /\ outcome = Running
      /\ UNCHANGED <<files, filename, forgot, outcome>> /\ (Top.at = "written" => ret.res = "fail")
  BY DEF StringLoop, StringOk, StringHelp, BoxLeave, FileLoop, FileHelp, FileBlank, SaveFailed, Ready, Quiet, disk
<1>2. IsStack(stack) /\ AllPlain(stack) /\ Top.fn # "exit"
  BY <1>1, PlainBefore
<1>3. IsStack(stack')
  BY DEF Inv
<1>4. ASSUME NEW rows, NEW nl, NEW tail, NEW w, Call(TextCall(rows, nl, tail), w) PROVE PlainMove
  <2>1. PICK some : some = "load"
    OBVIOUS
  <2>2. IsPlain(TextCall(rows, nl, tail))
    BY <2>1, PlainCalls
  <2> QED BY <1>2, <1>4, <2>2, CallPlain
<1>5. PlainMove
  <2>1. CASE StringLoop \/ FileLoop
    <3>1. \E d : Show(d, "result")
      BY <2>1 DEF StringLoop, FileLoop, ShowField
    <3> QED BY <1>2, <1>3, <3>1, ShowPlain
  <2>2. CASE StringOk
    BY <1>2, <1>4, <2>2, ReturnPlain DEF StringOk, Box
  <2>3. CASE StringHelp
    BY <1>4, <2>3 DEF StringHelp, ShowHelp
  <2>4. CASE BoxLeave
    BY <1>2, <2>4, ReturnPlain, GotoPlain DEF BoxLeave
  <2>5. CASE FileHelp \/ SaveFailed
    BY <1>4, <2>5 DEF FileHelp, SaveFailed, Readme, Box
  <2>6. CASE FileBlank
    BY <1>2, <2>6, ReturnPlain DEF FileBlank
  <2> QED BY <2>1, <2>2, <2>3, <2>4, <2>5, <2>6
<1>6. ~JustSaved
  BY <1>1 DEF JustSaved
<1> QED BY <1>1, <1>5, <1>6, PlainStep

\* search_conf.
LEMMA TruthOfSearch ==
    ASSUME TruthInv, Inv', StepIsCounted,
           \/ SearchLoop \/ SearchHelp \/ SearchLeave \/ SearchFor \/ SearchShow \/ SearchJump \/ SearchDone
    PROVE  TruthInv'
<1>1. /\ Top.fn = "search" /\ Top.at \in {"loop", "result", "show", "shown"} /\ outcome = Running
      /\ UNCHANGED <<files, filename, forgot, outcome>>
  BY DEF SearchLoop, SearchHelp, SearchLeave, SearchFor, SearchShow, SearchJump, SearchDone, Ready, Quiet, disk
<1>2. IsStack(stack) /\ AllPlain(stack) /\ Top.fn # "exit"
  BY <1>1, PlainBefore
<1>3. IsStack(stack')
  BY DEF Inv
<1>4. PICK some, t : some = "load" /\ t = Top
  OBVIOUS
<1>5. "fn" \in DOMAIN t /\ t.fn = "search"
  <2>1. IsFrame(t)
    BY <1>2, <1>4, StackHas DEF Top
  <2> QED BY <1>1, <1>4, <2>1 DEF IsFrame
<1>6. PlainMove
  <2>1. CASE SearchLoop
    <3>1. Return("small") \/ \E d : Show(d, "result")
      BY <2>1 DEF SearchLoop, ShowField
    <3> QED BY <1>2, <1>3, <3>1, ReturnPlain, ShowPlain
  <2>2. CASE SearchShow
    <3>1. Return("small") \/ \E d : Show(d, "shown")
      BY <2>2 DEF SearchShow
    <3> QED BY <1>2, <1>3, <3>1, ReturnPlain, ShowPlain
  <2>3. CASE SearchHelp
    <3>1. IsPlain(Readme)
      BY <1>4, PlainCalls DEF Readme
    <3> QED BY <1>2, <2>3, <3>1, CallPlain DEF SearchHelp
  <2>4. CASE SearchLeave \/ SearchDone
    BY <1>2, <2>4, ReturnPlain DEF SearchLeave, SearchDone
  <2>5. CASE SearchFor
    <3>1. PICK f : f = [t EXCEPT !.at = "show", !.pattern = ret.text]
      OBVIOUS
    <3>2. f.fn = "search"
      BY <1>5, <3>1
    <3>3. IsPlain(f)
      BY <3>2 DEF IsPlain, IsSignal
    <3>4. stack' = Append(Front(stack), f)
      BY <1>4, <2>5, <3>1 DEF SearchFor, Callers
    <3>5. AllPlain(stack')
      BY <1>2, <3>3, <3>4, PlainMoves
    <3> QED BY <2>5, <3>5, NoneIsPlaced DEF PlainMove, SearchFor
  <2>6. CASE SearchJump
    <3>1. PICK f, g : /\ f = [t EXCEPT !.at = "show", !.vscroll = ret.scroll, !.hscroll = ret.column]
                      /\ g = ConfCall(MenuEntry(ret.menu).parent, ret.menu)
      OBVIOUS
    <3>2. f.fn = "search"
      BY <1>5, <3>1
    <3>3. IsPlain(f) /\ IsPlain(g)
      BY <1>4, <3>1, <3>2, PlainCalls DEF IsPlain, IsSignal
    <3>4. stack' = Front(stack) \o <<f, g>>
      BY <1>4, <2>6, <3>1 DEF SearchJump, Callers
    <3>5. AllPlain(stack')
      BY <1>2, <3>3, <3>4, PlainMoves
    <3> QED BY <2>6, <3>5, NoneIsPlaced DEF PlainMove, SearchJump
  <2> QED BY <2>1, <2>2, <2>3, <2>4, <2>5, <2>6
<1>7. ~JustSaved
  BY <1>1 DEF JustSaved
<1> QED BY <1>1, <1>6, <1>7, PlainStep

-----------------------------------------------------------------------------
(* Files are loaded and saved.                                             *)

\* After a step to a plain stack.
LEMMA PlainAfter ==
    ASSUME Inv', PlainMove, World', outcome'.said # "end",
           ~mem'.changed /\ ~forgot' => ReadBack(mem', files'[filename']) = Kept(mem')
    PROVE  TruthInv'
<1>1. PICK name : name = filename'
  OBVIOUS
<1>2. IsStack(stack')
  BY DEF Inv
<1>3. (\A i \in DOMAIN stack' : stack'[i].fn # "write") /\ Handler(stack') /\ Shape(stack', name)
  BY <1>2, PlainHas DEF PlainMove
<1>4. WritesAreGood'
  BY <1>3 DEF WritesAreGood
<1>5. Told'
  BY DEF Told, JustSaved, PlainMove, Good
<1>6. Shape(stack, filename)'
  BY <1>1, <1>3
<1>7. ExitTellsTheTruth'
  BY DEF ExitTellsTheTruth
<1> QED BY <1>3, <1>4, <1>5, <1>6, <1>7 DEF TruthInv, FileIsTrue, PlainMove

\* Above conf_write, texts and the end, the truth is told.
LEMMA TruthBefore ==
    ASSUME TruthInv, Top.fn \notin {"write", "text", "exit"}
    PROVE  FileIsTrue
<1>1. IsStack(stack)
  BY DEF TruthInv, Inv
<1>2. Last(stack).fn \notin {"write", "text", "exit"}
  BY DEF Top
<1>3. Handler(stack) /\ (InWrite(stack) \/ Shape(stack, filename))
  BY DEF TruthInv, FileIsTrue
<1>4. ~InWrite(stack)
  BY <1>1, <1>2, <1>3, PlainIs
<1> QED BY <1>4 DEF TruthInv

\* The program begins with what the file says.
LEMMA TruthOfStart ==
    ASSUME TruthInv, Inv', StepIsCounted, Start
    PROVE  TruthInv'
<1>1. /\ Top.fn = "main" /\ Top.at = "start" /\ outcome = Running
      /\ UNCHANGED <<files, filename, forgot>>
  BY DEF Start, Ready, disk
<1>2. IsStack(stack) /\ AllPlain(stack) /\ Top.fn # "exit" /\ FileIsTrue
  BY <1>1, PlainBefore, TruthBefore
<1>3. PlainMove
  BY <1>2, GotoPlain DEF Start
<1>4. World'
  BY <1>1, <1>2 DEF FileIsTrue, World, StepIsCounted
<1>5. ~mem'.changed => ReadBack(mem', files[filename]) = Kept(mem')
  BY <1>1 DEF StepIsCounted, ReadWell
<1>6. ~mem'.changed => ReadBack(mem', files'[filename']) = Kept(mem')
  <2>1. files'[filename'] = files[filename]
    BY <1>1
  <2> QED BY <1>5, <2>1
<1>7. outcome'.said # "end"
  BY <1>1 DEF Start, Running
<1> QED BY <1>3, <1>4, <1>6, <1>7, PlainAfter

\* A load counts as a change, or drops the changes.
LEMMA TruthOfLoad ==
    ASSUME TruthInv, Inv', StepIsCounted, Load \/ LoadMissing
    PROVE  TruthInv'
<1>1. Top.fn = "load" /\ Top.at = "result" /\ outcome = Running /\ UNCHANGED <<files, outcome>>
  BY DEF Load, LoadMissing, Ready, disk
<1>2. IsStack(stack) /\ AllPlain(stack) /\ Top.fn # "exit" /\ FileIsTrue
  BY <1>1, PlainBefore, TruthBefore
<1>3. outcome'.said # "end"
  BY <1>1 DEF Running
<1>4. CASE Load
  <2>1. PlainMove
    BY <1>2, <1>4, ReturnPlain DEF Load
  <2>2. World'
    BY <1>2, <1>4 DEF FileIsTrue, World, StepIsCounted, Load, Exists, disk
  <2>3. mem'.changed
    <3>1. PICK m : mem' = [m EXCEPT !.changed = TRUE]
      BY <1>4 DEF Load
    <3>2. "changed" \in DOMAIN mem'
      BY DEF StepIsCounted
    <3> QED BY <3>1, <3>2
  <2> QED BY <1>3, <2>1, <2>2, <2>3, PlainAfter
<1>5. CASE LoadMissing
  <2>1. PlainMove
    <3>1. IsPlain(Box(5))
      <4>1. PICK some : some = "load"
        OBVIOUS
      <4> QED BY <4>1, PlainCalls DEF Box
    <3> QED BY <1>2, <1>5, <3>1, CallPlain DEF LoadMissing
  <2>2. UNCHANGED filename /\ (forgot' <=> forgot \/ mem.changed)
    BY <1>5 DEF LoadMissing
  <2>3. World'
    BY <1>1, <1>2, <2>2 DEF FileIsTrue, World, StepIsCounted
  <2>4. ASSUME ~mem'.changed, ~forgot' PROVE ReadBack(mem', files'[filename']) = Kept(mem')
    <3>1. ~mem.changed /\ Kept(mem') = Kept(mem) /\ K(mem') = K(mem)
      BY <1>1, <2>4, CountedIs
    <3>2. ~forgot /\ ~JustSaved /\ Top.at # "start"
      BY <1>1, <2>2, <2>4 DEF JustSaved
    <3>3. Good(filename)
      BY <1>2, <3>1, <3>2 DEF FileIsTrue, Told
    <3>4. files'[filename'] = files[filename]
      BY <1>1, <2>2
    <3> QED BY <3>1, <3>3, <3>4, SameValues
  <2> QED BY <1>3, <2>1, <2>3, <2>4, PlainAfter
<1> QED BY <1>4, <1>5

\* What conf_save has written has the name from then on.
LEMMA TruthOfSaved ==
    ASSUME TruthInv, Inv', StepIsCounted, Saved
    PROVE  TruthInv'
<1>1. /\ Top.fn = "save" /\ Top.at = "written" /\ ret.res = "ok" /\ outcome = Running
      /\ UNCHANGED <<mem, files, forgot, outcome>> /\ filename' = Top.name
  BY DEF Saved, NewName, Ready, disk
<1>2. IsStack(stack) /\ AllPlain(stack) /\ Top.fn # "exit" /\ FileIsTrue
  BY <1>1, PlainBefore, TruthBefore
<1>3. outcome'.said # "end"
  BY <1>1 DEF Running
<1>4. PlainMove
  BY <1>2, ReturnPlain DEF Saved
<1>5. Top.name \in FileNames /\ Good(Top.name)
  BY <1>1, <1>2 DEF FileIsTrue, Told, JustSaved
<1>6. World'
  BY <1>1, <1>2, <1>5 DEF FileIsTrue, World
<1>7. ReadBack(mem', files'[filename']) = Kept(mem')
  BY <1>1, <1>5 DEF Good
<1> QED BY <1>3, <1>4, <1>6, <1>7, PlainAfter

\* Nothing is written where the function on top is none of those above conf_write.
LEMMA NothingWritten ==
    ASSUME NEW s, IsStack(s), NEW name, Shape(s, name), Last(s).fn # "text"
    PROVE  \A i \in DOMAIN s : s[i].fn = "write" => i = Len(s)
<1>1. Len(s) \in Nat \ {0} /\ DOMAIN s = 1..Len(s) /\ Last(s) = s[Len(s)]
  BY StackIs
<1>2. ASSUME NEW i \in DOMAIN s, s[i].fn = "write", i # Len(s) PROVE FALSE
  <2>1. i < Len(s) /\ Len(s) \in DOMAIN s
    BY <1>1, <1>2
  <2> QED BY <1>1, <1>2, <2>1 DEF Shape
<1> QED BY <1>2

\* conf_save and handle_exit call conf_write, and wait for it.
LEMMA WriteCalled ==
    ASSUME TruthInv, Inv', Top.fn \in {"save", "exit"}, Top.at \in {"result", "answer"}, outcome = Running,
           NEW f, IsFrame(f), f.fn = Top.fn, IsSignal(f) <=> IsSignal(Top),
           NEW g, g.fn = "write", g.at = "tmp", CalledBy(f, g, filename), NEW r,
           r = Append(Front(stack), f), stack' = Append(r, g), dlg' = NoDlg,
           UNCHANGED <<mem, files, filename, forgot, outcome>>
    PROVE  TruthInv'
<1>1. IsStack(stack) /\ IsStack(stack')
  BY DEF TruthInv, Inv
<1>2. IsStack(r) /\ Replaced(r, stack, f)
  BY <1>1, StackReplaced, ReplacedIs DEF Top
<1>3. Handler(r) /\ (InWrite(r) <=> InWrite(stack))
  BY <1>1, <1>2, ReplacedKeeps DEF TruthInv, Top
<1>4. Pushed(stack', r, g)
  BY <1>2, PushedIs
<1>5. Handler(stack') /\ (InWrite(r) => InWrite(stack'))
  BY <1>1, <1>2, <1>3, <1>4, PushedKeeps
<1>6. TopPlaced'
  BY DEF TopPlaced
<1>7. ExitTellsTheTruth'
  BY DEF ExitTellsTheTruth, Running
<1>8. ASSUME FileIsTrue PROVE FileIsTrue'
  <2>1. \A i \in DOMAIN stack : stack[i].fn # "write"
    <3>1. Last(stack).fn \notin {"text", "write"} /\ Last(stack) = stack[Len(stack)]
      BY <1>1, StackIs DEF Top
    <3>2. \A i \in DOMAIN stack : stack[i].fn = "write" => i = Len(stack)
      BY <1>1, <1>8, <3>1, NothingWritten DEF FileIsTrue
    <3> QED BY <3>1, <3>2
  <2>2. Len(r) \in Nat \ {0} /\ DOMAIN r = 1..Len(r) /\ Last(r) = r[Len(r)] /\ DOMAIN stack = 1..Len(r)
        /\ DOMAIN stack' = 1..(Len(r) + 1)
    BY <1>1, <1>2, <1>4, StackIs DEF Replaced, Pushed
  <2>3. \A i \in DOMAIN r : r[i].fn # "write"
    <3>1. TAKE i \in DOMAIN r
    <3>2. CASE i = Len(r)
      BY <1>2, <3>2 DEF Replaced
    <3>3. CASE i # Len(r)
      <4>1. i \in 1..(Len(stack) - 1) /\ i \in DOMAIN stack
        BY <1>2, <2>2, <3>3 DEF Replaced
      <4>2. r[i] = stack[i]
        BY <1>2, <4>1 DEF Replaced
      <4> QED BY <2>1, <4>1, <4>2
    <3> QED BY <3>2, <3>3
  <2>4. Last(r) = f
    BY <1>2, <2>2 DEF Replaced
  <2>5. Shape(stack', filename)
    BY <1>1, <1>2, <1>4, <2>3, <2>4, ShapePushed
  <2>6. World'
    BY <1>8 DEF FileIsTrue, World
  <2>7. \A i \in DOMAIN stack' : stack'[i].fn = "write" => stack'[i].at = "tmp"
    <3>1. TAKE i \in DOMAIN stack'
    <3>2. CASE i = Len(r) + 1
      BY <1>4, <3>2 DEF Pushed
    <3>3. CASE i # Len(r) + 1
      <4>1. i \in DOMAIN r
        BY <2>2, <3>3
      <4>2. stack'[i] = r[i]
        BY <1>4, <2>2, <4>1 DEF Pushed
      <4> QED BY <2>3, <4>1, <4>2
    <3> QED BY <3>2, <3>3
  <2>8. WritesAreGood'
    BY <2>7 DEF WritesAreGood
  <2>9. Top' = g
    <3>1. Last(stack') = stack'[Len(stack')]
      BY DEF Last
    <3> QED BY <1>4, <3>1 DEF Pushed, Top
  <2>10. Told'
    <3>1. ~mem.changed /\ ~forgot => Good(filename)
      BY <1>8 DEF FileIsTrue, Told, JustSaved
    <3>2. (~mem.changed /\ ~forgot => Good(filename))'
      BY <3>1 DEF Good
    <3> QED BY <2>9, <3>2 DEF Told, JustSaved
  <2> QED BY <2>5, <2>6, <2>8, <2>10 DEF FileIsTrue
<1> QED BY <1>3, <1>5, <1>6, <1>7, <1>8 DEF TruthInv

\* conf_save writes under the name it was given.
LEMMA TruthOfSave ==
    ASSUME TruthInv, Inv', Save
    PROVE  TruthInv'
<1>1. /\ Top.fn = "save" /\ Top.at = "result" /\ outcome = Running
      /\ UNCHANGED <<mem, files, filename, forgot, outcome>> /\ dlg' = NoDlg
  BY DEF Save, Ready, Quiet, disk
<1>2. IsStack(stack) /\ IsText(ret.text)
  BY DEF TruthInv, Inv, IsRet
<1>3. PICK t, f, g : /\ t = Top /\ f = [t EXCEPT !.at = "written", !.name = ret.text]
                     /\ g = WriteCall(ret.text)
  OBVIOUS
<1>4. IsFrame(t)
  BY <1>2, <1>3, StackHas DEF Top
<1>5. t = [x \in DOMAIN t |-> t[x]] /\ {"fn", "at", "name"} \subseteq DOMAIN t /\ t.fn = "save"
  BY <1>1, <1>3, <1>4 DEF IsFrame
<1>6. /\ f = [x \in DOMAIN f |-> f[x]] /\ DOMAIN f = DOMAIN t
      /\ f.fn = "save" /\ f.at = "written" /\ f.name = ret.text
  BY <1>3, <1>5
<1>7. IsFrame(f)
  BY <1>2, <1>5, <1>6 DEF IsFrame
<1>8. g.fn = "write" /\ g.at = "tmp" /\ g.name = ret.text
  BY <1>3 DEF WriteCall
<1>9. CalledBy(f, g, filename)
  BY <1>6, <1>8 DEF CalledBy
<1>10. PICK c, r : c = Front(stack) /\ r = Append(c, f)
  OBVIOUS
<1>11. stack' = Append(r, g)
  <2>1. PICK S : stack \in Seq(S) /\ Len(stack) \in Nat /\ Len(stack) > 0
    BY <1>2, StackIs DEF IsStack
  <2>2. c \in Seq(S)
    BY <1>10, <2>1, SubSeqProperties DEF Front
  <2>3. PICK T : T = S \cup {f, g}
    OBVIOUS
  <2>4. c \in Seq(T) /\ f \in T /\ g \in T
    BY <2>2, <2>3, SeqMonotonic
  <2>5. stack' = c \o <<f, g>>
    BY <1>3, <1>10 DEF Save, Callers
  <2> QED BY <1>10, <2>4, <2>5
<1>12. IsSignal(f) <=> IsSignal(Top)
  BY <1>1, <1>6 DEF IsSignal
<1>13. f.fn = Top.fn /\ r = Append(Front(stack), f)
  BY <1>1, <1>6, <1>10
<1> QED BY <1>1, <1>7, <1>8, <1>9, <1>11, <1>12, <1>13, WriteCalled

\* handle_exit writes under the name of the program.
LEMMA TruthOfYes ==
    ASSUME TruthInv, Inv', ExitYes
    PROVE  TruthInv'
<1>1. /\ Top.fn = "exit" /\ Top.at = "answer" /\ outcome = Running
      /\ UNCHANGED <<mem, files, filename, forgot, outcome>> /\ dlg' = NoDlg
  BY DEF ExitYes, Call, Ready, Quiet, disk
<1>2. IsStack(stack)
  BY DEF TruthInv, Inv
<1>3. PICK t, f, g : t = Top /\ f = [t EXCEPT !.at = "written"] /\ g = WriteCall(filename)
  OBVIOUS
<1>4. IsFrame(t)
  BY <1>2, <1>3, StackHas DEF Top
<1>5. IsFrame(f) /\ f.fn = t.fn
  BY <1>3, <1>4, FrameAt
<1>6. {"fn", "at", "signal"} \subseteq DOMAIN t
  BY <1>1, <1>3, <1>4 DEF IsFrame
<1>7. f.at = "written" /\ f.signal = t.signal
  BY <1>3, <1>6
<1>8. g.fn = "write" /\ g.at = "tmp" /\ g.name = filename
  BY <1>3 DEF WriteCall
<1>9. CalledBy(f, g, filename)
  BY <1>1, <1>3, <1>5, <1>7, <1>8 DEF CalledBy
<1>10. PICK r : r = Append(Front(stack), f)
  OBVIOUS
<1>11. stack' = Append(r, g)
  BY <1>3, <1>10 DEF ExitYes, Call, TopAt, Callers
<1>12. IsSignal(f) <=> IsSignal(Top)
  BY <1>3, <1>5, <1>7 DEF IsSignal
<1>13. f.fn = Top.fn
  BY <1>3, <1>5
<1> QED BY <1>1, <1>5, <1>8, <1>9, <1>10, <1>11, <1>12, <1>13, WriteCalled

-----------------------------------------------------------------------------
(* conf_write, its message, and the end.                                   *)

\* The function on top goes on: what is said of the others stays.
LEMMA GoesOn ==
    ASSUME TruthInv, IsStack(stack'), NEW f, f.fn = Top.fn, IsSignal(f) <=> IsSignal(Top),
           f.fn = "write" => f.name = Top.name, stack' = Append(Front(stack), f),
           filename' = filename
    PROVE  /\ Handler(stack') /\ (InWrite(stack) => InWrite(stack'))
           /\ (Shape(stack, filename) => Shape(stack', filename')) /\ Top' = f
           /\ DOMAIN stack' = DOMAIN stack /\ Len(stack) \in DOMAIN stack /\ stack'[Len(stack)] = f
           /\ \A i \in DOMAIN stack : i # Len(stack) => stack'[i] = stack[i]
<1>1. IsStack(stack) /\ f.fn = Last(stack).fn /\ (IsSignal(f) <=> IsSignal(Last(stack)))
      /\ (f.fn = "write" => f.name = Last(stack).name) /\ Handler(stack)
  BY DEF TruthInv, Inv, Top
<1>2. Replaced(stack', stack, f)
  BY <1>1, ReplacedIs
<1>3. Handler(stack') /\ (InWrite(stack') <=> InWrite(stack))
  BY <1>1, <1>2, ReplacedKeeps
<1>4. Shape(stack, filename) => Shape(stack', filename)
  BY <1>1, <1>2, ShapeReplaced
<1>5. Top' = f
  <2>1. Last(stack') = stack'[Len(stack')]
    BY DEF Last
  <2> QED BY <1>2, <2>1 DEF Replaced, Top
<1>6. Len(stack) \in Nat \ {0} /\ DOMAIN stack = 1..Len(stack) /\ DOMAIN stack' = 1..Len(stack')
  BY <1>1, StackIs
<1>7. DOMAIN stack' = DOMAIN stack /\ Len(stack) \in DOMAIN stack /\ stack'[Len(stack)] = f
  BY <1>2, <1>6 DEF Replaced
<1>8. \A i \in DOMAIN stack : i # Len(stack) => stack'[i] = stack[i]
  <2>1. TAKE i \in DOMAIN stack
  <2>2. HAVE i # Len(stack)
  <2>3. i \in 1..(Len(stack) - 1)
    BY <1>6, <2>1, <2>2
  <2> QED BY <1>2, <2>3 DEF Replaced
<1> QED BY <1>3, <1>4, <1>5, <1>7, <1>8

\* It returns.
LEMMA GoesBack ==
    ASSUME TruthInv, IsStack(stack'), ~IsSignal(Top), stack' = Front(stack), filename' = filename
    PROVE  /\ Handler(stack') /\ (InWrite(stack) => InWrite(stack'))
           /\ (Shape(stack, filename) => Shape(stack', filename'))
           /\ \A i \in DOMAIN stack' : i \in DOMAIN stack /\ i # Len(stack) /\ stack'[i] = stack[i]
           /\ Len(stack) - 1 \in DOMAIN stack' /\ Top' = stack[Len(stack) - 1]
<1>1. IsStack(stack) /\ ~IsSignal(Last(stack)) /\ Handler(stack)
  BY DEF TruthInv, Inv, Top
<1>2. Popped(stack', stack)
  BY <1>1, PoppedIs
<1>3. Handler(stack') /\ (InWrite(stack) => InWrite(stack'))
  BY <1>1, <1>2, PoppedKeeps
<1>4. Shape(stack, filename) => Shape(stack', filename)
  BY <1>1, <1>2, ShapePopped
<1>5. /\ Len(stack) \in Nat \ {0} /\ DOMAIN stack = 1..Len(stack)
      /\ DOMAIN stack' = 1..Len(stack') /\ Len(stack') \in Nat \ {0} /\ Last(stack') = stack'[Len(stack')]
  BY <1>1, StackIs
<1>6. \A i \in DOMAIN stack' : i \in DOMAIN stack /\ i # Len(stack) /\ stack'[i] = stack[i]
  BY <1>2, <1>5 DEF Popped
<1>7. Len(stack) - 1 \in DOMAIN stack' /\ Top' = stack'[Len(stack) - 1]
  BY <1>2, <1>5 DEF Popped, Top
<1> QED BY <1>3, <1>4, <1>6, <1>7

\* A return that says nothing of files.
LEMMA ReturnKeepsTruth ==
    ASSUME TruthInv, Inv', Top.at # "start", ~IsSignal(Top), ~JustSaved, NEW res, res \notin {"ok", "clean"},
           Return(res), outcome = Running, UNCHANGED <<mem, files, filename, forgot, outcome>>
    PROVE  TruthInv'
<1>1. IsStack(stack') /\ stack' = Front(stack) /\ filename' = filename
  BY DEF Inv, Return, Callers
<1>2. /\ Handler(stack') /\ (InWrite(stack) => InWrite(stack'))
      /\ (Shape(stack, filename) => Shape(stack', filename'))
      /\ \A i \in DOMAIN stack' : i \in DOMAIN stack /\ i # Len(stack) /\ stack'[i] = stack[i]
      /\ Len(stack) - 1 \in DOMAIN stack' /\ Top' = stack[Len(stack) - 1]
  BY <1>1, GoesBack
<1>3. dlg' = NoDlg /\ ret' = Returns(res)
  BY DEF Return
<1>4. TopPlaced' /\ ret'.res \notin {"ok", "clean"}
  BY <1>3, NoneIsPlaced
<1>5. ExitTellsTheTruth'
  BY DEF ExitTellsTheTruth, Running
<1>6. ASSUME FileIsTrue PROVE FileIsTrue'
  <2>1. World'
    BY <1>6 DEF FileIsTrue, World
  <2>2. WritesAreGood'
    BY <1>2, <1>6 DEF FileIsTrue, WritesAreGood, Good
  <2>3. Told'
    <3>1. ~mem.changed /\ ~forgot => Good(filename)
      BY <1>6 DEF FileIsTrue, Told
    <3>2. (~mem.changed /\ ~forgot => Good(filename))'
      BY <3>1 DEF Good
    <3> QED BY <1>4, <3>2 DEF Told, JustSaved
  <2>4. Shape(stack, filename)'
    BY <1>2, <1>6 DEF FileIsTrue
  <2> QED BY <2>1, <2>2, <2>3, <2>4 DEF FileIsTrue
<1> QED BY <1>2, <1>4, <1>5, <1>6 DEF TruthInv

\* A text, shown and read.
LEMMA TruthOfText ==
    ASSUME TruthInv, Inv', TextShow \/ TextShown
    PROVE  TruthInv'
<1>1. /\ Top.fn = "text" /\ Top.at \in {"show", "shown"} /\ outcome = Running
      /\ UNCHANGED <<mem, files, filename, forgot, outcome>>
  BY DEF TextShow, TextShown, Ready, Quiet, disk
<1>2. ~IsSignal(Top) /\ ~JustSaved
  BY <1>1 DEF IsSignal, JustSaved
<1>3. CASE \E res \in {"small", "done"} : Return(res)
  BY <1>1, <1>2, <1>3, ReturnKeepsTruth
<1>4. CASE \E d : Show(d, "shown")
  <2>1. PICK f : f = [Top EXCEPT !.at = "shown"]
    OBVIOUS
  <2>2. IsFrame(Top)
    <3>1. IsStack(stack)
      BY DEF TruthInv, Inv
    <3> QED BY <3>1, StackHas DEF Top
  <2>3. f.fn = "text" /\ f.at = "shown"
    <3>1. f.fn = Top.fn
      BY <2>1, <2>2, FrameAt
    <3>2. "at" \in DOMAIN Top
      BY <2>2 DEF IsFrame
    <3> QED BY <1>1, <2>1, <3>1, <3>2
  <2>4. stack' = Append(Front(stack), f) /\ ret'.res = "none"
    <3>1. PICK d : Show(d, "shown")
      BY <1>4
    <3>2. stack' = Append(Front(stack), f) /\ ret' = NoRet
      BY <2>1, <3>1 DEF Show, TopAt, Callers
    <3>3. NoRet.res = "none"
      BY DEF NoRet
    <3> QED BY <3>2, <3>3
  <2>5. IsStack(stack') /\ f.fn = Top.fn /\ (IsSignal(f) <=> IsSignal(Top)) /\ f.fn # "write" /\ filename' = filename
    BY <1>1, <2>3 DEF Inv, IsSignal
  <2>6. /\ Handler(stack') /\ (InWrite(stack) => InWrite(stack'))
        /\ (Shape(stack, filename) => Shape(stack', filename')) /\ Top' = f
        /\ DOMAIN stack' = DOMAIN stack /\ Len(stack) \in DOMAIN stack /\ stack'[Len(stack)] = f
        /\ \A i \in DOMAIN stack : i # Len(stack) => stack'[i] = stack[i]
    BY <2>4, <2>5, GoesOn
  <2>7. TopPlaced'
    BY <2>3, <2>6 DEF TopPlaced
  <2>8. ExitTellsTheTruth'
    BY <1>1 DEF ExitTellsTheTruth, Running
  <2>9. ASSUME FileIsTrue PROVE FileIsTrue'
    <3>1. World'
      BY <1>1, <2>9 DEF FileIsTrue, World
    <3>2. \A i \in DOMAIN stack' : stack'[i].fn = "write" => i \in DOMAIN stack /\ stack'[i] = stack[i]
      BY <2>3, <2>6
    <3>3. WritesAreGood'
      BY <1>1, <2>9, <3>2 DEF FileIsTrue, WritesAreGood, Good
    <3>4. ~mem.changed /\ ~forgot => Good(filename)
      BY <1>1, <1>2, <2>9 DEF FileIsTrue, Told
    <3>5. (~mem.changed /\ ~forgot => Good(filename))'
      BY <1>1, <3>4 DEF Good
    <3>6. Told'
      BY <2>4, <3>5 DEF Told, JustSaved
    <3>7. Shape(stack, filename)'
      BY <2>6, <2>9 DEF FileIsTrue
    <3> QED BY <3>1, <3>3, <3>6, <3>7 DEF FileIsTrue
  <2> QED BY <2>6, <2>7, <2>8, <2>9 DEF TruthInv
<1> QED BY <1>3, <1>4 DEF TextShow, TextShown

\* conf_write: the file is written, renamed, and counts as saved after the
\* message.  Only the name of conf_write says which file that is.
LEMMA TruthOfTmp ==
    ASSUME TruthInv, Inv', StepIsCounted, WriteTmp
    PROVE  TruthInv'
<1>1. /\ Top.fn = "write" /\ Top.at = "tmp" /\ outcome = Running /\ Top.name \in FileNames
      /\ UNCHANGED <<files, filename, forgot, outcome, ret>> /\ dlg' = NoDlg
  BY DEF WriteTmp, Ready, Quiet, disk
<1>2. IsStack(stack) /\ IsStack(stack')
  BY DEF TruthInv, Inv
<1>3. PICK lines, t, f : /\ stack' = Append(Callers, [Top EXCEPT !.at = "rename", !.lines = lines])
                         /\ t = Top /\ f = [t EXCEPT !.at = "rename", !.lines = lines]
  BY DEF WriteTmp
<1>4. IsFrame(t)
  BY <1>2, <1>3, StackHas DEF Top
<1>5. {"fn", "at", "name", "lines"} \subseteq DOMAIN t
  BY <1>1, <1>3, <1>4 DEF IsFrame
<1>6. f.fn = "write" /\ f.at = "rename" /\ f.name = t.name
  BY <1>1, <1>3, <1>5
<1>7. stack' = Append(Front(stack), f)
  BY <1>3 DEF Callers
<1>8. f.fn = Top.fn /\ (IsSignal(f) <=> IsSignal(Top)) /\ f.name = Top.name /\ filename' = filename
  BY <1>1, <1>3, <1>6 DEF IsSignal
<1>9. /\ Handler(stack') /\ (InWrite(stack) => InWrite(stack'))
      /\ (Shape(stack, filename) => Shape(stack', filename')) /\ Top' = f
      /\ DOMAIN stack' = DOMAIN stack /\ Len(stack) \in DOMAIN stack /\ stack'[Len(stack)] = f
      /\ \A i \in DOMAIN stack : i # Len(stack) => stack'[i] = stack[i]
  BY <1>2, <1>7, <1>8, GoesOn
<1>10. TopPlaced'
  BY <1>1 DEF TopPlaced
<1>11. ExitTellsTheTruth'
  BY <1>1 DEF ExitTellsTheTruth, Running
<1>12. ASSUME FileIsTrue PROVE FileIsTrue'
  <2>1. World'
    BY <1>1, <1>12 DEF FileIsTrue, World, StepIsCounted
  <2>2. Last(stack).fn # "text"
    BY <1>1 DEF Top
  <2>3. \A i \in DOMAIN stack : stack[i].fn = "write" => i = Len(stack)
    BY <1>2, <1>12, <2>2, NothingWritten DEF FileIsTrue
  <2>4. \A i \in DOMAIN stack' : stack'[i].fn = "write" => stack'[i] = f
    BY <1>9, <2>3
  <2>5. WritesAreGood'
    BY <1>1, <1>6, <1>8, <2>4 DEF WritesAreGood
  <2>6. ASSUME ~mem'.changed, ~forgot' PROVE ReadBack(mem', files'[filename']) = Kept(mem')
    <3>1. ~mem.changed /\ Kept(mem') = Kept(mem) /\ K(mem') = K(mem)
      BY <1>1, <2>6, CountedIs
    <3>2. ~forgot /\ ~JustSaved /\ Top.at # "start"
      BY <1>1, <2>6 DEF JustSaved
    <3>3. Good(filename)
      BY <1>12, <3>1, <3>2 DEF FileIsTrue, Told
    <3>4. files'[filename'] = files[filename]
      BY <1>1
    <3> QED BY <3>1, <3>3, <3>4, SameValues
  <2>7. Told'
    BY <1>6, <1>9, <2>6 DEF Told, JustSaved, Good
  <2>8. Shape(stack, filename)'
    BY <1>9, <1>12 DEF FileIsTrue
  <2> QED BY <2>1, <2>5, <2>7, <2>8 DEF FileIsTrue
<1> QED BY <1>9, <1>10, <1>11, <1>12 DEF TruthInv

\* What is renamed reads back as the configuration.
LEMMA TruthOfRename ==
    ASSUME TruthInv, Inv', WrittenReadsBack, WriteRename
    PROVE  TruthInv'
<1>1. /\ Ready("write", "rename") /\ Top.fn = "write" /\ Top.at = "rename" /\ outcome = Running
      /\ UNCHANGED <<mem, filename, forgot, outcome>>
      /\ files' = [files EXCEPT ![Top.name] = FileOf(Top.lines)]
  BY DEF WriteRename, Ready
<1>2. IsStack(stack) /\ IsStack(stack')
  BY DEF TruthInv, Inv
<1>3. PICK t, f : t = Top /\ f = [t EXCEPT !.at = "done"]
  OBVIOUS
<1>4. IsFrame(t)
  BY <1>2, <1>3, StackHas DEF Top
<1>5. {"fn", "at", "name", "lines"} \subseteq DOMAIN t
  BY <1>1, <1>3, <1>4 DEF IsFrame
<1>6. f.fn = "write" /\ f.at = "done" /\ f.name = t.name
  BY <1>1, <1>3, <1>5
<1>7. PICK r, g : r = Append(Front(stack), f) /\ g = Box(6)
  OBVIOUS
<1>8. dlg' = NoDlg /\ ret' = NoRet /\ (stack' = r \/ stack' = Append(r, g))
  BY <1>3, <1>7 DEF WriteRename, Goto, Call, TopAt, Callers
<1>9. NoRet.res = "none" /\ g.fn = "text"
  BY <1>7 DEF NoRet, Box, TextCall
<1>10. IsFrame(f)
  BY <1>3, <1>4, FrameAt
<1>11. /\ f.fn = Last(stack).fn /\ (IsSignal(f) <=> IsSignal(Last(stack))) /\ f.name = Last(stack).name
       /\ Handler(stack)
  BY <1>1, <1>3, <1>6 DEF IsSignal, TruthInv, Top
<1>12. IsStack(r) /\ Replaced(r, stack, f)
  BY <1>2, <1>7, <1>10, <1>11, StackReplaced, ReplacedIs
<1>13. Handler(r) /\ (InWrite(r) <=> InWrite(stack))
  BY <1>2, <1>11, <1>12, ReplacedKeeps
<1>14. Shape(stack, filename) => Shape(r, filename)
  BY <1>2, <1>11, <1>12, ShapeReplaced
<1>15. /\ Handler(stack') /\ (InWrite(stack) => InWrite(stack'))
       /\ Shape(stack, filename) => Shape(stack', filename)
       /\ Top'.fn \in {"write", "text"}
       /\ \A i \in DOMAIN stack' : stack'[i].fn = "write" => i \in DOMAIN r /\ stack'[i] = r[i]
  <2>1. CASE stack' = Append(r, g)
    <3>1. Pushed(stack', r, g)
      BY <1>12, <2>1, PushedIs
    <3>2. g.fn \in {"write", "text"}
      BY <1>9
    <3>3. Handler(stack') /\ (InWrite(r) => InWrite(stack'))
      BY <1>2, <1>12, <1>13, <3>1, <3>2, PushedKeeps
    <3>4. ASSUME Shape(r, filename) PROVE Shape(stack', filename)
      BY <1>2, <1>9, <1>12, <3>1, <3>4, ShapePushedText
    <3>5. \A i \in DOMAIN stack' : stack'[i].fn = "write" => i \in DOMAIN r /\ stack'[i] = r[i]
      <4>1. DOMAIN r = 1..Len(r) /\ DOMAIN stack' = 1..Len(stack') /\ Len(r) \in Nat
        BY <1>2, <1>12, StackIs
      <4> QED BY <1>9, <3>1, <4>1 DEF Pushed
    <3>6. Top'.fn = "text"
      <4>1. Last(stack') = stack'[Len(stack')]
        BY DEF Last
      <4> QED BY <1>9, <3>1, <4>1 DEF Pushed, Top
    <3> QED BY <1>13, <1>14, <3>3, <3>4, <3>5, <3>6
  <2>2. CASE stack' = r
    <3>1. Last(stack') = stack'[Len(stack')]
      BY DEF Last
    <3>2. Top'.fn = "write"
      BY <1>6, <1>12, <2>2, <3>1 DEF Replaced, Top
    <3> QED BY <1>13, <1>14, <2>2, <3>2
  <2> QED BY <1>8, <2>1, <2>2
<1>16. TopPlaced'
  BY <1>8 DEF TopPlaced
<1>17. ExitTellsTheTruth'
  BY <1>1 DEF ExitTellsTheTruth, Running
<1>18. ASSUME FileIsTrue, ~InWrite(stack) PROVE FileIsTrue'
  <2>1. Last(stack).fn # "text" /\ Last(stack) = t
    BY <1>1, <1>3 DEF Top
  <2>2. \A i \in DOMAIN stack : stack[i].fn = "write" => i = Len(stack)
    BY <1>2, <1>18, <2>1, NothingWritten DEF FileIsTrue
  <2>3. /\ Len(stack) \in Nat \ {0} /\ DOMAIN stack = 1..Len(stack) /\ stack[Len(stack)] = t
        /\ DOMAIN r = 1..Len(r)
    BY <1>2, <1>12, <2>1, StackIs
  <2>4. \A i \in DOMAIN r : r[i].fn = "write" => r[i] = f
    <3>1. TAKE i \in DOMAIN r
    <3>2. HAVE r[i].fn = "write"
    <3>3. i \in DOMAIN stack
      BY <1>12, <2>3, <3>1 DEF Replaced
    <3>4. CASE i = Len(stack)
      BY <1>12, <3>4 DEF Replaced
    <3>5. CASE i # Len(stack)
      <4>1. i \in 1..(Len(stack) - 1)
        BY <2>3, <3>3, <3>5
      <4>2. r[i] = stack[i]
        BY <1>12, <4>1 DEF Replaced
      <4> QED BY <2>2, <3>2, <3>3, <3>5, <4>2
    <3> QED BY <3>4, <3>5
  <2>5. t.name \in FileNames
    <3>1. Len(stack) \in DOMAIN stack
      BY <2>3
    <3>2. t.fn = "write" /\ t.at = "rename"
      BY <1>1, <1>3
    <3> QED BY <1>18, <2>3, <3>1, <3>2 DEF FileIsTrue, WritesAreGood
  <2>6. World'
    BY <1>1, <1>18 DEF FileIsTrue, World
  <2>7. ReadBack(mem', files'[t.name]) = Kept(mem')
    <3>1. ReadBack(mem, FileOf(t.lines)) = Kept(mem)
      BY <1>1, <1>3, <1>18 DEF WrittenReadsBack
    <3>2. files'[t.name] = FileOf(t.lines)
      BY <1>1, <1>3, <1>18, <2>5 DEF FileIsTrue, World
    <3> QED BY <1>1, <3>1, <3>2
  <2>8. WritesAreGood'
    <3>1. \A i \in DOMAIN stack' : stack'[i].fn = "write" => stack'[i] = f
      BY <1>15, <2>4
    <3> QED BY <1>6, <2>5, <2>7, <3>1 DEF WritesAreGood, Good
  <2>9. ASSUME ~mem.changed, ~forgot PROVE ReadBack(mem', files'[filename']) = Kept(mem')
    <3>1. Good(filename)
      BY <1>1, <1>18, <2>9 DEF FileIsTrue, Told, JustSaved
    <3>2. CASE filename = t.name
      BY <1>1, <2>7, <3>2
    <3>3. CASE filename # t.name
      <4>1. files'[filename] = files[filename]
        BY <1>1, <1>3, <1>18, <3>3 DEF FileIsTrue, World
      <4> QED BY <1>1, <3>1, <4>1 DEF Good
    <3> QED BY <3>2, <3>3
  <2>10. Told'
    BY <1>1, <1>15, <2>9 DEF Told, JustSaved, Good
  <2>11. Shape(stack, filename)'
    BY <1>1, <1>15, <1>18 DEF FileIsTrue
  <2> QED BY <2>6, <2>8, <2>10, <2>11 DEF FileIsTrue
<1> QED BY <1>15, <1>16, <1>17, <1>18 DEF TruthInv

\* The function that waits for conf_write learns that the file is good.
LEMMA TruthOfDone ==
    ASSUME TruthInv, Inv', StepIsCounted, WriteDone
    PROVE  TruthInv'
<1>1. /\ Top.fn = "write" /\ Top.at = "done" /\ outcome = Running /\ ~forgot'
      /\ UNCHANGED <<files, filename, outcome>> /\ mem' = [mem EXCEPT !.changed = FALSE]
      /\ dlg' = NoDlg /\ ret' = Returns("ok") /\ stack' = Front(stack)
  BY DEF WriteDone, Return, Callers, Ready, disk
<1>2. IsStack(stack) /\ IsStack(stack') /\ filename' = filename /\ ~IsSignal(Top)
  BY <1>1 DEF TruthInv, Inv, IsSignal
<1>3. /\ Handler(stack') /\ (InWrite(stack) => InWrite(stack'))
      /\ (Shape(stack, filename) => Shape(stack', filename'))
      /\ \A i \in DOMAIN stack' : i \in DOMAIN stack /\ i # Len(stack) /\ stack'[i] = stack[i]
      /\ Len(stack) - 1 \in DOMAIN stack' /\ Top' = stack[Len(stack) - 1]
  BY <1>1, <1>2, GoesBack
<1>4. TopPlaced'
  BY <1>1 DEF TopPlaced
<1>5. ExitTellsTheTruth'
  BY <1>1 DEF ExitTellsTheTruth, Running
<1>6. ASSUME FileIsTrue PROVE FileIsTrue'
  <2>1. PICK n, w, c : n = Len(stack) /\ w = Top /\ c = stack[n - 1]
    OBVIOUS
  <2>2. n \in DOMAIN stack /\ w = stack[n] /\ w.fn = "write" /\ w.at = "done"
    BY <1>1, <1>2, <2>1, StackIs DEF Top
  <2>3. w.name \in FileNames /\ Good(w.name)
    BY <1>6, <2>2 DEF FileIsTrue, WritesAreGood
  <2>4. CalledBy(c, w, filename)
    BY <1>6, <2>1, <2>2 DEF FileIsTrue, Shape
  <2>5. Top' = c
    BY <1>3, <2>1
  <2>6. ~mem'.changed /\ "changed" \in DOMAIN mem'
    BY <1>1, <1>6 DEF FileIsTrue, World
  <2>7. Kept(mem') = Kept(mem) /\ K(mem') = K(mem)
    <3>1. mem' = mem \/ IsCounted
      BY <1>1 DEF StepIsCounted
    <3>2. CASE mem' = mem
      <4>1. PICK m : m = mem
        OBVIOUS
      <4>2. mem' = m
        BY <3>2, <4>1
      <4> QED BY <4>1, <4>2
    <3>3. CASE IsCounted
      BY <2>6, <3>3 DEF IsCounted
    <3> QED BY <3>1, <3>2, <3>3
  <2>8. ReadBack(mem', files'[w.name]) = Kept(mem')
    <3>1. PICK name : name = w.name
      OBVIOUS
    <3>2. files'[name] = files[name] /\ Good(name)
      BY <1>1, <2>3, <3>1
    <3>3. ReadBack(mem', files'[name]) = Kept(mem')
      BY <2>7, <3>2, SameValues
    <3> QED BY <3>1, <3>3
  <2>9. World'
    BY <1>1, <1>6, <2>6 DEF FileIsTrue, World
  <2>10. WritesAreGood'
    <3>1. Last(stack).fn # "text"
      BY <1>1 DEF Top
    <3>2. \A i \in DOMAIN stack : stack[i].fn = "write" => i = Len(stack)
      BY <1>2, <1>6, <3>1, NothingWritten DEF FileIsTrue
    <3>3. \A i \in DOMAIN stack' : stack'[i].fn # "write"
      BY <1>3, <3>2
    <3> QED BY <3>3 DEF WritesAreGood
  <2>11. ret'.res = "ok"
    <3>1. Returns("ok").res = "ok"
      BY DEF Returns, NoRet
    <3> QED BY <1>1, <3>1
  <2>12. Told'
    <3>1. CASE c.fn = "save"
      <4>1. w.name = c.name /\ c.at = "written"
        BY <2>4, <3>1 DEF CalledBy
      <4> QED BY <2>3, <2>5, <2>8, <2>11, <3>1, <4>1 DEF Told, JustSaved, Good
    <3>2. CASE c.fn = "exit"
      <4>1. w.name = filename /\ c.at = "written"
        BY <2>4, <3>2 DEF CalledBy
      <4>2. ReadBack(mem', files'[filename']) = Kept(mem')
        BY <1>1, <2>8, <4>1
      <4> QED BY <2>5, <3>2, <4>1, <4>2 DEF Told, JustSaved, Good
    <3> QED BY <2>4, <3>1, <3>2 DEF CalledBy
  <2>13. Shape(stack, filename)'
    BY <1>3, <1>6 DEF FileIsTrue
  <2> QED BY <2>9, <2>10, <2>12, <2>13 DEF FileIsTrue
<1> QED BY <1>3, <1>4, <1>5, <1>6 DEF TruthInv

\* A write that fails, and ESC at the question.
LEMMA TruthOfFail ==
    ASSUME TruthInv, Inv', WriteFails \/ (ExitEsc /\ ~Top.signal)
    PROVE  TruthInv'
<1>1. /\ Top.fn \in {"write", "exit"} /\ Top.at \in {"tmp", "answer"} /\ outcome = Running
      /\ UNCHANGED <<mem, files, filename, forgot, outcome>> /\ ~IsSignal(Top)
      /\ \E res \in {"fail", "esc"} : Return(res)
  BY DEF WriteFails, ExitEsc, Ready, Quiet, disk, IsSignal
<1>2. ~JustSaved
  BY <1>1 DEF JustSaved
<1> QED BY <1>1, <1>2, ReturnKeepsTruth

\* handle_exit asks whether to save unless nothing has changed.
LEMMA TruthOfAsk ==
    ASSUME TruthInv, Inv', ExitAsk
    PROVE  TruthInv'
<1>1. /\ Top.fn = "exit" /\ Top.at = "ask" /\ outcome = Running
      /\ UNCHANGED <<mem, files, filename, forgot, outcome>>
  BY DEF ExitAsk, Ready, disk
<1>2. IsStack(stack) /\ IsStack(stack')
  BY DEF TruthInv, Inv
<1>3. PICK t, f : t = Top /\ f = [t EXCEPT !.at = "answer"]
  OBVIOUS
<1>4. IsFrame(t)
  BY <1>2, <1>3, StackHas DEF Top
<1>5. {"fn", "at", "signal"} \subseteq DOMAIN t
  BY <1>1, <1>3, <1>4 DEF IsFrame
<1>6. f.fn = "exit" /\ f.at = "answer" /\ f.signal = t.signal
  BY <1>1, <1>3, <1>5
<1>7. stack' = Append(Front(stack), f)
  BY <1>3 DEF ExitAsk, TopAt, Callers
<1>8. f.fn = Top.fn /\ (IsSignal(f) <=> IsSignal(Top)) /\ f.fn # "write" /\ filename' = filename
  BY <1>1, <1>3, <1>6 DEF IsSignal
<1>9. /\ Handler(stack') /\ (InWrite(stack) => InWrite(stack'))
      /\ (Shape(stack, filename) => Shape(stack', filename')) /\ Top' = f
      /\ DOMAIN stack' = DOMAIN stack /\ Len(stack) \in DOMAIN stack /\ stack'[Len(stack)] = f
      /\ \A i \in DOMAIN stack : i # Len(stack) => stack'[i] = stack[i]
  BY <1>2, <1>7, <1>8, GoesOn
<1>10. TopPlaced'
  <2>1. dlg' = NoDlg \/ dlg'.kind = "yesno"
    BY DEF ExitAsk, OpenYesNo
  <2> QED BY <1>6, <1>9, <2>1 DEF TopPlaced
<1>11. ret'.res = "clean" => ~mem.changed
  <2>1. NoRet.res = "none" /\ \A res : Returns(res).res = res
    BY DEF Returns, NoRet
  <2> QED BY <2>1 DEF ExitAsk
<1>12. ExitTellsTheTruth'
  BY <1>1 DEF ExitTellsTheTruth, Running
<1>13. ASSUME FileIsTrue PROVE FileIsTrue'
  <2>1. World'
    BY <1>1, <1>13 DEF FileIsTrue, World
  <2>2. \A i \in DOMAIN stack' : stack'[i].fn = "write" => i \in DOMAIN stack /\ stack'[i] = stack[i]
    BY <1>6, <1>9
  <2>3. WritesAreGood'
    BY <1>1, <1>13, <2>2 DEF FileIsTrue, WritesAreGood, Good
  <2>4. ~mem.changed /\ ~forgot => Good(filename)
    BY <1>1, <1>13 DEF FileIsTrue, Told, JustSaved
  <2>5. (~mem.changed /\ ~forgot => Good(filename))'
    BY <1>1, <2>4 DEF Good
  <2>6. Told'
    BY <1>1, <1>6, <1>9, <1>11, <2>5 DEF Told, JustSaved
  <2>7. Shape(stack, filename)'
    BY <1>9, <1>13 DEF FileIsTrue
  <2> QED BY <2>1, <2>3, <2>6, <2>7 DEF FileIsTrue
<1> QED BY <1>9, <1>10, <1>12, <1>13 DEF TruthInv

\* The last words.
LEMMA TruthOfEnd ==
    ASSUME TruthInv, Inv', ExitUnchanged \/ ExitNo \/ (ExitEsc /\ Top.signal) \/ ExitWritten
    PROVE  TruthInv'
<1>0. PICK what :
        /\ Say(what)
        /\ what = "end" => (Top.at = "answer" /\ ret.res = "clean") \/ (Top.at = "written" /\ ret.res = "ok")
  <2>1. CASE ExitUnchanged
    <3>1. PICK what : what = "end"
      OBVIOUS
    <3>2. Say(what) /\ Top.at = "answer" /\ ret.res = "clean"
      BY <2>1, <3>1 DEF ExitUnchanged, Ready
    <3> QED BY <3>2
  <2>2. CASE ExitNo \/ (ExitEsc /\ Top.signal)
    <3>1. PICK what : what = "not saved"
      OBVIOUS
    <3>2. Say(what) /\ what # "end"
      BY <2>2, <3>1 DEF ExitNo, ExitEsc
    <3> QED BY <3>2
  <2>3. CASE ExitWritten
    <3>1. PICK what : what = IF ret.res = "ok" THEN "end" ELSE "not saved"
      OBVIOUS
    <3>2. Say(what) /\ Top.at = "written"
      BY <2>3, <3>1 DEF ExitWritten, Ready
    <3>3. what = "end" => ret.res = "ok"
      BY <3>1
    <3> QED BY <3>2, <3>3
  <2> QED BY <2>1, <2>2, <2>3
<1>1. /\ Top.fn = "exit" /\ Top.at \in {"answer", "written"} /\ outcome = Running
      /\ UNCHANGED <<mem, files, filename, forgot, stack, dlg, ret>> /\ outcome'.cut = Cut
  <2>1. Top.fn = "exit" /\ Top.at \in {"answer", "written"} /\ outcome = Running
    BY DEF ExitUnchanged, ExitNo, ExitEsc, ExitWritten, Ready
  <2>2. UNCHANGED <<mem, files, filename, forgot, stack, dlg, ret>>
    BY <1>0 DEF Say, disk
  <2>3. outcome'.cut = Cut
    BY <1>0 DEF Say
  <2> QED BY <2>1, <2>2, <2>3
<1>2. outcome'.said = "end" =>
        (Top.at = "answer" /\ ret.res = "clean") \/ (Top.at = "written" /\ ret.res = "ok")
  <2>1. outcome'.said = what
    BY <1>0 DEF Say
  <2> QED BY <1>0, <2>1
<1>3. ASSUME InWrite(stack) PROVE Cut
  <2>1. PICK i \in DOMAIN stack : \E j \in 1..i : stack[i].fn = "exit" /\ stack[i].signal /\ stack[j].fn = "write"
    BY <1>3 DEF InWrite
  <2>2. PICK j \in 1..i : stack[i].fn = "exit" /\ stack[i].signal /\ stack[j].fn = "write"
    BY <2>1
  <2>3. PICK c : c = Front(stack)
    OBVIOUS
  <2>4. IsStack(stack) /\ Popped(c, stack)
    BY <2>3, PoppedIs DEF TruthInv, Inv
  <2>5. Len(stack) \in Nat \ {0} /\ DOMAIN stack = 1..Len(stack) /\ Top = stack[Len(stack)]
    BY <2>4, StackIs DEF Top
  <2>6. i = Len(stack)
    <3>1. SUFFICES ASSUME i # Len(stack) PROVE FALSE
      OBVIOUS
    <3>2. i < Len(stack) /\ Len(stack) \in DOMAIN stack /\ IsSignal(stack[i])
      BY <2>2, <2>5, <3>1 DEF IsSignal
    <3> QED BY <1>1, <2>5, <3>2 DEF TruthInv, Handler
  <2>7. j # i
    BY <2>2
  <2>8. DOMAIN c = 1..(Len(stack) - 1)
    <3>1. PICK S : stack \in Seq(S)
      BY <2>4 DEF IsStack
    <3>2. c \in Seq(S)
      BY <2>3, <2>5, <3>1, SubSeqProperties DEF Front
    <3> QED BY <2>4, <3>2, LenProperties DEF Popped
  <2>9. j \in DOMAIN c /\ c[j] = stack[j]
    BY <2>2, <2>4, <2>5, <2>6, <2>7, <2>8 DEF Popped
  <2> QED BY <2>2, <2>3, <2>5, <2>6, <2>9 DEF Cut, Callers
<1>4. ASSUME FileIsTrue, outcome'.said = "end", ~forgot PROVE Good(filename)
  <2>1. CASE Top.at = "answer" /\ ret.res = "clean"
    BY <1>1, <1>4, <2>1 DEF FileIsTrue, Told, JustSaved
  <2>2. CASE Top.at = "written" /\ ret.res = "ok"
    BY <1>1, <1>4, <2>2 DEF FileIsTrue, Told
  <2> QED BY <1>2, <1>4, <2>1, <2>2
<1>5. ExitTellsTheTruth'
  <2>1. SUFFICES ASSUME outcome'.said = "end", ~outcome'.cut, ~forgot' PROVE ReadBack(mem', files'[filename']) = Kept(mem')
    BY DEF ExitTellsTheTruth
  <2>2. FileIsTrue /\ ~forgot
    BY <1>1, <1>3, <2>1 DEF TruthInv
  <2>3. Good(filename)
    BY <1>4, <2>1, <2>2
  <2> QED BY <1>1, <2>3 DEF Good
<1>6. TopPlaced'
  BY <1>1 DEF TruthInv, TopPlaced, Top
<1>7. Handler(stack')
  BY <1>1 DEF TruthInv
<1>8. InWrite(stack) => InWrite(stack')
  BY <1>1
<1>9. FileIsTrue => FileIsTrue'
  BY <1>1 DEF FileIsTrue, Shape, CalledBy, World, WritesAreGood, Told, JustSaved, Good, Top
<1> QED BY <1>5, <1>6, <1>7, <1>8, <1>9 DEF TruthInv

-----------------------------------------------------------------------------
(* Keys and interrupts.                                                    *)

\* No key answers the question with what is returned without a question.
LEMMA YesNoAnswers ==
    ASSUME NEW d, d \in [kind : {"yesno"}, button : 0..1], NEW key, NEW h, NEW r
    PROVE  r = YesNoKey(d, key, h) => Result(r).res # "clean"
<1>0. SUFFICES ASSUME r = YesNoKey(d, key, h) PROVE Result(r).res # "clean"
  OBVIOUS
<1>1. r.d.kind = "yesno"
  BY <1>0, YesNoKeyIs
<1>2. Result(r).res = r.res
  <2>1. Result(r) = Returns(r.res)
    BY <1>1 DEF Result
  <2> QED BY <2>1 DEF Returns, NoRet
<1>3. r.res # "clean"
  <2>1. CASE key \in {"space", "enter"}
    <3>1. PICK b : b = d.button
      OBVIOUS
    <3>2. r = Over(d, <<"yes", "no">>[b + 1])
      BY <1>0, <2>1, <3>1 DEF YesNoKey
    <3>3. b \in 0..1
      BY <3>1
    <3>4. <<"yes", "no">>[b + 1] # "clean"
      <4>1. CASE b = 0
        BY <4>1
      <4>2. CASE b = 1
        BY <4>2
      <4> QED BY <3>3, <4>1, <4>2
    <3> QED BY <3>2, <3>4 DEF Over
  <2>2. CASE key \notin {"space", "enter"}
    BY <1>0, <2>2 DEF YesNoKey, Over, Going
  <2> QED BY <2>1, <2>2
<1> QED BY <1>2, <1>3

\* The user presses a key, or changes the size of the terminal.
LEMMA TruthOfKeys ==
    ASSUME TruthInv, Inv', Press \/ Resize
    PROVE  TruthInv'
<1>1. Inv /\ Alive
  BY DEF TruthInv, Press, Resize
<1>2. PICK key, h, r : h \in Nat /\ r = KeyTo(key, h) /\ Pressed(r, key)
  <2>1. CASE Press
    BY <1>1, <2>1 DEF Press, Inv
  <2>2. CASE Resize
    <3>1. session.heights \subseteq Nat
      BY <1>1, MconfConstantsOK DEF Inv
    <3> QED BY <2>2, <3>1 DEF Resize
  <2> QED BY <2>1, <2>2
<1>3. Led(dlg, r)
  BY <1>1, <1>2, KeyToIs
<1>4. UNCHANGED <<mem, files, filename, forgot, stack, outcome>> /\ outcome = Running
  BY <1>1, <1>2 DEF Pressed, Alive, disk
<1>5. dlg # NoDlg
  BY <1>1 DEF Alive, NoDlg
<1>6. Top.at \in {"result", "shown", "answer"} /\ (Top.fn = "exit" => dlg.kind = "yesno")
  BY <1>5 DEF TruthInv, TopPlaced
<1>7. Top.fn = "exit" => ret'.res # "clean"
  <2>1. SUFFICES ASSUME Top.fn = "exit" PROVE ret'.res # "clean"
    OBVIOUS
  <2>2. dlg.kind = "yesno" /\ dlg \in [kind : {"yesno"}, button : 0..1]
    BY <1>1, <1>6, <2>1 DEF Inv, DialogIsTrue
  <2>3. r = YesNoKey(dlg, key, h)
    BY <1>2, <2>2 DEF KeyTo
  <2>4. Result(r).res # "clean"
    BY <2>2, <2>3, YesNoAnswers
  <2>5. ret' = NoRet \/ ret' = Result(r)
    BY <1>2 DEF Pressed
  <2>6. NoRet.res = "none"
    BY DEF NoRet
  <2> QED BY <2>4, <2>5, <2>6
<1>8. dlg' = NoDlg \/ dlg'.kind = dlg.kind
  <2>1. CASE r.res = "none"
    BY <1>2, <1>3, <2>1 DEF Pressed, Led
  <2>2. CASE r.res # "none"
    BY <1>2, <2>2 DEF Pressed
  <2> QED BY <2>1, <2>2
<1>9. Top' = Top
  BY <1>4 DEF Top
<1>10. TopPlaced'
  BY <1>6, <1>8, <1>9 DEF TopPlaced
<1>11. ExitTellsTheTruth'
  BY <1>4 DEF ExitTellsTheTruth, Running
<1>12. ASSUME FileIsTrue PROVE FileIsTrue'
  <2>1. World' /\ WritesAreGood' /\ Shape(stack, filename)'
    BY <1>4, <1>12 DEF FileIsTrue, World, WritesAreGood, Good
  <2>2. ~mem.changed /\ ~forgot => Good(filename)
    BY <1>6, <1>12 DEF FileIsTrue, Told, JustSaved
  <2>3. (~mem.changed /\ ~forgot => Good(filename))'
    BY <1>4, <2>2 DEF Good
  <2>4. Told'
    BY <1>6, <1>7, <1>9, <2>3 DEF Told, JustSaved
  <2> QED BY <2>1, <2>4 DEF FileIsTrue
<1>13. Handler(stack') /\ (InWrite(stack) => InWrite(stack'))
  BY <1>4 DEF TruthInv
<1> QED BY <1>10, <1>11, <1>12, <1>13 DEF TruthInv

\* SIGINT comes while a dialog is shown, or while a file is written; what is
\* said then is marked.
LEMMA TruthOfInterrupt ==
    ASSUME TruthInv, Inv', Interrupt
    PROVE  TruthInv'
<1>1. /\ outcome = Running /\ UNCHANGED <<mem, files, filename, forgot, outcome>>
      /\ dlg' = NoDlg /\ ret' = NoRet /\ (dlg # NoDlg \/ Top.fn = "write")
  BY DEF Interrupt, Quiet, disk
<1>2. IsStack(stack) /\ IsStack(stack') /\ Handler(stack)
  BY DEF TruthInv, Inv
<1>3. PICK g : g = ExitCall(TRUE)
  OBVIOUS
<1>4. g.fn = "exit" /\ g.at = "ask" /\ g.signal
  BY <1>3 DEF ExitCall
<1>5. \A i \in DOMAIN stack : ~IsSignal(stack[i])
  BY DEF Interrupt, IsSignal
<1>6. Pushed(stack', stack, g)
  <2>1. stack' = Append(stack, g)
    BY <1>3 DEF Interrupt
  <2> QED BY <1>2, <2>1, PushedIs
<1>7. Handler(stack')
  BY <1>2, <1>5, <1>6, PushedKeeps
<1>8. FileIsTrue
  <2>1. ~InWrite(stack)
    BY <1>5 DEF InWrite, IsSignal
  <2> QED BY <2>1 DEF TruthInv
<1>9. /\ Len(stack) \in Nat \ {0} /\ DOMAIN stack = 1..Len(stack) /\ DOMAIN stack' = 1..(Len(stack) + 1)
      /\ stack'[Len(stack) + 1] = g /\ \A i \in DOMAIN stack : stack'[i] = stack[i]
      /\ Top = stack[Len(stack)]
  BY <1>2, <1>6, StackIs DEF Pushed, Top
<1>10. TopPlaced'
  BY <1>1 DEF TopPlaced
<1>11. ExitTellsTheTruth'
  BY <1>1 DEF ExitTellsTheTruth, Running
<1>12. CASE \E j \in DOMAIN stack : stack[j].fn = "write"
  <2>1. PICK j \in DOMAIN stack : stack[j].fn = "write"
    BY <1>12
  <2>2. PICK i : i = Len(stack) + 1
    OBVIOUS
  <2>3. i \in DOMAIN stack' /\ j \in 1..i /\ stack'[i] = g /\ stack'[j].fn = "write"
    BY <1>9, <2>1, <2>2
  <2>4. InWrite(stack')
    BY <1>4, <2>3 DEF InWrite
  <2> QED BY <1>7, <1>10, <1>11, <2>4 DEF TruthInv
<1>13. CASE \A j \in DOMAIN stack : stack[j].fn # "write"
  <2>1. Shape(stack', filename)
    BY <1>2, <1>4, <1>6, <1>13, ShapePushed
  <2>2. World'
    BY <1>1, <1>8 DEF FileIsTrue, World
  <2>3. \A i \in DOMAIN stack' : stack'[i].fn # "write"
    <3>1. TAKE i \in DOMAIN stack'
    <3>2. CASE i \in DOMAIN stack
      BY <1>9, <1>13, <3>2
    <3>3. CASE i \notin DOMAIN stack
      <4>1. i = Len(stack) + 1
        BY <1>9, <3>1, <3>3
      <4> QED BY <1>4, <1>9, <4>1
    <3> QED BY <3>2, <3>3
  <2>4. WritesAreGood'
    BY <2>3 DEF WritesAreGood
  <2>5. Top' = g
    <3>1. Last(stack') = stack'[Len(stack')]
      BY DEF Last
    <3> QED BY <1>6, <3>1 DEF Pushed, Top
  <2>6. Top.at \in {"result", "shown", "answer"}
    <3>1. Top.fn # "write"
      BY <1>9, <1>13
    <3> QED BY <1>1, <3>1 DEF TruthInv, TopPlaced
  <2>7. ~mem.changed /\ ~forgot => Good(filename)
    BY <1>8, <2>6 DEF FileIsTrue, Told, JustSaved
  <2>8. (~mem.changed /\ ~forgot => Good(filename))'
    BY <1>1, <2>7 DEF Good
  <2>9. Told'
    BY <1>4, <2>5, <2>8 DEF Told, JustSaved
  <2>10. Shape(stack, filename)'
    BY <1>1, <2>1
  <2> QED BY <1>7, <1>10, <1>11, <2>2, <2>4, <2>9, <2>10 DEF TruthInv, FileIsTrue
<1> QED BY <1>12, <1>13

\* Nothing that is said of changes.
LEMMA TruthStays ==
    ASSUME TruthInv, Inv', UNCHANGED <<mem, files, filename, forgot, stack, dlg, ret>>,
           outcome' = outcome \/ outcome'.said # "end"
    PROVE  TruthInv'
<1>1. TopPlaced'
  BY DEF TruthInv, TopPlaced, Top
<1>2. Handler(stack') /\ (InWrite(stack) => InWrite(stack'))
  BY DEF TruthInv
<1>3. FileIsTrue => FileIsTrue'
  BY DEF FileIsTrue, Shape, CalledBy, World, WritesAreGood, Told, JustSaved, Good, Top
<1>4. ExitTellsTheTruth'
  BY DEF TruthInv, ExitTellsTheTruth
<1> QED BY <1>1, <1>2, <1>3, <1>4 DEF TruthInv

\* At first there is nothing to tell,
LEMMA TruthAtFirst == Init => TruthInv
<1> SUFFICES ASSUME Init PROVE TruthInv
  OBVIOUS
<1>1. Inv
  BY InitIs
<1>2. PICK f : f = Main("start") /\ stack = <<f>>
  BY DEF Init
<1>3. f.fn = "main" /\ f.at = "start"
  BY <1>2 DEF Main
<1>4. DOMAIN stack = {1} /\ stack[1] = f /\ Len(stack) = 1
  BY <1>2
<1>5. Top = f
  BY <1>4 DEF Top, Last
<1>6. Handler(stack) /\ Shape(stack, filename) /\ WritesAreGood
  BY <1>3, <1>4 DEF Handler, Shape, WritesAreGood, IsSignal
<1>7. TopPlaced
  BY DEF Init, TopPlaced
<1>8. ExitTellsTheTruth
  BY DEF Init, Running, ExitTellsTheTruth
<1>9. Told
  BY <1>3, <1>5 DEF Told, JustSaved
<1>10. World
  <2>1. filename \in FileNames /\ DOMAIN files = FileNames
    BY MconfConstantsOK DEF Init
  <2>2. "changed" \in DOMAIN mem
    BY DEF Init, InitMem
  <2> QED BY <2>1, <2>2 DEF World
<1> QED BY <1>1, <1>6, <1>7, <1>8, <1>9, <1>10 DEF TruthInv, FileIsTrue

\* and every step keeps the truth, where the library counts its changes and
\* writes what it reads.
LEMMA TruthNext ==
    TruthInv /\ LibraryData /\ [Next]_vars /\ [StepIsCounted]_vars => TruthInv'
<1> SUFFICES ASSUME TruthInv, LibraryData, [Next]_vars, [StepIsCounted]_vars PROVE TruthInv'
  OBVIOUS
<1>1. Inv' /\ WrittenReadsBack
  BY NextIs DEF TruthInv, LibraryData
<1>2. CASE UNCHANGED vars
  <2>1. UNCHANGED <<mem, files, filename, forgot, stack, dlg, ret>> /\ outcome' = outcome
    BY <1>2 DEF vars, disk
  <2> QED BY <1>1, <2>1, TruthStays
<1>3. CASE Crash
  <2>1. UNCHANGED <<mem, files, filename, forgot, stack, dlg, ret>> /\ outcome'.said # "end"
    BY <1>3 DEF Crash, disk, Running
  <2> QED BY <1>1, <2>1, TruthStays
<1>4. CASE Spinning \/ Done
  BY <1>2, <1>4 DEF Spinning, Done
<1>5. CASE ~UNCHANGED vars
  <2>0. Next /\ StepIsCounted
    BY <1>5
  <2>1. CASE Start
    BY <1>1, <2>0, <2>1, TruthOfStart
  <2>2. CASE MainConf \/ MainExit
    BY <1>1, <2>0, <2>2, TruthOfMain
  <2>3. CASE \/ ConfLoop \/ ConfLeave \/ ConfUnfold \/ ConfSubmenu \/ ConfChoice \/ ConfString \/ ConfNothing
             \/ ConfHelp \/ ConfFile \/ ConfSearch \/ ConfAll \/ ConfSetYes \/ ConfSet
    BY <1>1, <2>0, <2>3, TruthOfConf
  <2>4. CASE ChoiceLoop \/ ChoiceSelect \/ ChoiceHelp \/ ChoiceLeave
    BY <1>1, <2>0, <2>4, TruthOfChoice
  <2>5. CASE \/ StringLoop \/ StringOk \/ StringHelp \/ BoxLeave
             \/ FileLoop \/ FileHelp \/ FileBlank \/ SaveFailed
    BY <1>1, <2>0, <2>5, TruthOfFields
  <2>6. CASE Load \/ LoadMissing
    BY <1>1, <2>0, <2>6, TruthOfLoad
  <2>7. CASE Save
    BY <1>1, <2>7, TruthOfSave
  <2>8. CASE Saved
    BY <1>1, <2>0, <2>8, TruthOfSaved
  <2>9. CASE WriteFails \/ (ExitEsc /\ ~Top.signal)
    BY <1>1, <2>9, TruthOfFail
  <2>10. CASE WriteTmp
    BY <1>1, <2>0, <2>10, TruthOfTmp
  <2>11. CASE WriteRename
    BY <1>1, <2>11, TruthOfRename
  <2>12. CASE WriteDone
    BY <1>1, <2>0, <2>12, TruthOfDone
  <2>13. CASE \/ SearchLoop \/ SearchHelp \/ SearchLeave \/ SearchFor \/ SearchShow \/ SearchJump \/ SearchDone
    BY <1>1, <2>0, <2>13, TruthOfSearch
  <2>14. CASE TextShow \/ TextShown
    BY <1>1, <2>14, TruthOfText
  <2>15. CASE ExitAsk
    BY <1>1, <2>15, TruthOfAsk
  <2>16. CASE ExitYes
    BY <1>1, <2>16, TruthOfYes
  <2>17. CASE ExitUnchanged \/ ExitNo \/ (ExitEsc /\ Top.signal) \/ ExitWritten
    BY <1>1, <2>17, TruthOfEnd
  <2>18. CASE Press \/ Resize
    BY <1>1, <2>18, TruthOfKeys
  <2>19. CASE Interrupt
    BY <1>1, <2>19, TruthOfInterrupt
  <2> QED
    BY <1>3, <1>4, <2>0, <2>1, <2>2, <2>3, <2>4, <2>5, <2>6, <2>7, <2>8, <2>9, <2>10, <2>11, <2>12,
       <2>13, <2>14, <2>15, <2>16, <2>17, <2>18, <2>19 DEF Next
<1> QED BY <1>2, <1>5

\* What menuconfig says in the end is true in every session, however dialogs,
\* loads, saves and interrupts follow each other: if the library counts its
\* changes and what it writes reads back, then the file at the top of the
\* screen reads back as the configuration in memory when the program says that
\* it has been saved or has nothing to save (handle_exit, conf_save, conf_load).
THEOREM ExitStaysTrue == Spec /\ []LibraryData /\ ChangesAreCounted => []ExitTellsTheTruth
<1>1. Init => TruthInv
  BY TruthAtFirst
<1>2. TruthInv /\ LibraryData /\ [Next]_vars /\ [StepIsCounted]_vars => TruthInv'
  BY TruthNext
<1>3. TruthInv => ExitTellsTheTruth
  BY DEF TruthInv
<1> QED BY <1>1, <1>2, <1>3, PTL DEF Spec, ChangesAreCounted

=============================================================================
