---------------------------- MODULE Conf_proofs -----------------------------
(***************************************************************************)
(* Proofs about conf.  They hold for every library (the constants of       *)
(* LkcProto), all Kconfig files, plans and answers, and any number of      *)
(* crashes and full disks: what is proved is the order in which the        *)
(* program does things.                                                    *)
(***************************************************************************)
EXTENDS Conf, SequenceTheorems, TLAPS

Files == {"config", "old", "defconfig", "auto", "header", "tristate"}

\* Up to the first rename of conf_write, .config is the file that was saved
\* last, if there is one; between the renames there is none.
BeforeKeep == {"set", "loop", "write", "keep"}
SaveInv ==
    /\ disk = [f \in Files |-> disk[f]]
    /\ LastSaveSurvives
    /\ pc \in BeforeKeep /\ disk.config.exists /\ saved.exists => saved = disk.config
    /\ pc = "replace" => ~disk.config.exists

\* The invariant holds at first
LEMMA SaveInit == Init => SaveInv
BY DEF Init, SaveInv, LastSaveSurvives, Files, NoFile, BeforeKeep

\* The steps that change neither .config and .config.old nor the idea of what
\* was saved last.
LEMMA SaveKept ==
    ASSUME SaveInv, UNCHANGED <<disk, saved>>,
           pc' \in BeforeKeep => pc \in BeforeKeep,
           pc' = "replace" => pc = "replace"
    PROVE  SaveInv'
BY DEF SaveInv, LastSaveSurvives, BeforeKeep

\* and every step keeps it.
LEMMA SaveStep == SaveInv /\ [Next]_vars => SaveInv'
<1> SUFFICES ASSUME SaveInv, [Next]_vars PROVE SaveInv'
  OBVIOUS
<1> USE DEF world
<1>1. CASE Start
  <2>1. saved' = IF disk.config.exists /\ disk.config # saved THEN NoFile ELSE saved
    BY <1>1 DEF Start
  <2>2. UNCHANGED disk /\ pc' # "replace"
    BY <1>1 DEF Start
  <2> QED BY <2>1, <2>2 DEF SaveInv, LastSaveSurvives, NoFile
<1>2. CASE Refuse \/ Crash \/ End \/ Abort
  BY <1>2, SaveKept DEF Refuse, Crash, End, Abort, Exit, BeforeKeep
<1>3. CASE SetAll
  BY <1>3, SaveKept DEF SetAll, BeforeKeep
<1>4. CASE CheckConf \/ ConfEntry \/ ConfChoice \/ IfMod \/ ConfSymKept \/ ConfSym \/ ConfStringKept
           \/ ConfString \/ ConfChoiceList \/ ConfChoicePick
  <2>1. UNCHANGED <<pc, world>>
    BY <1>4 DEF CheckConf, ConfEntry, ConfChoice, IfMod, ConfSymKept, ConfSym, ConfStringKept,
                ConfString, ConfChoiceList, ConfChoicePick, Skip, ChooseNumber, Do
  <2> QED BY <2>1, SaveKept
<1>5. CASE AskedAll
  BY <1>5, SaveKept DEF AskedAll, BeforeKeep
<1>6. CASE WriteTmp
  BY <1>6, SaveKept DEF WriteTmp, BeforeKeep
<1>7. CASE KeepOld
  <2>1. CASE disk.config.exists
    <3>1. disk' = [disk EXCEPT !.old = disk.config, !.config = NoFile]
      BY <1>7, <2>1 DEF KeepOld
    <3>2. disk' = [f \in Files |-> disk'[f]] /\ disk'.old = disk.config /\ disk'.config = NoFile
      BY <3>1 DEF SaveInv, Files
    <3>3. saved.exists => saved = disk.config
      BY <1>7, <2>1 DEF KeepOld, SaveInv, BeforeKeep
    <3>4. saved' = saved /\ pc' = "replace"
      BY <1>7 DEF KeepOld
    <3> QED BY <3>2, <3>3, <3>4 DEF SaveInv, LastSaveSurvives, NoFile, BeforeKeep
  <2>2. CASE ~disk.config.exists
    BY <1>7, <2>2 DEF KeepOld, SaveInv, LastSaveSurvives, BeforeKeep
  <2> QED BY <2>1, <2>2
<1>8. CASE Replace
  <2>1. disk' = [disk EXCEPT !.config = FileOf(tmp.lines)] /\ pc' \in {"split", "end"} /\ pc = "replace"
    BY <1>8 DEF Replace
  <2>2. disk' = [f \in Files |-> disk'[f]] /\ disk'.old = disk.old /\ disk'.config = FileOf(tmp.lines)
    BY <2>1 DEF SaveInv, Files
  <2>3. saved' = IF tmp.whole THEN FileOf(tmp.lines) ELSE saved
    BY <1>8 DEF Replace
  <2>4. saved.exists => saved = disk.old
    BY <2>1 DEF SaveInv, LastSaveSurvives
  <2> QED BY <2>1, <2>2, <2>3, <2>4 DEF SaveInv, LastSaveSurvives, BeforeKeep
<1>9. CASE OpenDefconfig \/ FillDefconfig \/ RenameHeader \/ RenameTristate \/ RenameAuto
  <2>1. \E f \in {"defconfig", "header", "tristate", "auto"}, x \in {disk'[f] : f \in Files} : 
          disk' = [disk EXCEPT ![f] = x]
    BY <1>9 DEF OpenDefconfig, FillDefconfig, RenameHeader, RenameTristate, RenameAuto, SaveInv, Files
  <2>2. disk' = [f \in Files |-> disk'[f]] /\ disk'.old = disk.old /\ disk'.config = disk.config
    BY <2>1 DEF SaveInv, Files
  <2>3. saved' = saved /\ pc' \notin BeforeKeep \cup {"replace"}
    BY <1>9 DEF OpenDefconfig, FillDefconfig, RenameHeader, RenameTristate, RenameAuto, BeforeKeep
  <2> QED BY <2>2, <2>3 DEF SaveInv, LastSaveSurvives
<1>10. CASE Split \/ Touch \/ Generate
  BY <1>10, SaveKept DEF Split, Touch, Generate, BeforeKeep
<1>11. CASE Done \/ UNCHANGED vars
  BY <1>11, SaveKept DEF Done, vars, program
<1> QED BY <1>1, <1>2, <1>3, <1>4, <1>5, <1>6, <1>7, <1>8, <1>9, <1>10, <1>11 DEF Next

\* No crash and no full disk makes the user lose the configuration that was
\* saved last.
THEOREM SaveSurvives == Spec => []LastSaveSurvives
<1>1. SaveInv => LastSaveSurvives
  BY DEF SaveInv
<1> QED BY SaveInit, SaveStep, <1>1, PTL DEF Spec

-----------------------------------------------------------------------------
(* The headers.  That conf_split_config finds the symbols whose lines will *)
(* change is a fact about the data and assumed here: SplitFindsAll, which  *)
(* is checked.  What is proved is that no crash, and no run that follows   *)
(* one, lets a header go untouched.                                        *)

Waiting == {todo[i].sym : i \in DOMAIN todo}
Renaming == {"header", "tristate", "auto"}
TouchInv ==
    /\ disk = [f \in Files |-> disk[f]]
    /\ pc = "touch" => /\ todo \in Seq([call : {"touch"}, sym : Names])
                       /\ ToSet(touched_by_split(mem)) \subseteq touched \cup Waiting
    /\ pc \in Renaming =>
         /\ \A s \in Names : Stale(mem, s, tmp.lines) => s \in touched
         /\ SymbolsOfLines(tmp.header) = SymbolsOfLines(tmp.lines)
    /\ pc \in {"tristate", "auto"} => disk.header = tmp.header

\* The invariant holds at first
LEMMA TouchInit == Init => TouchInv
BY DEF Init, TouchInv, Files, Renaming

\* and every step keeps it where conf_split_config has found the symbols
\* whose lines change.
LEMMA TouchStep == TouchInv /\ SplitFindsAll /\ SplitFindsAll' /\ [Next]_vars => TouchInv'
<1> SUFFICES ASSUME TouchInv, SplitFindsAll, SplitFindsAll', [Next]_vars PROVE TouchInv'
  OBVIOUS
<1> USE DEF world
<1> DEFINE Others == pc' \notin Renaming \cup {"touch"}
<1>1. CASE Others /\ disk' = [f \in Files |-> disk'[f]]
  BY <1>1 DEF TouchInv, Renaming
<1>2. CASE UNCHANGED <<pc, todo, mem, tmp, disk, touched>>
  BY <1>2 DEF TouchInv, Waiting, Stale, Gone
<1>3. CASE Split
  <2>1. PICK syms : /\ syms = touched_by_split(mem')
                    /\ todo' = [i \in DOMAIN syms |-> [call |-> "touch", sym |-> syms[i]]]
    BY <1>3 DEF Split
  <2>2. pc' = "touch" /\ UNCHANGED disk
    BY <1>3 DEF Split
  <2>3. syms \in Seq(Names)
    BY <2>1, <2>2 DEF SplitFindsAll
  <2>4. todo' \in Seq([call : {"touch"}, sym : Names])
    <3>1. Len(syms) \in Nat /\ DOMAIN syms = 1..Len(syms) /\ \A i \in 1..Len(syms) : syms[i] \in Names
      BY <2>3
    <3>2. todo' \in [1..Len(syms) -> [call : {"touch"}, sym : Names]]
      BY <2>1, <3>1
    <3> QED BY <3>1, <3>2, SeqDef
  <2>5. ToSet(syms) \subseteq Waiting'
    BY <2>1, <2>3 DEF ToSet, Waiting
  <2> QED BY <2>1, <2>2, <2>4, <2>5 DEF TouchInv, Renaming
<1>4. CASE Touch
  <2>1. /\ todo # <<>> /\ touched' = touched \cup {Head(todo).sym} /\ todo' = Tail(todo)
        /\ UNCHANGED <<pc, mem, disk>> /\ pc = "touch"
    BY <1>4 DEF Touch, Top
  <2>2. todo \in Seq([call : {"touch"}, sym : Names])
    BY <2>1 DEF TouchInv
  <2>3. Waiting \subseteq {Head(todo).sym} \cup Waiting'
    <3> SUFFICES ASSUME NEW i \in 1..Len(todo), i # 1 PROVE todo[i].sym \in Waiting'
      BY <2>1, <2>2 DEF Waiting
    <3>1. i - 1 \in 1..Len(Tail(todo)) /\ Tail(todo)[i - 1] = todo[i]
      BY <2>1, <2>2
    <3>2. todo' \in Seq([call : {"touch"}, sym : Names])
      BY <2>1, <2>2
    <3>3. i - 1 \in DOMAIN todo' /\ todo'[i - 1].sym = todo[i].sym
      BY <2>1, <3>1, <3>2
    <3> QED BY <3>3 DEF Waiting
  <2> QED BY <2>1, <2>2, <2>3 DEF TouchInv, Renaming
<1>5. CASE Generate
  <2>1. PICK g : /\ g = conf_write_autoconf(mem) /\ mem' = g.st
                 /\ tmp' = [whole |-> TRUE, lines |-> g.conf, header |-> g.header, tristate |-> g.tristate]
    BY <1>5 DEF Generate
  <2>2. pc = "touch" /\ todo = <<>> /\ pc' = "header" /\ UNCHANGED <<disk, touched>>
    BY <1>5 DEF Generate
  <2>3. ToSet(touched_by_split(mem)) \subseteq touched
    BY <2>2 DEF TouchInv, Waiting
  <2>4. \A s \in Names : Stale(g.st, s, g.conf) => s \in touched
    BY <2>1, <2>2, <2>3 DEF SplitFindsAll
  <2>5. SymbolsOfLines(g.header) = SymbolsOfLines(g.conf)
    BY <2>1, <2>2 DEF SplitFindsAll
  <2>6. \A s \in Names : Stale(mem, s, tmp.lines)' => s \in touched'
    BY <2>1, <2>2, <2>4 DEF Stale, Gone
  <2> QED BY <2>1, <2>2, <2>5, <2>6 DEF TouchInv, Renaming
<1>6. CASE RenameHeader \/ RenameTristate
  <2>1. \E f \in {"header", "tristate"} : disk' = [disk EXCEPT ![f] = tmp[f]] /\ (f = "header" <=> pc = "header")
    BY <1>6 DEF RenameHeader, RenameTristate
  <2>2. /\ disk' = [f \in Files |-> disk'[f]] /\ disk'.auto = disk.auto
        /\ pc = "header" => disk'.header = tmp.header
        /\ pc # "header" => disk'.header = disk.header
    BY <2>1 DEF TouchInv, Files
  <2>3. pc \in Renaming /\ pc' \in Renaming \ {"header"} /\ UNCHANGED <<mem, tmp, touched>>
    BY <1>6 DEF RenameHeader, RenameTristate, Renaming
  <2>4. \A s \in Names : Stale(mem, s, tmp.lines)' <=> Stale(mem, s, tmp.lines)
    BY <2>2, <2>3 DEF Stale, Gone
  <2>5. pc = "header" \/ pc = "tristate"
    BY <1>6 DEF RenameHeader, RenameTristate
  <2> QED BY <2>2, <2>3, <2>4, <2>5 DEF TouchInv, Renaming
<1>7. CASE RenameAuto \/ KeepOld \/ Replace \/ OpenDefconfig \/ FillDefconfig
  <2>1. Others
    BY <1>7 DEF RenameAuto, KeepOld, Replace, OpenDefconfig, FillDefconfig, Renaming
  <2>2. disk' = [f \in Files |-> disk'[f]]
    BY <1>7 DEF RenameAuto, KeepOld, Replace, OpenDefconfig, FillDefconfig, TouchInv, Files
  <2> QED BY <2>1, <2>2, <1>1
<1>8. CASE Start \/ Refuse \/ Crash \/ End \/ Abort \/ SetAll \/ AskedAll \/ WriteTmp
  <2>1. UNCHANGED disk
    BY <1>8 DEF Start, Refuse, Crash, End, Abort, SetAll, AskedAll, WriteTmp
  <2>2. Others
    BY <1>8 DEF Start, Refuse, Crash, End, Abort, Exit, SetAll, AskedAll, WriteTmp, Renaming
  <2> QED BY <2>1, <2>2, <1>1 DEF TouchInv
<1>9. CASE CheckConf \/ ConfEntry \/ ConfChoice \/ IfMod \/ ConfSymKept \/ ConfSym \/ ConfStringKept
           \/ ConfString \/ ConfChoiceList \/ ConfChoicePick
  <2>1. pc' = "loop" /\ UNCHANGED disk
    BY <1>9 DEF CheckConf, ConfEntry, ConfChoice, IfMod, ConfSymKept, ConfSym, ConfStringKept,
                ConfString, ConfChoiceList, ConfChoicePick, Skip, ChooseNumber, Do
  <2> QED BY <2>1, <1>1 DEF TouchInv, Renaming
<1>10. CASE Done \/ UNCHANGED vars
  BY <1>10, <1>2 DEF Done, vars, program
<1> QED BY <1>3, <1>4, <1>5, <1>6, <1>7, <1>8, <1>9, <1>10 DEF Next

\* Only the last rename of conf_write_autoconf changes auto.conf.
LEMMA AutoStep == TouchInv /\ [Next]_vars /\ disk'.auto # disk.auto => RenameAuto
<1> SUFFICES ASSUME TouchInv, Next, ~RenameAuto PROVE disk'.auto = disk.auto
  BY DEF vars, world
<1>1. CASE KeepOld \/ Replace \/ OpenDefconfig \/ FillDefconfig \/ RenameHeader \/ RenameTristate
  BY <1>1 DEF KeepOld, Replace, OpenDefconfig, FillDefconfig, RenameHeader, RenameTristate, TouchInv, Files
<1>2. CASE UNCHANGED disk
  BY <1>2
<1>3. CASE CheckConf \/ ConfEntry \/ ConfChoice \/ IfMod \/ ConfSymKept \/ ConfSym \/ ConfStringKept
           \/ ConfString \/ ConfChoiceList \/ ConfChoicePick
  BY <1>3 DEF CheckConf, ConfEntry, ConfChoice, IfMod, ConfSymKept, ConfSym, ConfStringKept,
              ConfString, ConfChoiceList, ConfChoicePick, Skip, ChooseNumber, Do, world
<1>4. CASE Start \/ Refuse \/ Crash \/ End \/ Abort \/ SetAll \/ AskedAll \/ WriteTmp \/ Split \/ Touch
           \/ Generate \/ Done
  BY <1>4 DEF Start, Refuse, Crash, End, Abort, SetAll, AskedAll, WriteTmp, Split, Touch, Generate,
              Done, world, vars
<1> QED BY <1>1, <1>2, <1>3, <1>4 DEF Next

\* Whenever auto.conf is replaced, the header of every symbol whose line in it
\* changes has been touched, in this run or an interrupted one.
THEOREM HeadersAreTouched == Spec /\ []SplitFindsAll => HeadersTouched
<1>1. TouchInv /\ [Next]_vars /\ disk'.auto # disk.auto =>
        /\ \A s \in Names : Stale(mem, s, disk'.auto.lines) => s \in touched
        /\ SymbolsOfLines(disk.header) = SymbolsOfLines(disk'.auto.lines)
  <2> SUFFICES ASSUME TouchInv, RenameAuto
               PROVE  /\ \A s \in Names : Stale(mem, s, disk'.auto.lines) => s \in touched
                      /\ SymbolsOfLines(disk.header) = SymbolsOfLines(disk'.auto.lines)
    BY AutoStep
  <2>1. disk'.auto.lines = tmp.lines /\ pc = "auto"
    BY DEF RenameAuto, TouchInv, Files, FileOf
  <2> QED BY <2>1 DEF TouchInv, Renaming
<1> QED BY TouchInit, TouchStep, <1>1, PTL DEF Spec, HeadersTouched

=============================================================================
