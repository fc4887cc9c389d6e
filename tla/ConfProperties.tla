--------------------------- MODULE ConfProperties ---------------------------
(***************************************************************************)
(* What Conf promises of the data in its files, for the library that the   *)
(* code has: Menu, Symbols, ConfigFiles and DepCheck.                      *)
(***************************************************************************)
EXTENDS Conf, ConfigFiles, DepCheck

CONSTANT Graphs   \* Kconfig files that are only looked at for cycles

\* What the lines of a file say of the symbols.
LinesOf(lines, s) == SelectSeq(lines, LAMBDA l : l.sym = s /\ l.isSet)
Said(type, found) ==
    CASE type \in Logic -> IF found = <<>> THEN [tri |-> no, str |-> <<"n">>]
                            ELSE [tri |-> TristateOf(Last(found).text), str |-> Last(found).text]
      [] type \notin Logic /\ found = <<>> -> [tri |-> no, str |-> <<>>]
      [] type \in Numeric /\ found # <<>> -> [tri |-> no, str |-> Last(found).text]
      [] OTHER -> [tri |-> no, str |-> Unescaped(Tail(Last(found).text)).val]
Says(k, lines) ==
    LET On(c) == Truth(\E v \in ToSet(ChoiceValues(k, c)) : LinesOf(lines, v) # <<>>)
    IN [s \in Names \cup DOMAIN Text |->
          CASE s \notin Names -> Reading(mem, s)
            [] s \in Names /\ IsChoice(k, s) -> [tri |-> On(s), str |-> TextOf(On(s))]
            [] OTHER -> Said(k.type[s], LinesOf(lines, s))]

\* What makes values a legal configuration: what is y has its dependencies
\* or is selected, what is selected is not less, a choice that is on has one
\* value, and numbers are in the first range that applies.
LegalTristate(k, says, s) ==
    LET selected == k.rev[s] # Null /\ CalcValue(k.rev[s], says) # no
    IN /\ says[s].tri = yes => selected \/ CalcValue(k.dir[s], says) # no
       /\ selected /\ k.type[s] = "boolean" => says[s].tri = yes
LegalChoice(k, says, c) ==
    says[c].tri = yes => Cardinality({v \in ToSet(ChoiceValues(k, c)) : says[v].tri = yes}) = 1
LegalNumber(k, says, s) ==
    LET active == SelectSeq(PropsOf(k, s, {"range"}), LAMBDA q : CalcValue(k.prop[q].visible, says) # no)
        r == k.prop[active[1]].expr
        Num(end) == Number(says[end].str, Base(k.type[s]))
    IN says[s].str # <<>> /\ active # <<>> => Num(r.lsym) <= Num(s) /\ Num(s) <= Num(r.rsym)
IsLegal(k, says) ==
    \A s \in Names : /\ k.type[s] \in Logic => LegalTristate(k, says, s)
                     /\ IsChoice(k, s) => LegalChoice(k, says, s)
                     /\ k.type[s] \in Numeric => LegalNumber(k, says, s)

\* A .config that conf writes (conf_write) is a legal configuration by
\* itself, without the memory it was written from.
ConfigIsLegal == pc = "keep" /\ tmp.whole => IsLegal(K(mem), Says(K(mem), tmp.lines))

\* What was written reads back: .config as it is (conf_write, conf_read), and
\* a defconfig, which leaves out what is the default anyway, in a run of
\* "make defconfig".
SavedReadsBack ==
    /\ pc = "keep" /\ tmp.whole =>
         ValuesOf(ReadConfig(InitMem(K(mem)), FileOf(tmp.lines))) = ValuesOf(mem)
    /\ pc = "fill" =>
         \A st \in {ReadConfig(InitMem(K(mem)), FileOf(tmp.lines))} :
         \A g \in {GiveAll(st, "default", NoPick)} :
           ValuesOf(CalcAll(SettleAll(g, "default", NoPick).st)) = ValuesOf(mem)

\* The entries that can be reached through visible ones only.
RECURSIVE Reachable(_, _)
Reachable(st, m) ==
    IF MenuVisible(st, m).shown
    THEN {m} \cup UNION {Reachable(st, c) : c \in ToSet(K(st).list[m])} ELSE {}

\* Asking (main, check_conf) ends when every question is answered, also those
\* that answers bring up, and a configuration completed that way answers them
\* all: the same program finds nothing new in it, and the build does not
\* abort.
NothingIsAskedTwice ==
    /\ pc \in {"write", "split"} /\ mode \in Asking =>
         \A m \in Reachable(mem, Root) : ~IsNew(MenuVisible(mem, m).st, Entry(K(mem), m).sym)
    /\ run <= Len(plan) /\ asked = This.kconf /\ pc = "loop" /\ This.mode # "oldaskconfig" => ~cnt

\* conf_parse reports recursive dependencies (sym_check_deps) if and only if
\* there are some, and every cycle it prints is one.
CyclesReported ==
    pc = "idle" /\ run = 1 =>
      \A g \in Graphs : \E k \in {Parse(g)} : \E reports \in {CheckAll(k).reports} :
        /\ IsCyclic(k) <=> reports # {}
        /\ \A r \in reports : IsCycle(k, r)

=============================================================================
