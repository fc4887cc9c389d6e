------------------------------- MODULE MCConf -------------------------------
(***************************************************************************)
(* Conf with two versions of a small set of Kconfig files and some more    *)
(* that are only parsed.                                                   *)
(***************************************************************************)
EXTENDS ConfProperties, MCKconfig

MCSymbolHash == <<"A", "B", "S", "C", "X", "Y", "N", "T">>
MCSymType ==
    [s \in ToSet(MCSymbolHash) \cup {"y", "m", "n"} |->
       CASE s = "N" -> "int" [] s = "T" -> "string" [] s \in {"y", "m", "n"} -> "tristate"
         [] OTHER -> "boolean"]
MCText ==
    [c \in {"y", "m", "n", "1", "2", "3", "5", "q"} |->
       IF c = "q" THEN <<"a", "\\", "\"">> ELSE <<c>>]

MCConst == DOMAIN MCText

\* The version everything starts with.
First ==
    Bool("A", <<>>)
    \o Bool("B", <<DependsOn(Symbol("A")), Selects("S")>>)
    \o Bool("S", <<>>)
    \o Block(<<[is |-> "choice", sym |-> "C"], Prompt(Null), DependsOn(Symbol("A")),
               Default("Y", Symbol("B"))>>,
             Bool("X", <<>>) \o Bool("Y", <<>>))
    \o Block(<<Word("menu")>>,
             Config("N", "int") \o <<Prompt(Not(Symbol("S"))), InRange("1", "5"), Default("3", Null)>>)

\* A string appears, above what it depends on, a selection goes and a range
\* narrows.
Second ==
    Config("T", "string") \o <<Prompt(Symbol("A")), Default("q", Null)>>
    \o Bool("A", <<>>)
    \o Bool("B", <<DependsOn(Symbol("A"))>>)
    \o Bool("S", <<DependsOn(Symbol("B"))>>)
    \o Config("N", "int") \o <<Prompt(Null), InRange("1", "2"), Default("2", Null)>>

MCSources == <<First, Second>>

\* Three symbols and a choice that may depend on each other.
MCGraphs ==
    LET Dep(s) == <<DependsOn(Symbol(s))>>
    IN {Bool("A", a) \o Bool("B", b) \o Bool("S", s)
        \o Block(<<[is |-> "choice", sym |-> "C"], Prompt(Null)>> \o c, Bool("X", x) \o Bool("Y", <<>>)) :
          a \in {<<>>, Dep("B"), Dep("S"), Dep("X")},
          b \in {<<>>, <<Selects("A")>>, <<Default("Y", Null)>>},
          s \in {<<>>, Dep("A"), Dep("Y"), <<Default("B", Symbol("C"))>>},
          c \in {<<>>, <<Default("X", Symbol("B"))>>},
          x \in {<<>>, Dep("A"), Dep("Y")}}

Run(how, i, tty) == [mode |-> how, kconf |-> i, tty |-> tty]
MCPlans == {
    <<Run("oldconfig", 1, TRUE), Run("silentoldconfig", 1, FALSE), Run("silentoldconfig", 2, FALSE)>>,
    <<Run("oldaskconfig", 1, TRUE), Run("oldconfig", 2, TRUE), Run("savedefconfig", 2, TRUE),
      Run("defconfig", 2, TRUE)>>,
    <<Run("silentoldconfig", 1, FALSE), Run("allyesconfig", 1, FALSE), Run("silentoldconfig", 1, FALSE),
      Run("olddefconfig", 2, FALSE), Run("silentoldconfig", 2, FALSE)>>,
    <<Run("randconfig", 1, FALSE), Run("listnewconfig", 2, FALSE), Run("savedefconfig", 1, FALSE)>>,
    <<Run("allnoconfig", 2, FALSE), Run("silentoldconfig", 2, FALSE), Run("allmodconfig", 1, FALSE)>>,
    <<Run("defconfig", 1, FALSE), Run("alldefconfig", 1, FALSE), Run("silentoldconfig", 2, TRUE)>>,
    <<Run("oldconfig", 2, TRUE), Run("silentoldconfig", 2, FALSE)>>}

MCPicks ==
    {[s \in Names |-> IF s \in on THEN yes ELSE IF s = "C" THEN c ELSE no] :
       on \in {{}, {"A"}, {"A", "B"}, {"A", "S", "X", "Y"}}, c \in {0, 1}}

MCAnswers == [sym |-> {<<>>, <<"y">>, <<"n">>}, choice |-> {<<>>, <<"1">>, <<"7">>},
              int |-> {<<>>, <<"5">>, <<"9">>}, string |-> {<<>>, <<"\\", "\"">>}]

=============================================================================
