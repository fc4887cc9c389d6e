------------------------------ MODULE MCKconfig ------------------------------
(***************************************************************************)
(* Words for the Kconfig files of the small instances.                     *)
(***************************************************************************)
EXTENDS MCExpr

Config(s, type) == <<[is |-> "config", sym |-> s], [is |-> "type", type |-> type]>>
Prompt(e) == [is |-> "prompt", if |-> e]
Default(s, e) == [is |-> "default", expr |-> Symbol(s), if |-> e]
Selects(s) == [is |-> "select", sym |-> s, if |-> Null]
InRange(l, h) == [is |-> "range", low |-> l, high |-> h, if |-> Null]
DependsOn(e) == [is |-> "depends", expr |-> e]
Word(w) == [is |-> w]
Bool(s, rest) == Config(s, "boolean") \o <<Prompt(Null)>> \o rest
Block(before, inside) == before \o <<Word("begin")>> \o inside \o <<Word("end")>>

=============================================================================
