------------------------------ MODULE LkcProto ------------------------------
(***************************************************************************)
(* The functions of the library of the configuration system that its       *)
(* programs call (support/kconfig/lkc_proto.h), by the names they have in  *)
(* the code.  Each gets the memory and returns it as it is afterwards.     *)
(*                                                                         *)
(* What a program does with the files and in which order is modelled, and  *)
(* proved about, for every such library; for model checking the functions  *)
(* are those of Menu, Symbols and ConfigFiles.                             *)
(***************************************************************************)
EXTENDS Lkc

CONSTANTS
    conf_parse(_),                   \* what is read of statements
    menu_is_visible(_, _),           \* memory and whether the entry is shown
    sym_calc_value(_, _),
    sym_clear_all_valid(_),
    sym_get_string_value(_, _),
    sym_set_tristate_value(_, _, _), \* memory and whether the value was accepted
    sym_set_string_value(_, _, _),   \* the same
    conf_read(_, _),                 \* of memory and file
    conf_write(_),                   \* memory and the lines for the file
    conf_write_defconfig(_),         \* memory and the lines for the file
    conf_split_config(_, _),         \* auto.conf read into the memory
    touched_by_split(_),             \* the symbols whose headers it touches
    conf_write_autoconf(_),          \* memory and the lines for three files
    set_all_new_symbols(_, _, _),    \* memory and whether to go on, before and
    settle_all_choices(_, _, _)      \* after the second loop

=============================================================================
