CONSTANTS
    SymbolHash <- MCSymbolHash
    SymType <- MCSymType
    Const <- MCConst
    Text <- MCText
    Source <- MCSource
    Hot <- MCHot
    ConfigName <- MCConfigName
    FileNames <- MCFileNames
    FieldChars <- MCFieldChars
    Matches <- MCMatches
    Sessions <- MCSessions
    HelpLines = 12
    ReadmeLines = 12
    ListHeight = 2
    FieldWidth = 2
    MaxLen = 3
    JumpNb = 2
    conf_parse <- Parse
    menu_is_visible <- MCMenuVisible
    sym_calc_value <- MCCalc
    sym_clear_all_valid <- MCClearAllValid
    sym_get_string_value <- MCStringValue
    sym_set_tristate_value <- MCSetTristate
    sym_set_string_value <- MCSetString
    conf_read <- MCReadConfig
    conf_write <- MCWriteConfig
    conf_write_defconfig <- WriteDefconfig
    conf_split_config <- ReadAuto
    touched_by_split <- ToTouch
    conf_write_autoconf <- Generated
    set_all_new_symbols <- GiveAll
    settle_all_choices <- SettleAll
    build_conf <- MCItemsBelow
    sym_toggle_tristate_value <- MCToggle
    get_relations_str <- MCRelations
    menu_get_ext_help <- MCHelpOf
    expr_calc_value <- MCCalcValue
    expr_contains_symbol <- MCContainsSymbol
    expr_depends_symbol <- MCDependsSymbol
    expr_eliminate_yn <- MCEliminateYn
    expr_eq <- MCEq
    eliminate_eq <- MCEliminateCommon
    expr_extract_eq <- MCExtractCommon
    expr_transform <- MCTransform
    expr_trans_bool <- MCTransBool
    expr_trans_compare <- MCTransCompare
    part <- MCAt
    with_part <- MCPut
    expr_eliminate_dups1 <- MCDups1
    expr_eliminate_dups2 <- MCDups2
    expr_eliminate_dups <- MCEliminateDups
    expr_get_leftmost_symbol <- MCLeftmostSymbol
    expr_simplify_unmet_dep <- MCSimplifyUnmetDep
    expr_print <- MCPrinted
SPECIFICATION Spec
INVARIANTS LibraryData ExitTellsTheTruth ScreenIsTrue JumpGoesWhereShown
PROPERTIES ChangesAreCounted
