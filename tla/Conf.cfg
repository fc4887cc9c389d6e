CONSTANTS
    SymbolHash <- MCSymbolHash
    SymType <- MCSymType
    Const <- MCConst
    Sources <- MCSources
    Text <- MCText
    Graphs <- MCGraphs
    Picks <- MCPicks
    Plans <- MCPlans
    Answers <- MCAnswers
    MaxFaults = 2
    conf_parse <- Parse
    menu_is_visible <- MenuVisible
    sym_calc_value <- Calc
    sym_clear_all_valid <- ClearAllValid
    sym_get_string_value <- StringValue
    sym_set_tristate_value <- SetTristate
    sym_set_string_value <- SetString
    conf_read <- ReadConfig
    conf_write <- WriteConfig
    conf_write_defconfig <- WriteDefconfig
    conf_split_config <- ReadAuto
    touched_by_split <- ToTouch
    conf_write_autoconf <- Generated
    set_all_new_symbols <- GiveAll
    settle_all_choices <- SettleAll
    expr_calc_value <- MCCalcValue
    expr_contains_symbol <- MCContainsSymbol
    expr_depends_symbol <- MCDependsSymbol
    expr_eliminate_yn <- MCEliminateYn
    expr_eq <- MCEq
    eliminate_eq <- MCEliminateCommon
    expr_extract_eq <- MCExtractCommon
    expr_transform <- MCTransform
    expr_trans_bool <- MCTransBool
    expr_trans_compare <- MCTransCompare
    part <- MCAt
    with_part <- MCPut
    expr_eliminate_dups1 <- MCDups1
    expr_eliminate_dups2 <- MCDups2
    expr_eliminate_dups <- MCEliminateDups
    expr_get_leftmost_symbol <- MCLeftmostSymbol
    expr_simplify_unmet_dep <- MCSimplifyUnmetDep
    expr_print <- MCPrinted
SPECIFICATION Spec
INVARIANTS ConfigIsLegal SavedReadsBack LastSaveSurvives NothingIsAskedTwice CyclesReported SplitFindsAll
PROPERTY HeadersTouched
