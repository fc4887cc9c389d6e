CONSTANTS
  Vars <- MCVars
  SymType <- MCSymType
  Const <- MCConst
  Bases <- MCBases
  Deps <- MCDeps
  expr_calc_value <- MCCalcValue
  expr_contains_symbol <- MCContainsSymbol
  expr_depends_symbol <- MCDependsSymbol
  expr_eliminate_yn <- MCEliminateYn
  expr_eq <- MCEq
  eliminate_eq <- MCEliminateCommon
  expr_extract_eq <- MCExtractCommon
  expr_transform <- MCTransform
  expr_trans_bool <- MCTransBool
  expr_trans_compare <- MCTransCompare
  part <- MCAt
  with_part <- MCPut
  expr_eliminate_dups1 <- MCDups1
  expr_eliminate_dups2 <- MCDups2
  expr_eliminate_dups <- MCEliminateDups
  expr_get_leftmost_symbol <- MCLeftmostSymbol
  expr_simplify_unmet_dep <- MCSimplifyUnmetDep
  expr_print <- MCPrinted
  selects <- MCSelects
SPECIFICATION Spec
CHECK_DEADLOCK FALSE
INVARIANTS
  MeaningKept
  BelowMeansDepends
  PrintedReadsBack
  UnmetIsBlamed
