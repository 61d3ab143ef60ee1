SPECIFICATION Spec
CONSTANTS
  Grids <- MCGrids
  Plan <- MCPlan
  Rows <- MCRows
INVARIANTS EngineServesCurrentModel RowsInStep WeightsWhereUsed
PROPERTIES CallsEnd
CHECK_DEADLOCK FALSE
