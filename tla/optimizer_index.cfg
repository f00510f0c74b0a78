\* The constants of query.cfg.
CONSTANTS
  Ids = {1, 2}
  Queries <- MCQueries
  Inputs <- MCInputs
  chunk_size = 2
  IOFails = TRUE
  NoRow = NoRow
  None = None
  TableNames = {"t", "u"}
  Columns <- MCColumns
  data <- MCData
  Plans <- MCPlans
  height <- MCHeight
  MaxHeight = 3
  NoMatch = NoMatch
  NoPlan = NoPlan
  Names = {"x", "y"}
  MaxTokens = 9
SPECIFICATION EitherSpec
INVARIANT
  IndexedPlansReturnTheirRows
CHECK_DEADLOCK FALSE
