\* Two scans of at most two tuples, two other transactions and a reader; up to five
\* tuples in chunks of two; two tables of two columns; statements of nine tokens.
CONSTANTS
  Ids = {1, 2}
  Queries <- MCQueries
  Inputs <- MCInputs
  chunk_size = 2
  IOFails = TRUE
  NoRow = NoRow
  None = None
  TableNames = {"t", "u"}
  Columns <- MCColumns
  data <- MCData
  Plans <- MCPlans
  height <- MCHeight
  MaxHeight = 3
  NoMatch = NoMatch
  NoPlan = NoPlan
  Names = {"x", "y"}
  MaxTokens = 9
SPECIFICATION EitherSpec
INVARIANTS
  QueryTypeOK
  PlansReturnTheirRows
  ParsesTheGrammar
PROPERTIES
  JoinIsARowStream
  SortIsARowStream
\* init panics when a file of the sort cannot be written.
CHECK_DEADLOCK FALSE
