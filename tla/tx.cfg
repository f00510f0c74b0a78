\* Two threads, two transactions and a reader, one version, one restart.
CONSTANTS
  Threads = {c1, c2}
  Slots = {s1}
  MaxTxns = 2
  MaxRestarts = 1
SPECIFICATION Spec
INVARIANTS
  TypeOK
  OneOutcome
  AnswersWereTrue
PROPERTY
  EndsOnce
