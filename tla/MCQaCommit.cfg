SPECIFICATION Spec
CONSTANTS
  Processes = {finish, qa_pdf, other}
  Reports = {a, b}
  Installations = {i, j}
  MaxRuns = 2
  None = None
  Failed = Failed
INVARIANTS
  ValidatedIsBound
  PassedIsDurable
  ConflictIsReal
  SomebodyCanComplete
CHECK_DEADLOCK FALSE
