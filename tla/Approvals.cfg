\* An add and an update of one memory file, a crash, or a detail that cannot be encoded.
SPECIFICATION MCSpec
CONSTANTS
  e1 = e1
  e2 = e2
  note = note
  Nothing = Nothing
  Original = Original
  Edits <- MCEdits
  Targets <- MCTargets
  Target <- MCTarget
  Action <- AddThenUpdate
  Before <- Empty
  Odd <- MCOdd
  LoadMayFail = FALSE
  MaxCrashes = 1
INVARIANTS
  AckedIsDurable
PROPERTIES
  ImplementsConsent
  DecisionsSettle
\* Every proposal may have been decided and carried out.
CHECK_DEADLOCK FALSE
