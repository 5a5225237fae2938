\* What execCommand: returns: a far end that obeys the prompt command.
SPECIFICATION Spec
CONSTANTS
  MaxCalls = 3
  MaxOut = 2
  MaxWire = 2
  MaxPolls = 0
  Bash = TRUE
  Reentrant = TRUE
INVARIANTS
  TypeOK
  ResultExact
  RecordedInOrder
PROPERTIES
  CompletedFrozen
  LineRouterSpec
\* every call made, everything read
CHECK_DEADLOCK FALSE
