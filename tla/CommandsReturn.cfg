\* A far end whose prompt never comes as a line of its own.
SPECIFICATION Spec
CONSTANTS
  MaxCalls = 3
  MaxOut = 1
  MaxWire = 2
  MaxPolls = 2
  Bash = FALSE
  Reentrant = TRUE
PROPERTY ExecReturns
\* every call made, everything read
CHECK_DEADLOCK FALSE
