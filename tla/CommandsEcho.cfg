\* Is the echo of the command line tested for?
SPECIFICATION Spec
CONSTANTS
  MaxCalls = 2
  MaxOut = 1
  MaxWire = 2
  MaxPolls = 0
  Bash = TRUE
  Reentrant = FALSE
INVARIANT EchoLeftOut
CHECK_DEADLOCK FALSE
