\* What the delegate hears, and calls back: one more call, echoes only.
SPECIFICATION Spec
CONSTANTS
  MaxCalls = 4
  MaxOut = 0
  MaxWire = 2
  MaxPolls = 0
  Bash = TRUE
  Reentrant = TRUE
INVARIANTS
  AtMostOneLate
  LongStaysOnline
  OneBreakInNumbering
  NestedSeesNoPrompt
  NestedReturnsNothing
\* every call made, everything read
CHECK_DEADLOCK FALSE
