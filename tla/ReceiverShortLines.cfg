\* Reads cut anywhere, and the promise that only an over-long line is lost.
SPECIFICATION Spec
CONSTANTS
  Char = {a, b}
  EOL = {lf}
  MaxRead = 3
  MaxBytes = 6
INVARIANT FittingLinesDelivered
CHECK_DEADLOCK FALSE
