\* Reads cut anywhere.
SPECIFICATION Spec
CONSTANTS
  Char = {a, b}
  EOL = {cr, lf}
  MaxRead = 3
  MaxBytes = 7
INVARIANTS
  TypeOK
  NothingInvented
PROPERTY LineStreamSpec
\* the peer may fall silent
CHECK_DEADLOCK FALSE
