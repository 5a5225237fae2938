\* Three sessions of one process.
SPECIFICATION Spec
CONSTANTS
  Objects = {o1, o2, o3}
  Nobody = Nobody
  MaxSessions = 3
SYMMETRY Alike
INVARIANTS
  TypeOK
  ApartConnectsToOwn
  InTurnTouchesOwn
  NoStalePassword
\* strdup(NULL) ends the program
CHECK_DEADLOCK FALSE
