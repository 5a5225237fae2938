\* One shell: is its channel ever freed under a read?
SPECIFICATION Spec
CONSTANTS
  Shells = {s1}
  NULL = NULL
  OneAtATime = TRUE
INVARIANT NoReadOfFreed
CHECK_DEADLOCK FALSE
