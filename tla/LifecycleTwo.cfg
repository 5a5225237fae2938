\* Two shells open at once: does each read its own channel?
SPECIFICATION Spec
CONSTANTS
  Shells = {s1, s2}
  NULL = NULL
  OneAtATime = FALSE
INVARIANT ReadsOwnChannel
CHECK_DEADLOCK FALSE
